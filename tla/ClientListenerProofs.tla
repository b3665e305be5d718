------------------------ MODULE ClientListenerProofs ------------------------
(***************************************************************************)
(* Proofs about ClientListener, for any number of connections, with and    *)
(* without TLS, whatever the clients say: type correctness, that a socket  *)
(* outlives its users, that each proxy has one owner that hears of its     *)
(* end, and that a client that waits is fetched.                           *)
(***************************************************************************)
EXTENDS ClientListener, SiftingProofs

-----------------------------------------------------------------------------
(* The parts of the inductive invariant.                                   *)

Types == {"accepted", "refused", "input", "shutdown", "ended", "ready",
          "success", "failure", "disconnected"}

Answers == {"accepted", "refused"}

\* What the event queue holds for a connection.
Pending(c, q) == {t \in Types : Of(t, c) \in ToSet(q)}

\* The life of one connection, by its socket s, its unknown client u, its proxy p
\* and the types E of its events in the queue.  Before it is accepted it has no
\* client.  The handlers of the greeting are gone once its outcome is decided, and
\* an outcome that is on its way finds the proxy in other hands, or none, unless it
\* is a success that still holds.
OneConn(s, u, p, E) ==
    /\ s \in {"none", "backlog", "accepting"} =>
          u = NoUnknown /\ p = NoProxy /\ E \cap {"success", "failure"} = {}
    /\ E \cap Answers # {} => s = "accepting"
    /\ u.timer \/ u.hooks \/ u.stream \/ u.ready => u.there
    /\ u.hooks => u.stream /\ E \cap {"success", "failure"} = {}
    /\ u.stream => p.state = "none" /\ p.heard = "none" /\ s \in {"open", "closed"}
    /\ u.ready => p.heard = "unknown"
    /\ p.alarm => p.state \in {"asked", "ready"}
    /\ p.state # "none" => p.heard # "none" /\ s \in {"open", "closed"}
    /\ p.state # "none" => (p.heard = "unknown" <=> u.there)
    /\ p.heard \in {"listener", "server"} => p.state # "none"
    /\ "success" \in E /\ ~u.ready => p.state = "none" \/ p.heard # "unknown"
    /\ "failure" \in E => p.state = "none" \/ p.heard # "unknown"

ConnInv == \A c \in Conns : OneConn(sock[c], unknown[c], proxy[c], Pending(c, queue))

\* Accepting is answered once.
Once(q) == \A i, j \in 1 .. Len(q) :
    q[i].type \in Answers /\ q[j].type \in Answers /\ q[i].conn = q[j].conn => i = j

\* A client waits once.
WaitsOnce(w) == \A i, j \in 1 .. Len(w) : w[i] = w[j] => i = j

WaitInv ==
    /\ WaitsOnce(waiting)
    /\ \A c \in Conns : proxy[c].heard = "listener" <=> c \in ToSet(waiting)

ListenerInv == TypeOK /\ ConnInv /\ Once(queue) /\ WaitInv /\ WaitingIsFetched

\* In q no event of B comes after one of A.
Behind(q, A, B) == \A i, j \in 1 .. Len(q) : i < j /\ q[i] \in A => q[j] \notin B

Outcomes == {"success", "failure"}
TypesOfProxy == {"ready", "disconnected"}

\* The outcomes and the proxy's events that are queued for a connection.
News(c, q) == {t \in TypesOfProxy \cup Outcomes : Of(t, c) \in ToSet(q)}

\* When a connection's outcome and its proxy's events may be queued.  The timer runs
\* until the first outcome.  Once the unknown client is gone and its handshake had
\* failed, no event of the proxy is left that would call it.
OneNews(s, u, p, N) ==
    /\ s \in {"none", "backlog", "accepting"} => N = {}
    /\ u.hooks => u.timer /\ N = {}
    /\ u.timer => N \cap Outcomes = {}
    /\ p.state = "asked" => u.timer /\ N \cap TypesOfProxy = {}
    /\ p.state = "ready" => "disconnected" \notin N
    /\ p.state # "none" /\ "ready" \in N => u.timer
    /\ p.state = "none" /\ p.heard = "unknown" /\ ~u.there => N \cap TypesOfProxy = {}

\* A proxy is ready once, and nothing follows its disconnection.  When a handshake
\* has failed, the events that the dead proxy left come before the outcomes.
OneOrder(p, q, c) ==
    /\ Behind(q, {Of("ready", c)}, {Of("ready", c)})
    /\ Behind(q, {Of("disconnected", c)}, {Of(t, c) : t \in TypesOfProxy})
    /\ p.state = "none" /\ p.heard = "unknown" =>
          Behind(q, {Of(t, c) : t \in Outcomes}, {Of(t, c) : t \in TypesOfProxy})

Told(s, u, p, q, c) == OneNews(s, u, p, News(c, q)) /\ OneOrder(p, q, c)

NewsInv == \A c \in Conns : Told(sock[c], unknown[c], proxy[c], queue, c)

-----------------------------------------------------------------------------
(* The event queue.                                                        *)

Adopts == [type: {"adopt"}]

\* An event of a connection is told by its type and its connection.
LEMMA EventParts ==
    /\ \A e \in Event : e.type \in Types => e.conn \in Conns /\ e = Of(e.type, e.conn)
    /\ \A e \in Event : e.type # "adopt" => e \notin Adopts
    /\ \A t \in Types, c \in Conns : Of(t, c) \in Event /\ Of(t, c).type = t /\ Of(t, c).conn = c
    /\ [type |-> "adopt"] \in Event /\ [type |-> "adopt"] \in Adopts
    /\ [type |-> "connecting"] \in Event
<1>1. \A e \in Event : e.type \in Types => e.conn \in Conns /\ e = Of(e.type, e.conn)
      BY DEF Event, Types, Of
<1>2. \A e \in Event : e.type # "adopt" => e \notin Adopts
      BY DEF Adopts
<1>3. \A t \in Types, c \in Conns :
         Of(t, c) \in Event /\ Of(t, c).type = t /\ Of(t, c).conn = c
      BY DEF Event, Types, Of
<1>4. [type |-> "adopt"] \in Event /\ [type |-> "adopt"] \in Adopts
      BY DEF Event, Adopts
<1>5. [type |-> "connecting"] \in Event
      BY DEF Event
<1> QED BY <1>1, <1>2, <1>3, <1>4, <1>5

\* q2 comes from q when events are dispatched and the events N are added: none that
\* fetches a client is taken, and accepting is not answered twice.
Grows(q, q2, N) ==
    /\ q2 \in Seq(Event)
    /\ ToSet(q2) \subseteq ToSet(q) \cup N
    /\ Count(q2, Adopts) >= Count(q, Adopts)
    /\ Once(q) => Once(q2)

LEMMA GrowsSame ==
    ASSUME NEW q \in Seq(Event)
    PROVE  Grows(q, q, {})
<1>1. Count(q, Adopts) \in Nat
      BY CountIsNumber
<1> QED BY <1>1 DEF Grows

LEMMA GrowsTail ==
    ASSUME NEW q \in Seq(Event), q # <<>>
    PROVE  /\ Tail(q) \in Seq(Event) /\ Head(q) \in Event /\ Head(q) \in ToSet(q)
           /\ ToSet(Tail(q)) \subseteq ToSet(q)
           /\ Once(q) => Once(Tail(q))
           /\ Head(q).type # "adopt" => Grows(q, Tail(q), {})
<1> DEFINE r == Tail(q)
<1>1. /\ Len(q) \in Nat /\ Len(q) >= 1 /\ Len(r) = Len(q) - 1 /\ Head(q) = q[1]
      /\ \A i \in 1 .. Len(r) : r[i] = q[i + 1]
      /\ r \in Seq(Event)
      /\ DOMAIN q = 1 .. Len(q) /\ DOMAIN r = 1 .. Len(r)
      OBVIOUS
<1>2. Head(q) \in Event
      BY <1>1
<1>3. Head(q) \in ToSet(q)
      BY <1>1 DEF ToSet
<1>4. ToSet(r) \subseteq ToSet(q)
      <2>1. \A i \in 1 .. Len(r) : i + 1 \in 1 .. Len(q)
            BY <1>1
      <2> HIDE DEF r
      <2> QED BY <1>1, <2>1 DEF ToSet
<1>5. ASSUME Once(q) PROVE Once(r)
      <2> HIDE DEF r
      <2> SUFFICES ASSUME NEW i \in 1 .. Len(r), NEW j \in 1 .. Len(r),
                          r[i].type \in Answers, r[j].type \in Answers, r[i].conn = r[j].conn
                   PROVE  i = j
          BY DEF Once
      <2>1. i + 1 \in 1 .. Len(q) /\ j + 1 \in 1 .. Len(q)
            BY <1>1
      <2>2. q[i + 1] = r[i] /\ q[j + 1] = r[j]
            BY <1>1
      <2>3. i + 1 = j + 1
            BY <1>5, <2>1, <2>2 DEF Once
      <2> QED BY <2>3
<1>6. ASSUME Head(q).type # "adopt" PROVE Grows(q, r, {})
      <2>1. Head(q) \notin Adopts
            BY <1>2, <1>6, EventParts
      <2>2. Count(q, Adopts) = Count(r, Adopts)
            BY <2>1, CountTail
      <2>3. Count(q, Adopts) \in Nat
            BY CountIsNumber
      <2> QED BY <1>1, <1>4, <1>5, <2>2, <2>3 DEF Grows
<1> HIDE DEF r
<1>7. /\ r \in Seq(Event) /\ Head(q) \in Event /\ Head(q) \in ToSet(q)
      /\ ToSet(r) \subseteq ToSet(q)
      /\ Once(q) => Once(r)
      /\ Head(q).type # "adopt" => Grows(q, r, {})
      BY <1>1, <1>2, <1>3, <1>4, <1>5, <1>6
<1> QED BY <1>7 DEF r

LEMMA GrowsAppend ==
    ASSUME NEW q \in Seq(Event), NEW e \in Event,
           e.type \in Answers => \A t \in Answers : Of(t, e.conn) \notin ToSet(q)
    PROVE  /\ Grows(q, Append(q, e), {e})
           /\ e \in Adopts => Count(Append(q, e), Adopts) = Count(q, Adopts) + 1
<1> DEFINE r == Append(q, e)
<1>1. /\ Len(q) \in Nat /\ Len(r) = Len(q) + 1 /\ r[Len(q) + 1] = e
      /\ \A i \in 1 .. Len(q) : r[i] = q[i]
      /\ r \in Seq(Event)
      /\ DOMAIN q = 1 .. Len(q) /\ DOMAIN r = 1 .. (Len(q) + 1)
      OBVIOUS
<1>2. /\ Count(r, Adopts) = IF e \in Adopts THEN Count(q, Adopts) + 1 ELSE Count(q, Adopts)
      /\ Count(q, Adopts) \in Nat
      <2>1. Count(q, Adopts) \in Nat
            BY CountIsNumber
      <2>2. \A T : Count(r, T) = IF e \in T THEN Count(q, T) + 1 ELSE Count(q, T)
            BY CountAppend
      <2> QED BY <2>1, <2>2
<1>3. \A i \in 1 .. Len(q) : q[i] \in ToSet(q) /\ q[i] \in Event
      BY <1>1 DEF ToSet
<1> HIDE DEF r
<1>4. ToSet(r) \subseteq ToSet(q) \cup {e}
      <2> SUFFICES ASSUME NEW i \in 1 .. (Len(q) + 1)
                   PROVE  r[i] \in ToSet(q) \cup {e}
          BY <1>1 DEF ToSet
      <2>1. i \in 1 .. Len(q) \/ i = Len(q) + 1
            BY <1>1
      <2> QED BY <1>1, <1>3, <2>1
<1>5. ASSUME Once(q) PROVE Once(r)
      <2>1. ASSUME NEW i \in 1 .. Len(q), q[i].type \in Answers, e.type \in Answers,
                   q[i].conn = e.conn
            PROVE  FALSE
            <3>1. q[i].type \in Types
                  BY <2>1 DEF Answers, Types
            <3>2. q[i] = Of(q[i].type, e.conn)
                  BY <1>3, <2>1, <3>1, EventParts
            <3> QED BY <1>3, <2>1, <3>2
      <2> SUFFICES ASSUME NEW i \in 1 .. (Len(q) + 1), NEW j \in 1 .. (Len(q) + 1),
                          r[i].type \in Answers, r[j].type \in Answers, r[i].conn = r[j].conn
                   PROVE  i = j
          BY <1>1 DEF Once
      <2>2. (i \in 1 .. Len(q) \/ i = Len(q) + 1) /\ (j \in 1 .. Len(q) \/ j = Len(q) + 1)
            BY <1>1
      <2>3. CASE i \in 1 .. Len(q) /\ j \in 1 .. Len(q)
            BY <1>1, <1>5, <2>3 DEF Once
      <2>4. CASE i \in 1 .. Len(q) /\ j = Len(q) + 1
            BY <1>1, <2>1, <2>4
      <2>5. CASE i = Len(q) + 1 /\ j \in 1 .. Len(q)
            BY <1>1, <2>1, <2>5
      <2> QED BY <2>2, <2>3, <2>4, <2>5
<1>6. Count(r, Adopts) >= Count(q, Adopts)
      BY <1>2
<1>7. Grows(q, r, {e}) /\ (e \in Adopts => Count(r, Adopts) = Count(q, Adopts) + 1)
      BY <1>1, <1>2, <1>4, <1>5, <1>6 DEF Grows
<1> QED BY <1>7 DEF r

LEMMA GrowsTwice ==
    ASSUME NEW q \in Seq(Event), NEW q1, NEW q2, NEW M, NEW N,
           Grows(q, q1, M), Grows(q1, q2, N)
    PROVE  Grows(q, q2, M \cup N)
<1>1. /\ Count(q, Adopts) \in Nat /\ Count(q1, Adopts) \in Nat /\ Count(q2, Adopts) \in Nat
      BY CountIsNumber DEF Grows
<1> QED BY <1>1 DEF Grows

\* What is pending for the connections.
LEMMA GrowsPending ==
    ASSUME NEW q, NEW q2, NEW c \in Conns, NEW K \in SUBSET Types,
           Grows(q, q2, {Of(t, c) : t \in K})
    PROVE  /\ Pending(c, q2) \subseteq Pending(c, q) \cup K
           /\ \A d \in Conns : d # c => Pending(d, q2) \subseteq Pending(d, q)
<1>1. \A d \in Conns, t, u \in Types : Of(t, d) = Of(u, c) => d = c /\ t = u
      BY DEF Of
<1> QED BY <1>1 DEF Grows, Pending

-----------------------------------------------------------------------------
(* How a step that concerns one connection keeps the invariant.            *)

LEMMA OneConnFewer ==
    ASSUME NEW s, NEW u, NEW p, NEW E, NEW E2 \in SUBSET E, OneConn(s, u, p, E)
    PROVE  OneConn(s, u, p, E2)
BY DEF OneConn

\* The step concerns c: its events K are added, no client waits or stops waiting.
Touches(c, K) ==
    /\ Grows(queue, queue', {Of(t, c) : t \in K})
    /\ waiting' = waiting
    /\ \A d \in Conns : d # c =>
          sock'[d] = sock[d] /\ unknown'[d] = unknown[d] /\ proxy'[d] = proxy[d]
    /\ proxy'[c].heard = "listener" <=> proxy[c].heard = "listener"
    /\ OneConn(sock'[c], unknown'[c], proxy'[c], Pending(c, queue'))

LEMMA TouchesKeeps ==
    ASSUME ListenerInv, TypeOK', NEW c \in Conns, NEW K \in SUBSET Types, Touches(c, K)
    PROVE  ListenerInv'
<1>1. ASSUME NEW d \in Conns
      PROVE  OneConn(sock'[d], unknown'[d], proxy'[d], Pending(d, queue'))
      <2>1. CASE d = c
            BY <2>1 DEF Touches
      <2>2. CASE d # c
            <3>1. Pending(d, queue') \in SUBSET Pending(d, queue)
                  BY <2>2, GrowsPending DEF Touches
            <3>2. OneConn(sock[d], unknown[d], proxy[d], Pending(d, queue))
                  BY DEF ListenerInv, ConnInv
            <3>3. OneConn(sock[d], unknown[d], proxy[d], Pending(d, queue'))
                  BY <3>1, <3>2, OneConnFewer
            <3> QED BY <2>2, <3>3 DEF Touches
      <2> QED BY <2>1, <2>2
<1>2. ConnInv'
      BY <1>1 DEF ConnInv
<1>3. Once(queue)'
      BY DEF Once, Touches, Grows, ListenerInv
<1>4. WaitInv'
      <2>1. \A d \in Conns : proxy'[d].heard = "listener" <=> proxy[d].heard = "listener"
            BY DEF Touches
      <2> QED BY <2>1 DEF ListenerInv, WaitInv, WaitsOnce, Touches
<1>5. WaitingIsFetched'
      <2>1. queue \in Seq(Event) /\ waiting \in Seq(Conns)
            BY DEF ListenerInv, TypeOK
      <2>2. Len(waiting) \in Nat /\ Count(queue, Adopts) \in Nat
            <3>1. Len(waiting) \in Nat
                  BY <2>1
            <3>2. Count(queue, Adopts) \in Nat
                  BY <2>1, CountIsNumber
            <3> QED BY <3>1, <3>2
      <2>3. queue' \in Seq(Event) /\ waiting' = waiting
            BY DEF Touches, Grows
      <2>4. Count(queue', Adopts) \in Nat
            BY <2>3, CountIsNumber
      <2> QED BY <2>2, <2>3, <2>4 DEF ListenerInv, WaitingIsFetched, Touches, Grows, Adopts
<1> QED BY <1>2, <1>3, <1>4, <1>5 DEF ListenerInv

\* The step only takes the next event from the queue, if any.
LEMMA DispatchedEvent ==
    ASSUME ListenerInv, NEW type, Dispatched(type), type # "adopt"
    PROVE  /\ queue \in Seq(Event) /\ queue # <<>> /\ Tail(queue) \in Seq(Event)
           /\ Grows(queue, Tail(queue), {})
           /\ type \in Types => /\ Head(queue).conn \in Conns
                                /\ type \in Pending(Head(queue).conn, queue)
<1>1. queue \in Seq(Event) /\ queue # <<>> /\ Head(queue).type = type
      BY DEF ListenerInv, TypeOK, Dispatched
<1>2. /\ Tail(queue) \in Seq(Event) /\ Head(queue) \in Event /\ Head(queue) \in ToSet(queue)
      /\ Grows(queue, Tail(queue), {})
      BY <1>1, GrowsTail
<1>3. ASSUME type \in Types
      PROVE  Head(queue).conn \in Conns /\ type \in Pending(Head(queue).conn, queue)
      <2>1. Head(queue).conn \in Conns /\ Head(queue) = Of(type, Head(queue).conn)
            BY <1>1, <1>2, <1>3, EventParts
      <2>2. Of(type, Head(queue).conn) \in ToSet(queue)
            BY <1>2, <2>1
      <2> QED BY <1>3, <2>1, <2>2 DEF Pending
<1> QED BY <1>1, <1>2, <1>3

\* An event of c that is no answer is added at the end.
LEMMA GrowsBy ==
    ASSUME NEW q, NEW q1, NEW c \in Conns, NEW K \in SUBSET Types,
           NEW t \in Types \ Answers, q \in Seq(Event),
           Grows(q, q1, {Of(k, c) : k \in K})
    PROVE  Grows(q, Append(q1, Of(t, c)), {Of(k, c) : k \in K \cup {t}})
<1>1. q1 \in Seq(Event) /\ Of(t, c) \in Event /\ Of(t, c).type \notin Answers
      BY EventParts DEF Grows
<1>2. Grows(q1, Append(q1, Of(t, c)), {Of(t, c)})
      BY <1>1, GrowsAppend
<1>3. Grows(q, Append(q1, Of(t, c)), {Of(k, c) : k \in K} \cup {Of(t, c)})
      BY <1>2, GrowsTwice
<1>4. {Of(k, c) : k \in K} \cup {Of(t, c)} = {Of(k, c) : k \in K \cup {t}}
      OBVIOUS
<1> QED BY <1>3, <1>4

-----------------------------------------------------------------------------
(* Type correctness.                                                       *)

LEMMA EventTypes ==
    ASSUME queue \in Seq(Event), NEW type, Dispatched(type)
    PROVE  /\ Tail(queue) \in Seq(Event)
           /\ Head(queue) \in Event /\ Head(queue).type = type
           /\ type \in Types => Head(queue).conn \in Conns
BY GrowsTail, EventParts DEF Dispatched

LEMMA AppendsEvent ==
    ASSUME NEW q \in Seq(Event), NEW t \in Types, NEW c \in Conns
    PROVE  /\ q \o <<Of(t, c)>> = Append(q, Of(t, c)) /\ q \o <<>> = q
           /\ Append(q, Of(t, c)) \in Seq(Event)
<1>1. Of(t, c) \in Event
      BY EventParts
<1> QED BY <1>1

LEMMA SendFailureTypes ==
    ASSUME TypeOK, NEW c \in Conns, NEW q \in Seq(Event), SendFailure(c, q)
    PROVE  /\ proxy' \in [Conns -> Proxies]
           /\ unknown' \in [Conns -> Unknowns]
           /\ queue' \in Seq(Event)
<1>1. "failure" \in Types
      BY DEF Types
<1>2. queue' \in Seq(Event)
      BY <1>1, AppendsEvent DEF SendFailure
<1>3. unknown' \in [Conns -> Unknowns]
      <2>1. [unknown[c] EXCEPT !.timer = FALSE, !.ready = FALSE, !.hooks = FALSE] \in Unknowns
            BY DEF TypeOK, Unknowns
      <2> QED BY <2>1 DEF SendFailure, TypeOK
<1>4. proxy' \in [Conns -> Proxies]
      BY DEF SendFailure, TypeOK, NoProxy, Proxies
<1> QED BY <1>2, <1>3, <1>4

LEMMA DisconnectTypes ==
    ASSUME TypeOK, NEW c \in Conns, NEW q \in Seq(Event), Disconnect(c, q)
    PROVE  /\ proxy' \in [Conns -> Proxies]
           /\ sock' \in [Conns -> {"none", "backlog", "accepting", "open", "closed",
                         "deleted"}]
           /\ filter' \in [Conns -> Filters]
           /\ queue' \in Seq(Event)
<1>1. "disconnected" \in Types
      BY DEF Types
<1>2. queue' \in Seq(Event)
      BY <1>1, AppendsEvent DEF Disconnect
<1>3. NoFilter \in Filters
      BY DEF NoFilter, Filters
<1>4. [proxy[c] EXCEPT !.state = "closing", !.alarm = FALSE] \in Proxies
      BY DEF TypeOK, Proxies
<1> QED BY <1>2, <1>3, <1>4 DEF Disconnect, TypeOK

LEMMA ShutdownSeenTypes ==
    ASSUME NEW q \in Seq(Event), NEW c \in Conns, NEW box
    PROVE  q \o ShutdownSeen(c, box) \in {q, Append(q, Of("ended", c))}
<1>1. "ended" \in Types
      BY DEF Types
<1> QED BY <1>1, AppendsEvent DEF ShutdownSeen

\* What has arrived in a filter.
Arrived(c) ==
    IF unknown[c].stream \/ Attached(c)
    THEN [filter[c] EXCEPT !.box = @ \o filter[c].sock, !.sock = <<>>]
    ELSE filter[c]

LEMMA FilterParts ==
    ASSUME NEW f \in Filters, NEW b \in Seq(Message), NEW s \in Seq(Message)
    PROVE  /\ [f EXCEPT !.box = b] \in Filters
           /\ [f EXCEPT !.box = b, !.sock = s] \in Filters
           /\ [f EXCEPT !.sock = s] \in Filters
           /\ [f EXCEPT !.closing = TRUE] \in Filters
<1> DEFINE T == Seq(Message)
<1> HIDE DEF T
<1>1. /\ b \in T /\ s \in T
      /\ Filters = [sock: T, box: T, closing: BOOLEAN]
      BY DEF T, Filters
<1>2. /\ [f EXCEPT !.box = b] \in Filters
      /\ [f EXCEPT !.sock = s] \in Filters
      /\ [f EXCEPT !.closing = TRUE] \in Filters
      BY <1>1
<1>3. [f EXCEPT !.box = b, !.sock = s] \in Filters
      BY <1>1
<1> QED BY <1>2, <1>3 DEF T

LEMMA ArrivedTypes ==
    ASSUME TypeOK, NEW c \in Conns
    PROVE  Arrived(c) \in Filters
<1>1. filter[c] \in Filters
      BY DEF TypeOK
<1>2. filter[c].box \in Seq(Message) /\ filter[c].sock \in Seq(Message)
      BY <1>1 DEF Filters
<1>3. filter[c].box \o filter[c].sock \in Seq(Message) /\ <<>> \in Seq(Message)
      BY <1>2
<1>4. ASSUME NEW b \in Seq(Message), NEW s \in Seq(Message)
      PROVE  [filter[c] EXCEPT !.box = b, !.sock = s] \in Filters
      BY <1>1, FilterParts
<1>5. [filter[c] EXCEPT !.box = filter[c].box \o filter[c].sock, !.sock = <<>>] \in Filters
      BY <1>3, <1>4
<1> QED BY <1>1, <1>5 DEF Arrived

\* Each action keeps the types.
LEMMA AcceptTypes ==
    ASSUME TypeOK, HandleClientConnecting \/ HandleClientAccepted
                   \/ HandleDisconnectedOnAccept \/ (\E c \in Conns : SecureAccept(c))
    PROVE  TypeOK'
<1> USE DEF Types
<1>0. queue \in Seq(Event)
      BY DEF TypeOK
<1>1. CASE HandleClientConnecting
      <2>1. PICK c \in Conns :
               /\ sock' = [sock EXCEPT ![c] = "accepting"]
               /\ queue' = Tail(queue) \o IF Secure THEN <<>> ELSE <<Of("accepted", c)>>
            BY <1>1 DEF HandleClientConnecting
      <2>2. Tail(queue) \in Seq(Event)
            BY <1>0, <1>1, EventTypes DEF HandleClientConnecting
      <2>3. queue' \in Seq(Event)
            BY <2>1, <2>2, AppendsEvent
      <2> QED BY <1>1, <2>1, <2>3 DEF HandleClientConnecting, TypeOK
<1>2. CASE HandleClientAccepted
      <2>1. Tail(queue) \in Seq(Event) /\ Head(queue).conn \in Conns
            BY <1>0, <1>2, EventTypes DEF HandleClientAccepted
      <2>2. [there |-> TRUE, timer |-> TRUE, ready |-> FALSE, stream |-> TRUE,
             hooks |-> TRUE] \in Unknowns
            BY DEF Unknowns
      <2> QED BY <1>2, <2>1, <2>2 DEF HandleClientAccepted, TypeOK
<1>3. CASE HandleDisconnectedOnAccept
      <2>1. Tail(queue) \in Seq(Event) /\ Head(queue).conn \in Conns
            BY <1>0, <1>3, EventTypes DEF HandleDisconnectedOnAccept
      <2> QED BY <1>3, <2>1 DEF HandleDisconnectedOnAccept, TypeOK
<1>4. ASSUME NEW c \in Conns, SecureAccept(c) PROVE TypeOK'
      <2>1. queue' \in Seq(Event)
            BY <1>0, <1>4, AppendsEvent DEF SecureAccept
      <2> QED BY <1>4, <2>1 DEF SecureAccept, TypeOK
<1> QED BY <1>1, <1>2, <1>3, <1>4

LEMMA GreetingTypes ==
    ASSUME TypeOK, NEW c \in Conns, NEW f \in Filters, NEW q \in Seq(Event), f.box # <<>>,
           HandleGreeting(c, f, q), UNCHANGED <<waiting, said, crashed>>
    PROVE  TypeOK'
<1> DEFINE rest == Tail(f.box)
           q2 == q \o ShutdownSeen(c, rest)
<1>1. "ended" \in Types /\ f.box \in Seq(Message)
      BY DEF Types, Filters
<1>2. rest \in Seq(Message) /\ <<>> \in Seq(Message)
      BY <1>1
<1>3. [f EXCEPT !.box = rest] \in Filters
      BY <1>2, FilterParts
<1>4. q2 \in Seq(Event)
      <2>1. q2 \in {q, Append(q, Of("ended", c))}
            BY ShutdownSeenTypes
      <2> QED BY <1>1, <2>1, AppendsEvent
<1>5. filter' \in [Conns -> Filters] /\ sock' = sock
      BY <1>3 DEF HandleGreeting, TypeOK
<1>6. CASE f.box[1] = "hello"
      <2>1. [state |-> "asked", alarm |-> FALSE, heard |-> "unknown"] \in Proxies
            BY DEF Proxies
      <2>2. [unknown[c] EXCEPT !.hooks = FALSE, !.stream = FALSE] \in Unknowns
            BY DEF TypeOK, Unknowns
      <2>3. /\ proxy' = [proxy EXCEPT ![c] =
                  [state |-> "asked", alarm |-> FALSE, heard |-> "unknown"]]
            /\ unknown' = [unknown EXCEPT ![c] = [@ EXCEPT !.hooks = FALSE, !.stream = FALSE]]
            /\ queue' = q2
            BY <1>6 DEF HandleGreeting
      <2> QED BY <1>4, <1>5, <2>1, <2>2, <2>3 DEF TypeOK
<1>7. CASE f.box[1] # "hello"
      <2>1. SendFailure(c, q2)
            BY <1>7 DEF HandleGreeting
      <2> QED BY <1>4, <1>5, <2>1, SendFailureTypes DEF TypeOK
<1> QED BY <1>6, <1>7

LEMMA MessagesTypes ==
    ASSUME TypeOK, NEW c \in Conns, NEW f \in Filters, NEW q \in Seq(Event),
           HandleMessages(c, f, q), UNCHANGED <<waiting, said, crashed>>
    PROVE  TypeOK'
<1> DEFINE asked == proxy[c].state = "asked"
           bad == "bad" \in ToSet(f.box)
           ready == asked /\ f.box[1] = "info"
           q2 == q \o (IF ready THEN <<Of("ready", c)>> ELSE <<>>)
<1>1. "ended" \in Types /\ "ready" \in Types /\ <<>> \in Seq(Message)
      BY DEF Types
<1>2. q2 \in Seq(Event)
      BY <1>1, AppendsEvent
<1>3. CASE bad /\ (ready \/ ~asked)
      <2>1. Disconnect(c, q2) /\ unknown' = unknown
            BY <1>3 DEF HandleMessages
      <2> QED BY <1>2, <2>1, DisconnectTypes DEF TypeOK
<1>4. CASE ~(bad /\ (ready \/ ~asked))
      <2>1. /\ filter' = [filter EXCEPT ![c] = [f EXCEPT !.box = <<>>]]
            /\ proxy' = [proxy EXCEPT ![c] =
                  [state |-> IF ready THEN "ready" ELSE @.state, alarm |-> TRUE, heard |-> @.heard]]
            /\ queue' = q2 \o ShutdownSeen(c, <<>>)
            /\ sock' = sock /\ unknown' = unknown
            BY <1>4 DEF HandleMessages
      <2>2. [f EXCEPT !.box = <<>>] \in Filters
            BY <1>1, FilterParts
      <2> HIDE DEF q2
      <2>3. queue' \in Seq(Event)
            <3>1. queue' \in {q2, Append(q2, Of("ended", c))}
                  BY <1>2, <2>1, ShutdownSeenTypes
            <3> QED BY <1>1, <1>2, <3>1, AppendsEvent
      <2>4. proxy' \in [Conns -> Proxies]
            <3> DEFINE p == [state |-> IF ready THEN "ready" ELSE proxy[c].state,
                        alarm |-> TRUE, heard |-> proxy[c].heard]
            <3>1. proxy' = [proxy EXCEPT ![c] = p]
                  BY <2>1 DEF TypeOK
            <3> HIDE DEF ready
            <3>2. p \in Proxies
                  BY DEF TypeOK, Proxies
            <3> HIDE DEF p
            <3> QED BY <3>1, <3>2 DEF TypeOK
      <2> QED BY <2>1, <2>2, <2>3, <2>4 DEF TypeOK
<1> QED BY <1>3, <1>4

LEMMA InputTypes ==
    ASSUME TypeOK, HandleInput
    PROVE  TypeOK'
<1> DEFINE c == Head(queue).conn
           f == Arrived(c)
<1>1. Dispatched("input") /\ UNCHANGED <<waiting, said, crashed>>
      BY DEF HandleInput
<1>2. Tail(queue) \in Seq(Event) /\ c \in Conns
      <2>1. queue \in Seq(Event) /\ "input" \in Types
            BY DEF TypeOK, Types
      <2> QED BY <1>1, <2>1, EventTypes
<1>3. f \in Filters
      BY <1>2, ArrivedTypes
<1>4. \/ HandleMessages(c, f, Tail(queue))
      \/ f.box # <<>> /\ HandleGreeting(c, f, Tail(queue))
      \/ /\ filter' = [filter EXCEPT ![c] = f]
         /\ queue' = Tail(queue)
         /\ UNCHANGED <<sock, unknown, proxy>>
      BY DEF HandleInput, Arrived
<1> HIDE DEF c, f
<1>5. CASE HandleMessages(c, f, Tail(queue))
      BY <1>1, <1>2, <1>3, <1>5, MessagesTypes
<1>6. CASE f.box # <<>> /\ HandleGreeting(c, f, Tail(queue))
      BY <1>1, <1>2, <1>3, <1>6, GreetingTypes
<1>7. CASE /\ filter' = [filter EXCEPT ![c] = f]
           /\ queue' = Tail(queue)
           /\ UNCHANGED <<sock, unknown, proxy>>
      BY <1>1, <1>2, <1>3, <1>7 DEF TypeOK
<1> QED BY <1>4, <1>5, <1>6, <1>7

LEMMA ShutdownTypes ==
    ASSUME TypeOK, HandleShutdown
    PROVE  TypeOK'
<1> DEFINE c == Head(queue).conn
<1>1. PICK type \in {"shutdown", "ended"} : Dispatched(type)
      BY DEF HandleShutdown
<1>2. Tail(queue) \in Seq(Event) /\ c \in Conns
      <2>1. queue \in Seq(Event) /\ type \in Types
            BY DEF TypeOK, Types
      <2> QED BY <1>1, <2>1, EventTypes
<1>3. UNCHANGED <<waiting, said, crashed>>
      BY DEF HandleShutdown
<1>4. \/ /\ filter' = [filter EXCEPT ![c].closing = TRUE]
         /\ queue' = Tail(queue)
         /\ UNCHANGED <<sock, unknown, proxy>>
      \/ Disconnect(c, Tail(queue)) /\ UNCHANGED unknown
      \/ SendFailure(c, Tail(queue)) /\ UNCHANGED <<sock, filter>>
      \/ queue' = Tail(queue) /\ UNCHANGED <<sock, filter, unknown, proxy>>
      BY DEF HandleShutdown
<1> HIDE DEF c
<1>5. CASE /\ filter' = [filter EXCEPT ![c].closing = TRUE]
           /\ queue' = Tail(queue)
           /\ UNCHANGED <<sock, unknown, proxy>>
      <2>1. [filter[c] EXCEPT !.closing = TRUE] \in Filters
            <3>1. filter[c] \in Filters /\ <<>> \in Seq(Message)
                  BY <1>2 DEF TypeOK
            <3> QED BY <3>1, FilterParts
      <2> QED BY <1>2, <1>3, <1>5, <2>1 DEF TypeOK
<1>6. CASE Disconnect(c, Tail(queue)) /\ UNCHANGED unknown
      BY <1>2, <1>3, <1>6, DisconnectTypes DEF TypeOK
<1>7. CASE SendFailure(c, Tail(queue)) /\ UNCHANGED <<sock, filter>>
      BY <1>2, <1>3, <1>7, SendFailureTypes DEF TypeOK
<1>8. CASE queue' = Tail(queue) /\ UNCHANGED <<sock, filter, unknown, proxy>>
      BY <1>2, <1>3, <1>8 DEF TypeOK
<1> QED BY <1>4, <1>5, <1>6, <1>7, <1>8

LEMMA TimerTypes ==
    ASSUME TypeOK, NEW c \in Conns, Timers(c)
    PROVE  TypeOK'
<1>0. queue \in Seq(Event)
      BY DEF TypeOK
<1>1. CASE HandleTimeout(c)
      BY <1>0, <1>1, SendFailureTypes DEF HandleTimeout, TypeOK
<1>2. CASE HandleFlatline(c)
      BY <1>0, <1>2, DisconnectTypes DEF HandleFlatline, TypeOK
<1>3. CASE HandleClientCloseTimeout(c)
      <2>1. NoFilter \in Filters /\ NoProxy \in Proxies
            BY DEF NoFilter, Filters, NoProxy, Proxies
      <2> QED BY <1>3, <2>1 DEF HandleClientCloseTimeout, DeleteProxy, TypeOK
<1> QED BY <1>1, <1>2, <1>3 DEF Timers

LEMMA ClientTypes ==
    ASSUME TypeOK, NEW c \in Conns,
           Dial(c) \/ HangUp(c) \/ \E m \in Sayable(said[c]) : Says(c, m)
    PROVE  TypeOK'
<1>0. queue \in Seq(Event) /\ MaxSays \in Nat
      BY ListenerAssumption DEF TypeOK
<1>1. CASE Dial(c)
      <2>1. [type |-> "connecting"] \in Event
            BY EventParts
      <2>2. queue' \in Seq(Event)
            BY <1>0, <1>1, <2>1 DEF Dial
      <2> QED BY <1>1, <2>2 DEF Dial, TypeOK
<1>2. CASE HangUp(c)
      <2>1. "shutdown" \in Types
            BY DEF Types
      <2>2. queue' \in Seq(Event)
            BY <1>0, <1>2, <2>1, AppendsEvent DEF HangUp
      <2>3. said' \in [Conns -> 0 .. (MaxSays + 1)]
            BY <1>0, <1>2 DEF HangUp, TypeOK
      <2> QED BY <1>2, <2>2, <2>3 DEF HangUp, TypeOK
<1>3. ASSUME NEW m \in Sayable(said[c]), Says(c, m) PROVE TypeOK'
      <2>1. "input" \in Types /\ m \in Message
            BY DEF Types, Sayable, Message
      <2>2. queue' \in Seq(Event)
            BY <1>0, <1>3, <2>1, AppendsEvent DEF Says
      <2>3. said' \in [Conns -> 0 .. (MaxSays + 1)]
            <3>1. said[c] \in 0 .. (MaxSays + 1) /\ said[c] < MaxSays
                  BY <1>3 DEF Says, TypeOK
            <3>2. said[c] + 1 \in 0 .. (MaxSays + 1)
                  BY <1>0, <3>1
            <3> QED BY <1>3, <3>2 DEF Says, TypeOK
      <2>4. filter' \in [Conns -> Filters]
            <3>1. filter[c] \in Filters
                  BY DEF TypeOK
            <3>2. Append(filter[c].sock, m) \in Seq(Message)
                  BY <2>1, <3>1 DEF Filters
            <3>3. [filter[c] EXCEPT !.sock = Append(filter[c].sock, m)] \in Filters
                  BY <3>1, <3>2, FilterParts
            <3>4. filter' = [filter EXCEPT ![c] =
                               [filter[c] EXCEPT !.sock = Append(filter[c].sock, m)]]
                  BY <1>3 DEF Says, TypeOK
            <3> QED BY <3>3, <3>4 DEF TypeOK
      <2> QED BY <1>3, <2>2, <2>3, <2>4 DEF Says, TypeOK
<1> QED BY <1>1, <1>2, <1>3

LEMMA OwnerTypes ==
    ASSUME TypeOK, HandleReady \/ HandleUnknownClient \/ HandleUnknownFailure
                   \/ HandleProxyDisconnected \/ HandleClientConnected
    PROVE  TypeOK'
<1> DEFINE c == Head(queue).conn
<1>0. queue \in Seq(Event) /\ waiting \in Seq(Conns)
      BY DEF TypeOK
<1>a. /\ NoFilter \in Filters /\ NoProxy \in Proxies /\ NoUnknown \in Unknowns
      BY DEF NoFilter, Filters, NoProxy, Proxies, NoUnknown, Unknowns
<1>b. \A p \in Proxies, h \in {"none", "unknown", "listener", "server"} :
         [p EXCEPT !.heard = h] \in Proxies
      BY DEF Proxies
<1>c. {"ready", "success", "failure", "disconnected"} \subseteq Types
      BY DEF Types
<1>d. \A type \in {"ready", "success", "failure", "disconnected"} :
         Dispatched(type) => Tail(queue) \in Seq(Event) /\ c \in Conns
      BY <1>0, <1>c, EventTypes
<1>e. \A d \in Conns : unknown[d] \in Unknowns /\ proxy[d] \in Proxies
      BY DEF TypeOK
<1>1. CASE HandleReady
      <2>1. Tail(queue) \in Seq(Event) /\ c \in Conns
            BY <1>1, <1>d DEF HandleReady
      <2>2. \/ SendSuccess(c, Tail(queue))
            \/ queue' = Tail(queue) /\ UNCHANGED <<unknown, proxy>>
            BY <1>1 DEF HandleReady
      <2>3. UNCHANGED <<sock, filter, waiting, said, crashed>>
            BY <1>1 DEF HandleReady
      <2> HIDE DEF c
      <2>4. CASE SendSuccess(c, Tail(queue))
            <3>1. queue' \in Seq(Event)
                  BY <1>c, <2>1, <2>4, AppendsEvent DEF SendSuccess
            <3>2. [unknown[c] EXCEPT !.timer = FALSE, !.ready = TRUE] \in Unknowns
                  BY <1>e, <2>1 DEF Unknowns
            <3> QED BY <2>3, <2>4, <3>1, <3>2 DEF SendSuccess, TypeOK
      <2> QED BY <2>1, <2>2, <2>3, <2>4 DEF TypeOK
<1>2. CASE HandleUnknownClient
      <2>1. Tail(queue) \in Seq(Event) /\ c \in Conns
            BY <1>2, <1>d DEF HandleUnknownClient
      <2>2. /\ unknown' = [unknown EXCEPT ![c] = NoUnknown]
            /\ UNCHANGED <<sock, filter, said, crashed>>
            /\ \/ /\ waiting' = Append(waiting, c)
                  /\ queue' = Append(Tail(queue), [type |-> "adopt"])
                  /\ proxy' = [proxy EXCEPT ![c].heard = "listener"]
               \/ queue' = Tail(queue) /\ UNCHANGED <<waiting, proxy>>
            BY <1>2 DEF HandleUnknownClient
      <2>3. Append(Tail(queue), [type |-> "adopt"]) \in Seq(Event)
            BY <2>1, EventParts
      <2> HIDE DEF c
      <2>4. Append(waiting, c) \in Seq(Conns)
            BY <1>0, <2>1
      <2>5. unknown' \in [Conns -> Unknowns]
            BY <1>a, <2>2 DEF TypeOK
      <2>6. [proxy[c] EXCEPT !.heard = "listener"] \in Proxies
            BY <1>b, <1>e, <2>1
      <2>7. proxy' \in [Conns -> Proxies]
            BY <2>2, <2>6 DEF TypeOK
      <2> QED BY <2>1, <2>2, <2>3, <2>4, <2>5, <2>7 DEF TypeOK
<1>3. CASE HandleUnknownFailure
      <2>1. Tail(queue) \in Seq(Event) /\ c \in Conns
            BY <1>3, <1>d DEF HandleUnknownFailure
      <2> QED BY <1>3, <1>a, <2>1 DEF HandleUnknownFailure, TypeOK
<1>4. CASE HandleProxyDisconnected
      <2>1. Tail(queue) \in Seq(Event) /\ c \in Conns
            BY <1>4, <1>d DEF HandleProxyDisconnected
      <2>2. /\ UNCHANGED <<sock, said>>
            /\ \/ SendFailure(c, Tail(queue)) /\ UNCHANGED <<filter, waiting, crashed>>
               \/ /\ DeleteProxy(c)
                  /\ waiting' = Kept(waiting, Conns \ {c})
                  /\ queue' = Tail(queue) /\ crashed' = TRUE
                  /\ UNCHANGED unknown
               \/ /\ DeleteProxy(c)
                  /\ queue' = Tail(queue)
                  /\ UNCHANGED <<unknown, waiting, crashed>>
               \/ /\ queue' = Tail(queue)
                  /\ UNCHANGED <<filter, unknown, proxy, waiting, crashed>>
            BY <1>4, <1>e, <2>1 DEF HandleProxyDisconnected, Proxies
      <2> HIDE DEF c
      <2>3. Kept(waiting, Conns \ {c}) \in Seq(Conns)
            BY <1>0, KeptElements
      <2>4. ASSUME DeleteProxy(c) PROVE proxy' \in [Conns -> Proxies] /\ filter' \in [Conns -> Filters]
            BY <1>a, <2>4 DEF DeleteProxy, TypeOK
      <2>5. CASE SendFailure(c, Tail(queue)) /\ UNCHANGED <<filter, waiting, crashed>>
            BY <2>1, <2>2, <2>5, SendFailureTypes DEF TypeOK
      <2> QED BY <2>1, <2>2, <2>3, <2>4, <2>5 DEF TypeOK
<1>5. CASE HandleClientConnected
      <2>1. Tail(queue) \in Seq(Event)
            BY <1>0, <1>5, GrowsTail DEF HandleClientConnected, Dispatched
      <2>2. CASE waiting = <<>>
            BY <1>5, <2>1, <2>2 DEF HandleClientConnected, TypeOK
      <2>3. CASE waiting # <<>>
            <3>1. Head(waiting) \in Conns /\ Tail(waiting) \in Seq(Conns)
                  BY <1>0, <2>3
            <3>2. [proxy[Head(waiting)] EXCEPT !.heard = "server"] \in Proxies
                  BY <1>b, <1>e, <3>1
            <3>3. proxy' \in [Conns -> Proxies] /\ waiting' \in Seq(Conns)
                  BY <1>5, <2>3, <3>1, <3>2 DEF HandleClientConnected, TypeOK
            <3> QED BY <1>5, <2>1, <3>3 DEF HandleClientConnected, TypeOK
      <2> QED BY <2>2, <2>3
<1> QED BY <1>1, <1>2, <1>3, <1>4, <1>5

LEMMA TypeInit == Init => TypeOK
<1>1. NoFilter \in Filters /\ NoProxy \in Proxies /\ NoUnknown \in Unknowns
      BY DEF NoFilter, Filters, NoProxy, Proxies, NoUnknown, Unknowns
<1>2. 0 \in 0 .. (MaxSays + 1)
      BY ListenerAssumption
<1> SUFFICES ASSUME Init PROVE TypeOK
    OBVIOUS
<1>3. waiting \in Seq(Conns) /\ queue \in Seq(Event)
      BY DEF Init
<1>4. /\ filter \in [Conns -> Filters] /\ unknown \in [Conns -> Unknowns]
      /\ proxy \in [Conns -> Proxies]
      BY <1>1 DEF Init
<1>5. said \in [Conns -> 0 .. (MaxSays + 1)]
      BY <1>2 DEF Init
<1> QED BY <1>3, <1>4, <1>5 DEF Init, TypeOK

LEMMA TypeStep == TypeOK /\ [Next]_vars => TypeOK'
<1> SUFFICES ASSUME TypeOK, [Next]_vars PROVE TypeOK'
    OBVIOUS
<1>1. CASE Dispatch
      BY <1>1, AcceptTypes, InputTypes, ShutdownTypes, OwnerTypes DEF Dispatch
<1>2. ASSUME NEW c \in Conns, Timers(c) \/ Client(c) PROVE TypeOK'
      BY <1>2, AcceptTypes, TimerTypes, ClientTypes DEF Client
<1>3. CASE UNCHANGED vars
      BY <1>3 DEF vars, TypeOK
<1> QED BY <1>1, <1>2, <1>3 DEF Next

\* The listener's variables keep their types for any number of connections,
\* whatever the clients say, with TLS or without: in particular its queue holds
\* clients only, although a success may be taken back before it is fetched.
THEOREM ListenerTypeCorrect == Spec => []TypeOK
<1>1. QED BY TypeInit, TypeStep, PTL DEF Spec

-----------------------------------------------------------------------------
(* The invariant is kept by each action.                                   *)

\* What the invariant says of one connection.
LEMMA InvParts ==
    ASSUME ListenerInv, NEW c \in Conns
    PROVE  /\ OneConn(sock[c], unknown[c], proxy[c], Pending(c, queue))
           /\ queue \in Seq(Event) /\ waiting \in Seq(Conns)
           /\ unknown[c] \in Unknowns /\ proxy[c] \in Proxies
           /\ proxy[c].heard = "listener" <=> c \in ToSet(waiting)
BY DEF ListenerInv, ConnInv, TypeOK, WaitInv

\* An event of an answer is the only one of its connection.
LEMMA AnswerIsTaken ==
    ASSUME ListenerInv, NEW type \in Answers, Dispatched(type)
    PROVE  Pending(Head(queue).conn, Tail(queue)) \cap Answers = {}
<1> DEFINE c == Head(queue).conn
           r == Tail(queue)
<1>1. queue \in Seq(Event) /\ queue # <<>> /\ Head(queue).type = type /\ Once(queue)
      BY DEF ListenerInv, TypeOK, Dispatched
<1>2. /\ Len(queue) \in Nat /\ Len(queue) >= 1 /\ Len(r) = Len(queue) - 1 /\ Head(queue) = queue[1]
      /\ \A i \in 1 .. Len(r) : r[i] = queue[i + 1]
      /\ DOMAIN r = 1 .. Len(r)
      BY <1>1
<1>3. type \in Types /\ c \in Conns
      BY <1>1, EventTypes DEF Types, Answers
<1> HIDE DEF c, r
<1>4. ASSUME NEW i \in 1 .. Len(r), NEW t \in Answers, r[i] = Of(t, c) PROVE FALSE
      <2>1. i + 1 \in 1 .. Len(queue) /\ 1 \in 1 .. Len(queue) /\ i + 1 # 1
            BY <1>2
      <2>2. queue[i + 1].type = t /\ queue[i + 1].conn = c /\ t \in Types
            BY <1>2, <1>4 DEF Of, Answers, Types
      <2>3. queue[1].type \in Answers /\ queue[1].conn = c
            BY <1>1, <1>2 DEF c
      <2> QED BY <1>1, <2>1, <2>2, <2>3 DEF Once
<1> QED BY <1>2, <1>4 DEF Pending, ToSet, c, r

LEMMA AcceptKeeps ==
    ASSUME ListenerInv, HandleClientConnecting \/ HandleClientAccepted
                   \/ HandleDisconnectedOnAccept \/ (\E c \in Conns : SecureAccept(c))
    PROVE  ListenerInv'
<1>0. TypeOK' /\ queue \in Seq(Event)
      BY AcceptTypes DEF ListenerInv, TypeOK
<1>a. {"accepted", "refused"} \subseteq Types
      BY DEF Types
<1>b. ASSUME NEW q, Grows(queue, q, {}), NEW c \in Conns, sock[c] \in {"backlog", "accepting"},
             NEW t \in Answers, Pending(c, q) \cap Answers = {}
      PROVE  Grows(queue, Append(q, Of(t, c)), {Of(k, c) : k \in {t}})
      <2>1. /\ q \in Seq(Event) /\ Of(t, c) \in Event /\ Of(t, c).conn = c
            /\ Answers \subseteq Types
            BY <1>a, <1>b, EventParts DEF Grows, Answers
      <2>2. \A u \in Answers : Of(u, c) \notin ToSet(q)
            BY <1>b, <2>1 DEF Pending
      <2>3. Grows(q, Append(q, Of(t, c)), {Of(t, c)})
            BY <2>1, <2>2, GrowsAppend
      <2>4. Grows(queue, Append(q, Of(t, c)), {} \cup {Of(t, c)})
            BY <1>0, <1>b, <2>3, GrowsTwice
      <2>5. {} \cup {Of(t, c)} = {Of(k, c) : k \in {t}}
            OBVIOUS
      <2> QED BY <2>4, <2>5
<1>c. ASSUME NEW c \in Conns, Grows(queue, queue', {})
      PROVE  Pending(c, queue') \subseteq Pending(c, queue)
      BY <1>c DEF Grows, Pending
<1>1. CASE HandleClientConnecting
      <2>1. PICK c \in Conns :
               /\ sock[c] = "backlog"
               /\ sock' = [sock EXCEPT ![c] = "accepting"]
               /\ queue' = Tail(queue) \o IF Secure THEN <<>> ELSE <<Of("accepted", c)>>
            BY <1>1 DEF HandleClientConnecting
      <2>2. UNCHANGED <<unknown, proxy, waiting>> /\ sock \in [Conns -> {"none", "backlog",
                "accepting", "open", "closed", "deleted"}]
            BY <1>1 DEF HandleClientConnecting, ListenerInv, TypeOK
      <2>3. Tail(queue) \in Seq(Event) /\ Grows(queue, Tail(queue), {})
            BY <1>1, DispatchedEvent DEF HandleClientConnecting
      <2>4. OneConn(sock[c], unknown[c], proxy[c], Pending(c, queue))
            BY InvParts
      <2>5. Pending(c, Tail(queue)) \subseteq Pending(c, queue)
            BY <2>3 DEF Grows, Pending
      <2>6. OneConn("accepting", unknown[c], proxy[c], Pending(c, queue) \cup {"accepted"})
            BY <2>1, <2>4 DEF OneConn
      <2>7. Pending(c, queue) \cap Answers = {}
            BY <2>1, <2>4 DEF OneConn
      <2>8. CASE Secure
            <3>1. queue' = Tail(queue)
                  BY <2>1, <2>3, <2>8
            <3>2. OneConn("accepting", unknown[c], proxy[c], Pending(c, queue'))
                  BY <2>5, <2>6, <3>1, OneConnFewer
            <3>3. {Of(k, c) : k \in {}} = {}
                  OBVIOUS
            <3>4. Touches(c, {})
                  BY <2>1, <2>2, <2>3, <3>1, <3>2, <3>3 DEF Touches
            <3> QED BY <1>0, <3>4, TouchesKeeps
      <2>9. CASE ~Secure
            <3>1. queue' = Append(Tail(queue), Of("accepted", c))
                  BY <2>1, <2>3, <2>9
            <3>2. Pending(c, Tail(queue)) \cap Answers = {}
                  BY <2>5, <2>7
            <3>3. Grows(queue, queue', {Of(k, c) : k \in {"accepted"}})
                  BY <1>b, <2>1, <2>3, <3>1, <3>2 DEF Answers
            <3>4. Pending(c, queue') \in SUBSET (Pending(c, queue) \cup {"accepted"})
                  <4>1. {"accepted"} \in SUBSET Types
                        BY <1>a
                  <4>2. Pending(c, queue') \subseteq Pending(c, queue) \cup {"accepted"}
                        BY <3>3, <4>1, GrowsPending
                  <4> QED BY <4>2
            <3>5. OneConn("accepting", unknown[c], proxy[c], Pending(c, queue'))
                  BY <2>6, <3>4, OneConnFewer
            <3>6. Touches(c, {"accepted"})
                  BY <2>1, <2>2, <3>3, <3>5 DEF Touches
            <3> QED BY <1>0, <1>a, <3>6, TouchesKeeps
      <2> QED BY <2>8, <2>9
<1>2. ASSUME NEW c \in Conns, SecureAccept(c) PROVE ListenerInv'
      <2>1. /\ sock[c] = "accepting" /\ UNCHANGED <<sock, unknown, proxy, waiting>>
            /\ \A i \in DOMAIN queue : queue[i] \notin {Of("accepted", c), Of("refused", c)}
            BY <1>2 DEF SecureAccept
      <2>2. PICK t \in Answers : queue' = Append(queue, Of(t, c))
            BY <1>2 DEF SecureAccept, Answers
      <2>3. Pending(c, queue) \cap Answers = {}
            BY <2>1 DEF Pending, ToSet, Answers
      <2>4. Grows(queue, queue', {Of(k, c) : k \in {t}})
            <3>1. Grows(queue, queue, {})
                  BY <1>0, GrowsSame
            <3> QED BY <1>b, <2>1, <2>2, <2>3, <3>1
      <2>5. OneConn(sock[c], unknown[c], proxy[c], Pending(c, queue))
            BY InvParts
      <2>6. OneConn(sock[c], unknown[c], proxy[c], Pending(c, queue) \cup {t})
            BY <2>1, <2>5 DEF OneConn, Answers
      <2>7. {t} \in SUBSET Types
            BY <1>a DEF Answers
      <2>8. Pending(c, queue') \in SUBSET (Pending(c, queue) \cup {t})
            <3>1. Pending(c, queue') \subseteq Pending(c, queue) \cup {t}
                  BY <2>4, <2>7, GrowsPending
            <3> QED BY <3>1
      <2>9. OneConn(sock[c], unknown[c], proxy[c], Pending(c, queue'))
            BY <2>6, <2>8, OneConnFewer
      <2>10. Touches(c, {t})
            BY <2>1, <2>4, <2>9 DEF Touches
      <2> QED BY <1>0, <2>7, <2>10, TouchesKeeps
<1>3. ASSUME HandleClientAccepted \/ HandleDisconnectedOnAccept PROVE ListenerInv'
      <2> DEFINE c == Head(queue).conn
      <2>1. PICK t \in Answers : Dispatched(t)
            BY <1>3 DEF HandleClientAccepted, HandleDisconnectedOnAccept, Answers
      <2>2. t \in Types /\ t # "adopt"
            BY <1>a DEF Answers
      <2>3. /\ Grows(queue, Tail(queue), {}) /\ c \in Conns /\ t \in Pending(c, queue)
            BY <2>1, <2>2, DispatchedEvent
      <2>4. Pending(c, Tail(queue)) \cap Answers = {}
            BY <2>1, AnswerIsTaken
      <2>5. queue' = Tail(queue) /\ UNCHANGED <<proxy, waiting>>
            BY <1>3 DEF HandleClientAccepted, HandleDisconnectedOnAccept
      <2>6. \/ /\ sock' = [sock EXCEPT ![c] = "open"]
               /\ unknown' = [unknown EXCEPT ![c] =
                    [there |-> TRUE, timer |-> TRUE, ready |-> FALSE,
                     stream |-> TRUE, hooks |-> TRUE]]
            \/ sock' = [sock EXCEPT ![c] = "deleted"] /\ unknown' = unknown
            BY <1>3 DEF HandleClientAccepted, HandleDisconnectedOnAccept
      <2> HIDE DEF c
      <2>7. /\ OneConn(sock[c], unknown[c], proxy[c], Pending(c, queue))
            /\ unknown \in [Conns -> Unknowns] /\ DOMAIN sock = Conns
            BY <2>3, InvParts DEF ListenerInv, TypeOK
      <2>8. /\ sock[c] = "accepting" /\ unknown[c] = NoUnknown /\ proxy[c] = NoProxy
            /\ Pending(c, queue) \cap {"success", "failure"} = {}
            BY <2>3, <2>7 DEF OneConn
      <2>9. Pending(c, queue') \cap {"success", "failure"} = {} /\ Pending(c, queue') \cap Answers = {}
            BY <1>c, <2>3, <2>4, <2>5, <2>8 DEF c
      <2>10. OneConn(sock'[c], unknown'[c], proxy'[c], Pending(c, queue'))
            <3>1. CASE /\ sock'[c] = "open"
                       /\ unknown'[c] = [there |-> TRUE, timer |-> TRUE, ready |-> FALSE,
                                         stream |-> TRUE, hooks |-> TRUE]
                  BY <2>5, <2>8, <2>9, <3>1 DEF OneConn, NoProxy
            <3>2. CASE sock'[c] = "deleted" /\ unknown'[c] = NoUnknown
                  BY <2>5, <2>8, <2>9, <3>2 DEF OneConn, NoProxy, NoUnknown
            <3>3. DOMAIN unknown = Conns
                  BY <2>7
            <3> QED BY <2>3, <2>6, <2>7, <2>8, <3>1, <3>2, <3>3
      <2>11. {Of(k, c) : k \in {}} = {}
            OBVIOUS
      <2>12. Touches(c, {})
            <3>1. \A d \in Conns : d # c => sock'[d] = sock[d] /\ unknown'[d] = unknown[d]
                  BY <2>6, <2>7
            <3>2. Grows(queue, queue', {Of(k, c) : k \in {}})
                  BY <2>3, <2>5, <2>11
            <3> QED BY <2>5, <2>10, <3>1, <3>2 DEF Touches
      <2> QED BY <1>0, <2>3, <2>12, TouchesKeeps
<1> QED BY <1>1, <1>2, <1>3

\* The step concerns c, whose life goes on as it may with its new events K.
LEMMA ConcernsKeeps ==
    ASSUME ListenerInv, TypeOK', NEW c \in Conns, NEW K \in SUBSET Types,
           Grows(queue, queue', {Of(t, c) : t \in K}), waiting' = waiting,
           \A d \in Conns : d # c =>
              sock'[d] = sock[d] /\ unknown'[d] = unknown[d] /\ proxy'[d] = proxy[d],
           proxy'[c].heard = "listener" <=> proxy[c].heard = "listener",
           OneConn(sock'[c], unknown'[c], proxy'[c], Pending(c, queue) \cup K)
    PROVE  ListenerInv'
<1>1. Pending(c, queue') \subseteq Pending(c, queue) \cup K
      BY GrowsPending
<1>2. Pending(c, queue') \in SUBSET (Pending(c, queue) \cup K)
      BY <1>1
<1>3. OneConn(sock'[c], unknown'[c], proxy'[c], Pending(c, queue'))
      BY <1>2, OneConnFewer
<1>4. Touches(c, K)
      BY <1>3 DEF Touches
<1> QED BY <1>4, TouchesKeeps

\* Events of no consequence.
Harmless == Types \ {"accepted", "refused", "success", "failure"}

LEMMA HarmlessKeeps ==
    ASSUME ListenerInv, TypeOK', NEW c \in Conns, NEW K \in SUBSET Harmless,
           Grows(queue, queue', {Of(t, c) : t \in K}),
           UNCHANGED <<sock, unknown, waiting>>,
           \A d \in Conns : d # c => proxy'[d] = proxy[d],
           proxy'[c].heard = proxy[c].heard,
           proxy'[c].state = "none" <=> proxy[c].state = "none",
           proxy'[c] = proxy[c] \/ proxy'[c].state \in {"asked", "ready"}
    PROVE  ListenerInv'
<1>1. OneConn(sock[c], unknown[c], proxy[c], Pending(c, queue))
      BY InvParts
<1>2. /\ (Pending(c, queue) \cup K) \cap {"success", "failure"}
          = Pending(c, queue) \cap {"success", "failure"}
      /\ (Pending(c, queue) \cup K) \cap Answers = Pending(c, queue) \cap Answers
      /\ "success" \in Pending(c, queue) \cup K <=> "success" \in Pending(c, queue)
      /\ "failure" \in Pending(c, queue) \cup K <=> "failure" \in Pending(c, queue)
      BY DEF Harmless, Answers
<1>3. OneConn(sock[c], unknown[c], proxy'[c], Pending(c, queue) \cup K)
      BY <1>1, <1>2 DEF OneConn, NoProxy
<1>4. K \in SUBSET Types
      BY DEF Harmless
<1> QED BY <1>3, <1>4, ConcernsKeeps

LEMMA FailureKeeps ==
    ASSUME ListenerInv, TypeOK', NEW c \in Conns, NEW q, NEW K \in SUBSET Harmless,
           Grows(queue, q, {Of(t, c) : t \in K}), SendFailure(c, q),
           UNCHANGED <<sock, waiting>>, unknown[c].there
    PROVE  ListenerInv'
<1>1. /\ OneConn(sock[c], unknown[c], proxy[c], Pending(c, queue))
      /\ unknown[c] \in Unknowns
      /\ unknown \in [Conns -> Unknowns] /\ proxy \in [Conns -> Proxies]
      /\ queue \in Seq(Event)
      BY InvParts DEF ListenerInv, TypeOK
<1>2. K \in SUBSET Types /\ "failure" \in Types \ Answers
      BY DEF Harmless, Types, Answers
<1>3. Grows(queue, queue', {Of(t, c) : t \in K \cup {"failure"}})
      <2>1. queue' = Append(q, Of("failure", c))
            BY DEF SendFailure
      <2> QED BY <1>1, <1>2, <2>1, GrowsBy
<1> DEFINE u == [unknown[c] EXCEPT !.timer = FALSE, !.ready = FALSE, !.hooks = FALSE]
           p == [NoProxy EXCEPT !.heard = proxy[c].heard]
<1>4. /\ unknown' = [unknown EXCEPT ![c] = u] /\ proxy' = [proxy EXCEPT ![c] = p]
      BY DEF SendFailure
<1>5. u.there /\ ~u.timer /\ ~u.ready /\ ~u.hooks /\ u.stream = unknown[c].stream
      BY <1>1 DEF Unknowns
<1>15. p.state = "none" /\ ~p.alarm /\ p.heard = proxy[c].heard
      BY DEF NoProxy
<1> HIDE DEF u, p
<1>6. sock[c] \notin {"none", "backlog", "accepting"}
      BY <1>1 DEF OneConn, NoUnknown
<1>7. proxy[c].heard \notin {"listener", "server"}
      BY <1>1 DEF OneConn
<1>8. (Pending(c, queue) \cup (K \cup {"failure"})) \cap Answers = {}
      BY <1>1, <1>6 DEF OneConn, Harmless, Answers
<1>9. OneConn(sock[c], u, p, Pending(c, queue) \cup (K \cup {"failure"}))
      BY <1>1, <1>5, <1>6, <1>7, <1>8, <1>15 DEF OneConn
<1>10. sock'[c] = sock[c] /\ unknown'[c] = u /\ proxy'[c] = p
       BY <1>1, <1>4
<1>11. \A d \in Conns : d # c =>
              sock'[d] = sock[d] /\ unknown'[d] = unknown[d] /\ proxy'[d] = proxy[d]
       BY <1>1, <1>4
<1>12. OneConn(sock'[c], unknown'[c], proxy'[c], Pending(c, queue) \cup (K \cup {"failure"}))
       BY <1>9, <1>10
<1>13. K \cup {"failure"} \in SUBSET Types
       BY <1>2
<1>14. proxy'[c].heard = "listener" <=> proxy[c].heard = "listener"
       BY <1>10, <1>15
<1> QED BY <1>3, <1>11, <1>12, <1>13, <1>14, ConcernsKeeps

LEMMA DisconnectKeeps ==
    ASSUME ListenerInv, TypeOK', NEW c \in Conns, NEW q, NEW K \in SUBSET Harmless,
           Grows(queue, q, {Of(t, c) : t \in K}), Disconnect(c, q),
           UNCHANGED <<unknown, waiting>>, proxy[c].state # "none"
    PROVE  ListenerInv'
<1>1. /\ OneConn(sock[c], unknown[c], proxy[c], Pending(c, queue))
      /\ unknown[c] \in Unknowns /\ proxy[c] \in Proxies
      /\ proxy \in [Conns -> Proxies] /\ DOMAIN sock = Conns
      /\ queue \in Seq(Event)
      BY InvParts DEF ListenerInv, TypeOK
<1>2. K \in SUBSET Types /\ "disconnected" \in Types \ Answers
      BY DEF Harmless, Types, Answers
<1>3. Grows(queue, queue', {Of(t, c) : t \in K \cup {"disconnected"}})
      <2>1. queue' = Append(q, Of("disconnected", c))
            BY DEF Disconnect
      <2> QED BY <1>1, <1>2, <2>1, GrowsBy
<1> DEFINE p == [proxy[c] EXCEPT !.state = "closing", !.alarm = FALSE]
<1>4. sock' = [sock EXCEPT ![c] = "closed"] /\ proxy' = [proxy EXCEPT ![c] = p]
      BY DEF Disconnect
<1>5. p.state = "closing" /\ ~p.alarm /\ p.heard = proxy[c].heard
      BY <1>1 DEF Proxies
<1> HIDE DEF p
<1>6. sock[c] \in {"open", "closed"}
      BY <1>1 DEF OneConn
<1> DEFINE E == Pending(c, queue) \cup (K \cup {"disconnected"})
<1>8. /\ E \cap Answers = {}
      /\ E \cap {"success", "failure"} = Pending(c, queue) \cap {"success", "failure"}
      /\ "success" \in E <=> "success" \in Pending(c, queue)
      /\ "failure" \in E <=> "failure" \in Pending(c, queue)
      BY <1>1, <1>6 DEF OneConn, Harmless, Answers
<1> HIDE DEF E
<1>9. OneConn("closed", unknown[c], p, E)
      BY <1>1, <1>5, <1>6, <1>8 DEF OneConn
<1>10. sock'[c] = "closed" /\ unknown'[c] = unknown[c] /\ proxy'[c] = p
       BY <1>1, <1>4
<1>11. \A d \in Conns : d # c =>
              sock'[d] = sock[d] /\ unknown'[d] = unknown[d] /\ proxy'[d] = proxy[d]
       BY <1>1, <1>4
<1>12. OneConn(sock'[c], unknown'[c], proxy'[c], Pending(c, queue) \cup (K \cup {"disconnected"}))
       BY <1>9, <1>10 DEF E
<1>13. K \cup {"disconnected"} \in SUBSET Types
       BY <1>2
<1>14. proxy'[c].heard = "listener" <=> proxy[c].heard = "listener"
       BY <1>5, <1>10
<1> QED BY <1>3, <1>11, <1>12, <1>13, <1>14, ConcernsKeeps

\* The filter may tell that the input has ended.
LEMMA SeenGrows ==
    ASSUME queue \in Seq(Event), NEW q, NEW c \in Conns, NEW K \in SUBSET Harmless,
           Grows(queue, q, {Of(t, c) : t \in K}), NEW box
    PROVE  \E K2 \in SUBSET Harmless :
              Grows(queue, q \o ShutdownSeen(c, box), {Of(t, c) : t \in K2})
<1>1. q \in Seq(Event)
      BY DEF Grows
<1>2. K \in SUBSET Types /\ "ended" \in Types \ Answers /\ K \cup {"ended"} \in SUBSET Harmless
      BY DEF Harmless, Types, Answers
<1>3. Grows(queue, Append(q, Of("ended", c)), {Of(t, c) : t \in K \cup {"ended"}})
      BY <1>2, GrowsBy
<1>4. q \o ShutdownSeen(c, box) = q \/ q \o ShutdownSeen(c, box) = Append(q, Of("ended", c))
      BY <1>1, ShutdownSeenTypes
<1> QED BY <1>2, <1>3, <1>4

LEMMA GreetingKeeps ==
    ASSUME ListenerInv, TypeOK', NEW c \in Conns, NEW f, NEW q,
           Grows(queue, q, {Of(t, c) : t \in {}}), HandleGreeting(c, f, q),
           unknown[c].hooks, waiting' = waiting
    PROVE  ListenerInv'
<1> DEFINE q2 == q \o ShutdownSeen(c, Tail(f.box))
<1>1. /\ OneConn(sock[c], unknown[c], proxy[c], Pending(c, queue))
      /\ unknown[c] \in Unknowns /\ proxy[c] \in Proxies
      /\ proxy \in [Conns -> Proxies] /\ unknown \in [Conns -> Unknowns]
      /\ queue \in Seq(Event)
      BY InvParts DEF ListenerInv, TypeOK
<1>2. PICK K \in SUBSET Harmless : Grows(queue, q2, {Of(t, c) : t \in K})
      <2> DEFINE None == {}
      <2>1. None \in SUBSET Harmless /\ Grows(queue, q, {Of(t, c) : t \in None})
            OBVIOUS
      <2> HIDE DEF None
      <2> QED BY <1>1, <2>1, SeenGrows
<1>3. sock' = sock
      BY DEF HandleGreeting
<1>4. unknown[c].there /\ unknown[c].stream
      BY <1>1 DEF OneConn
<1>5. CASE f.box[1] = "hello"
      <2> DEFINE p == [state |-> "asked", alarm |-> FALSE, heard |-> "unknown"]
                 u == [unknown[c] EXCEPT !.hooks = FALSE, !.stream = FALSE]
                 E == Pending(c, queue) \cup K
      <2>1. /\ proxy' = [proxy EXCEPT ![c] = p] /\ unknown' = [unknown EXCEPT ![c] = u]
            /\ queue' = q2
            BY <1>5 DEF HandleGreeting
      <2>2. /\ ~u.hooks /\ ~u.stream /\ u.there /\ u.timer = unknown[c].timer
            /\ u.ready = unknown[c].ready
            BY <1>1, <1>4 DEF Unknowns
      <2>3. p.state = "asked" /\ ~p.alarm /\ p.heard = "unknown"
            OBVIOUS
      <2>4. sock[c] \in {"open", "closed"} /\ proxy[c].state = "none" /\ proxy[c].heard = "none"
            BY <1>1, <1>4 DEF OneConn
      <2>5. E \cap Answers = {} /\ E \cap {"success", "failure"} = {}
            BY <1>1, <2>4 DEF OneConn, Harmless, Answers
      <2>6. /\ proxy'[c] = p /\ unknown'[c] = u /\ sock'[c] = sock[c]
            /\ \A d \in Conns : d # c =>
                  sock'[d] = sock[d] /\ unknown'[d] = unknown[d] /\ proxy'[d] = proxy[d]
            BY <1>1, <1>3, <2>1
      <2>7. K \in SUBSET Types
            BY DEF Harmless
      <2>8. Grows(queue, queue', {Of(t, c) : t \in K})
            BY <1>2, <2>1
      <2> HIDE DEF p, u, E
      <2>9. OneConn(sock[c], u, p, E)
            BY <2>2, <2>3, <2>4, <2>5 DEF OneConn
      <2>10. OneConn(sock'[c], unknown'[c], proxy'[c], Pending(c, queue) \cup K)
            BY <2>6, <2>9 DEF E
      <2>11. proxy'[c].heard = "listener" <=> proxy[c].heard = "listener"
            BY <2>3, <2>4, <2>6
      <2> QED BY <2>6, <2>7, <2>8, <2>10, <2>11, ConcernsKeeps
<1>6. CASE f.box[1] # "hello"
      <2>1. SendFailure(c, q2)
            BY <1>6 DEF HandleGreeting
      <2> HIDE DEF q2
      <2> QED BY <1>2, <1>3, <1>4, <2>1, FailureKeeps
<1> QED BY <1>5, <1>6

LEMMA MessagesKeep ==
    ASSUME ListenerInv, TypeOK', NEW c \in Conns, NEW f, NEW q,
           Grows(queue, q, {Of(t, c) : t \in {}}), HandleMessages(c, f, q),
           Attached(c), waiting' = waiting
    PROVE  ListenerInv'
<1> DEFINE asked == proxy[c].state = "asked"
           bad == "bad" \in ToSet(f.box)
           ready == asked /\ f.box[1] = "info"
           q2 == q \o (IF ready THEN <<Of("ready", c)>> ELSE <<>>)
<1>1. /\ OneConn(sock[c], unknown[c], proxy[c], Pending(c, queue))
      /\ unknown[c] \in Unknowns /\ proxy[c] \in Proxies
      /\ proxy \in [Conns -> Proxies] /\ unknown \in [Conns -> Unknowns]
      /\ queue \in Seq(Event)
      BY InvParts DEF ListenerInv, TypeOK
<1>2. proxy[c].state # "none"
      BY DEF Attached
<1>3. PICK K \in SUBSET Harmless : Grows(queue, q2, {Of(t, c) : t \in K})
      <2> DEFINE None == {}
      <2>1. q \in Seq(Event) /\ "ready" \in Types \ Answers /\ None \in SUBSET Types
            BY DEF Grows, Types, Answers
      <2>2. None \in SUBSET Harmless /\ None \cup {"ready"} \in SUBSET Harmless
            BY DEF Harmless, Types
      <2>a. Grows(queue, q, {Of(t, c) : t \in None})
            OBVIOUS
      <2> HIDE DEF None
      <2>3. Grows(queue, Append(q, Of("ready", c)), {Of(t, c) : t \in None \cup {"ready"}})
            BY <1>1, <2>1, <2>a, GrowsBy
      <2>4. q2 = q \/ q2 = Append(q, Of("ready", c))
            BY <2>1, AppendsEvent
      <2> QED BY <2>2, <2>3, <2>4, <2>a
<1>4. CASE bad /\ (ready \/ ~asked)
      <2>1. Disconnect(c, q2) /\ unknown' = unknown
            BY <1>4 DEF HandleMessages
      <2> HIDE DEF q2
      <2> QED BY <1>2, <1>3, <2>1, DisconnectKeeps
<1>5. CASE ~(bad /\ (ready \/ ~asked))
      <2> DEFINE p == [state |-> IF ready THEN "ready" ELSE proxy[c].state, alarm |-> TRUE,
                       heard |-> proxy[c].heard]
      <2>1. /\ proxy' = [proxy EXCEPT ![c] = p]
            /\ queue' = q2 \o ShutdownSeen(c, <<>>)
            /\ sock' = sock /\ unknown' = unknown
            BY <1>1, <1>5 DEF HandleMessages
      <2>2. PICK K2 \in SUBSET Harmless : Grows(queue, queue', {Of(t, c) : t \in K2})
            BY <1>1, <1>3, <2>1, SeenGrows
      <2>3. p.state \in {"asked", "ready"} /\ p.heard = proxy[c].heard
            BY DEF Attached
      <2> HIDE DEF p
      <2>4. proxy'[c] = p /\ \A d \in Conns : d # c => proxy'[d] = proxy[d]
            BY <1>1, <2>1
      <2> QED BY <1>2, <2>1, <2>2, <2>3, <2>4, HarmlessKeeps
<1> QED BY <1>4, <1>5

LEMMA InputKeeps ==
    ASSUME ListenerInv, HandleInput
    PROVE  ListenerInv'
<1> DEFINE c == Head(queue).conn
           f == Arrived(c)
<1>1. Dispatched("input") /\ UNCHANGED <<waiting, said, crashed>>
      BY DEF HandleInput
<1>2. TypeOK'
      BY InputTypes DEF ListenerInv
<1>3. /\ Grows(queue, Tail(queue), {Of(t, c) : t \in {}}) /\ c \in Conns
      <2>1. "input" \in Types /\ {Of(t, c) : t \in {}} = {}
            BY DEF Types
      <2> QED BY <1>1, <2>1, DispatchedEvent
<1>4. \/ Attached(c) /\ HandleMessages(c, f, Tail(queue))
      \/ unknown[c].hooks /\ HandleGreeting(c, f, Tail(queue))
      \/ queue' = Tail(queue) /\ UNCHANGED <<sock, unknown, proxy>>
      BY DEF HandleInput, Arrived
<1> HIDE DEF c, f
<1>5. CASE Attached(c) /\ HandleMessages(c, f, Tail(queue))
      BY <1>1, <1>2, <1>3, <1>5, MessagesKeep
<1>6. CASE unknown[c].hooks /\ HandleGreeting(c, f, Tail(queue))
      BY <1>1, <1>2, <1>3, <1>6, GreetingKeeps
<1>7. CASE queue' = Tail(queue) /\ UNCHANGED <<sock, unknown, proxy>>
      <2>1. {} \in SUBSET Harmless
            OBVIOUS
      <2> QED BY <1>1, <1>2, <1>3, <1>7, <2>1, HarmlessKeeps
<1> QED BY <1>4, <1>5, <1>6, <1>7

LEMMA ShutdownKeeps ==
    ASSUME ListenerInv, HandleShutdown
    PROVE  ListenerInv'
<1> DEFINE c == Head(queue).conn
<1>1. PICK type \in {"shutdown", "ended"} : Dispatched(type)
      BY DEF HandleShutdown
<1>2. TypeOK' /\ waiting' = waiting
      BY ShutdownTypes DEF ListenerInv, HandleShutdown
<1>3. Grows(queue, Tail(queue), {Of(t, c) : t \in {}}) /\ c \in Conns
      <2>1. type \in Types /\ type # "adopt" /\ {Of(t, c) : t \in {}} = {}
            BY DEF Types
      <2> QED BY <1>1, <2>1, DispatchedEvent
<1>4. \/ queue' = Tail(queue) /\ UNCHANGED <<sock, unknown, proxy>>
      \/ Attached(c) /\ Disconnect(c, Tail(queue)) /\ UNCHANGED unknown
      \/ unknown[c].hooks /\ SendFailure(c, Tail(queue)) /\ UNCHANGED <<sock, filter>>
      BY DEF HandleShutdown
<1> HIDE DEF c
<1>5. {} \in SUBSET Harmless
      OBVIOUS
<1>6. CASE queue' = Tail(queue) /\ UNCHANGED <<sock, unknown, proxy>>
      BY <1>2, <1>3, <1>5, <1>6, HarmlessKeeps
<1>7. CASE Attached(c) /\ Disconnect(c, Tail(queue)) /\ UNCHANGED unknown
      <2>1. proxy[c].state # "none"
            BY <1>7 DEF Attached
      <2> QED BY <1>2, <1>3, <1>5, <1>7, <2>1, DisconnectKeeps
<1>8. CASE unknown[c].hooks /\ SendFailure(c, Tail(queue)) /\ UNCHANGED <<sock, filter>>
      <2>1. unknown[c].there
            BY <1>3, <1>8, InvParts DEF OneConn
      <2> QED BY <1>2, <1>3, <1>5, <1>8, <2>1, FailureKeeps
<1> QED BY <1>4, <1>6, <1>7, <1>8

LEMMA TimersKeep ==
    ASSUME ListenerInv, NEW c \in Conns, Timers(c)
    PROVE  ListenerInv'
<1>1. TypeOK' /\ queue \in Seq(Event) /\ {} \in SUBSET Harmless
      BY TimerTypes DEF ListenerInv, TypeOK
<1>2. Grows(queue, queue, {Of(t, c) : t \in {}})
      <2>1. {Of(t, c) : t \in {}} = {}
            OBVIOUS
      <2> QED BY <1>1, <2>1, GrowsSame
<1>3. /\ OneConn(sock[c], unknown[c], proxy[c], Pending(c, queue))
      /\ proxy \in [Conns -> Proxies] /\ proxy[c] \in Proxies
      BY InvParts DEF ListenerInv, TypeOK
<1>4. CASE HandleTimeout(c)
      <2>1. unknown[c].there
            BY <1>3, <1>4 DEF HandleTimeout, OneConn
      <2> QED BY <1>1, <1>2, <1>4, <2>1, FailureKeeps DEF HandleTimeout
<1>5. CASE HandleFlatline(c)
      <2>1. proxy[c].state # "none"
            BY <1>3, <1>5 DEF HandleFlatline, OneConn
      <2> QED BY <1>1, <1>2, <1>5, <2>1, DisconnectKeeps DEF HandleFlatline
<1>6. CASE HandleClientCloseTimeout(c)
      <2>1. /\ proxy' = [proxy EXCEPT ![c] = NoProxy] /\ proxy[c].heard = "server"
            /\ UNCHANGED <<sock, unknown, waiting, queue>>
            BY <1>6 DEF HandleClientCloseTimeout, DeleteProxy
      <2>2. OneConn(sock[c], unknown[c], NoProxy, Pending(c, queue))
            BY <1>3, <2>1 DEF OneConn, NoProxy
      <2>3. Touches(c, {})
            <3>1. proxy'[c] = NoProxy /\ \A d \in Conns : d # c => proxy'[d] = proxy[d]
                  BY <1>3, <2>1
            <3>2. NoProxy.heard # "listener"
                  BY DEF NoProxy
            <3> QED BY <1>2, <2>1, <2>2, <3>1, <3>2 DEF Touches
      <2> QED BY <1>1, <2>3, TouchesKeeps
<1> QED BY <1>4, <1>5, <1>6 DEF Timers

LEMMA ClientKeeps ==
    ASSUME ListenerInv, NEW c \in Conns,
           Dial(c) \/ HangUp(c) \/ \E m \in Sayable(said[c]) : Says(c, m)
    PROVE  ListenerInv'
<1>1. TypeOK' /\ queue \in Seq(Event) /\ DOMAIN sock = Conns
      BY ClientTypes DEF ListenerInv, TypeOK
<1>2. Grows(queue, queue, {Of(t, c) : t \in {}}) /\ Grows(queue, queue, {})
      <2>1. {Of(t, c) : t \in {}} = {}
            OBVIOUS
      <2> QED BY <1>1, <2>1, GrowsSame
<1>3. {} \in SUBSET Harmless
      OBVIOUS
<1>4. ASSUME NEW t \in Harmless, queue' = Append(queue, Of(t, c))
      PROVE  Grows(queue, queue', {Of(k, c) : k \in {t}})
      <2> DEFINE None == {}
      <2>1. t \in Types \ Answers /\ None \in SUBSET Types /\ None \cup {t} = {t}
            BY DEF Harmless, Answers
      <2>2. Grows(queue, queue, {Of(k, c) : k \in None})
            BY <1>2
      <2> HIDE DEF None
      <2> QED BY <1>1, <1>4, <2>1, <2>2, GrowsBy
<1>5. CASE Dial(c)
      <2>1. /\ sock[c] = "none" /\ sock' = [sock EXCEPT ![c] = "backlog"]
            /\ queue' = Append(queue, [type |-> "connecting"])
            /\ UNCHANGED <<unknown, proxy, waiting>>
            BY <1>5 DEF Dial
      <2>2. Grows(queue, queue', {[type |-> "connecting"]})
            <3>1. [type |-> "connecting"].type \notin Answers
                  BY DEF Answers
            <3> QED BY <1>1, <2>1, <3>1, EventParts, GrowsAppend
      <2>3. \A t \in Types, d \in Conns : Of(t, d) # [type |-> "connecting"]
            <3>1. \A t \in Types, d \in Conns : Of(t, d).type \in Types
                  BY EventParts
            <3>2. [type |-> "connecting"].type \notin Types
                  BY DEF Types
            <3> QED BY <3>1, <3>2
      <2>4. \A d \in Conns : Pending(d, queue') \in SUBSET Pending(d, queue)
            BY <2>2, <2>3 DEF Grows, Pending
      <2>5. ASSUME NEW d \in Conns
            PROVE  OneConn(sock'[d], unknown'[d], proxy'[d], Pending(d, queue'))
            <3>1. OneConn(sock[d], unknown[d], proxy[d], Pending(d, queue))
                  BY InvParts
            <3>2. OneConn(sock[d], unknown[d], proxy[d], Pending(d, queue'))
                  BY <2>4, <3>1, OneConnFewer
            <3>3. CASE d = c
                  BY <1>1, <2>1, <3>2, <3>3 DEF OneConn
            <3>4. CASE d # c
                  BY <1>1, <2>1, <3>2, <3>4
            <3> QED BY <3>3, <3>4
      <2>6. ConnInv'
            BY <2>5 DEF ConnInv
      <2>7. Once(queue)' /\ WaitInv'
            BY <2>1, <2>2 DEF Once, Grows, WaitInv, WaitsOnce, ListenerInv
      <2>8. WaitingIsFetched'
            <3>1. waiting \in Seq(Conns) /\ queue' \in Seq(Event)
                  BY <1>1 DEF ListenerInv, TypeOK
            <3>2. Len(waiting) \in Nat
                  BY <3>1
            <3>3. Count(queue, Adopts) \in Nat /\ Count(queue', Adopts) \in Nat
                  BY <1>1, <3>1, CountIsNumber
            <3> QED BY <2>1, <2>2, <3>2, <3>3 DEF ListenerInv, WaitingIsFetched, Grows, Adopts
      <2> QED BY <1>1, <2>6, <2>7, <2>8 DEF ListenerInv
<1>6. CASE HangUp(c)
      <2>1. "shutdown" \in Harmless
            BY DEF Harmless, Types
      <2>2. queue' = Append(queue, Of("shutdown", c)) /\ UNCHANGED <<sock, unknown, proxy, waiting>>
            BY <1>6 DEF HangUp
      <2>3. {"shutdown"} \in SUBSET Harmless
            BY <2>1
      <2> QED BY <1>1, <1>4, <2>1, <2>2, <2>3, HarmlessKeeps
<1>7. ASSUME NEW m \in Sayable(said[c]), Says(c, m) PROVE ListenerInv'
      <2>1. "input" \in Harmless
            BY DEF Harmless, Types
      <2>2. /\ queue' = queue \/ queue' = Append(queue, Of("input", c))
            /\ UNCHANGED <<sock, unknown, proxy, waiting>>
            BY <1>7 DEF Says
      <2>3. {"input"} \in SUBSET Harmless
            BY <2>1
      <2>4. CASE queue' = queue
            BY <1>1, <1>2, <1>3, <2>2, <2>4, HarmlessKeeps
      <2>5. CASE queue' = Append(queue, Of("input", c))
            BY <1>1, <1>4, <2>1, <2>2, <2>3, <2>5, HarmlessKeeps
      <2> QED BY <2>2, <2>4, <2>5
<1> QED BY <1>5, <1>6, <1>7

\* An event of the proxy that the handshake hears of finds the unknown client.
LEMMA NewsHasUnknown ==
    ASSUME ListenerInv, NewsInv, NEW type \in TypesOfProxy, Dispatched(type),
           proxy[Head(queue).conn].heard = "unknown"
    PROVE  unknown[Head(queue).conn].there
<1> DEFINE c == Head(queue).conn
<1>1. type \in Types /\ type # "adopt"
      BY DEF TypesOfProxy, Types
<1>2. c \in Conns /\ type \in Pending(c, queue)
      BY <1>1, DispatchedEvent
<1>3. type \in News(c, queue)
      BY <1>2 DEF Pending, News
<1>4. /\ OneConn(sock[c], unknown[c], proxy[c], Pending(c, queue))
      /\ OneNews(sock[c], unknown[c], proxy[c], News(c, queue))
      BY <1>2 DEF ListenerInv, ConnInv, NewsInv, Told
<1> HIDE DEF c
<1> QED BY <1>3, <1>4 DEF OneConn, OneNews, c

LEMMA ReadyKeeps ==
    ASSUME ListenerInv, NewsInv, HandleReady
    PROVE  ListenerInv'
<1> DEFINE c == Head(queue).conn
           None == {}
<1>1. Dispatched("ready") /\ waiting' = waiting /\ sock' = sock /\ "ready" \in TypesOfProxy
      BY DEF HandleReady, TypesOfProxy
<1>2. TypeOK' /\ queue \in Seq(Event)
      BY OwnerTypes DEF ListenerInv, TypeOK
<1>3. /\ Grows(queue, Tail(queue), {Of(t, c) : t \in None}) /\ c \in Conns
      <2>1. "ready" \in Types /\ {Of(t, c) : t \in None} = {}
            BY DEF Types
      <2> QED BY <1>1, <2>1, DispatchedEvent
<1>4. \/ proxy[c].heard = "unknown" /\ SendSuccess(c, Tail(queue))
      \/ queue' = Tail(queue) /\ UNCHANGED <<unknown, proxy>>
      BY DEF HandleReady
<1>5. None \in SUBSET Harmless /\ None \in SUBSET Types /\ None \cup {"success"} = {"success"}
      OBVIOUS
<1>6. "success" \in Types \ Answers /\ {"success"} \in SUBSET Types
      BY DEF Types, Answers
<1> HIDE DEF c, None
<1>7. CASE proxy[c].heard = "unknown" /\ SendSuccess(c, Tail(queue))
      <2> DEFINE u == [unknown[c] EXCEPT !.timer = FALSE, !.ready = TRUE]
                 E == Pending(c, queue) \cup {"success"}
      <2>1. /\ OneConn(sock[c], unknown[c], proxy[c], Pending(c, queue))
            /\ unknown[c] \in Unknowns /\ unknown \in [Conns -> Unknowns]
            BY <1>3, InvParts DEF ListenerInv, TypeOK
      <2>2. /\ unknown' = [unknown EXCEPT ![c] = u] /\ proxy' = proxy
            /\ queue' = Append(Tail(queue), Of("success", c))
            BY <1>7 DEF SendSuccess
      <2>3. /\ ~u.timer /\ u.ready /\ u.there = unknown[c].there /\ u.hooks = unknown[c].hooks
            /\ u.stream = unknown[c].stream
            BY <2>1 DEF Unknowns
      <2>4. Grows(queue, queue', {Of(t, c) : t \in None \cup {"success"}})
            BY <1>2, <1>3, <1>5, <1>6, <2>2, GrowsBy
      <2>5. Grows(queue, queue', {Of(t, c) : t \in {"success"}})
            BY <1>5, <2>4
      <2>6. /\ sock[c] \notin {"none", "backlog", "accepting"} /\ unknown[c].there
            /\ ~unknown[c].stream /\ ~unknown[c].hooks
            <3>1. unknown[c].there
                  BY <1>1, <1>7, NewsHasUnknown DEF c
            <3> QED BY <1>7, <2>1, <3>1 DEF OneConn, NoUnknown
      <2>7. E \cap Answers = {} /\ ("failure" \in E <=> "failure" \in Pending(c, queue))
            BY <2>1, <2>6 DEF OneConn, Answers
      <2>8. /\ unknown'[c] = u /\ \A d \in Conns : d # c => unknown'[d] = unknown[d]
            BY <1>3, <2>1, <2>2
      <2> HIDE DEF u, E
      <2>9. OneConn(sock[c], u, proxy[c], E)
            BY <1>7, <2>1, <2>3, <2>6, <2>7 DEF OneConn
      <2>10. OneConn(sock'[c], unknown'[c], proxy'[c], Pending(c, queue) \cup {"success"})
            BY <1>1, <2>2, <2>8, <2>9 DEF E
      <2> QED BY <1>1, <1>2, <1>3, <1>6, <2>2, <2>5, <2>8, <2>10, ConcernsKeeps
<1>8. CASE queue' = Tail(queue) /\ UNCHANGED <<unknown, proxy>>
      BY <1>1, <1>2, <1>3, <1>5, <1>8, HarmlessKeeps
<1> QED BY <1>4, <1>7, <1>8

LEMMA UnknownFailureKeeps ==
    ASSUME ListenerInv, HandleUnknownFailure
    PROVE  ListenerInv'
<1> DEFINE c == Head(queue).conn
<1>1. Dispatched("failure") /\ waiting' = waiting /\ proxy' = proxy
      BY DEF HandleUnknownFailure
<1>2. TypeOK'
      BY OwnerTypes DEF ListenerInv
<1>3. /\ Grows(queue, Tail(queue), {}) /\ c \in Conns /\ "failure" \in Pending(c, queue)
      <2>1. "failure" \in Types
            BY DEF Types
      <2> QED BY <1>1, <2>1, DispatchedEvent
<1>4. /\ unknown' = [unknown EXCEPT ![c] = NoUnknown]
      /\ sock' = [sock EXCEPT ![c] = IF unknown[c].stream THEN "deleted" ELSE sock[c]]
      /\ queue' = Tail(queue)
      BY DEF HandleUnknownFailure
<1> HIDE DEF c
<1>5. /\ OneConn(sock[c], unknown[c], proxy[c], Pending(c, queue))
      /\ DOMAIN unknown = Conns /\ DOMAIN sock = Conns
      BY <1>3, InvParts DEF ListenerInv, TypeOK
<1>6. unknown'[c] = NoUnknown /\ \A d \in Conns : d # c =>
         sock'[d] = sock[d] /\ unknown'[d] = unknown[d]
      BY <1>3, <1>4, <1>5
<1>7. /\ sock[c] \notin {"none", "backlog", "accepting"}
      /\ proxy[c].state = "none" \/ proxy[c].heard # "unknown"
      BY <1>3, <1>5 DEF OneConn
<1>8. OneConn(sock'[c], NoUnknown, proxy[c], Pending(c, queue))
      <2>1. CASE unknown[c].stream
            <3>1. sock'[c] = "deleted"
                  BY <1>3, <1>4, <1>5, <2>1
            <3> QED BY <1>5, <1>7, <2>1, <3>1 DEF OneConn, NoUnknown
      <2>2. CASE ~unknown[c].stream
            <3>1. sock'[c] = sock[c]
                  BY <1>3, <1>4, <1>5, <2>2
            <3> QED BY <1>5, <1>7, <2>2, <3>1 DEF OneConn, NoUnknown
      <2> QED BY <2>1, <2>2
<1>9. Pending(c, queue') \in SUBSET Pending(c, queue)
      BY <1>3, <1>4 DEF Grows, Pending
<1>10. OneConn(sock'[c], unknown'[c], proxy'[c], Pending(c, queue'))
      BY <1>1, <1>6, <1>8, <1>9, OneConnFewer
<1>11. Touches(c, {})
      <2>1. {Of(t, c) : t \in {}} = {}
            OBVIOUS
      <2> QED BY <1>1, <1>3, <1>4, <1>6, <1>10, <2>1 DEF Touches
<1> QED BY <1>2, <1>3, <1>11, TouchesKeeps

\* The elements of a sequence with one more at its end, and with the first taken away.
LEMMA AppendElements ==
    ASSUME NEW S, NEW w \in Seq(S), NEW e \in S
    PROVE  /\ ToSet(Append(w, e)) = ToSet(w) \cup {e}
           /\ WaitsOnce(w) /\ e \notin ToSet(w) => WaitsOnce(Append(w, e))
           /\ Len(Append(w, e)) = Len(w) + 1
<1> DEFINE r == Append(w, e)
<1>1. /\ Len(w) \in Nat /\ Len(r) = Len(w) + 1 /\ r[Len(w) + 1] = e
      /\ \A i \in 1 .. Len(w) : r[i] = w[i]
      /\ DOMAIN w = 1 .. Len(w) /\ DOMAIN r = 1 .. (Len(w) + 1)
      OBVIOUS
<1>2. \A i \in 1 .. (Len(w) + 1) : i \in 1 .. Len(w) \/ i = Len(w) + 1
      BY <1>1
<1>3. 1 .. Len(w) \subseteq 1 .. (Len(w) + 1) /\ Len(w) + 1 \in 1 .. (Len(w) + 1)
      BY <1>1
<1> HIDE DEF r
<1>4. ToSet(r) = ToSet(w) \cup {e}
      BY <1>1, <1>2, <1>3 DEF ToSet
<1>5. ASSUME WaitsOnce(w), e \notin ToSet(w) PROVE WaitsOnce(r)
      <2>1. \A i \in 1 .. Len(w) : w[i] # e
            BY <1>1, <1>5 DEF ToSet
      <2> SUFFICES ASSUME NEW i \in 1 .. (Len(w) + 1), NEW j \in 1 .. (Len(w) + 1), r[i] = r[j]
                   PROVE  i = j
          BY <1>1 DEF WaitsOnce
      <2>2. CASE i \in 1 .. Len(w) /\ j \in 1 .. Len(w)
            BY <1>1, <1>5, <2>2 DEF WaitsOnce
      <2>3. CASE i = Len(w) + 1 \/ j = Len(w) + 1
            BY <1>1, <1>2, <2>1, <2>3
      <2> QED BY <1>2, <2>2, <2>3
<1> QED BY <1>1, <1>4, <1>5 DEF r

LEMMA TailElements ==
    ASSUME NEW S, NEW w \in Seq(S), w # <<>>, WaitsOnce(w)
    PROVE  /\ ToSet(Tail(w)) = ToSet(w) \ {Head(w)}
           /\ Head(w) \in ToSet(w) /\ Head(w) \in S
           /\ WaitsOnce(Tail(w))
           /\ Len(w) = Len(Tail(w)) + 1 /\ Len(Tail(w)) \in Nat
<1> DEFINE r == Tail(w)
<1>1. /\ Len(w) \in Nat /\ Len(w) >= 1 /\ Len(r) = Len(w) - 1 /\ Head(w) = w[1]
      /\ \A i \in 1 .. Len(r) : r[i] = w[i + 1]
      /\ DOMAIN w = 1 .. Len(w) /\ DOMAIN r = 1 .. Len(r)
      OBVIOUS
<1>2. \A i \in 1 .. Len(r) : i + 1 \in 1 .. Len(w) /\ i + 1 # 1
      BY <1>1
<1>3. \A i \in 1 .. Len(w) : i # 1 => i - 1 \in 1 .. Len(r) /\ (i - 1) + 1 = i
      BY <1>1
<1>4. 1 \in 1 .. Len(w) /\ w[1] \in S
      BY <1>1
<1> HIDE DEF r
<1>5. ToSet(r) = ToSet(w) \ {Head(w)}
      <2>1. \A i \in 1 .. Len(r) : r[i] \in ToSet(w) /\ r[i] # w[1]
            BY <1>1, <1>2, <1>4 DEF ToSet, WaitsOnce
      <2>2. \A i \in 1 .. Len(w) : w[i] # w[1] => w[i] \in ToSet(r)
            <3> SUFFICES ASSUME NEW i \in 1 .. Len(w), w[i] # w[1]
                         PROVE  w[i] \in ToSet(r)
                OBVIOUS
            <3>1. i - 1 \in 1 .. Len(r) /\ r[i - 1] = w[i]
                  BY <1>1, <1>3
            <3> QED BY <1>1, <3>1 DEF ToSet
      <2> QED BY <1>1, <2>1, <2>2 DEF ToSet
<1>6. WaitsOnce(r)
      <2> SUFFICES ASSUME NEW i \in 1 .. Len(r), NEW j \in 1 .. Len(r), r[i] = r[j]
                   PROVE  i = j
          BY DEF WaitsOnce
      <2>1. i + 1 = j + 1
            BY <1>1, <1>2 DEF WaitsOnce
      <2> QED BY <2>1
<1>7. Head(w) \in ToSet(w) /\ Head(w) \in S
      BY <1>1, <1>4 DEF ToSet
<1>8. Len(w) = Len(r) + 1 /\ Len(r) \in Nat
      BY <1>1
<1> QED BY <1>5, <1>6, <1>7, <1>8 DEF r

LEMMA KeptOnce ==
    ASSUME NEW S, NEW w \in Seq(S), NEW T, WaitsOnce(w)
    PROVE  /\ WaitsOnce(Kept(w, T))
           /\ ToSet(Kept(w, T)) = ToSet(w) \cap T
           /\ Len(Kept(w, T)) <= Len(w) /\ Len(Kept(w, T)) \in Nat
<1> DEFINE r == Kept(w, T)
<1>1. r \in Seq(S) /\ Len(r) <= Len(w) /\ \E h : ComesFrom(w, T, Len(w), r, h)
      BY KeptElements, KeptSifts
<1>2. \A e : (\E k \in 1 .. Len(r) : r[k] = e) <=> e \in T /\ \E i \in 1 .. Len(w) : w[i] = e
      BY KeptElements
<1> HIDE DEF r
<1>3. Len(r) \in Nat /\ Len(w) \in Nat /\ DOMAIN r = 1 .. Len(r) /\ DOMAIN w = 1 .. Len(w)
      BY <1>1
<1>4. ToSet(r) = ToSet(w) \cap T
      BY <1>2, <1>3 DEF ToSet
<1>5. PICK h : ComesFrom(w, T, Len(w), r, h)
      BY <1>1
<1>6. WaitsOnce(r)
      <2> SUFFICES ASSUME NEW i \in 1 .. Len(r), NEW j \in 1 .. Len(r), r[i] = r[j], i # j
                   PROVE  FALSE
          BY DEF WaitsOnce
      <2>1. h[i] \in 1 .. Len(w) /\ h[j] \in 1 .. Len(w) /\ w[h[i]] = w[h[j]]
            BY <1>5 DEF ComesFrom
      <2>2. h[i] = h[j]
            BY <2>1 DEF WaitsOnce
      <2>3. i < j \/ j < i
            BY <1>3
      <2>4. h[i] < h[j] \/ h[j] < h[i]
            BY <1>5, <2>3 DEF ComesFrom
      <2>5. h[i] \in Int
            BY <2>1
      <2> QED BY <2>2, <2>4, <2>5
<1> QED BY <1>1, <1>3, <1>4, <1>6 DEF r

\* How the queue of clients grows.
LEMMA UnknownClientKeeps ==
    ASSUME ListenerInv, HandleUnknownClient
    PROVE  ListenerInv'
<1> DEFINE c == Head(queue).conn
           r == Tail(queue)
           e == [type |-> "adopt"]
<1>1. Dispatched("success") /\ sock' = sock
      BY DEF HandleUnknownClient
<1>2. TypeOK' /\ WaitsOnce(waiting) /\ Once(queue)
      BY OwnerTypes DEF ListenerInv, WaitInv
<1>3. /\ Grows(queue, r, {}) /\ c \in Conns /\ "success" \in Pending(c, queue)
      <2>1. "success" \in Types
            BY DEF Types
      <2> QED BY <1>1, <2>1, DispatchedEvent
<1>4. /\ unknown' = [unknown EXCEPT ![c] = NoUnknown]
      /\ unknown[c].ready /\ Live(c) => /\ waiting' = Append(waiting, c)
                                        /\ queue' = Append(r, e)
                                        /\ proxy' = [proxy EXCEPT ![c].heard = "listener"]
      /\ ~(unknown[c].ready /\ Live(c)) => queue' = r /\ UNCHANGED <<waiting, proxy>>
      BY DEF HandleUnknownClient
<1> HIDE DEF c, r
<1>5. /\ OneConn(sock[c], unknown[c], proxy[c], Pending(c, queue))
      /\ unknown \in [Conns -> Unknowns] /\ proxy \in [Conns -> Proxies]
      /\ proxy[c].heard = "listener" <=> c \in ToSet(waiting)
      /\ waiting \in Seq(Conns) /\ queue \in Seq(Event)
      BY <1>3, InvParts DEF ListenerInv, TypeOK
<1>6. unknown'[c] = NoUnknown /\ \A d \in Conns : d # c => unknown'[d] = unknown[d]
      BY <1>3, <1>4, <1>5
<1>7. sock[c] \notin {"none", "backlog", "accepting"}
      BY <1>3, <1>5 DEF OneConn
<1>8. CASE ~(unknown[c].ready /\ Live(c))
      <2>1. proxy[c].state = "none" \/ proxy[c].heard # "unknown"
            BY <1>3, <1>5, <1>8 DEF OneConn, Live
      <2>2. OneConn(sock[c], NoUnknown, proxy[c], Pending(c, queue))
            BY <1>5, <1>7, <2>1 DEF OneConn, NoUnknown
      <2>3. Pending(c, queue') \in SUBSET Pending(c, queue)
            BY <1>3, <1>4, <1>8 DEF Grows, Pending
      <2>4. OneConn(sock'[c], unknown'[c], proxy'[c], Pending(c, queue'))
            BY <1>1, <1>4, <1>6, <1>8, <2>2, <2>3, OneConnFewer
      <2>5. {Of(t, c) : t \in {}} = {}
            OBVIOUS
      <2>6. Touches(c, {})
            BY <1>1, <1>3, <1>4, <1>6, <1>8, <2>4, <2>5 DEF Touches
      <2> QED BY <1>2, <1>3, <2>6, TouchesKeeps
<1>9. CASE unknown[c].ready /\ Live(c)
      <2> DEFINE p == [proxy[c] EXCEPT !.heard = "listener"]
      <2>1. /\ waiting' = Append(waiting, c) /\ queue' = Append(r, e)
            /\ proxy' = [proxy EXCEPT ![c] = p]
            BY <1>4, <1>9
      <2>2. p.heard = "listener" /\ p.state = proxy[c].state /\ p.alarm = proxy[c].alarm
            BY <1>3, <1>5 DEF Proxies
      <2> HIDE DEF p
      <2>3. proxy'[c] = p /\ \A d \in Conns : d # c => proxy'[d] = proxy[d]
            BY <1>3, <1>5, <2>1
      <2>4. /\ proxy[c].heard = "unknown" /\ proxy[c].state # "none"
            /\ ~unknown[c].stream /\ ~unknown[c].hooks
            BY <1>5, <1>9 DEF OneConn, Live
      <2>5. OneConn(sock[c], NoUnknown, p, Pending(c, queue))
            BY <1>5, <1>7, <2>2, <2>4 DEF OneConn, NoUnknown
      <2>6. /\ r \in Seq(Event) /\ e \in Event /\ e \in Adopts
            /\ e.type \notin Answers
            BY <1>3, EventParts DEF Grows, Answers
      <2>7. /\ Grows(r, queue', {e})
            /\ Count(queue', Adopts) = Count(r, Adopts) + 1
            BY <2>1, <2>6, GrowsAppend
      <2>8. Grows(queue, queue', {e})
            <3>1. Grows(queue, queue', {} \cup {e})
                  BY <1>3, <1>5, <2>7, GrowsTwice
            <3>2. {} \cup {e} = {e}
                  OBVIOUS
            <3> QED BY <3>1, <3>2
      <2>9. \A t \in Types, d \in Conns : Of(t, d) # e
            <3>1. \A t \in Types, d \in Conns : Of(t, d).type \in Types
                  BY EventParts
            <3>2. e.type \notin Types
                  BY DEF Types
            <3> QED BY <3>1, <3>2
      <2>10. \A d \in Conns : Pending(d, queue') \in SUBSET Pending(d, queue)
             BY <2>8, <2>9 DEF Grows, Pending
      <2>11. ConnInv'
             <3>1. ASSUME NEW d \in Conns
                   PROVE  OneConn(sock'[d], unknown'[d], proxy'[d], Pending(d, queue'))
                   <4>1. Pending(d, queue') \in SUBSET Pending(d, queue)
                         BY <2>10
                   <4>2. CASE d = c
                         BY <1>1, <1>6, <2>3, <2>5, <4>1, <4>2, OneConnFewer
                   <4>3. CASE d # c
                         <5>1. OneConn(sock[d], unknown[d], proxy[d], Pending(d, queue))
                               BY InvParts
                         <5> QED BY <1>1, <1>6, <2>3, <4>1, <4>3, <5>1, OneConnFewer
                   <4> QED BY <4>2, <4>3
             <3> QED BY <3>1 DEF ConnInv
      <2>12. Once(queue)'
             BY <1>2, <2>8 DEF Grows, Once
      <2>13. /\ ToSet(waiting') = ToSet(waiting) \cup {c} /\ WaitsOnce(waiting')
             /\ Len(waiting') = Len(waiting) + 1
             BY <1>2, <1>3, <1>5, <2>1, <2>4, AppendElements
      <2>14. WaitInv'
             <3>1. \A d \in Conns : proxy'[d].heard = "listener" <=> d \in ToSet(waiting')
                   BY <2>2, <2>3, <2>13 DEF ListenerInv, WaitInv
             <3> QED BY <2>13, <3>1 DEF WaitInv, WaitsOnce
      <2>15. WaitingIsFetched'
             <3>1. Len(waiting) \in Nat /\ Len(waiting) <= Count(queue, Adopts)
                   BY <1>5 DEF ListenerInv, WaitingIsFetched, Adopts
             <3>2. Count(queue, Adopts) \in Nat /\ Count(r, Adopts) \in Nat
                   BY <1>5, <2>6, CountIsNumber
             <3>3. Count(queue, Adopts) <= Count(r, Adopts)
                   BY <1>3 DEF Grows
             <3>4. Len(waiting') <= Count(queue', Adopts)
                   BY <2>7, <2>13, <3>1, <3>2, <3>3
             <3> QED BY <3>4 DEF WaitingIsFetched, Adopts
      <2> QED BY <1>2, <2>11, <2>12, <2>14, <2>15 DEF ListenerInv
<1> QED BY <1>8, <1>9

\* A step that takes clients from the queue, whose events become no more.
LEMMA FewerWait ==
    ASSUME ListenerInv, TypeOK', NEW c \in Conns,
           queue' = Tail(queue), queue # <<>>,
           UNCHANGED <<sock, unknown>>,
           \A d \in Conns : d # c => proxy'[d] = proxy[d],
           OneConn(sock[c], unknown[c], proxy'[c], Pending(c, queue)),
           proxy'[c].heard # "listener",
           ToSet(waiting') = ToSet(waiting) \ {c}, WaitsOnce(waiting'),
           Len(waiting') <= Count(queue', Adopts)
    PROVE  ListenerInv'
<1>1. queue \in Seq(Event)
      BY DEF ListenerInv, TypeOK
<1>2. ToSet(queue') \subseteq ToSet(queue) /\ (Once(queue) => Once(Tail(queue)))
      BY <1>1, GrowsTail
<1>3. \A d \in Conns : Pending(d, queue') \in SUBSET Pending(d, queue)
      BY <1>2 DEF Pending
<1>4. ASSUME NEW d \in Conns
      PROVE  OneConn(sock'[d], unknown'[d], proxy'[d], Pending(d, queue'))
      <2>1. Pending(d, queue') \in SUBSET Pending(d, queue)
            BY <1>3
      <2>2. CASE d = c
            BY <2>1, <2>2, OneConnFewer
      <2>3. CASE d # c
            <3>1. OneConn(sock[d], unknown[d], proxy[d], Pending(d, queue))
                  BY InvParts
            <3> QED BY <2>1, <2>3, <3>1, OneConnFewer
      <2> QED BY <2>2, <2>3
<1>5. ConnInv'
      BY <1>4 DEF ConnInv
<1>6. Once(queue)'
      BY <1>2 DEF Once, ListenerInv
<1>7. WaitInv'
      <2>1. \A d \in Conns : proxy'[d].heard = "listener" <=> d \in ToSet(waiting')
            BY DEF ListenerInv, WaitInv
      <2> QED BY <2>1 DEF WaitInv, WaitsOnce
<1>8. WaitingIsFetched'
      BY DEF WaitingIsFetched, Adopts
<1> QED BY <1>5, <1>6, <1>7, <1>8 DEF ListenerInv

LEMMA ProxyDisconnectedKeeps ==
    ASSUME ListenerInv, NewsInv, HandleProxyDisconnected
    PROVE  ListenerInv'
<1> DEFINE c == Head(queue).conn
<1>1. Dispatched("disconnected") /\ sock' = sock /\ "disconnected" \in TypesOfProxy
      BY DEF HandleProxyDisconnected, TypesOfProxy
<1>2. TypeOK' /\ WaitsOnce(waiting)
      BY OwnerTypes DEF ListenerInv, WaitInv
<1>3. /\ Grows(queue, Tail(queue), {}) /\ c \in Conns /\ queue # <<>>
      <2>1. "disconnected" \in Types
            BY DEF Types
      <2> QED BY <1>1, <2>1, DispatchedEvent
<1>4. \/ /\ proxy[c].heard = "unknown"
         /\ SendFailure(c, Tail(queue)) /\ waiting' = waiting
      \/ /\ proxy[c].heard = "listener"
         /\ proxy' = [proxy EXCEPT ![c] = NoProxy]
         /\ waiting' = Kept(waiting, Conns \ {c})
         /\ queue' = Tail(queue) /\ unknown' = unknown
      \/ /\ proxy[c].heard = "server"
         /\ proxy' = [proxy EXCEPT ![c] = NoProxy]
         /\ queue' = Tail(queue)
         /\ UNCHANGED <<unknown, waiting>>
      \/ queue' = Tail(queue) /\ UNCHANGED <<unknown, proxy, waiting>>
      <2>1. proxy[c].heard \in {"unknown", "listener", "server", "none"}
            BY <1>3, InvParts DEF Proxies
      <2> QED BY <2>1 DEF HandleProxyDisconnected, DeleteProxy
<1> HIDE DEF c
<1>5. /\ OneConn(sock[c], unknown[c], proxy[c], Pending(c, queue))
      /\ proxy \in [Conns -> Proxies]
      /\ proxy[c].heard = "listener" <=> c \in ToSet(waiting)
      /\ waiting \in Seq(Conns) /\ queue \in Seq(Event)
      BY <1>3, InvParts DEF ListenerInv, TypeOK
<1>6. {} \in SUBSET Harmless /\ Grows(queue, Tail(queue), {Of(t, c) : t \in {}})
      <2>1. {Of(t, c) : t \in {}} = {}
            OBVIOUS
      <2> QED BY <1>3, <2>1
<1>7. CASE proxy[c].heard = "unknown" /\ SendFailure(c, Tail(queue)) /\ waiting' = waiting
      <2>1. unknown[c].there
            BY <1>1, <1>7, NewsHasUnknown DEF c
      <2> QED BY <1>1, <1>2, <1>3, <1>6, <1>7, <2>1, FailureKeeps
<1>8. CASE queue' = Tail(queue) /\ UNCHANGED <<unknown, proxy, waiting>>
      BY <1>1, <1>2, <1>3, <1>6, <1>8, HarmlessKeeps
<1>9. ASSUME proxy[c].heard \in {"listener", "server"}, proxy' = [proxy EXCEPT ![c] = NoProxy],
             queue' = Tail(queue), unknown' = unknown,
             \/ proxy[c].heard = "listener" /\ waiting' = Kept(waiting, Conns \ {c})
             \/ proxy[c].heard = "server" /\ waiting' = waiting
      PROVE  ListenerInv'
      <2>1. OneConn(sock[c], unknown[c], NoProxy, Pending(c, queue))
            BY <1>5, <1>9 DEF OneConn, NoProxy
      <2>2. proxy'[c] = NoProxy /\ (\A d \in Conns : d # c => proxy'[d] = proxy[d])
            BY <1>3, <1>5, <1>9
      <2>3. NoProxy.heard # "listener"
            BY DEF NoProxy
      <2>4. ToSet(waiting) \subseteq Conns
            BY <1>5 DEF ToSet
      <2>5. /\ ToSet(waiting') = ToSet(waiting) \ {c} /\ WaitsOnce(waiting')
            /\ Len(waiting') <= Len(waiting) /\ Len(waiting') \in Nat
            <3>1. CASE proxy[c].heard = "listener" /\ waiting' = Kept(waiting, Conns \ {c})
                  <4>1. /\ WaitsOnce(waiting') /\ ToSet(waiting') = ToSet(waiting) \cap (Conns \ {c})
                        /\ Len(waiting') <= Len(waiting) /\ Len(waiting') \in Nat
                        BY <1>2, <1>5, <3>1, KeptOnce
                  <4> QED BY <2>4, <4>1
            <3>2. CASE proxy[c].heard = "server" /\ waiting' = waiting
                  BY <1>2, <1>5, <3>2
            <3> QED BY <1>9, <3>1, <3>2
      <2>6. Len(waiting') <= Count(queue', Adopts)
            <3>1. Count(queue, Adopts) \in Nat
                  BY <1>5, CountIsNumber
            <3>2. Tail(queue) \in Seq(Event) /\ Count(Tail(queue), Adopts) >= Count(queue, Adopts)
                  BY <1>3 DEF Grows
            <3>3. Count(Tail(queue), Adopts) \in Nat
                  BY <3>2, CountIsNumber
            <3>4. Len(waiting) <= Count(queue, Adopts) /\ Len(waiting) \in Nat
                  BY <1>5 DEF ListenerInv, WaitingIsFetched, Adopts
            <3> QED BY <1>9, <2>5, <3>1, <3>2, <3>3, <3>4
      <2>7. OneConn(sock[c], unknown[c], proxy'[c], Pending(c, queue)) /\ proxy'[c].heard # "listener"
            BY <2>1, <2>2, <2>3
      <2> QED BY <1>1, <1>2, <1>3, <1>9, <2>2, <2>5, <2>6, <2>7, FewerWait
<1> QED BY <1>4, <1>7, <1>8, <1>9

LEMMA ClientConnectedKeeps ==
    ASSUME ListenerInv, HandleClientConnected
    PROVE  ListenerInv'
<1>1. /\ queue # <<>> /\ Head(queue).type = "adopt" /\ queue' = Tail(queue)
      /\ UNCHANGED <<sock, unknown>>
      BY DEF HandleClientConnected, Dispatched
<1>2. /\ TypeOK' /\ WaitsOnce(waiting) /\ waiting \in Seq(Conns) /\ queue \in Seq(Event)
      /\ proxy \in [Conns -> Proxies]
      /\ Len(waiting) <= Count(queue, Adopts)
      BY OwnerTypes DEF ListenerInv, WaitInv, TypeOK, WaitingIsFetched, Adopts
<1>3. Tail(queue) \in Seq(Event)
      BY <1>1, <1>2, GrowsTail
<1>4. /\ Count(queue, Adopts) \in Nat /\ Count(queue', Adopts) \in Nat
      /\ Count(queue, Adopts) <= Count(queue', Adopts) + 1
      <2>1. Count(queue, Adopts) \in Nat
            BY <1>2, CountIsNumber
      <2>2. Count(queue', Adopts) \in Nat
            BY <1>1, <1>3, CountIsNumber
      <2>3. \/ Count(queue, Adopts) = Count(queue', Adopts) + 1
            \/ Count(queue, Adopts) = Count(queue', Adopts)
            BY <1>1, <1>2, CountTail
      <2> QED BY <2>1, <2>2, <2>3
<1>5. CASE waiting = <<>>
      <2>1. waiting' = waiting /\ proxy' = proxy
            BY <1>5 DEF HandleClientConnected
      <2>2. ToSet(queue') \subseteq ToSet(queue) /\ (Once(queue) => Once(Tail(queue)))
            BY <1>1, <1>2, GrowsTail
      <2>3. ConnInv'
            <3>1. ASSUME NEW d \in Conns
                  PROVE  OneConn(sock'[d], unknown'[d], proxy'[d], Pending(d, queue'))
                  <4>1. Pending(d, queue') \in SUBSET Pending(d, queue)
                        BY <2>2 DEF Pending
                  <4>2. OneConn(sock[d], unknown[d], proxy[d], Pending(d, queue))
                        BY InvParts
                  <4> QED BY <1>1, <2>1, <4>1, <4>2, OneConnFewer
            <3> QED BY <3>1 DEF ConnInv
      <2>4. Once(queue)' /\ WaitInv'
            BY <1>1, <2>1, <2>2 DEF Once, ListenerInv, WaitInv, WaitsOnce
      <2>5. WaitingIsFetched'
            <3>1. Len(waiting') = 0
                  BY <1>5, <2>1
            <3> QED BY <1>4, <3>1 DEF WaitingIsFetched, Adopts
      <2> QED BY <1>2, <2>3, <2>4, <2>5 DEF ListenerInv
<1>6. CASE waiting # <<>>
      <2> DEFINE c == Head(waiting)
                 p == [proxy[c] EXCEPT !.heard = "server"]
      <2>1. waiting' = Tail(waiting) /\ proxy' = [proxy EXCEPT ![c] = p]
            BY <1>6 DEF HandleClientConnected
      <2>2. /\ ToSet(waiting') = ToSet(waiting) \ {c} /\ c \in ToSet(waiting) /\ c \in Conns
            /\ WaitsOnce(waiting')
            /\ Len(waiting) = Len(waiting') + 1 /\ Len(waiting') \in Nat
            BY <1>2, <1>6, <2>1, TailElements
      <2> HIDE DEF c
      <2>3. /\ OneConn(sock[c], unknown[c], proxy[c], Pending(c, queue))
            /\ proxy[c] \in Proxies /\ proxy[c].heard = "listener"
            BY <2>2, InvParts
      <2>4. p.heard = "server" /\ p.state = proxy[c].state /\ p.alarm = proxy[c].alarm
            BY <2>3 DEF Proxies
      <2> HIDE DEF p
      <2>5. OneConn(sock[c], unknown[c], p, Pending(c, queue))
            BY <2>3, <2>4 DEF OneConn
      <2>6. proxy'[c] = p /\ (\A d \in Conns : d # c => proxy'[d] = proxy[d])
            BY <1>2, <2>1, <2>2
      <2>7. Len(waiting') <= Count(queue', Adopts)
            BY <1>2, <1>4, <2>2
      <2>8. proxy'[c].heard # "listener"
            BY <2>4, <2>6
      <2> QED BY <1>1, <1>2, <2>2, <2>5, <2>6, <2>7, <2>8, FewerWait
<1> QED BY <1>5, <1>6

-----------------------------------------------------------------------------
(* The order of a connection's events.                                     *)

LEMMA BehindTail ==
    ASSUME NEW q \in Seq(Event), q # <<>>, NEW A, NEW B, Behind(q, A, B)
    PROVE  /\ Behind(Tail(q), A, B)
           /\ Head(q) \in A => \A e \in B : e \notin ToSet(Tail(q))
<1> DEFINE r == Tail(q)
<1>1. /\ Len(q) \in Nat /\ Len(q) >= 1 /\ Len(r) = Len(q) - 1 /\ Head(q) = q[1]
      /\ \A i \in 1 .. Len(r) : r[i] = q[i + 1]
      /\ DOMAIN r = 1 .. Len(r)
      OBVIOUS
<1>2. \A i \in 1 .. Len(r) : i + 1 \in 1 .. Len(q) /\ 1 < i + 1
      BY <1>1
<1>3. 1 \in 1 .. Len(q)
      BY <1>1
<1> HIDE DEF r
<1>4. Behind(r, A, B)
      <2> SUFFICES ASSUME NEW i \in 1 .. Len(r), NEW j \in 1 .. Len(r), i < j, r[i] \in A
                   PROVE  r[j] \notin B
          BY DEF Behind
      <2>1. i + 1 < j + 1
            OBVIOUS
      <2> QED BY <1>1, <1>2, <2>1 DEF Behind
<1>5. ASSUME Head(q) \in A, NEW e \in B PROVE e \notin ToSet(r)
      <2>1. \A i \in 1 .. Len(r) : r[i] \notin B
            BY <1>1, <1>2, <1>3, <1>5 DEF Behind
      <2> QED BY <1>1, <1>5, <2>1 DEF ToSet
<1> QED BY <1>4, <1>5 DEF r

LEMMA BehindAppend ==
    ASSUME NEW q \in Seq(Event), NEW e \in Event, NEW A, NEW B, Behind(q, A, B),
           e \notin B \/ \A a \in A : a \notin ToSet(q)
    PROVE  Behind(Append(q, e), A, B)
<1> DEFINE r == Append(q, e)
<1>1. /\ Len(q) \in Nat /\ Len(r) = Len(q) + 1 /\ r[Len(q) + 1] = e
      /\ \A i \in 1 .. Len(q) : r[i] = q[i]
      /\ DOMAIN q = 1 .. Len(q)
      OBVIOUS
<1>2. \A i \in 1 .. Len(q) : q[i] \in ToSet(q)
      BY <1>1 DEF ToSet
<1> HIDE DEF r
<1> SUFFICES ASSUME NEW i \in 1 .. Len(r), NEW j \in 1 .. Len(r), i < j, r[i] \in A
             PROVE  r[j] \notin B
    BY DEF Behind, r
<1>3. i \in 1 .. Len(q) /\ (j \in 1 .. Len(q) \/ j = Len(q) + 1)
      BY <1>1
<1>4. CASE j \in 1 .. Len(q)
      BY <1>1, <1>3, <1>4 DEF Behind
<1>5. CASE j = Len(q) + 1
      BY <1>1, <1>2, <1>3, <1>5
<1> QED BY <1>3, <1>4, <1>5

\* From q to q2 nothing is told of connection d.
Spares(q, q2, d) ==
    /\ q2 \in Seq(Event)
    /\ News(d, q2) \subseteq News(d, q)
    /\ \A p : OneOrder(p, q, d) => OneOrder(p, q2, d)

LEMMA SparesSame ==
    ASSUME NEW q \in Seq(Event), NEW d
    PROVE  Spares(q, q, d)
BY DEF Spares

LEMMA SparesTail ==
    ASSUME NEW q \in Seq(Event), q # <<>>, NEW d
    PROVE  Spares(q, Tail(q), d)
<1>1. Tail(q) \in Seq(Event) /\ ToSet(Tail(q)) \subseteq ToSet(q)
      BY GrowsTail
<1>2. \A A, B : Behind(q, A, B) => Behind(Tail(q), A, B)
      BY BehindTail
<1>3. \A p : OneOrder(p, q, d) => OneOrder(p, Tail(q), d)
      BY <1>2 DEF OneOrder
<1> QED BY <1>1, <1>3 DEF Spares, News

LEMMA SparesAppend ==
    ASSUME NEW q \in Seq(Event), NEW d, NEW e \in Event,
           \A t \in TypesOfProxy \cup Outcomes : e # Of(t, d)
    PROVE  Spares(q, Append(q, e), d)
<1>1. ToSet(Append(q, e)) \subseteq ToSet(q) \cup {e} /\ Append(q, e) \in Seq(Event)
      <2>1. DOMAIN Append(q, e) = 1 .. (Len(q) + 1) /\ DOMAIN q = 1 .. Len(q) /\ Len(q) \in Nat
            OBVIOUS
      <2>2. \A i \in 1 .. (Len(q) + 1) : Append(q, e)[i] = IF i = Len(q) + 1 THEN e ELSE q[i]
            OBVIOUS
      <2>3. \A i \in 1 .. (Len(q) + 1) : i # Len(q) + 1 => i \in 1 .. Len(q)
            BY <2>1
      <2>4. ToSet(Append(q, e)) \subseteq ToSet(q) \cup {e}
            BY <2>1, <2>2, <2>3 DEF ToSet
      <2> QED BY <2>4
<1>2. ASSUME NEW A, NEW B, B \subseteq {Of(t, d) : t \in TypesOfProxy}, Behind(q, A, B)
      PROVE  Behind(Append(q, e), A, B)
      <2>1. e \notin B
            BY <1>2
      <2> QED BY <1>2, <2>1, BehindAppend
<1>3. /\ {Of("ready", d)} \subseteq {Of(t, d) : t \in TypesOfProxy}
      /\ {Of(t, d) : t \in TypesOfProxy} \subseteq {Of(t, d) : t \in TypesOfProxy}
      BY DEF TypesOfProxy
<1>4. \A p : OneOrder(p, q, d) => OneOrder(p, Append(q, e), d)
      BY <1>2, <1>3 DEF OneOrder
<1> QED BY <1>1, <1>4 DEF Spares, News

LEMMA SparesTwice ==
    ASSUME NEW q, NEW q1, NEW q2, NEW d, Spares(q, q1, d), Spares(q1, q2, d)
    PROVE  Spares(q, q2, d)
BY DEF Spares

LEMMA ToldFewer ==
    ASSUME NEW s, NEW u, NEW p, NEW q, NEW q2, NEW d, Told(s, u, p, q, d), Spares(q, q2, d)
    PROVE  Told(s, u, p, q2, d)
BY DEF Told, Spares, OneNews

\* An event is one connection's.
LEMMA NotOthers ==
    ASSUME NEW q \in Seq(Event), NEW t \in Types, NEW c \in Conns, NEW d \in Conns, c # d
    PROVE  Spares(q, Append(q, Of(t, c)), d)
<1>1. Of(t, c) \in Event /\ \A k \in TypesOfProxy \cup Outcomes : Of(t, c) # Of(k, d)
      BY EventParts DEF Of
<1> QED BY <1>1, SparesAppend

\* An event that is neither an outcome nor its proxy's.
LEMMA NoNews ==
    ASSUME NEW q \in Seq(Event), NEW t \in Types \ (TypesOfProxy \cup Outcomes),
           NEW c \in Conns, NEW d \in Conns
    PROVE  Spares(q, Append(q, Of(t, c)), d)
<1>1. Of(t, c) \in Event /\ \A k \in TypesOfProxy \cup Outcomes : Of(t, c) # Of(k, d)
      BY EventParts DEF Of
<1> QED BY <1>1, SparesAppend

\* The step concerns c.
LEMMA ToldKeeps ==
    ASSUME NewsInv, NEW c \in Conns,
           \A d \in Conns : d # c =>
              /\ sock'[d] = sock[d] /\ unknown'[d] = unknown[d] /\ proxy'[d] = proxy[d]
              /\ Spares(queue, queue', d),
           Told(sock'[c], unknown'[c], proxy'[c], queue', c)
    PROVE  NewsInv'
<1>1. ASSUME NEW d \in Conns
      PROVE  Told(sock'[d], unknown'[d], proxy'[d], queue', d)
      <2>1. CASE d = c
            BY <2>1
      <2>2. CASE d # c
            <3>1. Told(sock[d], unknown[d], proxy[d], queue, d) /\ Spares(queue, queue', d)
                  BY <2>2 DEF NewsInv
            <3>2. Told(sock[d], unknown[d], proxy[d], queue', d)
                  BY <3>1, ToldFewer
            <3> QED BY <2>2, <3>2
      <2> QED BY <2>1, <2>2
<1> QED BY <1>1 DEF NewsInv

\* One more event is told of c.
LEMMA NewsAppend ==
    ASSUME NEW q \in Seq(Event), NEW c \in Conns, NEW t \in TypesOfProxy \cup Outcomes
    PROVE  /\ News(c, Append(q, Of(t, c))) \subseteq News(c, q) \cup {t}
           /\ Of(t, c) \in Event /\ Append(q, Of(t, c)) \in Seq(Event)
           /\ \A k \in TypesOfProxy \cup Outcomes : Of(k, c) \in ToSet(q) => k \in News(c, q)
<1>1. t \in Types
      BY DEF TypesOfProxy, Outcomes, Types
<1>2. Of(t, c) \in Event /\ \A k : k # t => Of(k, c) # Of(t, c)
      BY <1>1, EventParts DEF Of
<1>3. Append(q, Of(t, c)) \in Seq(Event)
      BY <1>2
<1>4. ToSet(Append(q, Of(t, c))) \subseteq ToSet(q) \cup {Of(t, c)}
      BY <1>2, AppendElements
<1>5. News(c, Append(q, Of(t, c))) \subseteq News(c, q) \cup {t}
      BY <1>2, <1>4 DEF News
<1> QED BY <1>2, <1>3, <1>5 DEF News

\* The proxy is ready.
LEMMA ToldReady ==
    ASSUME NEW q \in Seq(Event), NEW c \in Conns, NEW s, NEW u, NEW p, NEW p2,
           Told(s, u, p, q, c), s \notin {"none", "backlog", "accepting"}, ~u.hooks,
           p.state = "asked", p2.state = "ready", p2.heard = p.heard
    PROVE  Told(s, u, p2, Append(q, Of("ready", c)), c)
<1> DEFINE r == Append(q, Of("ready", c))
           N == News(c, q)
           M == News(c, r)
<1>1. "ready" \in TypesOfProxy \cup Outcomes
      BY DEF TypesOfProxy
<1>2. /\ M \subseteq N \cup {"ready"} /\ Of("ready", c) \in Event
      /\ \A k \in TypesOfProxy \cup Outcomes : Of(k, c) \in ToSet(q) => k \in N
      BY <1>1, NewsAppend
<1>3. OneNews(s, u, p, N) /\ OneOrder(p, q, c)
      BY DEF Told
<1>4. u.timer /\ "ready" \notin N /\ "disconnected" \notin N
      BY <1>3 DEF OneNews, TypesOfProxy
<1>5. Of("ready", c) \notin ToSet(q) /\ Of("disconnected", c) \notin ToSet(q)
      BY <1>2, <1>4 DEF TypesOfProxy
<1>6. Behind(r, {Of("ready", c)}, {Of("ready", c)})
      BY <1>2, <1>3, <1>5, BehindAppend DEF OneOrder
<1>7. Behind(r, {Of("disconnected", c)}, {Of(t, c) : t \in TypesOfProxy})
      BY <1>2, <1>3, <1>5, BehindAppend DEF OneOrder
<1> HIDE DEF r, N, M
<1>8. OneNews(s, u, p2, M)
      BY <1>2, <1>3, <1>4 DEF OneNews, TypesOfProxy, Outcomes
<1> QED BY <1>6, <1>7, <1>8 DEF Told, OneOrder, M, r

\* The proxy disconnects.
LEMMA ToldDisconnect ==
    ASSUME NEW q \in Seq(Event), NEW c \in Conns, NEW s, NEW s2, NEW u, NEW p, NEW p2,
           Told(s, u, p, q, c), s2 \notin {"none", "backlog", "accepting"}, ~u.hooks,
           p.state \in {"asked", "ready"}, p2.state = "closing", p2.heard = p.heard
    PROVE  Told(s2, u, p2, Append(q, Of("disconnected", c)), c)
<1> DEFINE r == Append(q, Of("disconnected", c))
           N == News(c, q)
           M == News(c, r)
<1>1. "disconnected" \in TypesOfProxy \cup Outcomes
      BY DEF TypesOfProxy
<1>2. /\ M \subseteq N \cup {"disconnected"} /\ Of("disconnected", c) \in Event
      /\ \A k \in TypesOfProxy \cup Outcomes : Of(k, c) \in ToSet(q) => k \in N
      BY <1>1, NewsAppend
<1>3. OneNews(s, u, p, N) /\ OneOrder(p, q, c)
      BY DEF Told
<1>4. "disconnected" \notin N
      BY <1>3 DEF OneNews, TypesOfProxy
<1>5. Of("disconnected", c) \notin ToSet(q) /\ Of("disconnected", c) # Of("ready", c)
      BY <1>2, <1>4 DEF TypesOfProxy, Of
<1>6. Behind(r, {Of("ready", c)}, {Of("ready", c)})
      BY <1>2, <1>3, <1>5, BehindAppend DEF OneOrder
<1>7. Behind(r, {Of("disconnected", c)}, {Of(t, c) : t \in TypesOfProxy})
      BY <1>2, <1>3, <1>5, BehindAppend DEF OneOrder
<1> HIDE DEF r, N, M
<1>8. OneNews(s2, u, p2, M)
      BY <1>2, <1>3, <1>4 DEF OneNews, TypesOfProxy, Outcomes
<1> QED BY <1>6, <1>7, <1>8 DEF Told, OneOrder, M, r

\* The handshake fails, and its proxy dies.
LEMMA ToldFailure ==
    ASSUME NEW q \in Seq(Event), NEW c \in Conns, NEW s, NEW u, NEW u2, NEW p, NEW p2,
           Told(s, u, p, q, c), s \notin {"none", "backlog", "accepting"},
           u2.there, ~u2.timer, ~u2.hooks,
           p2.state = "none", p2.heard = p.heard,
           \/ p.state = "none"
           \/ News(c, q) \cap Outcomes = {}
           \/ News(c, q) \cap TypesOfProxy = {}
    PROVE  Told(s, u2, p2, Append(q, Of("failure", c)), c)
<1> DEFINE r == Append(q, Of("failure", c))
           N == News(c, q)
           M == News(c, r)
           A == {Of(t, c) : t \in Outcomes}
           B == {Of(t, c) : t \in TypesOfProxy}
<1>1. "failure" \in TypesOfProxy \cup Outcomes
      BY DEF Outcomes
<1>2. /\ M \subseteq N \cup {"failure"} /\ Of("failure", c) \in Event
      /\ \A k \in TypesOfProxy \cup Outcomes : Of(k, c) \in ToSet(q) => k \in N
      BY <1>1, NewsAppend
<1>3. OneNews(s, u, p, N) /\ OneOrder(p, q, c)
      BY DEF Told
<1>4. Of("failure", c) \notin B /\ Of("ready", c) \in B
      BY DEF TypesOfProxy, Of
<1>5. Behind(r, {Of("ready", c)}, {Of("ready", c)})
      BY <1>2, <1>3, <1>4, BehindAppend DEF OneOrder
<1>6. Behind(r, {Of("disconnected", c)}, B)
      BY <1>2, <1>3, <1>4, BehindAppend DEF OneOrder
<1>7. DOMAIN q = 1 .. Len(q)
      OBVIOUS
<1>8. ASSUME p2.heard = "unknown" PROVE Behind(r, A, B)
      <2>1. Behind(q, A, B)
            <3>1. CASE p.state = "none"
                  BY <1>3, <1>8, <3>1 DEF OneOrder
            <3>2. CASE N \cap Outcomes = {}
                  <4>1. \A e \in A : e \notin ToSet(q)
                        BY <1>2, <3>2
                  <4> QED BY <1>7, <4>1 DEF Behind, ToSet
            <3>3. CASE N \cap TypesOfProxy = {}
                  <4>1. \A e \in B : e \notin ToSet(q)
                        BY <1>2, <3>3
                  <4> QED BY <1>7, <4>1 DEF Behind, ToSet
            <3> QED BY <3>1, <3>2, <3>3
      <2> QED BY <1>2, <1>4, <2>1, BehindAppend
<1> HIDE DEF r, N, M
<1>9. OneNews(s, u2, p2, M)
      BY <1>2, <1>3 DEF OneNews, TypesOfProxy, Outcomes
<1> QED BY <1>5, <1>6, <1>8, <1>9 DEF Told, OneOrder, M, r

\* The handshake succeeds, or is thought to.
LEMMA ToldSuccess ==
    ASSUME NEW q \in Seq(Event), NEW c \in Conns, NEW s, NEW u, NEW u2, NEW p,
           Told(s, u, p, q, c), s \notin {"none", "backlog", "accepting"},
           u2.there, ~u2.timer, ~u2.hooks, p.state # "asked", "ready" \notin News(c, q)
    PROVE  Told(s, u2, p, Append(q, Of("success", c)), c)
<1> DEFINE r == Append(q, Of("success", c))
           N == News(c, q)
           M == News(c, r)
           A == {Of(t, c) : t \in Outcomes}
           B == {Of(t, c) : t \in TypesOfProxy}
<1>1. "success" \in TypesOfProxy \cup Outcomes
      BY DEF Outcomes
<1>2. /\ M \subseteq N \cup {"success"} /\ Of("success", c) \in Event
      BY <1>1, NewsAppend
<1>3. OneNews(s, u, p, N) /\ OneOrder(p, q, c)
      BY DEF Told
<1>4. Of("success", c) \notin B /\ Of("success", c) # Of("ready", c)
      BY DEF TypesOfProxy, Of
<1>5. \A X, Y : Behind(q, X, Y) /\ Of("success", c) \notin Y => Behind(r, X, Y)
      BY <1>2, BehindAppend
<1>6. OneOrder(p, r, c)
      BY <1>3, <1>4, <1>5 DEF OneOrder
<1> HIDE DEF r, N, M
<1>7. OneNews(s, u2, p, M)
      BY <1>2, <1>3 DEF OneNews, TypesOfProxy, Outcomes, N
<1> QED BY <1>6, <1>7 DEF Told, M, r

-----------------------------------------------------------------------------
(* Each action tells of its connection's proxy in order.                   *)

LEMMA ToldParts ==
    ASSUME ListenerInv, NewsInv, NEW c \in Conns
    PROVE  /\ OneConn(sock[c], unknown[c], proxy[c], Pending(c, queue))
           /\ Told(sock[c], unknown[c], proxy[c], queue, c)
           /\ OneNews(sock[c], unknown[c], proxy[c], News(c, queue))
           /\ OneOrder(proxy[c], queue, c)
           /\ unknown[c] \in Unknowns /\ proxy[c] \in Proxies
           /\ unknown \in [Conns -> Unknowns] /\ proxy \in [Conns -> Proxies]
           /\ DOMAIN sock = Conns /\ queue \in Seq(Event)
BY DEF ListenerInv, ConnInv, NewsInv, TypeOK, Told

\* The event that is dispatched leaves the queue.
LEMMA TookHead ==
    ASSUME ListenerInv, NewsInv, NEW type, Dispatched(type)
    PROVE  /\ queue # <<>> /\ queue \in Seq(Event) /\ Tail(queue) \in Seq(Event)
           /\ \A d \in Conns : Spares(queue, Tail(queue), d)
           /\ type \in Types => /\ Head(queue).conn \in Conns
                                /\ Head(queue) = Of(type, Head(queue).conn)
<1>1. queue # <<>> /\ queue \in Seq(Event) /\ Head(queue).type = type
      BY DEF ListenerInv, TypeOK, Dispatched
<1>2. Tail(queue) \in Seq(Event) /\ Head(queue) \in Event
      BY <1>1, GrowsTail
<1>3. \A d \in Conns : Spares(queue, Tail(queue), d)
      BY <1>1, SparesTail
<1> QED BY <1>1, <1>2, <1>3, EventParts

\* From q on, the proxy of c may tell something and the filter that its input ended.
LEMMA SparesMore ==
    ASSUME NEW q, NEW q1, NEW c \in Conns, NEW t \in Types, NEW d \in Conns,
           Spares(q, q1, d), d # c \/ t \notin TypesOfProxy \cup Outcomes
    PROVE  Spares(q, Append(q1, Of(t, c)), d)
<1>1. q1 \in Seq(Event)
      BY DEF Spares
<1>2. Spares(q1, Append(q1, Of(t, c)), d)
      BY <1>1, NotOthers, NoNews
<1> QED BY <1>2, SparesTwice

LEMMA SparesEnded ==
    ASSUME NEW q, NEW q1, NEW c \in Conns, NEW d \in Conns, Spares(q, q1, d), NEW box
    PROVE  Spares(q, q1 \o ShutdownSeen(c, box), d)
<1>1. q1 \in Seq(Event) /\ "ended" \in Types /\ "ended" \notin TypesOfProxy \cup Outcomes
      BY DEF Spares, Types, TypesOfProxy, Outcomes
<1>2. Spares(q, Append(q1, Of("ended", c)), d)
      BY <1>1, SparesMore
<1>3. q1 \o ShutdownSeen(c, box) \in {q1, Append(q1, Of("ended", c))}
      BY <1>1, ShutdownSeenTypes
<1> QED BY <1>2, <1>3

LEMMA AcceptTells ==
    ASSUME ListenerInv, NewsInv,
           \/ HandleClientConnecting \/ HandleClientAccepted
           \/ HandleDisconnectedOnAccept \/ (\E c \in Conns : SecureAccept(c))
    PROVE  NewsInv'
<1>a. "accepted" \in Types \ (TypesOfProxy \cup Outcomes)
      BY DEF Types, TypesOfProxy, Outcomes
<1>b. "refused" \in Types \ (TypesOfProxy \cup Outcomes)
      BY DEF Types, TypesOfProxy, Outcomes
<1>1. CASE HandleClientConnecting
      <2>1. Dispatched("connecting") /\ UNCHANGED <<unknown, proxy>>
            BY <1>1 DEF HandleClientConnecting
      <2>2. PICK c \in Conns : /\ sock[c] = "backlog"
                               /\ sock' = [sock EXCEPT ![c] = "accepting"]
                               /\ queue' = Tail(queue) \o IF Secure THEN <<>> ELSE <<Of("accepted", c)>>
            BY <1>1 DEF HandleClientConnecting
      <2>3. Tail(queue) \in Seq(Event) /\ \A d \in Conns : Spares(queue, Tail(queue), d)
            BY <2>1, TookHead
      <2>4. queue' = Tail(queue) \/ queue' = Append(Tail(queue), Of("accepted", c))
            BY <1>a, <2>2, <2>3, AppendsEvent
      <2>5. \A d \in Conns : Spares(queue, queue', d)
            BY <1>a, <2>3, <2>4, SparesMore
      <2>6. Told(sock[c], unknown[c], proxy[c], queue', c) /\ DOMAIN sock = Conns
            BY <2>5, ToldParts, ToldFewer
      <2>7. Told("accepting", unknown[c], proxy[c], queue', c)
            BY <2>2, <2>6 DEF Told, OneNews
      <2>8. sock'[c] = "accepting" /\ \A d \in Conns : d # c => sock'[d] = sock[d]
            BY <2>2, <2>6
      <2> QED BY <2>1, <2>5, <2>7, <2>8, ToldKeeps
<1>2. ASSUME NEW c \in Conns, SecureAccept(c) PROVE NewsInv'
      <2>1. /\ UNCHANGED <<sock, unknown, proxy>> /\ queue \in Seq(Event)
            /\ queue' = Append(queue, Of("accepted", c)) \/ queue' = Append(queue, Of("refused", c))
            BY <1>2 DEF SecureAccept, ListenerInv, TypeOK
      <2>2. \A d \in Conns : Spares(queue, queue', d)
            BY <1>a, <1>b, <2>1, NoNews
      <2>3. Told(sock[c], unknown[c], proxy[c], queue', c)
            BY <2>2, ToldParts, ToldFewer
      <2> QED BY <2>1, <2>2, <2>3, ToldKeeps
<1>3. CASE HandleClientAccepted \/ HandleDisconnectedOnAccept
      <2> DEFINE c == Head(queue).conn
      <2>1. PICK type \in Answers : Dispatched(type)
            BY <1>3 DEF HandleClientAccepted, HandleDisconnectedOnAccept, Answers
      <2>2. type \in Types /\ type # "adopt"
            BY DEF Answers, Types
      <2>3. c \in Conns /\ \A d \in Conns : Spares(queue, Tail(queue), d)
            BY <2>1, <2>2, TookHead
      <2>4. type \in Pending(c, queue)
            BY <2>1, <2>2, DispatchedEvent
      <2>5. queue' = Tail(queue) /\ proxy' = proxy
            BY <1>3 DEF HandleClientAccepted, HandleDisconnectedOnAccept
      <2>6. \/ /\ sock' = [sock EXCEPT ![c] = "open"]
               /\ unknown' = [unknown EXCEPT ![c] =
                    [there |-> TRUE, timer |-> TRUE, ready |-> FALSE,
                     stream |-> TRUE, hooks |-> TRUE]]
            \/ sock' = [sock EXCEPT ![c] = "deleted"] /\ unknown' = unknown
            BY <1>3 DEF HandleClientAccepted, HandleDisconnectedOnAccept
      <2> HIDE DEF c
      <2>7. /\ OneConn(sock[c], unknown[c], proxy[c], Pending(c, queue))
            /\ OneNews(sock[c], unknown[c], proxy[c], News(c, queue)) /\ OneOrder(proxy[c], queue, c)
            /\ unknown \in [Conns -> Unknowns] /\ DOMAIN sock = Conns
            BY <2>3, ToldParts
      <2>8. sock[c] = "accepting" /\ unknown[c] = NoUnknown /\ proxy[c] = NoProxy
            BY <2>4, <2>7 DEF OneConn
      <2>9. News(c, queue') = {} /\ OneOrder(proxy[c], queue', c)
            BY <2>3, <2>5, <2>7, <2>8 DEF Spares, OneNews
      <2>10. \A d \in Conns : d # c => sock'[d] = sock[d] /\ unknown'[d] = unknown[d]
             BY <2>6, <2>7
      <2>11. \/ unknown'[c] = [there |-> TRUE, timer |-> TRUE, ready |-> FALSE,
                               stream |-> TRUE, hooks |-> TRUE]
             \/ unknown'[c] = NoUnknown
             BY <2>3, <2>6, <2>7, <2>8
      <2>12. Told(sock'[c], unknown'[c], proxy'[c], queue', c)
             <3>1. OneNews(sock'[c], unknown'[c], NoProxy, {})
                   BY <2>11 DEF OneNews, NoUnknown, NoProxy
             <3> QED BY <2>5, <2>8, <2>9, <3>1 DEF Told
      <2> QED BY <2>3, <2>5, <2>10, <2>12, ToldKeeps
<1> QED BY <1>1, <1>2, <1>3

\* The handshake fails by its timer, by its input, or for its proxy's disconnection.
LEMMA FailureTells ==
    ASSUME ListenerInv, NewsInv, NEW c \in Conns, NEW q,
           \A d \in Conns : Spares(queue, q, d), SendFailure(c, q), sock' = sock,
           unknown[c].there,
           \/ proxy[c].state = "none"
           \/ News(c, q) \cap Outcomes = {}
           \/ News(c, q) \cap TypesOfProxy = {}
    PROVE  NewsInv'
<1> DEFINE u == [unknown[c] EXCEPT !.timer = FALSE, !.ready = FALSE, !.hooks = FALSE]
           p == [NoProxy EXCEPT !.heard = proxy[c].heard]
<1>1. /\ unknown' = [unknown EXCEPT ![c] = u] /\ proxy' = [proxy EXCEPT ![c] = p]
      /\ queue' = Append(q, Of("failure", c))
      BY DEF SendFailure
<1>2. /\ OneConn(sock[c], unknown[c], proxy[c], Pending(c, queue))
      /\ Told(sock[c], unknown[c], proxy[c], q, c)
      /\ unknown[c] \in Unknowns /\ unknown \in [Conns -> Unknowns] /\ proxy \in [Conns -> Proxies]
      BY ToldParts, ToldFewer
<1>3. u.there /\ ~u.timer /\ ~u.hooks /\ p.state = "none" /\ p.heard = proxy[c].heard
      BY <1>2 DEF Unknowns, NoProxy
<1>4. sock[c] \notin {"none", "backlog", "accepting"} /\ q \in Seq(Event) /\ "failure" \in Types
      BY <1>2 DEF OneConn, NoUnknown, Spares, Types
<1> HIDE DEF u, p
<1>5. Told(sock[c], u, p, queue', c)
      BY <1>1, <1>2, <1>3, <1>4, ToldFailure
<1>6. unknown'[c] = u /\ proxy'[c] = p
      /\ \A d \in Conns : d # c => unknown'[d] = unknown[d] /\ proxy'[d] = proxy[d]
      BY <1>1, <1>2
<1>7. \A d \in Conns : d # c => Spares(queue, queue', d)
      BY <1>1, <1>4, SparesMore
<1> QED BY <1>5, <1>6, <1>7, ToldKeeps

\* A proxy disconnects once.  The proxy p1 may have become ready in this step.
LEMMA DisconnectTells ==
    ASSUME ListenerInv, NewsInv, NEW c \in Conns, NEW q, NEW p1 \in Proxies,
           q \in Seq(Event), \A d \in Conns : d # c => Spares(queue, q, d),
           p1.state \in {"asked", "ready"}, p1.heard = proxy[c].heard, proxy[c].state # "none",
           Told(sock[c], unknown[c], p1, q, c), Disconnect(c, q), unknown' = unknown
    PROVE  NewsInv'
<1> DEFINE p == [proxy[c] EXCEPT !.state = "closing", !.alarm = FALSE]
<1>1. /\ sock' = [sock EXCEPT ![c] = "closed"] /\ proxy' = [proxy EXCEPT ![c] = p]
      /\ queue' = Append(q, Of("disconnected", c))
      BY DEF Disconnect
<1>2. /\ OneConn(sock[c], unknown[c], proxy[c], Pending(c, queue))
      /\ proxy[c] \in Proxies /\ proxy \in [Conns -> Proxies] /\ DOMAIN sock = Conns
      BY ToldParts
<1>3. p.state = "closing" /\ p.heard = p1.heard
      BY <1>2 DEF Proxies
<1>4. ~unknown[c].hooks /\ "disconnected" \in Types
      BY <1>2 DEF OneConn, Types
<1> HIDE DEF p
<1>5. Told("closed", unknown[c], p, queue', c)
      BY <1>1, <1>3, <1>4, ToldDisconnect
<1>6. /\ sock'[c] = "closed" /\ proxy'[c] = p
      /\ \A d \in Conns : d # c => sock'[d] = sock[d] /\ proxy'[d] = proxy[d]
      BY <1>1, <1>2
<1>7. \A d \in Conns : d # c => Spares(queue, queue', d)
      BY <1>1, <1>4, SparesMore
<1> QED BY <1>5, <1>6, <1>7, ToldKeeps

LEMMA GreetingTells ==
    ASSUME ListenerInv, NewsInv, NEW c \in Conns, NEW f, NEW q,
           \A d \in Conns : Spares(queue, q, d), HandleGreeting(c, f, q), unknown[c].hooks
    PROVE  NewsInv'
<1> DEFINE q2 == q \o ShutdownSeen(c, Tail(f.box))
<1>1. /\ OneConn(sock[c], unknown[c], proxy[c], Pending(c, queue))
      /\ unknown[c] \in Unknowns /\ unknown \in [Conns -> Unknowns] /\ proxy \in [Conns -> Proxies]
      BY ToldParts
<1>2. \A d \in Conns : Spares(queue, q2, d)
      BY SparesEnded
<1>3. sock' = sock /\ proxy[c].state = "none" /\ unknown[c].there
      /\ sock[c] \in {"open", "closed"}
      BY <1>1 DEF HandleGreeting, OneConn
<1>4. Told(sock[c], unknown[c], proxy[c], q2, c)
      BY <1>2, ToldParts, ToldFewer
<1> HIDE DEF q2
<1>5. CASE f.box[1] = "hello"
      <2> DEFINE p == [state |-> "asked", alarm |-> FALSE, heard |-> "unknown"]
                 u == [unknown[c] EXCEPT !.hooks = FALSE, !.stream = FALSE]
      <2>1. /\ proxy' = [proxy EXCEPT ![c] = p] /\ unknown' = [unknown EXCEPT ![c] = u]
            /\ queue' = q2
            BY <1>5 DEF HandleGreeting, q2
      <2>2. ~u.hooks /\ u.there /\ u.timer = unknown[c].timer /\ p.state = "asked"
            BY <1>1, <1>3 DEF Unknowns
      <2>3. /\ proxy'[c] = p /\ unknown'[c] = u
            /\ \A d \in Conns : d # c => unknown'[d] = unknown[d] /\ proxy'[d] = proxy[d]
            BY <1>1, <2>1
      <2> HIDE DEF p, u
      <2>4. Told(sock[c], u, p, q2, c)
            BY <1>3, <1>4, <2>2 DEF Told, OneNews, OneOrder
      <2> QED BY <1>2, <1>3, <2>1, <2>3, <2>4, ToldKeeps
<1>6. CASE f.box[1] # "hello"
      <2>1. SendFailure(c, q2)
            BY <1>6 DEF HandleGreeting, q2
      <2> QED BY <1>2, <1>3, <2>1, FailureTells
<1> QED BY <1>5, <1>6

LEMMA MessagesTell ==
    ASSUME ListenerInv, NewsInv, NEW c \in Conns, NEW f, NEW q,
           \A d \in Conns : Spares(queue, q, d), HandleMessages(c, f, q), Attached(c)
    PROVE  NewsInv'
<1> DEFINE asked == proxy[c].state = "asked"
           bad == "bad" \in ToSet(f.box)
           ready == asked /\ f.box[1] = "info"
           q2 == q \o (IF ready THEN <<Of("ready", c)>> ELSE <<>>)
           p1 == [state |-> IF ready THEN "ready" ELSE proxy[c].state, alarm |-> TRUE,
                  heard |-> proxy[c].heard]
<1>1. /\ OneConn(sock[c], unknown[c], proxy[c], Pending(c, queue))
      /\ proxy[c] \in Proxies /\ proxy \in [Conns -> Proxies]
      /\ Told(sock[c], unknown[c], proxy[c], q, c)
      BY ToldParts, ToldFewer
<1>2. /\ proxy[c].state \in {"asked", "ready"} /\ ~unknown[c].hooks
      /\ sock[c] \in {"open", "closed"} /\ q \in Seq(Event) /\ "ready" \in Types
      BY <1>1 DEF Attached, OneConn, Spares, Types
<1>3. ready => q2 = Append(q, Of("ready", c))
      BY <1>2, AppendsEvent
<1>4. ~ready => q2 = q
      BY <1>2, AppendsEvent
<1>5. p1 \in Proxies /\ p1.state \in {"asked", "ready"} /\ p1.heard = proxy[c].heard
      BY <1>1, <1>2 DEF Proxies
<1>6. Told(sock[c], unknown[c], p1, q2, c)
      <2>1. CASE ready
            <3>1. proxy[c].state = "asked" /\ p1.state = "ready"
                  BY <2>1
            <3> HIDE DEF p1
            <3> QED BY <1>1, <1>2, <1>3, <1>5, <2>1, <3>1, ToldReady
      <2>2. CASE ~ready
            <3>1. p1.state = proxy[c].state
                  BY <2>2
            <3> HIDE DEF p1
            <3> QED BY <1>1, <1>4, <1>5, <2>2, <3>1 DEF Told, OneNews, OneOrder
      <2> QED BY <2>1, <2>2
<1>7. q2 \in Seq(Event) /\ \A d \in Conns : d # c => Spares(queue, q2, d)
      <2>1. \A d \in Conns : d # c => Spares(queue, Append(q, Of("ready", c)), d)
            BY <1>2, SparesMore
      <2>2. q2 \in Seq(Event)
            BY <1>2, <1>3, <1>4, AppendsEvent
      <2> QED BY <1>3, <1>4, <2>1, <2>2
<1>8. CASE bad /\ (ready \/ ~asked)
      <2>1. Disconnect(c, q2) /\ unknown' = unknown
            BY <1>8 DEF HandleMessages
      <2> HIDE DEF q2, p1
      <2> QED BY <1>2, <1>5, <1>6, <1>7, <2>1, DisconnectTells
<1>9. CASE ~(bad /\ (ready \/ ~asked))
      <2>1. /\ proxy' = [proxy EXCEPT ![c] = p1]
            /\ queue' = q2 \o ShutdownSeen(c, <<>>)
            /\ sock' = sock /\ unknown' = unknown
            BY <1>1, <1>9 DEF HandleMessages
      <2> HIDE DEF q2, p1
      <2>2. proxy'[c] = p1 /\ \A d \in Conns : d # c => proxy'[d] = proxy[d]
            BY <1>1, <2>1
      <2>3. \A d \in Conns : d # c => Spares(queue, queue', d)
            BY <1>7, <2>1, SparesEnded
      <2>4. Spares(q2, queue', c)
            BY <1>7, <2>1, SparesSame, SparesEnded
      <2>5. Told(sock[c], unknown[c], p1, queue', c)
            BY <1>6, <2>4, ToldFewer
      <2> QED BY <2>1, <2>2, <2>3, <2>5, ToldKeeps
<1> QED BY <1>8, <1>9

\* Nothing is told and no client changes.
LEMMA NothingTold ==
    ASSUME ListenerInv, NewsInv, UNCHANGED <<sock, unknown, proxy>>,
           \A d \in Conns : Spares(queue, queue', d)
    PROVE  NewsInv'
BY ToldFewer DEF NewsInv

LEMMA InputTells ==
    ASSUME ListenerInv, NewsInv, HandleInput \/ HandleShutdown
    PROVE  NewsInv'
<1> DEFINE c == Head(queue).conn
           f == Arrived(c)
<1>1. PICK type \in {"input", "shutdown", "ended"} : Dispatched(type)
      BY DEF HandleInput, HandleShutdown
<1>2. /\ c \in Conns /\ Tail(queue) \in Seq(Event)
      /\ \A d \in Conns : Spares(queue, Tail(queue), d)
      <2>1. type \in Types
            BY DEF Types
      <2> QED BY <1>1, <2>1, TookHead
<1>3. \/ Attached(c) /\ HandleMessages(c, f, Tail(queue))
      \/ unknown[c].hooks /\ HandleGreeting(c, f, Tail(queue))
      \/ queue' = Tail(queue) /\ UNCHANGED <<sock, unknown, proxy>>
      \/ Attached(c) /\ Disconnect(c, Tail(queue)) /\ UNCHANGED unknown
      \/ unknown[c].hooks /\ SendFailure(c, Tail(queue)) /\ sock' = sock
      BY DEF HandleInput, HandleShutdown, Arrived
<1> HIDE DEF c, f
<1>4. CASE Attached(c) /\ HandleMessages(c, f, Tail(queue))
      BY <1>2, <1>4, MessagesTell
<1>5. CASE unknown[c].hooks /\ HandleGreeting(c, f, Tail(queue))
      BY <1>2, <1>5, GreetingTells
<1>6. CASE queue' = Tail(queue) /\ UNCHANGED <<sock, unknown, proxy>>
      BY <1>2, <1>6, NothingTold
<1>7. CASE Attached(c) /\ Disconnect(c, Tail(queue)) /\ UNCHANGED unknown
      <2>1. proxy[c] \in Proxies /\ Told(sock[c], unknown[c], proxy[c], Tail(queue), c)
            BY <1>2, ToldParts, ToldFewer
      <2>2. proxy[c].state \in {"asked", "ready"}
            BY <1>7 DEF Attached
      <2> QED BY <1>2, <1>7, <2>1, <2>2, DisconnectTells
<1>8. CASE unknown[c].hooks /\ SendFailure(c, Tail(queue)) /\ sock' = sock
      <2>1. unknown[c].there /\ proxy[c].state = "none"
            BY <1>2, <1>8, ToldParts DEF OneConn
      <2> QED BY <1>2, <1>8, <2>1, FailureTells
<1> QED BY <1>3, <1>4, <1>5, <1>6, <1>7, <1>8

LEMMA TimersTell ==
    ASSUME ListenerInv, NewsInv, NEW c \in Conns, Timers(c)
    PROVE  NewsInv'
<1>1. /\ OneConn(sock[c], unknown[c], proxy[c], Pending(c, queue))
      /\ Told(sock[c], unknown[c], proxy[c], queue, c)
      /\ OneNews(sock[c], unknown[c], proxy[c], News(c, queue))
      /\ proxy[c] \in Proxies /\ proxy \in [Conns -> Proxies] /\ queue \in Seq(Event)
      BY ToldParts
<1>2. \A d \in Conns : Spares(queue, queue, d)
      BY <1>1, SparesSame
<1>3. CASE HandleTimeout(c)
      <2>1. unknown[c].there /\ News(c, queue) \cap Outcomes = {}
            BY <1>1, <1>3 DEF HandleTimeout, OneConn, OneNews
      <2> QED BY <1>2, <1>3, <2>1, FailureTells DEF HandleTimeout
<1>4. CASE HandleFlatline(c)
      <2>1. proxy[c].alarm /\ Disconnect(c, queue) /\ unknown' = unknown
            BY <1>4 DEF HandleFlatline
      <2>2. proxy[c].state \in {"asked", "ready"}
            BY <1>1, <2>1 DEF OneConn
      <2> QED BY <1>1, <1>2, <2>1, <2>2, DisconnectTells
<1>5. CASE HandleClientCloseTimeout(c)
      <2>1. /\ proxy' = [proxy EXCEPT ![c] = NoProxy]
            /\ UNCHANGED <<sock, unknown, queue>> /\ proxy[c].heard = "server"
            BY <1>5 DEF HandleClientCloseTimeout, DeleteProxy
      <2>2. proxy'[c] = NoProxy /\ \A d \in Conns : d # c => proxy'[d] = proxy[d]
            BY <1>1, <2>1
      <2>3. Told(sock[c], unknown[c], NoProxy, queue, c)
            BY <1>1 DEF Told, OneNews, OneOrder, NoProxy
      <2> QED BY <1>2, <2>1, <2>2, <2>3, ToldKeeps
<1> QED BY <1>3, <1>4, <1>5 DEF Timers

LEMMA ClientTells ==
    ASSUME ListenerInv, NewsInv, NEW c \in Conns,
           Dial(c) \/ HangUp(c) \/ \E m \in Sayable(said[c]) : Says(c, m)
    PROVE  NewsInv'
<1>1. queue \in Seq(Event) /\ DOMAIN sock = Conns /\ Told(sock[c], unknown[c], proxy[c], queue, c)
      BY ToldParts
<1>2. \A t \in {"shutdown", "input"} : t \in Types \ (TypesOfProxy \cup Outcomes)
      BY DEF Types, TypesOfProxy, Outcomes
<1>3. \A d \in Conns : /\ Spares(queue, queue, d)
                       /\ Spares(queue, Append(queue, Of("shutdown", c)), d)
                       /\ Spares(queue, Append(queue, Of("input", c)), d)
      BY <1>1, <1>2, SparesSame, NoNews
<1>4. CASE Dial(c)
      <2>1. /\ sock[c] = "none" /\ sock' = [sock EXCEPT ![c] = "backlog"]
            /\ queue' = Append(queue, [type |-> "connecting"])
            /\ UNCHANGED <<unknown, proxy>>
            BY <1>4 DEF Dial
      <2>2. [type |-> "connecting"].type \notin Types
            BY DEF Types
      <2>3. \A t \in TypesOfProxy \cup Outcomes, d \in Conns : [type |-> "connecting"] # Of(t, d)
            <3>1. TypesOfProxy \cup Outcomes \subseteq Types
                  BY DEF Types, TypesOfProxy, Outcomes
            <3> QED BY <2>2, <3>1, EventParts
      <2>4. \A d \in Conns : Spares(queue, queue', d)
            BY <1>1, <2>1, <2>3, EventParts, SparesAppend
      <2>5. Told(sock[c], unknown[c], proxy[c], queue', c)
            BY <1>1, <2>4, ToldFewer
      <2>6. Told("backlog", unknown[c], proxy[c], queue', c)
            BY <2>1, <2>5 DEF Told, OneNews
      <2>7. sock'[c] = "backlog" /\ \A d \in Conns : d # c => sock'[d] = sock[d]
            BY <1>1, <2>1
      <2> QED BY <2>1, <2>4, <2>6, <2>7, ToldKeeps
<1>5. CASE HangUp(c)
      BY <1>3, <1>5, NothingTold DEF HangUp
<1>6. ASSUME NEW m \in Sayable(said[c]), Says(c, m) PROVE NewsInv'
      BY <1>3, <1>6, NothingTold DEF Says
<1> QED BY <1>4, <1>5, <1>6

LEMMA ReadyTells ==
    ASSUME ListenerInv, NewsInv, HandleReady
    PROVE  NewsInv'
<1> DEFINE c == Head(queue).conn
           q == Tail(queue)
<1>1. Dispatched("ready") /\ sock' = sock /\ "ready" \in Types /\ "ready" \in TypesOfProxy
      BY DEF HandleReady, Types, TypesOfProxy
<1>2. /\ c \in Conns /\ queue # <<>> /\ queue \in Seq(Event) /\ q \in Seq(Event)
      /\ Head(queue) = Of("ready", c)
      /\ \A d \in Conns : Spares(queue, q, d)
      BY <1>1, TookHead
<1>3. \/ proxy[c].heard = "unknown" /\ SendSuccess(c, q)
      \/ queue' = q /\ UNCHANGED <<unknown, proxy>>
      BY DEF HandleReady
<1>4. proxy[c].heard = "unknown" => unknown[c].there
      BY <1>1, NewsHasUnknown
<1>5. ToSet(q) \subseteq ToSet(queue) /\ Head(queue) \in ToSet(queue)
      BY <1>2, GrowsTail
<1> HIDE DEF c
<1>6. /\ OneConn(sock[c], unknown[c], proxy[c], Pending(c, queue))
      /\ OneNews(sock[c], unknown[c], proxy[c], News(c, queue)) /\ OneOrder(proxy[c], queue, c)
      /\ Told(sock[c], unknown[c], proxy[c], q, c)
      /\ unknown[c] \in Unknowns /\ unknown \in [Conns -> Unknowns]
      BY <1>2, ToldParts, ToldFewer
<1>7. "ready" \in News(c, queue) /\ "ready" \notin News(c, q)
      <2>1. Of("ready", c) \in ToSet(queue)
            BY <1>2, <1>5
      <2>2. Of("ready", c) \notin ToSet(q)
            BY <1>2, <1>6, BehindTail DEF OneOrder
      <2> QED BY <2>1, <2>2 DEF News, TypesOfProxy
<1>8. CASE proxy[c].heard = "unknown" /\ SendSuccess(c, q)
      <2> DEFINE u == [unknown[c] EXCEPT !.timer = FALSE, !.ready = TRUE]
      <2>1. /\ unknown' = [unknown EXCEPT ![c] = u] /\ proxy' = proxy
            /\ queue' = Append(q, Of("success", c))
            BY <1>8 DEF SendSuccess
      <2>2. ~u.timer /\ u.there /\ u.hooks = unknown[c].hooks
            BY <1>4, <1>6, <1>8 DEF Unknowns
      <2>3. unknown'[c] = u /\ \A d \in Conns : d # c => unknown'[d] = unknown[d]
            BY <1>2, <1>6, <2>1
      <2> HIDE DEF u
      <2>4. sock[c] \notin {"none", "backlog", "accepting"} /\ ~u.hooks /\ proxy[c].state # "asked"
            BY <1>6, <1>7, <2>2 DEF OneNews, TypesOfProxy
      <2>5. Told(sock[c], u, proxy[c], queue', c)
            BY <1>2, <1>6, <1>7, <2>1, <2>2, <2>4, ToldSuccess
      <2>6. \A d \in Conns : d # c => Spares(queue, queue', d)
            BY <1>1, <1>2, <2>1, SparesMore DEF Types
      <2> QED BY <1>1, <1>2, <2>1, <2>3, <2>5, <2>6, ToldKeeps
<1>9. CASE queue' = q /\ UNCHANGED <<unknown, proxy>>
      BY <1>1, <1>2, <1>9, NothingTold
<1> QED BY <1>3, <1>8, <1>9

\* The outcome of a handshake deletes the unknown client: its timer is stopped, and
\* when the handshake had failed its proxy has nothing to tell any more.
LEMMA OutcomeFound ==
    ASSUME ListenerInv, NewsInv, NEW t \in Outcomes, Dispatched(t)
    PROVE  LET c == Head(queue).conn
           IN /\ c \in Conns /\ \A d \in Conns : Spares(queue, Tail(queue), d)
              /\ \A s : s \notin {"none", "backlog", "accepting"} =>
                    Told(s, NoUnknown, proxy[c], Tail(queue), c)
              /\ proxy[c].heard = "unknown" =>
                    Told(sock[c], NoUnknown, [proxy[c] EXCEPT !.heard = "listener"], Tail(queue), c)
              /\ sock[c] \notin {"none", "backlog", "accepting"}
<1> DEFINE c == Head(queue).conn
           q == Tail(queue)
           p == [proxy[c] EXCEPT !.heard = "listener"]
<1>1. t \in Types
      BY DEF Types, Outcomes
<1>2. /\ c \in Conns /\ queue # <<>> /\ queue \in Seq(Event) /\ q \in Seq(Event)
      /\ Head(queue) = Of(t, c)
      /\ \A d \in Conns : Spares(queue, q, d)
      BY <1>1, TookHead
<1>3. Head(queue) \in ToSet(queue)
      BY <1>2, GrowsTail
<1> HIDE DEF c
<1>4. /\ OneNews(sock[c], unknown[c], proxy[c], News(c, queue)) /\ OneOrder(proxy[c], queue, c)
      /\ OneNews(sock[c], unknown[c], proxy[c], News(c, q)) /\ OneOrder(proxy[c], q, c)
      /\ proxy[c] \in Proxies
      BY <1>2, ToldParts, ToldFewer DEF Told
<1>5. t \in News(c, queue)
      BY <1>2, <1>3 DEF News
<1>6. ~unknown[c].timer /\ sock[c] \notin {"none", "backlog", "accepting"}
      BY <1>4, <1>5 DEF OneNews
<1>7. ASSUME proxy[c].state = "none", proxy[c].heard = "unknown"
      PROVE  News(c, q) \cap TypesOfProxy = {}
      <2> DEFINE A == {Of(k, c) : k \in Outcomes}
                 B == {Of(k, c) : k \in TypesOfProxy}
      <2>1. Behind(queue, A, B) /\ Head(queue) \in A
            BY <1>2, <1>4, <1>7 DEF OneOrder
      <2>2. \A e \in B : e \notin ToSet(q)
            <3> HIDE DEF A, B
            <3> QED BY <1>2, <2>1, BehindTail
      <2> QED BY <2>2 DEF News
<1>8. ASSUME NEW s, s \notin {"none", "backlog", "accepting"}
      PROVE  Told(s, NoUnknown, proxy[c], q, c)
      <2>1. OneNews(s, NoUnknown, proxy[c], News(c, q))
            BY <1>4, <1>6, <1>7, <1>8 DEF OneNews, NoUnknown
      <2> QED BY <1>4, <2>1 DEF Told
<1>9. p.heard = "listener" /\ p.state = proxy[c].state
      BY <1>4 DEF Proxies
<1> HIDE DEF p
<1>10. Told(sock[c], NoUnknown, p, q, c)
       <2>1. OneNews(sock[c], NoUnknown, p, News(c, q))
             BY <1>4, <1>6, <1>9 DEF OneNews, NoUnknown
       <2>2. OneOrder(p, q, c)
             BY <1>4, <1>9 DEF OneOrder
       <2> QED BY <2>1, <2>2 DEF Told
<1> QED BY <1>2, <1>6, <1>8, <1>10 DEF c, p

LEMMA OutcomeTells ==
    ASSUME ListenerInv, NewsInv, HandleUnknownClient \/ HandleUnknownFailure
    PROVE  NewsInv'
<1> DEFINE c == Head(queue).conn
           q == Tail(queue)
           e == [type |-> "adopt"]
           p == [proxy[c] EXCEPT !.heard = "listener"]
<1>1. PICK t \in Outcomes : Dispatched(t)
      BY DEF HandleUnknownClient, HandleUnknownFailure, Outcomes
<1>2. /\ c \in Conns /\ \A d \in Conns : Spares(queue, q, d)
      /\ \A s : s \notin {"none", "backlog", "accepting"} => Told(s, NoUnknown, proxy[c], q, c)
      /\ proxy[c].heard = "unknown" => Told(sock[c], NoUnknown, p, q, c)
      /\ sock[c] \notin {"none", "backlog", "accepting"}
      BY <1>1, OutcomeFound
<1>3. /\ unknown' = [unknown EXCEPT ![c] = NoUnknown]
      /\ \/ queue' = q /\ sock' = sock /\ proxy' = proxy
         \/ /\ queue' = q /\ proxy' = proxy
            /\ sock' = [sock EXCEPT ![c] = IF unknown[c].stream THEN "deleted" ELSE sock[c]]
         \/ /\ queue' = Append(q, e) /\ sock' = sock /\ unknown[c].ready
            /\ proxy' = [proxy EXCEPT ![c] = p]
      BY DEF HandleUnknownClient, HandleUnknownFailure
<1> HIDE DEF c, q, p
<1>4. /\ unknown \in [Conns -> Unknowns] /\ proxy \in [Conns -> Proxies] /\ DOMAIN sock = Conns
      /\ OneConn(sock[c], unknown[c], proxy[c], Pending(c, queue))
      BY <1>2, ToldParts
<1>5. unknown'[c] = NoUnknown /\ \A d \in Conns : d # c => unknown'[d] = unknown[d]
      BY <1>2, <1>3, <1>4
<1>6. CASE queue' = q /\ sock' = sock /\ proxy' = proxy
      BY <1>2, <1>5, <1>6, ToldKeeps
<1>7. CASE /\ queue' = q /\ proxy' = proxy
           /\ sock' = [sock EXCEPT ![c] = IF unknown[c].stream THEN "deleted" ELSE sock[c]]
      <2>1. sock'[c] \notin {"none", "backlog", "accepting"} /\ \A d \in Conns : d # c => sock'[d] = sock[d]
            BY <1>2, <1>4, <1>7
      <2> QED BY <1>2, <1>5, <1>7, <2>1, ToldKeeps
<1>8. CASE /\ queue' = Append(q, e) /\ sock' = sock /\ unknown[c].ready
           /\ proxy' = [proxy EXCEPT ![c] = p]
      <2>1. proxy'[c] = p /\ \A d \in Conns : d # c => proxy'[d] = proxy[d]
            BY <1>2, <1>4, <1>8
      <2>2. Told(sock[c], NoUnknown, p, q, c)
            BY <1>2, <1>4, <1>8 DEF OneConn
      <2>3. \A k \in TypesOfProxy \cup Outcomes, d \in Conns : e # Of(k, d)
            <3>1. TypesOfProxy \cup Outcomes \subseteq Types /\ e.type \notin Types
                  BY DEF Types, TypesOfProxy, Outcomes
            <3> QED BY <3>1, EventParts
      <2>4. \A d \in Conns : Spares(q, queue', d)
            <3>1. q \in Seq(Event)
                  BY <1>2 DEF Spares
            <3> QED BY <1>8, <2>3, <3>1, EventParts, SparesAppend
      <2>5. \A d \in Conns : Spares(queue, queue', d)
            BY <1>2, <2>4, SparesTwice
      <2>6. Told(sock[c], NoUnknown, p, queue', c)
            BY <1>2, <2>2, <2>4, ToldFewer
      <2> QED BY <1>2, <1>5, <1>8, <2>1, <2>5, <2>6, ToldKeeps
<1> QED BY <1>3, <1>6, <1>7, <1>8

LEMMA OwnerTells ==
    ASSUME ListenerInv, NewsInv, HandleProxyDisconnected \/ HandleClientConnected
    PROVE  NewsInv'
<1>1. CASE HandleProxyDisconnected
      <2> DEFINE c == Head(queue).conn
                 q == Tail(queue)
      <2>1. Dispatched("disconnected") /\ sock' = sock /\ "disconnected" \in Types
            /\ "disconnected" \in TypesOfProxy
            BY <1>1 DEF HandleProxyDisconnected, Types, TypesOfProxy
      <2>2. /\ c \in Conns /\ queue # <<>> /\ queue \in Seq(Event) /\ q \in Seq(Event)
            /\ Head(queue) = Of("disconnected", c)
            /\ \A d \in Conns : Spares(queue, q, d)
            BY <2>1, TookHead
      <2>3. \/ proxy[c].heard = "unknown" /\ SendFailure(c, q)
            \/ /\ proxy' = [proxy EXCEPT ![c] = NoProxy]
               /\ queue' = q /\ unknown' = unknown
            \/ queue' = q /\ UNCHANGED <<unknown, proxy>>
            <3>1. proxy[c].heard \in {"unknown", "listener", "server", "none"}
                  BY <2>2, ToldParts DEF Proxies
            <3> QED BY <1>1, <3>1 DEF HandleProxyDisconnected, DeleteProxy
      <2>4. proxy[c].heard = "unknown" => unknown[c].there
            BY <2>1, NewsHasUnknown
      <2> HIDE DEF c
      <2>5. /\ OneOrder(proxy[c], queue, c) /\ proxy \in [Conns -> Proxies]
            /\ Told(sock[c], unknown[c], proxy[c], q, c)
            BY <2>2, ToldParts, ToldFewer
      <2>6. CASE proxy[c].heard = "unknown" /\ SendFailure(c, q)
            <3> DEFINE B == {Of(k, c) : k \in TypesOfProxy}
            <3>1. Behind(queue, {Of("disconnected", c)}, B)
                  BY <2>5 DEF OneOrder
            <3>2. \A e \in B : e \notin ToSet(q)
                  <4> HIDE DEF B
                  <4> QED BY <2>2, <3>1, BehindTail
            <3>3. News(c, q) \cap TypesOfProxy = {}
                  BY <3>2 DEF News
            <3> QED BY <2>1, <2>2, <2>4, <2>6, <3>3, FailureTells
      <2>7. CASE proxy' = [proxy EXCEPT ![c] = NoProxy] /\ queue' = q /\ unknown' = unknown
            <3>1. proxy'[c] = NoProxy /\ \A d \in Conns : d # c => proxy'[d] = proxy[d]
                  BY <2>2, <2>5, <2>7
            <3>2. Told(sock[c], unknown[c], NoProxy, q, c)
                  BY <2>5 DEF Told, OneNews, OneOrder, NoProxy
            <3> QED BY <2>1, <2>2, <2>7, <3>1, <3>2, ToldKeeps
      <2>8. CASE queue' = q /\ UNCHANGED <<unknown, proxy>>
            BY <2>1, <2>2, <2>8, NothingTold
      <2> QED BY <2>3, <2>6, <2>7, <2>8
<1>2. CASE HandleClientConnected
      <2> DEFINE c == Head(waiting)
                 p == [proxy[c] EXCEPT !.heard = "server"]
                 q == Tail(queue)
      <2>1. Dispatched("adopt") /\ queue' = q /\ UNCHANGED <<sock, unknown>>
            BY <1>2 DEF HandleClientConnected
      <2>2. \A d \in Conns : Spares(queue, q, d)
            BY <2>1, TookHead
      <2>3. CASE waiting = <<>>
            <3>1. proxy' = proxy
                  BY <1>2, <2>3 DEF HandleClientConnected
            <3> QED BY <2>1, <2>2, <3>1, NothingTold
      <2>4. CASE waiting # <<>>
            <3>1. proxy' = [proxy EXCEPT ![c] = p]
                  BY <1>2, <2>4 DEF HandleClientConnected
            <3>2. waiting \in Seq(Conns) /\ WaitsOnce(waiting)
                  BY DEF ListenerInv, WaitInv, TypeOK
            <3>3. c \in Conns /\ c \in ToSet(waiting)
                  BY <2>4, <3>2, TailElements
            <3> HIDE DEF c
            <3>4. /\ proxy[c].heard = "listener" /\ proxy[c] \in Proxies
                  /\ Told(sock[c], unknown[c], proxy[c], q, c)
                  /\ proxy \in [Conns -> Proxies]
                  BY <2>2, <3>3, ToldParts, ToldFewer DEF ListenerInv, WaitInv
            <3>5. p.heard = "server" /\ p.state = proxy[c].state
                  BY <3>4 DEF Proxies
            <3> HIDE DEF p
            <3>6. Told(sock[c], unknown[c], p, q, c)
                  BY <3>4, <3>5 DEF Told, OneNews, OneOrder
            <3>7. proxy'[c] = p /\ \A d \in Conns : d # c => proxy'[d] = proxy[d]
                  BY <3>1, <3>3, <3>4
            <3> QED BY <2>1, <2>2, <3>3, <3>6, <3>7, ToldKeeps
      <2> QED BY <2>3, <2>4
<1> QED BY <1>1, <1>2


LEMMA InvInit == Init => ListenerInv
<1> SUFFICES ASSUME Init PROVE ListenerInv
    OBVIOUS
<1>1. ToSet(<<>>) = {}
      BY DEF ToSet
<1>2. \A c \in Conns : Pending(c, queue) = {}
      BY <1>1 DEF Pending, Init
<1>3. \A c \in Conns : OneConn(sock[c], unknown[c], proxy[c], Pending(c, queue))
      BY <1>2 DEF Init, OneConn, NoUnknown, NoProxy
<1>4. Once(queue) /\ WaitsOnce(waiting)
      BY DEF Init, Once, WaitsOnce
<1>5. \A c \in Conns : proxy[c].heard = "listener" <=> c \in ToSet(waiting)
      BY <1>1 DEF Init, NoProxy
<1>6. WaitingIsFetched
      <2>1. Len(waiting) = 0 /\ queue \in Seq(Event)
            BY DEF Init
      <2>2. Count(queue, [type: {"adopt"}]) \in Nat
            BY <2>1, CountIsNumber
      <2> QED BY <2>1, <2>2 DEF WaitingIsFetched
<1> QED BY <1>3, <1>4, <1>5, <1>6, TypeInit DEF ListenerInv, ConnInv, WaitInv

LEMMA InvStep == ListenerInv /\ NewsInv /\ [Next]_vars => ListenerInv'
<1> SUFFICES ASSUME ListenerInv, NewsInv, [Next]_vars PROVE ListenerInv'
    OBVIOUS
<1>1. CASE Dispatch
      BY <1>1, AcceptKeeps, InputKeeps, ShutdownKeeps, ReadyKeeps, UnknownClientKeeps,
         UnknownFailureKeeps, ProxyDisconnectedKeeps, ClientConnectedKeeps DEF Dispatch
<1>2. ASSUME NEW c \in Conns, Timers(c) \/ Client(c) PROVE ListenerInv'
      BY <1>2, AcceptKeeps, TimersKeep, ClientKeeps DEF Client
<1>3. CASE UNCHANGED vars
      BY <1>3 DEF vars, ListenerInv, TypeOK, ConnInv, Pending, Once, WaitInv, WaitsOnce,
                  WaitingIsFetched
<1> QED BY <1>1, <1>2, <1>3 DEF Next

LEMMA NewsInit == Init => NewsInv
<1> SUFFICES ASSUME Init, NEW c \in Conns
             PROVE  Told(sock[c], unknown[c], proxy[c], queue, c)
    BY DEF NewsInv
<1>1. queue = <<>> /\ unknown[c] = NoUnknown /\ proxy[c] = NoProxy
      BY DEF Init
<1>2. News(c, queue) = {}
      BY <1>1 DEF News, ToSet
<1>3. \A A, B : Behind(queue, A, B)
      BY <1>1 DEF Behind
<1> QED BY <1>1, <1>2, <1>3 DEF Told, OneNews, OneOrder, NoUnknown, NoProxy

LEMMA NewsStep == ListenerInv /\ NewsInv /\ [Next]_vars => NewsInv'
<1> SUFFICES ASSUME ListenerInv, NewsInv, [Next]_vars PROVE NewsInv'
    OBVIOUS
<1>1. CASE Dispatch
      BY <1>1, AcceptTells, InputTells, ReadyTells, OutcomeTells, OwnerTells DEF Dispatch
<1>2. ASSUME NEW c \in Conns, Timers(c) \/ Client(c) PROVE NewsInv'
      BY <1>2, AcceptTells, TimersTell, ClientTells DEF Client
<1>3. CASE UNCHANGED vars
      BY <1>3 DEF vars, NewsInv
<1> QED BY <1>1, <1>2, <1>3 DEF Next

LEMMA InvAlways == Spec => [](ListenerInv /\ NewsInv)
<1>1. QED BY InvInit, InvStep, NewsInit, NewsStep, PTL DEF Spec

\* A socket is there, open or closed, as long as its connection is greeted or has a
\* client: neither a failure that is fetched late, nor a client that hung up while
\* it was accepted, releases a socket that is in use.
THEOREM SocketsOutlive == Spec => []SocketOutlivesUsers
<1>1. ListenerInv => SocketOutlivesUsers
      BY DEF ListenerInv, ConnInv, OneConn, SocketOutlivesUsers, Live
<1> QED BY <1>1, InvAlways, PTL

\* Each proxy has one owner that hears when it disconnects, from the greeting over
\* the listener's queue to the server, in whatever order its events are fetched.
THEOREM DisconnectionsAreHeard == Spec => []DisconnectionIsHeard
<1>1. ListenerInv /\ NewsInv => DisconnectionIsHeard
      <2> SUFFICES ASSUME ListenerInv, NewsInv, NEW c \in Conns
                   PROVE  /\ Live(c) => proxy[c].heard # "none"
                          /\ proxy[c].heard = "unknown" /\ (Live(c) \/ ProxyHasNews(c)) => unknown[c].there
                          /\ proxy[c].heard \in {"listener", "server"} => Live(c) /\ ~unknown[c].there
                          /\ proxy[c].heard = "listener" <=> c \in ToSet(waiting)
          BY DEF DisconnectionIsHeard
      <2>1. /\ OneConn(sock[c], unknown[c], proxy[c], Pending(c, queue))
            /\ OneNews(sock[c], unknown[c], proxy[c], News(c, queue))
            /\ proxy[c].heard = "listener" <=> c \in ToSet(waiting)
            BY ToldParts DEF ListenerInv, WaitInv
      <2>2. ProxyHasNews(c) => News(c, queue) \cap TypesOfProxy # {}
            BY DEF ProxyHasNews, News, TypesOfProxy, ToSet
      <2> QED BY <2>1, <2>2 DEF OneConn, OneNews, Live
<1> QED BY <1>1, InvAlways, PTL

\* For each client that waits in the listener's queue there is an event on its way
\* that fetches one.
THEOREM WaitingAreFetched == Spec => []WaitingIsFetched
<1>1. ListenerInv => WaitingIsFetched
      BY DEF ListenerInv
<1> QED BY <1>1, InvAlways, PTL
=============================================================================
