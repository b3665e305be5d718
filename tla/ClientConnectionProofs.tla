----------------------- MODULE ClientConnectionProofs -----------------------
(***************************************************************************)
(* The invariants of ClientConnection for any servers, any bounds and any   *)
(* number of connections, one after the other.                              *)
(*                                                                          *)
(* What ties them together is the order of the event queue: the events left *)
(* for a stream that is gone stand before those of the stream that takes    *)
(* its place.                                                               *)
(***************************************************************************)
EXTENDS ClientConnection, SiftingProofs, SequenceTheorems, TLAPS

\* what answers an attempt to connect
Dials == {e \in Event : e.to = "socket" /\ e.type \in {"connected", "failed"}}
Fresh == {e \in Event : ~e.old}
ToFilter == {e \in Event : e.to = "filter"}
Chances == AppEvents \ {ToApp("connected")}

\* A stream has the handlers of one of its two phases.  The first ends with its
\* timer or before it, and a server is talked to in the second only.
HooksFit(c) ==
  /\ c.stream => c.hooks \in {{"connecting"}, {"connection"}}
  /\ ~c.stream => c.hooks = {} /\ ~c.timer
  /\ c.hooks = {"connecting"} => c.timer
  /\ c.proxy => c.hooks = {"connection"} /\ ~c.timer
  /\ c.ready => c.proxy
  /\ c.suspended => ~c.stream

\* Without a stream there is nothing to read, and only a stream dials, which a hasty
\* one may still do when it has heard the answer to another.
BuffersFit(c, f, s) ==
  /\ ~c.stream => f.box = <<>>
  /\ s.net = "dialing" => c.stream /\ (c.hooks = {"connecting"} \/ c.hasty)

\* The old events of streams come before the others.
OldComeFirst(q) ==
  \A i, j \in 1 .. Len(q) :
    i < j /\ q[j] \notin Fresh /\ q[i].to # "app" => q[i] \notin Fresh

\* A stream hears at most one answer to its attempt, its own, and none of the
\* events left from before once it is connected.
DialsFit(c, s, q) ==
  /\ \A i \in 1 .. Len(q) : q[i] \in Dials \cap Fresh =>
       /\ c.hooks = {"connecting"} /\ s.net # "dialing"
       /\ \A j \in 1 .. Len(q) : q[j] \in Dials \cap Fresh => i = j
  /\ c.hooks = {"connecting"} \/ (c.suspended /\ c.connectOnResume) =>
       \A i \in 1 .. Len(q) : q[i] \in Dials => q[i] \in Fresh
  /\ c.hooks = {"connection"} => \A i \in 1 .. Len(q) : q[i] \in Fresh

\* ... if it was not begun in haste.  Without a stream there is no answer to one.
OwnDials(c, s, q) ==
  /\ ~c.stream => \A i \in 1 .. Len(q) : q[i] \notin Dials \cap Fresh
  /\ ~c.hasty => DialsFit(c, s, q)

\* NeverStuck and NoMessageForgotten, of given values
Going(c, a, q) ==
  IF c.stream
  THEN c.timer \/ c.alarm \/ InQueue(q, GiveUps)
  ELSE \/ a.retries > 0 \/ InQueue(q, Chances)
       \/ c.suspended /\ c.connectOnResume

Remembered(c, f, q) == f.box # <<>> => InQueue(q, ToFilter) \/ c.timer

\* Whether the user is shown a connection when the news in q has been told.
WillShow(q, gui) ==
  \/ NewsUnderWay(q)
  \/ gui = "connected" /\ ~InQueue(q, {ToApp("connected"), ToApp("disconnected")})

NewsFits(c, a, q) ==
  /\ c.ready => WillShow(q, a.gui)
  /\ c.stream /\ ~c.ready /\ WillShow(q, a.gui) => a.late

Fits(c, a, f, s, q) ==
  /\ HooksFit(c)
  /\ BuffersFit(c, f, s)
  /\ OldComeFirst(q)
  /\ OwnDials(c, s, q)
  /\ Going(c, a, q)
  /\ Remembered(c, f, q)
  /\ NewsFits(c, a, q)

ConnectionInv == Fits(client, app, filter, server, queue)

-----------------------------------------------------------------------------
(* The event queue.                                                          *)

\* The head and the tail of a queue.
LEMMA Heads ==
    ASSUME NEW S, NEW q \in Seq(S), q # <<>>
    PROVE  /\ Head(q) \in S /\ Tail(q) \in Seq(S)
           /\ Len(q) \in Nat /\ Len(q) >= 1 /\ Len(Tail(q)) = Len(q) - 1
           /\ 1 \in 1 .. Len(q) /\ q[1] = Head(q)
           /\ \A i \in 1 .. Len(Tail(q)) : i + 1 \in 1 .. Len(q) /\ Tail(q)[i] = q[i + 1]
           /\ \A i \in 1 .. Len(q) : i # 1 => i - 1 \in 1 .. Len(Tail(q))
                                              /\ Tail(q)[i - 1] = q[i]
OBVIOUS

\* InQueue by positions.
LEMMA InQueueAt ==
    ASSUME NEW q \in Seq(Event), NEW E
    PROVE  InQueue(q, E) <=> \E i \in 1 .. Len(q) : q[i] \in E
<1>1. DOMAIN q = 1 .. Len(q)
      OBVIOUS
<1> QED BY <1>1 DEF InQueue

LEMMA NewsAt ==
    ASSUME NEW q \in Seq(Event)
    PROVE  NewsUnderWay(q) <=>
             \E i \in 1 .. Len(q) :
               /\ q[i] = ToApp("connected")
               /\ \A j \in 1 .. Len(q) : j > i => q[j] # ToApp("disconnected")
<1>1. DOMAIN q = 1 .. Len(q)
      OBVIOUS
<1> QED BY <1>1 DEF NewsUnderWay

\* Events of the three kinds are fresh, none of the last two is an answer, and an
\* old event or an answer is a stream's.
LEMMA Kinds ==
    /\ \A type \in {"connected", "failed", "refused", "disconnected"} :
         /\ ToApp(type) \in Event /\ ToApp(type) \in Fresh \ Dials
         /\ ToApp(type) \in AppEvents /\ (type # "connected" => ToApp(type) \in Chances)
    /\ \A type \in {"connected", "failed", "input", "shutdown", "disconnected"} :
         /\ FromSocket(type) \in Event /\ FromSocket(type) \in Fresh
         /\ (type \in {"connected", "failed"} <=> FromSocket(type) \in Dials)
    /\ \A type \in {"input", "shutdown", "end", "refuse", "dead"} :
         /\ FromFilter(type) \in Event /\ FromFilter(type) \in (Fresh \ Dials) \cap ToFilter
         /\ (type \in {"end", "refuse", "dead"} => FromFilter(type) \in GiveUps)
    /\ \A type1, type2 : type1 # type2 => ToApp(type1) # ToApp(type2)
    /\ \A type1, type2 : ToApp(type1) # FromSocket(type2) /\ ToApp(type1) # FromFilter(type2)
    /\ \A e \in Event : e.to = "app" => e \in Fresh /\ e \notin Dials \cup GiveUps
    /\ \A e \in Event : e.to = "app" => e = ToApp(e.type)
<1> USE DEF ToApp, FromSocket, FromFilter
<1>1. ASSUME NEW type \in {"connected", "failed", "refused", "disconnected"}
      PROVE  /\ ToApp(type) \in Event
             /\ ToApp(type) \in Fresh \ Dials
             /\ ToApp(type) \in AppEvents
      BY DEF Event, Fresh, Dials, AppEvents
<1>2. ASSUME NEW type1, NEW type2, type1 # type2
      PROVE  ToApp(type1) # ToApp(type2)
      <2>1. ToApp(type1).type = type1 /\ ToApp(type2).type = type2
            OBVIOUS
      <2> QED BY <1>2, <2>1
<1>3. ASSUME NEW type1, NEW type2
      PROVE  /\ ToApp(type1) # FromSocket(type2)
             /\ ToApp(type1) # FromFilter(type2)
      <2>1. /\ ToApp(type1).to = "app"
            /\ FromSocket(type2).to = "socket"
            /\ FromFilter(type2).to = "filter"
            OBVIOUS
      <2> QED BY <2>1
<1>4. ASSUME NEW type \in {"failed", "refused", "disconnected"}
      PROVE  ToApp(type) \in Chances
      BY <1>1, <1>2 DEF Chances
<1>5. ASSUME NEW type \in {"connected", "failed", "input", "shutdown", "disconnected"}
      PROVE  /\ FromSocket(type) \in Event
             /\ FromSocket(type) \in Fresh
             /\ type \in {"connected", "failed"} <=> FromSocket(type) \in Dials
      <2>1. FromSocket(type) \in Event
            BY DEF Event
      <2> QED BY <2>1 DEF Fresh, Dials
<1>6. ASSUME NEW type \in {"input", "shutdown", "end", "refuse", "dead"}
      PROVE  /\ FromFilter(type) \in Event
             /\ FromFilter(type) \in (Fresh \ Dials) \cap ToFilter
             /\ type \in {"end", "refuse", "dead"} => FromFilter(type) \in GiveUps
      <2>1. FromFilter(type) \in Event
            BY DEF Event
      <2> QED BY <2>1 DEF Fresh, Dials, ToFilter, GiveUps
<1>7. ASSUME NEW e \in Event, e.to = "app"
      PROVE  /\ e \in Fresh /\ e \notin Dials \cup GiveUps
             /\ e = ToApp(e.type)
      <2>1. e \in [type: {"connected", "failed", "refused", "disconnected"},
                   to: {"app"}, old: {FALSE}]
            BY <1>7 DEF Event
      <2>2. ~e.old /\ e.type \notin {"end", "refuse", "dead"} /\ e = ToApp(e.type)
            BY <2>1
      <2> QED BY <1>7, <2>2 DEF Fresh, Dials, GiveUps
<1> QED BY <1>1, <1>2, <1>3, <1>4, <1>5, <1>6, <1>7

\* What fresh events that are no answers change behind a queue: nothing of its order,
\* and nothing is missing from it.
LEMMA Appended ==
    ASSUME NEW q \in Seq(Event), NEW es \in Seq(Event),
           \A i \in 1 .. Len(es) : es[i] \in Fresh \ Dials
    PROVE  /\ q \o es \in Seq(Event)
           /\ OldComeFirst(q) => OldComeFirst(q \o es)
           /\ \A c, s : OwnDials(c, s, q) => OwnDials(c, s, q \o es)
           /\ \A E : InQueue(q \o es, E) <=> InQueue(q, E) \/ InQueue(es, E)
<1> DEFINE r == q \o es
<1>1. /\ r \in Seq(Event) /\ Len(r) = Len(q) + Len(es)
      /\ Len(q) \in Nat /\ Len(es) \in Nat
      /\ \A i \in 1 .. Len(q) : i \in 1 .. Len(r) /\ r[i] = q[i]
      /\ \A i \in 1 .. Len(es) : Len(q) + i \in 1 .. Len(r) /\ r[Len(q) + i] = es[i]
      OBVIOUS
<1>2. ASSUME NEW i \in 1 .. Len(r), i \notin 1 .. Len(q)
      PROVE  i - Len(q) \in 1 .. Len(es) /\ r[i] = es[i - Len(q)]
      <2>1. i - Len(q) \in 1 .. Len(es) /\ Len(q) + (i - Len(q)) = i
            BY <1>1, <1>2
      <2> QED BY <1>1, <2>1
<1> HIDE DEF r
<1>3. ASSUME NEW i \in 1 .. Len(r), i \notin 1 .. Len(q) PROVE r[i] \in Fresh \ Dials
      BY <1>2, <1>3
<1>4. ASSUME OldComeFirst(q) PROVE OldComeFirst(r)
      <2> SUFFICES ASSUME NEW i \in 1 .. Len(r), NEW j \in 1 .. Len(r), i < j,
                          r[j] \notin Fresh, r[i].to # "app"
                   PROVE  r[i] \notin Fresh
          BY DEF OldComeFirst
      <2>1. j \in 1 .. Len(q)
            BY <1>3
      <2>2. i \in 1 .. Len(q)
            BY <1>1, <2>1
      <2>3. r[i] = q[i] /\ r[j] = q[j]
            BY <1>1, <2>1, <2>2
      <2> QED BY <1>4, <2>1, <2>2, <2>3 DEF OldComeFirst
<1>5. ASSUME NEW c, NEW s, DialsFit(c, s, q) PROVE DialsFit(c, s, r)
      <2>1. ASSUME NEW i \in 1 .. Len(r), r[i] \in Dials PROVE i \in 1 .. Len(q) /\ r[i] = q[i]
            BY <1>1, <1>3, <2>1
      <2>2. ASSUME NEW i \in 1 .. Len(r), r[i] \notin Fresh PROVE i \in 1 .. Len(q) /\ r[i] = q[i]
            BY <1>1, <1>3, <2>2
      <2>3. ASSUME NEW i \in 1 .. Len(r), r[i] \in Dials \cap Fresh
            PROVE  /\ c.hooks = {"connecting"} /\ s.net # "dialing"
                   /\ \A j \in 1 .. Len(r) : r[j] \in Dials \cap Fresh => i = j
            <3>1. i \in 1 .. Len(q) /\ q[i] \in Dials \cap Fresh
                  BY <2>1, <2>3
            <3>2. ASSUME NEW j \in 1 .. Len(r), r[j] \in Dials \cap Fresh PROVE i = j
                  <4>1. j \in 1 .. Len(q) /\ q[j] \in Dials \cap Fresh
                        BY <2>1, <3>2
                  <4> QED BY <1>5, <3>1, <4>1 DEF DialsFit
            <3> QED BY <1>5, <3>1, <3>2 DEF DialsFit
      <2>4. ASSUME c.hooks = {"connecting"} \/ (c.suspended /\ c.connectOnResume),
                   NEW i \in 1 .. Len(r), r[i] \in Dials
            PROVE  r[i] \in Fresh
            <3>1. i \in 1 .. Len(q) /\ r[i] = q[i]
                  BY <2>1, <2>4
            <3> QED BY <1>5, <2>4, <3>1 DEF DialsFit
      <2>5. ASSUME c.hooks = {"connection"}, NEW i \in 1 .. Len(r) PROVE r[i] \in Fresh
            BY <1>5, <2>2, <2>5 DEF DialsFit
      <2> QED BY <2>3, <2>4, <2>5 DEF DialsFit
<1>7. ASSUME NEW c, NEW s, OwnDials(c, s, q) PROVE OwnDials(c, s, r)
      <2>1. ASSUME ~c.stream, NEW i \in 1 .. Len(r) PROVE r[i] \notin Dials \cap Fresh
            BY <1>1, <1>3, <1>7, <2>1 DEF OwnDials
      <2> QED BY <1>5, <1>7, <2>1 DEF OwnDials
<1>6. ASSUME NEW E PROVE InQueue(r, E) <=> InQueue(q, E) \/ InQueue(es, E)
      <2>1. ASSUME NEW i \in 1 .. Len(r), r[i] \in E
            PROVE  \/ \E k \in 1 .. Len(q) : q[k] \in E
                   \/ \E k \in 1 .. Len(es) : es[k] \in E
            BY <1>1, <1>2, <2>1
      <2>2. ASSUME NEW i \in 1 .. Len(q), q[i] \in E PROVE \E k \in 1 .. Len(r) : r[k] \in E
            BY <1>1, <2>2
      <2>3. ASSUME NEW i \in 1 .. Len(es), es[i] \in E PROVE \E k \in 1 .. Len(r) : r[k] \in E
            BY <1>1, <2>3
      <2>4. r \in Seq(Event)
            BY <1>1
      <2> QED BY <2>1, <2>2, <2>3, <2>4, InQueueAt
<1> QED BY <1>1, <1>4, <1>6, <1>7 DEF r

\* ... and of what the user will be shown: news that a connection stands if they
\* bring it.
LEMMA NewsAppended ==
    ASSUME NEW q \in Seq(Event), NEW es \in Seq(Event),
           ~InQueue(es, {ToApp("disconnected")})
    PROVE  /\ InQueue(es, {ToApp("connected")}) => \A gui : WillShow(q \o es, gui)
           /\ ~InQueue(es, {ToApp("connected")}) =>
                \A gui : WillShow(q \o es, gui) <=> WillShow(q, gui)
<1> DEFINE r == q \o es
           yes == ToApp("connected")
           no == ToApp("disconnected")
<1>1. /\ r \in Seq(Event) /\ Len(r) = Len(q) + Len(es)
      /\ Len(q) \in Nat /\ Len(es) \in Nat
      /\ \A i \in 1 .. Len(q) : i \in 1 .. Len(r) /\ r[i] = q[i]
      /\ \A i \in 1 .. Len(es) : Len(q) + i \in 1 .. Len(r) /\ r[Len(q) + i] = es[i]
      OBVIOUS
<1>2. ASSUME NEW i \in 1 .. Len(r), i \notin 1 .. Len(q)
      PROVE  i - Len(q) \in 1 .. Len(es) /\ r[i] = es[i - Len(q)]
      <2>1. i - Len(q) \in 1 .. Len(es) /\ Len(q) + (i - Len(q)) = i
            BY <1>1, <1>2
      <2> QED BY <1>1, <2>1
<1> HIDE DEF r, yes, no
<1>3. ASSUME NEW i \in 1 .. Len(es) PROVE es[i] # no
      BY <1>3, InQueueAt DEF no
<1>4. ASSUME NEW i \in 1 .. Len(r), r[i] = no PROVE i \in 1 .. Len(q) /\ q[i] = no
      BY <1>1, <1>2, <1>3, <1>4
<1>5. ASSUME InQueue(es, {yes}) PROVE NewsUnderWay(r)
      <2>1. PICK i \in 1 .. Len(es) : es[i] = yes
            BY <1>5, InQueueAt
      <2>2. Len(q) + i \in 1 .. Len(r) /\ r[Len(q) + i] = yes
            BY <1>1, <2>1
      <2>3. ASSUME NEW j \in 1 .. Len(r), j > Len(q) + i PROVE r[j] # no
            <3>1. j \notin 1 .. Len(q)
                  BY <1>1, <2>3
            <3> QED BY <1>4, <3>1
      <2> QED BY <1>1, <2>2, <2>3, NewsAt DEF yes, no
<1>6. ASSUME ~InQueue(es, {yes}) PROVE NewsUnderWay(r) <=> NewsUnderWay(q)
      <2>1. ASSUME NEW i \in 1 .. Len(r), r[i] = yes PROVE i \in 1 .. Len(q) /\ q[i] = yes
            <3>1. \A k \in 1 .. Len(es) : es[k] # yes
                  BY <1>6, InQueueAt
            <3> QED BY <1>1, <1>2, <2>1, <3>1
      <2>2. ASSUME NewsUnderWay(r) PROVE NewsUnderWay(q)
            <3>1. PICK i \in 1 .. Len(r) :
                    r[i] = yes /\ \A j \in 1 .. Len(r) : j > i => r[j] # no
                  BY <1>1, <2>2, NewsAt DEF yes, no
            <3>2. i \in 1 .. Len(q) /\ q[i] = yes
                  BY <2>1, <3>1
            <3>3. \A j \in 1 .. Len(q) : j > i => q[j] # no
                  BY <1>1, <3>1
            <3> QED BY <3>2, <3>3, NewsAt DEF yes, no
      <2>3. ASSUME NewsUnderWay(q) PROVE NewsUnderWay(r)
            <3>1. PICK i \in 1 .. Len(q) :
                    q[i] = yes /\ \A j \in 1 .. Len(q) : j > i => q[j] # no
                  BY <2>3, NewsAt DEF yes, no
            <3>2. i \in 1 .. Len(r) /\ r[i] = yes
                  BY <1>1, <3>1
            <3>3. \A j \in 1 .. Len(r) : j > i => r[j] # no
                  BY <1>4, <3>1
            <3> QED BY <1>1, <3>2, <3>3, NewsAt DEF yes, no
      <2> QED BY <2>2, <2>3
<1>7. ASSUME ~InQueue(es, {yes}) PROVE InQueue(r, {yes, no}) <=> InQueue(q, {yes, no})
      <2>1. \A k \in 1 .. Len(es) : es[k] \notin {yes, no}
            BY <1>3, <1>7, InQueueAt
      <2>2. ASSUME NEW i \in 1 .. Len(r), r[i] \in {yes, no}
            PROVE  \E k \in 1 .. Len(q) : q[k] \in {yes, no}
            BY <1>1, <1>2, <2>1, <2>2
      <2>3. ASSUME NEW i \in 1 .. Len(q), q[i] \in {yes, no}
            PROVE  \E k \in 1 .. Len(r) : r[k] \in {yes, no}
            BY <1>1, <2>3
      <2> QED BY <1>1, <2>2, <2>3, InQueueAt
<1> QED BY <1>5, <1>6, <1>7 DEF WillShow, r, yes, no

\* What stays when the head of a queue is dispatched.
LEMMA Dispatched ==
    ASSUME NEW q \in Seq(Event), q # <<>>
    PROVE  /\ Head(q) \in Event /\ Tail(q) \in Seq(Event)
           /\ OldComeFirst(q) => OldComeFirst(Tail(q))
           /\ \A c, s : OwnDials(c, s, q) => OwnDials(c, s, Tail(q))
           /\ \A E : InQueue(q, E) <=> Head(q) \in E \/ InQueue(Tail(q), E)
<1> DEFINE r == Tail(q)
           e == Head(q)
<1>1. /\ e \in Event /\ r \in Seq(Event)
      /\ Len(q) \in Nat /\ Len(q) >= 1 /\ Len(r) = Len(q) - 1
      /\ 1 \in 1 .. Len(q) /\ q[1] = e
      /\ \A i \in 1 .. Len(r) : i + 1 \in 1 .. Len(q) /\ r[i] = q[i + 1]
      /\ \A i \in 1 .. Len(q) : i # 1 => i - 1 \in 1 .. Len(r) /\ r[i - 1] = q[i]
      BY Heads
<1> HIDE DEF r, e
<1>2. ASSUME OldComeFirst(q) PROVE OldComeFirst(r)
      <2> SUFFICES ASSUME NEW i \in 1 .. Len(r), NEW j \in 1 .. Len(r), i < j,
                          r[j] \notin Fresh, r[i].to # "app"
                   PROVE  r[i] \notin Fresh
          BY DEF OldComeFirst
      <2>1. PICK k \in 1 .. Len(q) : k = i + 1 /\ r[i] = q[k]
            BY <1>1
      <2>2. PICK l \in 1 .. Len(q) : l = j + 1 /\ r[j] = q[l]
            BY <1>1
      <2>3. k < l
            BY <1>1, <2>1, <2>2
      <2> QED BY <1>2, <2>1, <2>2, <2>3 DEF OldComeFirst
<1>3. ASSUME NEW c, NEW s, DialsFit(c, s, q) PROVE DialsFit(c, s, r)
      <2>1. ASSUME NEW i \in 1 .. Len(r), r[i] \in Dials \cap Fresh
            PROVE  /\ c.hooks = {"connecting"} /\ s.net # "dialing"
                   /\ \A j \in 1 .. Len(r) : r[j] \in Dials \cap Fresh => i = j
            <3>1. PICK k \in 1 .. Len(q) : k = i + 1 /\ r[i] = q[k]
                  BY <1>1
            <3>2. ASSUME NEW j \in 1 .. Len(r), r[j] \in Dials \cap Fresh PROVE i = j
                  <4>1. PICK l \in 1 .. Len(q) : l = j + 1 /\ r[j] = q[l]
                        BY <1>1
                  <4>2. k = l
                        BY <1>3, <2>1, <3>1, <3>2, <4>1 DEF DialsFit
                  <4> QED BY <3>1, <4>1, <4>2
            <3> QED BY <1>3, <2>1, <3>1, <3>2 DEF DialsFit
      <2>2. ASSUME c.hooks = {"connecting"} \/ (c.suspended /\ c.connectOnResume),
                   NEW i \in 1 .. Len(r), r[i] \in Dials
            PROVE  r[i] \in Fresh
            <3>1. PICK k \in 1 .. Len(q) : r[i] = q[k]
                  BY <1>1
            <3> QED BY <1>3, <2>2, <3>1 DEF DialsFit
      <2>3. ASSUME c.hooks = {"connection"}, NEW i \in 1 .. Len(r) PROVE r[i] \in Fresh
            <3>1. PICK k \in 1 .. Len(q) : r[i] = q[k]
                  BY <1>1
            <3> QED BY <1>3, <2>3, <3>1 DEF DialsFit
      <2> QED BY <2>1, <2>2, <2>3 DEF DialsFit
<1>5. ASSUME NEW c, NEW s, OwnDials(c, s, q) PROVE OwnDials(c, s, r)
      <2>1. ASSUME ~c.stream, NEW i \in 1 .. Len(r) PROVE r[i] \notin Dials \cap Fresh
            <3>1. PICK k \in 1 .. Len(q) : r[i] = q[k]
                  BY <1>1
            <3> QED BY <1>5, <2>1, <3>1 DEF OwnDials
      <2> QED BY <1>3, <1>5, <2>1 DEF OwnDials
<1>4. ASSUME NEW E PROVE InQueue(q, E) <=> e \in E \/ InQueue(r, E)
      <2>1. ASSUME NEW i \in 1 .. Len(q), q[i] \in E
            PROVE  e \in E \/ \E k \in 1 .. Len(r) : r[k] \in E
            BY <1>1, <2>1
      <2>2. ASSUME NEW i \in 1 .. Len(r), r[i] \in E PROVE \E k \in 1 .. Len(q) : q[k] \in E
            <3>1. PICK k \in 1 .. Len(q) : r[i] = q[k]
                  BY <1>1
            <3> QED BY <2>2, <3>1
      <2> QED BY <1>1, <2>1, <2>2, InQueueAt
<1> QED BY <1>1, <1>2, <1>4, <1>5 DEF r, e

\* Handling the head does not change what the user will be shown.
LEMMA NewsDispatched ==
    ASSUME NEW q \in Seq(Event), q # <<>>, NEW gui, NEW told,
           told = IF Head(q) = ToApp("connected") THEN "connected"
                  ELSE IF Head(q) = ToApp("disconnected") THEN "disconnected" ELSE gui
    PROVE  WillShow(Tail(q), told) <=> WillShow(q, gui)
<1> DEFINE r == Tail(q)
           e == Head(q)
           yes == ToApp("connected")
           no == ToApp("disconnected")
<1>0. yes # no
      BY Kinds
<1>1. /\ e \in Event /\ r \in Seq(Event)
      /\ Len(q) \in Nat /\ Len(q) >= 1 /\ Len(r) = Len(q) - 1
      /\ 1 \in 1 .. Len(q) /\ q[1] = e
      /\ \A i \in 1 .. Len(r) : i + 1 \in 1 .. Len(q) /\ r[i] = q[i + 1]
      /\ \A i \in 1 .. Len(q) : i # 1 => i - 1 \in 1 .. Len(r) /\ r[i - 1] = q[i]
      BY Heads
<1>2. \A E : InQueue(q, E) <=> e \in E \/ InQueue(r, E)
      BY Dispatched
<1> HIDE DEF r, e, yes, no
<1>3. ASSUME NewsUnderWay(r) PROVE NewsUnderWay(q)
      <2>1. PICK i \in 1 .. Len(r) :
              r[i] = yes /\ \A j \in 1 .. Len(r) : j > i => r[j] # no
            BY <1>1, <1>3, NewsAt DEF yes, no
      <2>2. PICK k \in 1 .. Len(q) : k = i + 1 /\ r[i] = q[k]
            BY <1>1
      <2>3. ASSUME NEW j \in 1 .. Len(q), j > k PROVE q[j] # no
            <3>1. j # 1 /\ j - 1 > i
                  BY <1>1, <2>2, <2>3
            <3>2. j - 1 \in 1 .. Len(r) /\ r[j - 1] = q[j]
                  BY <1>1, <3>1
            <3> QED BY <2>1, <3>1, <3>2
      <2> QED BY <2>1, <2>2, <2>3, NewsAt DEF yes, no
<1>4. ASSUME NewsUnderWay(q), ~NewsUnderWay(r)
      PROVE  e = yes /\ ~InQueue(r, {no})
      <2>1. PICK i \in 1 .. Len(q) :
              q[i] = yes /\ \A j \in 1 .. Len(q) : j > i => q[j] # no
            BY <1>4, NewsAt DEF yes, no
      <2>2. CASE i # 1
            <3>1. i - 1 \in 1 .. Len(r) /\ r[i - 1] = yes
                  BY <1>1, <2>1, <2>2
            <3>2. ASSUME NEW j \in 1 .. Len(r), j > i - 1 PROVE r[j] # no
                  <4>1. PICK l \in 1 .. Len(q) : l = j + 1 /\ r[j] = q[l]
                        BY <1>1
                  <4>2. l > i
                        BY <1>1, <3>2, <4>1
                  <4> QED BY <2>1, <4>1, <4>2
            <3> QED BY <1>1, <1>4, <3>1, <3>2, NewsAt DEF yes, no
      <2>3. CASE i = 1
            <3>1. ASSUME NEW j \in 1 .. Len(r) PROVE r[j] # no
                  <4>1. PICK l \in 1 .. Len(q) : l = j + 1 /\ r[j] = q[l]
                        BY <1>1
                  <4>2. l > i
                        BY <1>1, <2>3, <4>1
                  <4> QED BY <2>1, <4>1, <4>2
            <3> QED BY <1>1, <2>1, <2>3, <3>1, InQueueAt
      <2> QED BY <2>2, <2>3
<1>5. ASSUME ~InQueue(r, {no}), InQueue(r, {yes}) PROVE NewsUnderWay(r)
      <2>1. /\ \E i \in 1 .. Len(r) : r[i] = yes
            /\ \A j \in 1 .. Len(r) : r[j] # no
            BY <1>1, <1>5, InQueueAt
      <2> QED BY <1>1, <2>1, NewsAt DEF yes, no
<1>6. ASSUME e = yes, ~InQueue(r, {no}) PROVE NewsUnderWay(q)
      <2>1. \A j \in 1 .. Len(r) : r[j] # no
            BY <1>1, <1>6, InQueueAt
      <2>2. ASSUME NEW j \in 1 .. Len(q), j > 1 PROVE q[j] # no
            <3>1. j # 1
                  BY <2>2
            <3>2. j - 1 \in 1 .. Len(r) /\ r[j - 1] = q[j]
                  BY <1>1, <3>1
            <3> QED BY <2>1, <3>2
      <2> QED BY <1>1, <1>6, <2>2, NewsAt DEF yes, no
<1>7. InQueue(r, {yes, no}) <=> InQueue(r, {yes}) \/ InQueue(r, {no})
      BY <1>1, InQueueAt
<1>8. InQueue(q, {yes, no}) <=> e = yes \/ e = no \/ InQueue(r, {yes, no})
      BY <1>2
<1>9. CASE e = yes
      <2>1. told = "connected"
            BY <1>9 DEF e, yes
      <2> QED BY <1>3, <1>4, <1>5, <1>6, <1>7, <1>8, <1>9, <2>1 DEF WillShow, r, yes, no
<1>10. CASE e = no
      <2>1. told = "disconnected"
            BY <1>0, <1>10 DEF e, yes, no
      <2> QED BY <1>0, <1>3, <1>4, <1>8, <1>10, <2>1 DEF WillShow, r, yes, no
<1>11. CASE e # yes /\ e # no
      <2>1. told = gui
            BY <1>11 DEF e, yes, no
      <2> QED BY <1>3, <1>4, <1>8, <1>11, <2>1 DEF WillShow, r, yes, no
<1> QED BY <1>9, <1>10, <1>11

-----------------------------------------------------------------------------
(* Types.                                                                    *)

ClientType == [stream: BOOLEAN, hooks: SUBSET {"connecting", "connection"},
               timer: BOOLEAN, proxy: BOOLEAN, ready: BOOLEAN,
               entered: BOOLEAN, alarm: BOOLEAN, suspended: BOOLEAN,
               connectOnResume: BOOLEAN, address: Servers, hasty: BOOLEAN]
AppType == [server: Servers, index: Nat, resolved: Nat, retries: Nat,
            gui: {"disconnected", "connecting", "connected"}, late: BOOLEAN]
FilterType == [sock: Seq(Message), box: Seq(Message), closing: BOOLEAN]
ServerType == [net: {"none", "dialing", "up", "ended", "reset", "lost"},
               kind: {"willing", "dead", "mute", "alien"},
               said: 0 .. Len(Handshake)]

LEMMA Types ==
    TypeOK <=> /\ client \in ClientType /\ app \in AppType
               /\ filter \in FilterType /\ server \in ServerType
               /\ queue \in Seq(Event) /\ faults \in 0 .. MaxFaults
BY DEF TypeOK, ClientType, AppType, FilterType, ServerType

LEMMA Handshakes ==
    /\ Handshake \in Seq(Message) /\ Len(Handshake) = 3
    /\ Handshake[1] = "hello" /\ Handshake[2] = "query" /\ Handshake[3] = "options"
BY DEF Handshake, Message

\* What cleaning up leaves of a client.
LEMMA CleanedClient ==
    ASSUME NEW c \in ClientType
    PROVE  /\ Cleaned(c) \in ClientType
           /\ ~Cleaned(c).stream /\ Cleaned(c).hooks = {} /\ ~Cleaned(c).timer
           /\ ~Cleaned(c).proxy /\ ~Cleaned(c).ready /\ ~Cleaned(c).alarm
           /\ Cleaned(c).hasty = c.hasty /\ Cleaned(c).suspended = c.suspended
           /\ Cleaned(c).connectOnResume = c.connectOnResume
BY DEF ClientType, Cleaned

LEMMA NothingThere ==
    NoFilter \in FilterType /\ NoFilter.box = <<>>
    /\ NoServer \in ServerType /\ NoServer.net = "none"
BY Handshakes DEF NoFilter, NoServer, FilterType, ServerType, Message

\* What is left in the queue for a stream that is gone: only the events of the
\* application are fresh.
LEMMA LeftQueue ==
    ASSUME NEW q \in Seq(Event), client \in ClientType
    PROVE  /\ Left(q) \in Seq(Event)
           /\ \A i \in 1 .. Len(Left(q)) : Left(q)[i].to = "app" \/ Left(q)[i] \notin Fresh
           /\ InQueue(q, Chances) => InQueue(Left(q), Chances)
           /\ InQueue(Left(q), Dials) => InQueue(q, Dials)
<1> DEFINE last == IF client.stream /\ server.net \in {"up", "lost", "ended"}
                   THEN <<FromSocket("disconnected")>> ELSE <<>>
           r == q \o last
           Outlive(e) == IF e.to = "app" THEN e ELSE [e EXCEPT !.old = TRUE]
           l == [i \in 1 .. Len(r) |-> Outlive(r[i])]
<1>1. Left(q) = l
      BY DEF Left
<1>2. FromSocket("disconnected") \in Event /\ FromSocket("disconnected") \in Fresh \ Dials
      BY Kinds
<1>3. last \in Seq(Event) /\ \A i \in 1 .. Len(last) : last[i] \in Fresh \ Dials
      BY <1>2
<1> HIDE DEF last
<1>4. /\ r \in Seq(Event)
      /\ \A E : InQueue(r, E) <=> InQueue(q, E) \/ InQueue(last, E)
      BY <1>3, Appended
<1>5. ~InQueue(last, Dials)
      BY <1>3, InQueueAt
<1> HIDE DEF r
<1>6. ASSUME NEW e \in Event
      PROVE  /\ Outlive(e) \in Event
             /\ e.to = "app" => Outlive(e) = e
             /\ e.to # "app" => Outlive(e) \notin Fresh /\ Outlive(e).to = e.to
             /\ Outlive(e).type = e.type
      BY DEF Event, Fresh
<1>7. ASSUME NEW e \in Event, Outlive(e) \in Dials PROVE e \in Dials
      <2>1. Outlive(e).to = "socket" /\ Outlive(e).type \in {"connected", "failed"}
            BY <1>7 DEF Dials
      <2>2. e.to = "socket"
            BY <1>6, <2>1
      <2> QED BY <1>6, <2>1, <2>2 DEF Dials
<1> HIDE DEF Outlive
<1>8. /\ l \in Seq(Event) /\ Len(l) = Len(r)
      /\ \A i \in 1 .. Len(r) : r[i] \in Event /\ l[i] = Outlive(r[i])
      BY <1>4, <1>6
<1> HIDE DEF l
<1>9. \A i \in 1 .. Len(l) : l[i].to = "app" \/ l[i] \notin Fresh
      BY <1>6, <1>8
<1>10. ASSUME InQueue(q, Chances) PROVE InQueue(l, Chances)
      <2>1. PICK i \in 1 .. Len(r) : r[i] \in Chances
            BY <1>4, <1>10, InQueueAt
      <2>2. r[i] \in Event /\ r[i].to = "app"
            BY <1>8, <2>1 DEF Chances, AppEvents
      <2>3. l[i] = r[i]
            BY <1>6, <1>8, <2>2
      <2> QED BY <1>8, <2>1, <2>3, InQueueAt
<1>11. ASSUME InQueue(l, Dials) PROVE InQueue(q, Dials)
      <2>1. PICK i \in 1 .. Len(l) : l[i] \in Dials
            BY <1>8, <1>11, InQueueAt
      <2>2. r[i] \in Dials
            BY <1>7, <1>8, <2>1
      <2>3. InQueue(r, Dials)
            BY <1>4, <1>8, <2>1, <2>2, InQueueAt
      <2> QED BY <1>4, <1>5, <2>3
<1> QED BY <1>1, <1>8, <1>9, <1>10, <1>11

\* Without its stream a client fits any such queue that gives it another chance.
LEMMA Dropped ==
    ASSUME NEW c \in ClientType, NEW a \in AppType, NEW r \in Seq(Event),
           \A i \in 1 .. Len(r) : r[i].to = "app" \/ r[i] \notin Fresh,
           InQueue(r, Chances),
           ~c.hasty /\ c.suspended /\ c.connectOnResume => ~InQueue(r, Dials)
    PROVE  Fits(Cleaned(c), a, NoFilter, NoServer, r)
<1> DEFINE d == Cleaned(c)
<1>1. /\ d \in ClientType
      /\ ~d.stream /\ d.hooks = {} /\ ~d.timer /\ ~d.proxy /\ ~d.ready /\ ~d.alarm
      /\ d.hasty = c.hasty /\ d.suspended = c.suspended /\ d.connectOnResume = c.connectOnResume
      BY CleanedClient
<1> HIDE DEF d
<1>2. HooksFit(d)
      BY <1>1 DEF HooksFit
<1>3. BuffersFit(d, NoFilter, NoServer) /\ Remembered(d, NoFilter, r)
      BY <1>1, NothingThere DEF BuffersFit, Remembered
<1>4. OldComeFirst(r)
      BY DEF OldComeFirst
<1>5. \A i \in 1 .. Len(r) : r[i] \notin Dials \cap Fresh
      BY DEF Dials
<1>6. ~d.hasty /\ d.suspended /\ d.connectOnResume => \A i \in 1 .. Len(r) : r[i] \notin Dials
      BY <1>1, InQueueAt
<1>7. OwnDials(d, NoServer, r)
      BY <1>1, <1>5, <1>6 DEF OwnDials, DialsFit
<1>8. Going(d, a, r) /\ NewsFits(d, a, r)
      BY <1>1 DEF Going, NewsFits
<1> QED BY <1>2, <1>3, <1>4, <1>7, <1>8 DEF Fits, d

-----------------------------------------------------------------------------
(* Parsing.                                                                  *)

\* the events that parsing may raise
Calm == (Fresh \ Dials) \ {ToApp("disconnected")}
Parsing == [box: Seq(Message), ready: BOOLEAN, entered: BOOLEAN, stop: BOOLEAN,
            events: Seq(Calm)]

LEMMA CalmEvents ==
    ASSUME NEW es \in Seq(Calm)
    PROVE  /\ es \in Seq(Event) /\ \A i \in 1 .. Len(es) : es[i] \in Fresh \ Dials
           /\ ~InQueue(es, {ToApp("disconnected")})
<1>1. es \in Seq(Event) /\ \A i \in 1 .. Len(es) : es[i] \in Calm
      BY DEF Calm, Fresh
<1> QED BY <1>1, InQueueAt DEF Calm

LEMMA CalmAppended ==
    ASSUME NEW q \in Seq(Calm), NEW es \in Seq(Calm)
    PROVE  q \o es \in Seq(Calm)
           /\ \A E : InQueue(q \o es, E) <=> InQueue(q, E) \/ InQueue(es, E)
<1>1. q \o es \in Seq(Calm)
      OBVIOUS
<1> QED BY <1>1, CalmEvents, Appended

LEMMA OneEvent ==
    ASSUME NEW e \in Calm
    PROVE  <<e>> \in Seq(Calm) /\ \A E : InQueue(<<e>>, E) <=> e \in E
<1> DEFINE es == <<e>>
<1>1. es \in Seq(Calm) /\ es \in Seq(Event) /\ Len(es) = 1 /\ es[1] = e
      BY DEF Calm, Fresh
<1> HIDE DEF es
<1>2. \A i \in 1 .. Len(es) : es[i] = e
      BY <1>1
<1>3. 1 \in 1 .. Len(es)
      BY <1>1
<1>4. \A E : InQueue(es, E) <=> \E i \in 1 .. Len(es) : es[i] \in E
      BY <1>1, InQueueAt
<1>5. \A E : InQueue(es, E) <=> e \in E
      BY <1>2, <1>3, <1>4
<1> QED BY <1>1, <1>5 DEF es

LEMMA NoEvents ==
    <<>> \in Seq(Calm) /\ \A E : ~InQueue(<<>>, E)
BY DEF InQueue

LEMMA CalmKinds ==
    /\ ToApp("connected") \in Calm /\ ToApp("connected") \notin ToFilter
    /\ \A type \in {"input", "shutdown", "end", "refuse", "dead"} :
         /\ FromFilter(type) \in Calm /\ FromFilter(type) \in ToFilter
         /\ FromFilter(type) # ToApp("connected")
<1>1. ToApp("connected") # ToApp("disconnected") /\ ToApp("connected") \in Fresh \ Dials
      BY Kinds
<1>2. ASSUME NEW type \in {"input", "shutdown", "end", "refuse", "dead"}
      PROVE  FromFilter(type) \in (Fresh \ Dials) \cap ToFilter
             /\ FromFilter(type) # ToApp("connected")
             /\ FromFilter(type) # ToApp("disconnected")
      <2>1. FromFilter(type) \in (Fresh \ Dials) \cap ToFilter
            BY Kinds
      <2>2. \A t : ToApp(t) # FromFilter(type)
            BY Kinds
      <2> QED BY <2>1, <2>2
<1>3. ToApp("connected").to = "app"
      BY DEF ToApp
<1> QED BY <1>1, <1>2, <1>3 DEF Calm, ToFilter

LEMMA CalmSocket ==
    \A type \in {"input", "shutdown", "disconnected"} :
      /\ FromSocket(type) \in Calm
      /\ FromSocket(type) \notin {ToApp("connected"), ToApp("disconnected")}
<1>1. \A t, u : ToApp(t) # FromSocket(u)
      BY Kinds
<1>2. \A type \in {"input", "shutdown", "disconnected"} : FromSocket(type) \in Fresh \ Dials
      BY Kinds
<1> QED BY <1>1, <1>2 DEF Calm

LEMMA ShutdownEvents ==
    ASSUME NEW box
    PROVE  /\ ShutdownSeen(box) \in Seq(Calm)
           /\ ~InQueue(ShutdownSeen(box), {ToApp("connected")})
<1>1. CASE filter.closing /\ box = <<>>
      <2>1. ShutdownSeen(box) = <<FromFilter("shutdown")>>
            BY <1>1 DEF ShutdownSeen
      <2>2. FromFilter("shutdown") \in Calm /\ FromFilter("shutdown") # ToApp("connected")
            BY CalmKinds
      <2> QED BY <2>1, <2>2, OneEvent
<1>2. CASE ~(filter.closing /\ box = <<>>)
      <2>1. ShutdownSeen(box) = <<>>
            BY <1>2 DEF ShutdownSeen
      <2> QED BY <2>1, NoEvents
<1> QED BY <1>1, <1>2

\* After k of n messages: unless it stopped, k have been read; where it stopped, the
\* rest is forgotten or the connection will be given up.  The client is ready for
\* the messages it gets when the application will be told, and not before.
ParseInv(p, n, k) ==
  /\ p \in Parsing
  /\ ~p.stop => Len(p.box) = n - k
  /\ p.stop => p.box = <<>> \/ InQueue(p.events, ToFilter)
  /\ client.ready => p.ready
  /\ p.ready => client.ready \/ InQueue(p.events, {ToApp("connected")})
  /\ InQueue(p.events, {ToApp("connected")}) => p.ready

LEMMA ParseEnd ==
    ASSUME NEW p \in Parsing, NEW es \in Seq(Calm)
    PROVE  LET q == [p EXCEPT !.stop = TRUE, !.box = <<>>, !.events = @ \o es]
           IN /\ q \in Parsing /\ q.stop /\ q.ready = p.ready /\ q.box = <<>>
              /\ q.events = p.events \o es
<1>1. p.events \in Seq(Calm)
      BY DEF Parsing
<1>2. p.events \o es \in Seq(Calm) /\ <<>> \in Seq(Message)
      BY <1>1
<1>3. ASSUME NEW all \in Seq(Calm), NEW none \in Seq(Message)
      PROVE  LET q == [p EXCEPT !.stop = TRUE, !.box = none, !.events = all]
             IN /\ q \in Parsing /\ q.stop /\ q.ready = p.ready /\ q.box = none
                /\ q.events = all
      BY DEF Parsing
<1> QED BY <1>2, <1>3

LEMMA ParseOne ==
    ASSUME NEW n \in Nat, NEW k \in Nat, k < n, NEW p, ParseInv(p, n, k), NEW m \in Message
    PROVE  ParseInv(Parse(p, m), n, k + 1)
<1> DEFINE Yes == {ToApp("connected")}
           seen == ShutdownSeen(Tail(p.box))
           r == [p EXCEPT !.box = Tail(@), !.events = @ \o ShutdownSeen(Tail(p.box))]
           Stop(request) == [r EXCEPT !.stop = TRUE,
                                      !.events = Append(@, FromFilter(request))]
<1>1. /\ p \in Parsing /\ p.box \in Seq(Message) /\ p.events \in Seq(Calm)
      /\ Len(p.box) \in Nat
      BY DEF ParseInv, Parsing
<1>2. CASE p.stop
      <2>1. Parse(p, m) = p
            BY <1>2 DEF Parse
      <2> QED BY <1>2, <2>1 DEF ParseInv
<1>3. CASE ~p.stop
      <2>0. /\ Len(p.box) = n - k /\ p.box # <<>>
            /\ client.ready => p.ready
            /\ p.ready => client.ready \/ InQueue(p.events, Yes)
            /\ InQueue(p.events, Yes) => p.ready
            BY <1>1, <1>3 DEF ParseInv
      <2>1. Tail(p.box) \in Seq(Message) /\ Len(Tail(p.box)) = n - (k + 1)
            BY <1>1, <2>0
      <2>2. /\ seen \in Seq(Calm) /\ ~InQueue(seen, Yes)
            BY ShutdownEvents
      <2> HIDE DEF seen, Yes
      <2>3. /\ p.events \o seen \in Seq(Calm)
            /\ \A E : InQueue(p.events \o seen, E) <=> InQueue(p.events, E) \/ InQueue(seen, E)
            BY <1>1, <2>2, CalmAppended
      <2>4. /\ r \in Parsing
            /\ r.box = Tail(p.box) /\ r.events = p.events \o seen
            /\ r.stop = p.stop /\ r.ready = p.ready /\ r.entered = p.entered
            BY <1>1, <2>1, <2>3 DEF Parsing, seen
      <2> HIDE DEF r
      <2>5. InQueue(r.events, Yes) <=> InQueue(p.events, Yes)
            BY <2>2, <2>3, <2>4
      <2>6. ParseInv(r, n, k + 1)
            BY <1>3, <2>0, <2>1, <2>4, <2>5 DEF ParseInv, Yes
      <2>7. ASSUME NEW q \in Parsing, q.box = r.box, q.events = r.events,
                   q.stop = r.stop, q.ready = r.ready
            PROVE  ParseInv(q, n, k + 1)
            BY <2>6, <2>7 DEF ParseInv
      <2>8. ASSUME NEW e \in Calm
            PROVE  /\ Append(r.events, e) \in Seq(Calm)
                   /\ \A E : InQueue(Append(r.events, e), E) <=> InQueue(r.events, E) \/ e \in E
            <3>1. r.events \in Seq(Calm)
                  BY <2>4 DEF Parsing
            <3>2. Append(r.events, e) = r.events \o <<e>>
                  BY <3>1
            <3> DEFINE es == <<e>>
            <3>3. es \in Seq(Calm) /\ \A E : InQueue(es, E) <=> e \in E
                  BY OneEvent
            <3> HIDE DEF es
            <3>4. /\ r.events \o es \in Seq(Calm)
                  /\ \A E : InQueue(r.events \o es, E) <=> InQueue(r.events, E) \/ InQueue(es, E)
                  BY <3>1, <3>3, CalmAppended
            <3> QED BY <3>2, <3>3, <3>4 DEF es
      <2>9. ASSUME NEW request \in {"end", "dead", "refuse"}
            PROVE  ParseInv(Stop(request), n, k + 1)
            <3>1. /\ FromFilter(request) \in Calm /\ FromFilter(request) \in ToFilter
                  /\ FromFilter(request) \notin Yes
                  BY CalmKinds DEF Yes
            <3> DEFINE q == Stop(request)
            <3>2. /\ Append(r.events, FromFilter(request)) \in Seq(Calm)
                  /\ InQueue(Append(r.events, FromFilter(request)), ToFilter)
                  /\ InQueue(Append(r.events, FromFilter(request)), Yes)
                       <=> InQueue(r.events, Yes)
                  BY <2>8, <3>1
            <3>3. /\ q \in Parsing /\ q.stop /\ q.ready = r.ready
                  /\ q.events = Append(r.events, FromFilter(request))
                  BY <2>4, <3>2 DEF Parsing
            <3> HIDE DEF q
            <3>4. ParseInv(q, n, k + 1)
                  BY <2>6, <3>2, <3>3 DEF ParseInv, Yes
            <3> QED BY <3>4 DEF q
      <2>10. ASSUME ~p.ready
             PROVE  ParseInv([r EXCEPT !.ready = TRUE, !.events = Append(@, ToApp("connected"))],
                             n, k + 1)
            <3> DEFINE q == [r EXCEPT !.ready = TRUE, !.events = Append(@, ToApp("connected"))]
            <3>1. /\ ToApp("connected") \in Calm /\ ToApp("connected") \in Yes
                  BY CalmKinds DEF Yes
            <3>2. /\ Append(r.events, ToApp("connected")) \in Seq(Calm)
                  /\ InQueue(Append(r.events, ToApp("connected")), Yes)
                  BY <2>8, <3>1
            <3>3. /\ q \in Parsing /\ q.stop = r.stop /\ q.ready /\ q.box = r.box
                  /\ q.events = Append(r.events, ToApp("connected"))
                  BY <2>4, <3>2 DEF Parsing
            <3> HIDE DEF q
            <3>4. ParseInv(q, n, k + 1)
                  BY <1>3, <2>4, <2>6, <3>2, <3>3 DEF ParseInv, Yes
            <3> QED BY <3>4 DEF q
      <2>11. ParseInv([r EXCEPT !.entered = TRUE], n, k + 1)
             /\ ParseInv([r EXCEPT !.entered = FALSE], n, k + 1)
            <3>1. ASSUME NEW b \in BOOLEAN
                  PROVE  /\ [r EXCEPT !.entered = b] \in Parsing
                         /\ [r EXCEPT !.entered = b].box = r.box
                         /\ [r EXCEPT !.entered = b].events = r.events
                         /\ [r EXCEPT !.entered = b].stop = r.stop
                         /\ [r EXCEPT !.entered = b].ready = r.ready
                  BY <2>4 DEF Parsing
            <3> QED BY <2>7, <3>1
      <2>12. ParseInv([p EXCEPT !.stop = TRUE, !.box = <<>>, !.events = @ \o ShutdownSeen(<<>>)],
                      n, k + 1)
            <3> DEFINE last == ShutdownSeen(<<>>)
                       q == [p EXCEPT !.stop = TRUE, !.box = <<>>,
                                      !.events = @ \o ShutdownSeen(<<>>)]
            <3>1. last \in Seq(Calm) /\ ~InQueue(last, Yes)
                  BY ShutdownEvents DEF Yes
            <3> HIDE DEF last
            <3>2. /\ p.events \o last \in Seq(Calm)
                  /\ InQueue(p.events \o last, Yes) <=> InQueue(p.events, Yes)
                  BY <1>1, <3>1, CalmAppended
            <3>3. /\ q \in Parsing /\ q.stop /\ q.ready = p.ready /\ q.box = <<>>
                  /\ q.events = p.events \o last
                  BY <1>1, <3>1, ParseEnd DEF last
            <3> HIDE DEF q
            <3>4. ParseInv(q, n, k + 1)
                  BY <2>0, <3>2, <3>3 DEF ParseInv, Yes
            <3> QED BY <3>4 DEF q
      <2>13. \/ Parse(p, m) = r
             \/ \E request \in {"end", "dead", "refuse"} : Parse(p, m) = Stop(request)
             \/ ~p.ready /\ Parse(p, m) = [r EXCEPT !.ready = TRUE,
                                                    !.events = Append(@, ToApp("connected"))]
             \/ Parse(p, m) = [r EXCEPT !.entered = TRUE]
             \/ Parse(p, m) = [r EXCEPT !.entered = FALSE]
             \/ Parse(p, m) = [p EXCEPT !.stop = TRUE, !.box = <<>>,
                                        !.events = @ \o ShutdownSeen(<<>>)]
             BY <1>3 DEF Parse, r
      <2> QED BY <2>6, <2>9, <2>10, <2>11, <2>12, <2>13
<1> QED BY <1>2, <1>3

\* One step of Parsed.
ParsedOne(box, f, i) ==
    IF i = 0 THEN [box |-> box, ready |-> client.ready, entered |-> client.entered,
                   stop |-> FALSE, events |-> <<>>]
    ELSE Parse(f[i - 1], box[i])

\* The function of Parsed exists.
LEMMA ParsedExists ==
    ASSUME NEW box \in Seq(Message)
    PROVE  \E f : f = [i \in 0 .. Len(box) |-> ParsedOne(box, f, i)]
<1> DEFINE Good(n) == \E f : f = [i \in 0 .. n |-> ParsedOne(box, f, i)]
           Bad == {n \in Nat : ~Good(n)}
<1>1. CASE Bad = {}
      <2>1. Len(box) \in Nat
            OBVIOUS
      <2>2. Good(Len(box))
            BY <1>1, <2>1
      <2> QED BY <2>2
<1>2. CASE Bad # {}
      <2>1. PICK n \in Bad : \A m \in Bad : n <= m
            BY <1>2, LeastNumber
      <2>2. n \in Nat /\ ~Good(n)
            OBVIOUS
      <2>3. CASE n = 0
            <3> DEFINE g == [i \in 0 .. 0 |-> ParsedOne(box, <<>>, 0)]
            <3>1. ASSUME NEW i \in 0 .. 0 PROVE g[i] = ParsedOne(box, g, i)
                  <4>1. i = 0
                        OBVIOUS
                  <4> QED BY <4>1 DEF ParsedOne
            <3>2. g = [i \in 0 .. 0 |-> ParsedOne(box, g, i)]
                  BY <3>1
            <3> QED BY <2>2, <2>3, <3>2
      <2>4. CASE n # 0
            <3>1. n - 1 \in Nat /\ ~(n - 1 \in Bad)
                  BY <2>1, <2>2, <2>4
            <3>2. PICK f : f = [i \in 0 .. (n - 1) |-> ParsedOne(box, f, i)]
                  BY <3>1
            <3> DEFINE g == [i \in 0 .. n |-> IF i = n THEN ParsedOne(box, f, n) ELSE f[i]]
            <3>3. ASSUME NEW i \in 0 .. n PROVE g[i] = ParsedOne(box, g, i)
                  <4>1. CASE i = n
                        <5>1. g[n] = ParsedOne(box, f, n) /\ g[n - 1] = f[n - 1]
                              BY <2>2, <2>4
                        <5> QED BY <4>1, <5>1 DEF ParsedOne
                  <4>2. CASE i # n
                        <5>1. i \in 0 .. (n - 1) /\ g[i] = f[i]
                              BY <2>2, <4>2
                        <5>2. f[i] = ParsedOne(box, f, i)
                              BY <3>2, <5>1
                        <5>3. i # 0 => i - 1 \in 0 .. n /\ i - 1 # n /\ g[i - 1] = f[i - 1]
                              BY <2>2, <5>1
                        <5> QED BY <5>1, <5>2, <5>3 DEF ParsedOne
                  <4> QED BY <4>1, <4>2
            <3>4. g = [i \in 0 .. n |-> ParsedOne(box, g, i)]
                  BY <3>3
            <3> QED BY <2>2, <3>4
      <2> QED BY <2>3, <2>4
<1> QED BY <1>1, <1>2

\* So Parsed is computed as it is written.
LEMMA ParsedStep ==
    ASSUME NEW box \in Seq(Message), NEW i \in 0 .. Len(box)
    PROVE  Parsed(box)[i] = ParsedOne(box, Parsed(box), i)
<1> DEFINE start == [box |-> box, ready |-> client.ready, entered |-> client.entered,
                     stop |-> FALSE, events |-> <<>>]
<1>1. PICK f : f = [j \in 0 .. Len(box) |-> ParsedOne(box, f, j)]
      BY ParsedExists
<1>2. f = [j \in 0 .. Len(box) |-> IF j = 0 THEN start ELSE Parse(f[j - 1], box[j])]
      BY <1>1 DEF ParsedOne
<1> HIDE DEF start
<1>3. Parsed(box) =
          [j \in 0 .. Len(box) |-> IF j = 0 THEN start ELSE Parse(Parsed(box)[j - 1], box[j])]
      BY <1>2 DEF Parsed, start
<1> QED BY <1>3 DEF ParsedOne, start

\* What has been done when all messages are parsed: a step that kept the invariant
\* up to a place keeps it one place on, so that no first place can lose it.
LEMMA AllParsed ==
    ASSUME NEW box \in Seq(Message), client \in ClientType
    PROVE  ParseInv(Parsed(box)[Len(box)], Len(box), Len(box))
<1> DEFINE n == Len(box)
           P(k) == ParseInv(Parsed(box)[k], n, k)
           Bad == {k \in 0 .. n : ~P(k)}
<1>1. n \in Nat
      OBVIOUS
<1>2. P(0)
      <2> DEFINE start == ParsedOne(box, Parsed(box), 0)
      <2>1. Parsed(box)[0] = start
            BY <1>1, ParsedStep
      <2>2. /\ start \in Parsing /\ start.box = box /\ start.ready = client.ready
            /\ start.stop = FALSE /\ start.events = <<>>
            <3>1. <<>> \in Seq(Calm) /\ client.ready \in BOOLEAN /\ client.entered \in BOOLEAN
                  BY DEF ClientType
            <3> QED BY <3>1 DEF ParsedOne, Parsing
      <2> HIDE DEF start
      <2>3. ~InQueue(start.events, {ToApp("connected")})
            BY <2>2, NoEvents
      <2>4. ParseInv(start, n, 0)
            BY <1>1, <2>2, <2>3 DEF ParseInv
      <2> QED BY <2>1, <2>4
<1>3. ASSUME NEW k \in 0 .. n, k # 0, P(k - 1) PROVE P(k)
      <2>1. k - 1 \in Nat /\ k - 1 < n /\ (k - 1) + 1 = k /\ k \in 1 .. n
            BY <1>1, <1>3
      <2>2. box[k] \in Message
            BY <2>1
      <2>3. Parsed(box)[k] = Parse(Parsed(box)[k - 1], box[k])
            BY <1>3, ParsedStep DEF ParsedOne
      <2>4. ParseInv(Parse(Parsed(box)[k - 1], box[k]), n, (k - 1) + 1)
            BY <1>1, <1>3, <2>1, <2>2, ParseOne
      <2> QED BY <2>1, <2>3, <2>4
<1> HIDE DEF P
<1>4. ASSUME Bad # {} PROVE FALSE
      <2>1. Bad \subseteq Nat
            BY <1>1
      <2>2. PICK k \in Bad : \A l \in Bad : k <= l
            BY <1>4, <2>1, LeastNumber
      <2>3. k # 0 /\ k \in 0 .. n /\ ~P(k)
            BY <1>2
      <2>4. k - 1 \in 0 .. n /\ k - 1 \notin Bad
            BY <1>1, <2>2, <2>3
      <2> QED BY <1>3, <2>3, <2>4
<1>5. P(n)
      BY <1>1, <1>4
<1> QED BY <1>5 DEF P

\* A packet filter whose packets were handled by the server's proxy.
LEMMA HandledData ==
    ASSUME NEW f \in FilterType, NEW q \in Seq(Event), client \in ClientType,
           HandleData(f, q)
    PROVE  \E done \in Parsing :
             /\ client' = [client EXCEPT !.ready = done.ready, !.entered = done.entered]
             /\ filter' = [f EXCEPT !.box = done.box]
             /\ queue' = q \o done.events
             /\ server' = server
             /\ done.box = <<>> \/ InQueue(done.events, ToFilter)
             /\ client.ready => done.ready
             /\ done.ready => client.ready \/ InQueue(done.events, {ToApp("connected")})
             /\ InQueue(done.events, {ToApp("connected")}) => done.ready
<1> DEFINE done == Parsed(f.box)[Len(f.box)]
<1>1. f.box \in Seq(Message) /\ Len(f.box) \in Nat
      BY DEF FilterType
<1>2. ParseInv(done, Len(f.box), Len(f.box))
      BY <1>1, AllParsed
<1>3. /\ client' = [client EXCEPT !.ready = done.ready, !.entered = done.entered]
      /\ filter' = [f EXCEPT !.box = done.box]
      /\ queue' = q \o done.events
      /\ server' = server
      BY DEF HandleData
<1> HIDE DEF done
<1>4. done \in Parsing /\ done.box \in Seq(Message) /\ done.stop \in BOOLEAN
      BY <1>2 DEF ParseInv, Parsing
<1>5. ~done.stop => done.box = <<>>
      <2>1. ~done.stop => Len(done.box) = 0
            BY <1>1, <1>2 DEF ParseInv
      <2> QED BY <1>4, <2>1
<1> QED BY <1>2, <1>3, <1>4, <1>5 DEF ParseInv

-----------------------------------------------------------------------------
(* The invariant, step by step.  NextFits says that the next values have      *)
(* their types and fit each other.                                            *)

NextFits ==
  /\ client' \in ClientType /\ app' \in AppType
  /\ filter' \in FilterType /\ server' \in ServerType
  /\ queue' \in Seq(Event)
  /\ Fits(client', app', filter', server', queue')

Typed == /\ client \in ClientType /\ app \in AppType
         /\ filter \in FilterType /\ server \in ServerType
         /\ queue \in Seq(Event)

\* Calm events may be added at any time.
LEMMA Added ==
    ASSUME NEW c, NEW a, NEW f, NEW s, NEW q \in Seq(Event), Fits(c, a, f, s, q),
           NEW es \in Seq(Calm), ~InQueue(es, {ToApp("connected")})
    PROVE  q \o es \in Seq(Event) /\ Fits(c, a, f, s, q \o es)
<1>1. /\ es \in Seq(Event) /\ \A i \in 1 .. Len(es) : es[i] \in Fresh \ Dials
      /\ ~InQueue(es, {ToApp("disconnected")})
      BY CalmEvents
<1>2. /\ q \o es \in Seq(Event)
      /\ OldComeFirst(q \o es) /\ OwnDials(c, s, q \o es)
      /\ \A E : InQueue(q, E) => InQueue(q \o es, E)
      BY <1>1, Appended DEF Fits
<1>3. \A gui : WillShow(q \o es, gui) <=> WillShow(q, gui)
      BY <1>1, NewsAppended
<1>4. Going(c, a, q \o es) /\ Remembered(c, f, q \o es) /\ NewsFits(c, a, q \o es)
      BY <1>2, <1>3 DEF Fits, Going, Remembered, NewsFits
<1> QED BY <1>2, <1>4 DEF Fits

\* ... one of them for instance.
LEMMA AddedOne ==
    ASSUME NEW c, NEW a, NEW f, NEW s, NEW q \in Seq(Event), Fits(c, a, f, s, q),
           NEW e \in Calm, e # ToApp("connected")
    PROVE  Append(q, e) \in Seq(Event) /\ Fits(c, a, f, s, Append(q, e))
<1> DEFINE es == <<e>>
<1>1. es \in Seq(Calm) /\ ~InQueue(es, {ToApp("connected")})
      BY OneEvent
<1>2. Append(q, e) = q \o es
      OBVIOUS
<1> HIDE DEF es
<1> QED BY <1>1, <1>2, Added

\* What stays when the head, an event of a stream, has been dispatched.
LEMMA HeadGone ==
    ASSUME NEW c, NEW a, NEW f, NEW s, NEW q \in Seq(Event), Fits(c, a, f, s, q),
           q # <<>>, Head(q).to # "app"
    PROVE  /\ Head(q) \in Event /\ Tail(q) \in Seq(Event)
           /\ HooksFit(c) /\ BuffersFit(c, f, s)
           /\ OldComeFirst(Tail(q)) /\ OwnDials(c, s, Tail(q)) /\ NewsFits(c, a, Tail(q))
           /\ Head(q) \notin GiveUps \/ ~c.stream \/ c.timer => Going(c, a, Tail(q))
           /\ Head(q) \notin ToFilter => Remembered(c, f, Tail(q))
<1>1. /\ Head(q) \in Event /\ Tail(q) \in Seq(Event)
      /\ OldComeFirst(Tail(q)) /\ OwnDials(c, s, Tail(q))
      /\ \A E : InQueue(q, E) <=> Head(q) \in E \/ InQueue(Tail(q), E)
      BY Dispatched DEF Fits
<1>2. Head(q) # ToApp("connected") /\ Head(q) # ToApp("disconnected")
      BY DEF ToApp
<1>3. Head(q) \notin Chances
      BY DEF Chances, AppEvents
<1>4. \A gui : WillShow(Tail(q), gui) <=> WillShow(q, gui)
      BY <1>2, NewsDispatched
<1>5. NewsFits(c, a, Tail(q))
      BY <1>4 DEF Fits, NewsFits
<1>6. Head(q) \notin GiveUps \/ ~c.stream \/ c.timer => Going(c, a, Tail(q))
      BY <1>1, <1>3 DEF Fits, Going
<1>7. Head(q) \notin ToFilter => Remembered(c, f, Tail(q))
      BY <1>1 DEF Fits, Remembered
<1> QED BY <1>1, <1>5, <1>6, <1>7 DEF Fits

\* The stream goes: DropStream, for any queue.
LEMMA DropFits ==
    ASSUME Typed, NEW c \in ClientType, NEW q \in Seq(Event),
           NEW event \in {"failed", "refused", "disconnected"},
           DropStream(c, q, event), app' = app,
           ~c.hasty /\ c.suspended /\ c.connectOnResume => ~InQueue(q, Dials)
    PROVE  NextFits
<1> DEFINE e == ToApp(event)
           l == Left(q)
<1>1. /\ l \in Seq(Event)
      /\ \A i \in 1 .. Len(l) : l[i].to = "app" \/ l[i] \notin Fresh
      /\ InQueue(l, Dials) => InQueue(q, Dials)
      BY LeftQueue DEF Typed
<1>2. e \in Event /\ e \in Chances /\ e.to = "app" /\ e \notin Dials
      BY Kinds DEF ToApp
<1>3. client' = Cleaned(c) /\ filter' = NoFilter /\ server' = NoServer
      /\ queue' = Append(l, e)
      BY DEF DropStream
<1> HIDE DEF e, l
<1>4. /\ Append(l, e) \in Seq(Event) /\ Len(Append(l, e)) = Len(l) + 1 /\ Len(l) \in Nat
      /\ \A i \in 1 .. Len(l) : Append(l, e)[i] = l[i]
      /\ Append(l, e)[Len(l) + 1] = e
      BY <1>1, <1>2
<1> DEFINE r == Append(l, e)
<1> HIDE DEF r
<1>5. \A i \in 1 .. Len(r) : i \in 1 .. Len(l) \/ i = Len(l) + 1
      BY <1>4 DEF r
<1>6. \A i \in 1 .. Len(r) : r[i].to = "app" \/ r[i] \notin Fresh
      BY <1>1, <1>2, <1>4, <1>5 DEF r
<1>7. InQueue(r, Chances)
      <2>1. Len(l) + 1 \in 1 .. Len(r) /\ r[Len(l) + 1] \in Chances
            BY <1>2, <1>4 DEF r
      <2> QED BY <1>4, <2>1, InQueueAt DEF r
<1>8. InQueue(r, Dials) => InQueue(l, Dials)
      <2>1. ASSUME NEW i \in 1 .. Len(r), r[i] \in Dials
            PROVE  i \in 1 .. Len(l) /\ l[i] \in Dials
            BY <1>2, <1>4, <1>5, <2>1 DEF r
      <2> QED BY <1>1, <1>4, <2>1, InQueueAt DEF r
<1>9. Fits(Cleaned(c), app, NoFilter, NoServer, r)
      BY <1>1, <1>4, <1>6, <1>7, <1>8, Dropped DEF Typed, r
<1> QED BY <1>3, <1>4, <1>9, CleanedClient, NothingThere DEF NextFits, Typed, r

LEMMA HostTypes ==
    ASSUME NEW host \in Servers, NEW index \in Nat
    PROVE  /\ Hosts[host] \in Seq({"willing", "dead", "mute", "alien"})
           /\ Len(Hosts[host]) \in Nat
           /\ Hosts[host] # <<>> =>
                Hosts[host][IF index < Len(Hosts[host]) THEN index + 1 ELSE Len(Hosts[host])]
                  \in {"willing", "dead", "mute", "alien"}
<1>1. Hosts[host] \in Seq({"willing", "dead", "mute", "alien"})
      BY HostsAssumption DEF Servers
<1> DEFINE addresses == Hosts[host]
           i == IF index < Len(addresses) THEN index + 1 ELSE Len(addresses)
<1>2. addresses \in Seq({"willing", "dead", "mute", "alien"}) /\ Len(addresses) \in Nat
      BY <1>1
<1> HIDE DEF addresses
<1>3. addresses # <<>> => i \in 1 .. Len(addresses)
      BY <1>2
<1>4. addresses # <<>> => addresses[i] \in {"willing", "dead", "mute", "alien"}
      BY <1>2, <1>3
<1> QED BY <1>2, <1>4 DEF addresses

\* What Client::connect does.
LEMMA Connects ==
    ASSUME Typed, NEW c \in ClientType, NEW a \in AppType, NEW host \in Servers,
           NEW index \in Nat, NEW q, Connect(c, a, host, index, q)
    PROVE  \/ /\ c.stream
              /\ client' = c /\ app' = a /\ queue' = q /\ filter' = filter /\ server' = server
           \/ /\ ~c.stream /\ c.suspended
              /\ client' = [c EXCEPT !.connectOnResume = TRUE]
              /\ app' = a /\ queue' = q /\ filter' = filter /\ server' = server
           \/ /\ ~c.stream
              /\ client' = c /\ app' = a /\ queue' = Append(q, ToApp("failed"))
              /\ filter' = filter /\ server' = server
           \/ /\ ~c.stream /\ ~c.suspended
              /\ client' = [c EXCEPT !.stream = TRUE, !.timer = TRUE,
                                     !.hooks = @ \cup {"connecting"},
                                     !.hasty = @ /\ InQueue(queue', OldEvents)]
              /\ queue' \in {q, Kept(q, Fresh)}
              /\ \E n \in Nat : app' = [a EXCEPT !.resolved = n, !.gui = "connecting",
                                                 !.late = NewsUnderWay(queue')]
              /\ filter' = NoFilter
              /\ \E kind \in {"willing", "dead", "mute", "alien"} :
                   server' = [net |-> "dialing", kind |-> kind, said |-> 0]
<1> DEFINE addresses == Hosts[host]
           kind == addresses[IF index < Len(addresses) THEN index + 1 ELSE Len(addresses)]
<1>1. /\ Len(addresses) \in Nat
      /\ addresses # <<>> => kind \in {"willing", "dead", "mute", "alien"}
      BY HostTypes
<1>2. c.stream \in BOOLEAN /\ c.suspended \in BOOLEAN
      BY DEF ClientType
<1>3. CASE c.stream
      BY <1>3 DEF Connect
<1>4. CASE ~c.stream /\ c.suspended
      BY <1>4 DEF Connect
<1>5. CASE ~c.stream /\ ~c.suspended /\ addresses = <<>>
      BY <1>5 DEF Connect
<1>6. CASE ~c.stream /\ ~c.suspended /\ addresses # <<>>
      <2>1. /\ client' = [c EXCEPT !.stream = TRUE, !.timer = TRUE,
                                   !.hooks = @ \cup {"connecting"},
                                   !.hasty = @ /\ InQueue(queue', OldEvents)]
            /\ queue' \in {q, Kept(q, Fresh)}
            /\ app' = [a EXCEPT !.resolved = Len(addresses), !.gui = "connecting",
                                !.late = NewsUnderWay(queue')]
            /\ filter' = NoFilter
            /\ server' = [net |-> "dialing", kind |-> kind, said |-> 0]
            BY <1>6 DEF Connect, Fresh
      <2> HIDE DEF kind, addresses
      <2> QED BY <1>1, <1>6, <2>1
<1> QED BY <1>2, <1>3, <1>4, <1>5, <1>6

\* A client without a stream is ready for an attempt to connect: no answer to an earlier
\* one is left.
LEMMA ConnectFits ==
    ASSUME Typed, NEW c \in ClientType, NEW a \in AppType, NEW host \in Servers,
           NEW index \in Nat, NEW q \in Seq(Event), Connect(c, a, host, index, q),
           HooksFit(c), BuffersFit(c, filter, server), OldComeFirst(q),
           OwnDials(c, server, q), Remembered(c, filter, q), NewsFits(c, a, q),
           c.stream => Going(c, a, q),
           ~c.stream /\ ~c.hasty => \A i \in 1 .. Len(q) : q[i] \in Dials => q[i] \in Fresh
    PROVE  NextFits
<1>0. filter \in FilterType /\ server \in ServerType
      BY DEF Typed
<1>1. CASE c.stream /\ client' = c /\ app' = a /\ queue' = q
           /\ filter' = filter /\ server' = server
      BY <1>0, <1>1 DEF NextFits, Fits
<1>2. CASE /\ ~c.stream /\ c.suspended
           /\ client' = [c EXCEPT !.connectOnResume = TRUE]
           /\ app' = a /\ queue' = q /\ filter' = filter /\ server' = server
      <2> DEFINE d == [c EXCEPT !.connectOnResume = TRUE]
      <2>1. /\ d \in ClientType /\ d.connectOnResume
            /\ d.stream = c.stream /\ d.hooks = c.hooks /\ d.timer = c.timer
            /\ d.proxy = c.proxy /\ d.ready = c.ready /\ d.alarm = c.alarm
            /\ d.hasty = c.hasty /\ d.suspended = c.suspended
            BY DEF ClientType
      <2> HIDE DEF d
      <2>2. HooksFit(d) /\ BuffersFit(d, filter, server) /\ Remembered(d, filter, q)
            /\ NewsFits(d, a, q)
            BY <2>1 DEF HooksFit, BuffersFit, Remembered, NewsFits
      <2>3. OwnDials(d, server, q)
            BY <1>2, <2>1 DEF OwnDials, DialsFit
      <2>4. Going(d, a, q)
            BY <1>2, <2>1 DEF Going
      <2> QED BY <1>0, <1>2, <2>1, <2>2, <2>3, <2>4 DEF NextFits, Fits, d
<1>3. CASE /\ ~c.stream
           /\ client' = c /\ app' = a /\ queue' = Append(q, ToApp("failed"))
           /\ filter' = filter /\ server' = server
      <2> DEFINE es == <<ToApp("failed")>>
      <2>1. ToApp("failed") \in Calm /\ ToApp("failed") # ToApp("connected")
            /\ ToApp("failed") \in Chances
            BY Kinds DEF Calm
      <2>2. /\ es \in Seq(Calm) /\ ~InQueue(es, {ToApp("connected")}) /\ InQueue(es, Chances)
            /\ Append(q, ToApp("failed")) = q \o es
            BY <2>1, OneEvent
      <2> HIDE DEF es
      <2>3. /\ es \in Seq(Event) /\ \A i \in 1 .. Len(es) : es[i] \in Fresh \ Dials
            /\ ~InQueue(es, {ToApp("disconnected")})
            BY <2>2, CalmEvents
      <2>4. /\ q \o es \in Seq(Event)
            /\ OldComeFirst(q \o es) /\ OwnDials(c, server, q \o es)
            /\ \A E : InQueue(q \o es, E) <=> InQueue(q, E) \/ InQueue(es, E)
            BY <2>3, Appended
      <2>5. \A gui : WillShow(q \o es, gui) <=> WillShow(q, gui)
            BY <2>2, <2>3, NewsAppended
      <2>6. Going(c, a, q \o es)
            BY <1>3, <2>2, <2>4 DEF Going
      <2>7. Remembered(c, filter, q \o es) /\ NewsFits(c, a, q \o es)
            BY <2>4, <2>5 DEF Remembered, NewsFits
      <2> QED BY <1>0, <1>3, <2>2, <2>4, <2>6, <2>7 DEF NextFits, Fits
<1>4. CASE /\ ~c.stream /\ ~c.suspended
           /\ client' = [c EXCEPT !.stream = TRUE, !.timer = TRUE,
                                  !.hooks = @ \cup {"connecting"},
                                  !.hasty = @ /\ InQueue(queue', OldEvents)]
           /\ queue' \in {q, Kept(q, Fresh)}
           /\ \E n \in Nat : app' = [a EXCEPT !.resolved = n, !.gui = "connecting",
                                              !.late = NewsUnderWay(queue')]
           /\ filter' = NoFilter
           /\ \E kind \in {"willing", "dead", "mute", "alien"} :
                server' = [net |-> "dialing", kind |-> kind, said |-> 0]
      <2> DEFINE r == queue'
                 d == [c EXCEPT !.stream = TRUE, !.timer = TRUE,
                                !.hooks = @ \cup {"connecting"},
                                !.hasty = @ /\ InQueue(r, OldEvents)]
      <2>0. InQueue(r, OldEvents) \in BOOLEAN /\ c.hasty \in BOOLEAN
            BY DEF InQueue, ClientType
      <2> HIDE DEF r
      <2>1. /\ c.hooks = {} /\ ~c.proxy /\ ~c.ready
            BY <1>4 DEF HooksFit
      <2>2. /\ d \in ClientType /\ d.stream /\ d.timer /\ d.hooks = {"connecting"}
            /\ d.proxy = c.proxy /\ d.ready = c.ready /\ d.suspended = c.suspended
            /\ d.hasty = (c.hasty /\ InQueue(r, OldEvents))
            BY <2>0, <2>1 DEF ClientType
      <2> HIDE DEF d
      <2>3. HooksFit(d)
            <3>1. {"connecting"} # {"connection"}
                  OBVIOUS
            <3> QED BY <1>4, <2>1, <2>2, <3>1 DEF HooksFit
      <2>4. ASSUME NEW i \in 1 .. Len(q) PROVE q[i] \notin Dials \cap Fresh
            BY <1>4 DEF OwnDials
      <2>5. /\ r \in Seq(Event) /\ OldComeFirst(r)
            /\ \A i \in 1 .. Len(r) : r[i] \notin Dials \cap Fresh
            /\ r = q \/ \A i \in 1 .. Len(r) : r[i] \in Fresh
            <3>1. CASE r = q
                  BY <2>4, <3>1
            <3>2. CASE r = Kept(q, Fresh)
                  <4>1. /\ r \in Seq(Event)
                        /\ \A i \in 1 .. Len(r) : r[i] \in Fresh /\ \E j \in 1 .. Len(q) : q[j] = r[i]
                        BY <3>2, KeptElements
                  <4> QED BY <2>4, <4>1 DEF OldComeFirst
            <3> QED BY <1>4, <3>1, <3>2 DEF r
      <2>16. ASSUME ~d.hasty, NEW i \in 1 .. Len(r) PROVE r[i] \notin Dials
            <3>1. CASE ~c.hasty /\ r = q
                  BY <1>4, <2>4, <3>1
            <3>2. CASE \A j \in 1 .. Len(r) : r[j] \in Fresh
                  BY <2>5, <3>2
            <3>3. CASE ~InQueue(r, OldEvents)
                  <4>1. r[i] \notin OldEvents /\ r[i] \in Event
                        BY <2>5, <3>3, InQueueAt
                  <4>2. r[i] \in Fresh
                        BY <4>1 DEF OldEvents, Fresh
                  <4> QED BY <2>5, <4>2
            <3> QED BY <2>0, <2>2, <2>5, <2>16, <3>1, <3>2, <3>3
      <2>6. PICK kind \in {"willing", "dead", "mute", "alien"} :
              server' = [net |-> "dialing", kind |-> kind, said |-> 0]
            BY <1>4
      <2>7. server' \in ServerType /\ server'.net = "dialing"
            BY <2>6, Handshakes DEF ServerType
      <2>8. PICK n \in Nat : app' = [a EXCEPT !.resolved = n, !.gui = "connecting",
                                              !.late = NewsUnderWay(r)]
            BY <1>4 DEF r
      <2>9. NewsUnderWay(r) \in BOOLEAN
            BY DEF NewsUnderWay
      <2>10. app' \in AppType /\ app'.gui = "connecting" /\ app'.late = NewsUnderWay(r)
            BY <2>8, <2>9 DEF AppType
      <2>11. BuffersFit(d, NoFilter, server') /\ Remembered(d, NoFilter, r)
            BY <2>2, NothingThere DEF BuffersFit, Remembered
      <2>12. OwnDials(d, server', r)
            <3>1. {"connecting"} # {"connection"}
                  OBVIOUS
            <3> QED BY <2>2, <2>16, <3>1 DEF OwnDials, DialsFit
      <2>13. Going(d, app', r)
            BY <2>2 DEF Going
      <2>14. NewsFits(d, app', r)
            BY <2>1, <2>2, <2>10 DEF NewsFits, WillShow
      <2>15. Fits(d, app', NoFilter, server', r)
            BY <2>3, <2>5, <2>11, <2>12, <2>13, <2>14 DEF Fits
      <2>17. client' = d
            BY <1>4 DEF d, r
      <2> QED BY <1>4, <2>2, <2>5, <2>7, <2>10, <2>15, <2>17, NothingThere DEF NextFits, r
<1> QED BY <1>1, <1>2, <1>3, <1>4, Connects

\* ServerProxy's handler of the input.
LEMMA DataFits ==
    ASSUME Typed, NEW f \in FilterType, NEW q \in Seq(Event),
           client.stream, client.proxy, HandleData(f, q), app' = app,
           HooksFit(client), BuffersFit(client, f, server), OldComeFirst(q),
           OwnDials(client, server, q), Going(client, app, q), NewsFits(client, app, q)
    PROVE  NextFits
<1>0. client \in ClientType /\ server \in ServerType /\ app \in AppType
      BY DEF Typed
<1>1. PICK done \in Parsing :
        /\ client' = [client EXCEPT !.ready = done.ready, !.entered = done.entered]
        /\ filter' = [f EXCEPT !.box = done.box]
        /\ queue' = q \o done.events
        /\ server' = server
        /\ done.box = <<>> \/ InQueue(done.events, ToFilter)
        /\ client.ready => done.ready
        /\ done.ready => client.ready \/ InQueue(done.events, {ToApp("connected")})
        /\ InQueue(done.events, {ToApp("connected")}) => done.ready
      BY <1>0, HandledData
<1> DEFINE d == [client EXCEPT !.ready = done.ready, !.entered = done.entered]
           g == [f EXCEPT !.box = done.box]
           es == done.events
           r == q \o es
<1>2. /\ done.ready \in BOOLEAN /\ done.entered \in BOOLEAN /\ done.box \in Seq(Message)
      /\ es \in Seq(Calm)
      BY DEF Parsing
<1>3. /\ d \in ClientType /\ d.ready = done.ready
      /\ d.stream = client.stream /\ d.hooks = client.hooks /\ d.timer = client.timer
      /\ d.proxy = client.proxy /\ d.alarm = client.alarm
      /\ d.hasty = client.hasty /\ d.suspended = client.suspended /\ d.connectOnResume = client.connectOnResume
      BY <1>0, <1>2 DEF ClientType
<1>4. g \in FilterType /\ g.box = done.box
      BY <1>2 DEF FilterType
<1> HIDE DEF d, g, es
<1>5. /\ es \in Seq(Event) /\ \A i \in 1 .. Len(es) : es[i] \in Fresh \ Dials
      /\ ~InQueue(es, {ToApp("disconnected")})
      BY <1>2, CalmEvents
<1>6. /\ r \in Seq(Event)
      /\ OldComeFirst(r) /\ OwnDials(client, server, r)
      /\ \A E : InQueue(r, E) <=> InQueue(q, E) \/ InQueue(es, E)
      BY <1>5, Appended
<1>7. /\ InQueue(es, {ToApp("connected")}) => \A gui : WillShow(r, gui)
      /\ ~InQueue(es, {ToApp("connected")}) =>
           \A gui : WillShow(r, gui) <=> WillShow(q, gui)
      BY <1>5, NewsAppended
<1> HIDE DEF r
<1>8. HooksFit(d)
      BY <1>3 DEF HooksFit
<1>9. BuffersFit(d, g, server)
      BY <1>3 DEF BuffersFit
<1>10. OwnDials(d, server, r)
      BY <1>3, <1>6 DEF OwnDials, DialsFit
<1>11. Going(d, app, r)
      BY <1>3, <1>6 DEF Going
<1>12. Remembered(d, g, r)
      BY <1>1, <1>4, <1>6 DEF Remembered, es
<1>13. NewsFits(d, app, r)
      <2>1. CASE InQueue(es, {ToApp("connected")})
            <3>1. d.ready
                  BY <1>1, <1>3, <2>1 DEF es
            <3> QED BY <1>7, <2>1, <3>1 DEF NewsFits
      <2>2. CASE ~InQueue(es, {ToApp("connected")})
            <3>1. d.ready <=> client.ready
                  BY <1>0, <1>1, <1>2, <1>3, <2>2 DEF es, ClientType
            <3> QED BY <1>3, <1>7, <2>2, <3>1 DEF NewsFits
      <2> QED BY <2>1, <2>2
<1>14. Fits(d, app, g, server, r)
      BY <1>6, <1>8, <1>9, <1>10, <1>11, <1>12, <1>13 DEF Fits
<1>15. client' = d /\ filter' = g /\ queue' = r /\ server' = server
      BY <1>1 DEF d, g, r, es
<1> QED BY <1>0, <1>3, <1>4, <1>6, <1>14, <1>15 DEF NextFits

\* Client::handleHello: the stream goes, or a server takes its place.
LEMMA HelloFits ==
    ASSUME Typed, NEW f \in FilterType, NEW q \in Seq(Event), f.box # <<>>,
           client.stream, ~client.proxy, client.hooks = {"connection"},
           HandleHello(f, q), app' = app,
           HooksFit(client), BuffersFit(client, f, server), OldComeFirst(q),
           OwnDials(client, server, q), Going(client, app, q), NewsFits(client, app, q)
    PROVE  NextFits
<1> DEFINE seen == ShutdownSeen(Tail(f.box))
           more == IF Tail(f.box) # <<>> THEN <<FromFilter("input")>> ELSE <<>>
<1>0. /\ client \in ClientType /\ server \in ServerType /\ app \in AppType
      /\ f.box \in Seq(Message) /\ Tail(f.box) \in Seq(Message)
      BY DEF Typed, FilterType
<1>1. seen \in Seq(Calm) /\ ~InQueue(seen, {ToApp("connected")})
      BY ShutdownEvents
<1>2. /\ more \in Seq(Calm) /\ ~InQueue(more, {ToApp("connected")})
      /\ Tail(f.box) # <<>> => InQueue(more, ToFilter)
      <2>1. /\ FromFilter("input") \in Calm /\ FromFilter("input") \in ToFilter
            /\ FromFilter("input") # ToApp("connected")
            BY CalmKinds
      <2> QED BY <2>1, OneEvent, NoEvents
<1>3. CASE f.box[1] # "hello"
      <2> DEFINE b == q \o seen
                 m == Append(b, ToApp("failed"))
      <2>1. /\ client' = Cleaned(client) /\ queue' = Left(m)
            /\ filter' = NoFilter /\ server' = NoServer
            BY <1>3 DEF HandleHello
      <2>2. b \in Seq(Event)
            BY <1>1, CalmEvents
      <2>3. ToApp("failed") \in Event /\ ToApp("failed") \in Chances
            BY Kinds
      <2> HIDE DEF b
      <2>4. /\ m \in Seq(Event) /\ Len(m) = Len(b) + 1 /\ Len(b) \in Nat
            /\ m[Len(b) + 1] \in Chances
            BY <2>2, <2>3
      <2> HIDE DEF m
      <2>5. InQueue(m, Chances)
            <3>1. Len(b) + 1 \in 1 .. Len(m)
                  BY <2>4
            <3> QED BY <2>4, <3>1, InQueueAt
      <2>6. /\ Left(m) \in Seq(Event)
            /\ \A i \in 1 .. Len(Left(m)) : Left(m)[i].to = "app" \/ Left(m)[i] \notin Fresh
            /\ InQueue(Left(m), Chances)
            BY <1>0, <2>4, <2>5, LeftQueue
      <2>7. ~client.suspended
            BY DEF HooksFit
      <2>8. Fits(Cleaned(client), app, NoFilter, NoServer, Left(m))
            BY <1>0, <2>6, <2>7, Dropped
      <2> QED BY <1>0, <2>1, <2>6, <2>8, CleanedClient, NothingThere DEF NextFits
<1>4. CASE f.box[1] = "hello"
      <2> DEFINE d == [client EXCEPT !.timer = FALSE, !.proxy = TRUE, !.alarm = TRUE,
                                     !.ready = FALSE]
                 g == [f EXCEPT !.box = Tail(@)]
                 b == q \o seen
                 r == b \o more
      <2>1. client' = d /\ filter' = g /\ server' = server /\ queue' = r
            BY <1>4 DEF HandleHello
      <2>2. /\ d \in ClientType /\ d.stream = client.stream /\ d.hooks = client.hooks
            /\ ~d.timer /\ d.proxy /\ ~d.ready /\ d.alarm
            /\ d.hasty = client.hasty /\ d.suspended = client.suspended /\ d.connectOnResume = client.connectOnResume
            BY <1>0 DEF ClientType
      <2>3. g \in FilterType /\ g.box = Tail(f.box)
            BY <1>0 DEF FilterType
      <2> HIDE DEF d, g, seen, more
      <2>4. ~client.ready
            BY DEF HooksFit
      <2> DEFINE NoBox == [sock |-> <<>>, box |-> <<>>, closing |-> FALSE]
      <2>5. Fits(client, app, NoBox, server, q)
            <3>1. NoBox.box = <<>>
                  OBVIOUS
            <3> HIDE DEF NoBox
            <3>2. BuffersFit(client, NoBox, server) /\ Remembered(client, NoBox, q)
                  BY <3>1 DEF BuffersFit, Remembered
            <3> QED BY <3>2 DEF Fits
      <2>6. b \in Seq(Event) /\ Fits(client, app, NoBox, server, b)
            BY <1>1, <2>5, Added
      <2> HIDE DEF NoBox, b
      <2>7. r \in Seq(Event) /\ Fits(client, app, NoBox, server, r)
            BY <1>2, <2>6, Added
      <2>8. InQueue(more, ToFilter) => InQueue(r, ToFilter)
            <3>1. more \in Seq(Event) /\ \A i \in 1 .. Len(more) : more[i] \in Fresh \ Dials
                  BY <1>2, CalmEvents
            <3> QED BY <2>6, <3>1, Appended
      <2> HIDE DEF r
      <2>9. HooksFit(d)
            BY <2>2 DEF HooksFit
      <2>10. BuffersFit(d, g, server)
            BY <2>2 DEF BuffersFit
      <2>11. OldComeFirst(r) /\ OwnDials(d, server, r)
            BY <2>2, <2>7 DEF Fits, OwnDials, DialsFit
      <2>12. Going(d, app, r)
            BY <2>2 DEF Going
      <2>13. Remembered(d, g, r)
            BY <1>2, <2>3, <2>8 DEF Remembered
      <2>14. NewsFits(d, app, r)
            BY <2>2, <2>4, <2>7 DEF Fits, NewsFits
      <2>15. Fits(d, app, g, server, r)
            BY <2>9, <2>10, <2>11, <2>12, <2>13, <2>14 DEF Fits
      <2> QED BY <1>0, <2>1, <2>2, <2>3, <2>7, <2>15 DEF NextFits
<1> QED BY <1>3, <1>4

\* The filter's input reaches whoever listens.
LEMMA InputFits ==
    ASSUME Typed, NEW f \in FilterType, NEW q \in Seq(Event),
           client.stream, InputReady(f, q), app' = app,
           HooksFit(client), BuffersFit(client, f, server), OldComeFirst(q),
           OwnDials(client, server, q), Going(client, app, q), NewsFits(client, app, q)
    PROVE  NextFits
<1>1. CASE f.box # <<>> /\ client.proxy
      <2>1. HandleData(f, q)
            BY <1>1 DEF InputReady
      <2> QED BY <1>1, <2>1, DataFits
<1>2. CASE f.box # <<>> /\ ~client.proxy /\ "connection" \in client.hooks
      <2>1. HandleHello(f, q)
            BY <1>2 DEF InputReady
      <2>2. client.hooks = {"connection"}
            BY <1>2 DEF HooksFit
      <2> QED BY <1>2, <2>1, <2>2, HelloFits
<1>3. CASE f.box = <<>> \/ (~client.proxy /\ "connection" \notin client.hooks)
      <2>1. filter' = f /\ queue' = q /\ client' = client /\ server' = server
            BY <1>3 DEF InputReady
      <2>2. f.box = <<>> \/ client.timer
            BY <1>3 DEF HooksFit
      <2>3. Fits(client, app, f, server, q)
            BY <2>2 DEF Fits, Remembered
      <2> QED BY <2>1, <2>3 DEF NextFits, Typed
<1> QED BY <1>1, <1>2, <1>3

-----------------------------------------------------------------------------
(* The application.                                                          *)

LEMMA NextServerIsOne == ASSUME app \in AppType PROVE NextServer \in Servers
<1>1. Len(Hosts) \in Nat /\ Len(Hosts) > 0 /\ Servers = 1 .. Len(Hosts)
      BY HostsAssumption DEF Servers
<1>2. app.server \in Nat
      BY <1>1 DEF AppType
<1>3. ASSUME NEW n \in Nat, NEW l \in Nat, l > 0 PROVE (n % l) + 1 \in 1 .. l
      BY <1>3
<1> QED BY <1>1, <1>2, <1>3 DEF NextServer

LEMMA RetryType ==
    ASSUME NEW a \in AppType
    PROVE  /\ Retry(a) \in AppType /\ Retry(a).retries = a.retries + 1
           /\ Retry(a).gui = a.gui /\ Retry(a).late = a.late /\ Retry(a).retries > 0
BY DEF AppType, Retry

\* What the application does with each of its events.
LEMMA ToldApp ==
    ASSUME Typed, Fits(client, app, filter, server, queue), DispatchToApp
    PROVE  /\ queue # <<>> /\ Head(queue).to = "app" /\ queue' = Tail(queue)
           /\ client' = client /\ filter' = filter /\ server' = server /\ faults' = faults
           /\ app' \in AppType /\ app'.late = app.late
           /\ app'.gui = IF Head(queue) = ToApp("connected") THEN "connected"
                         ELSE IF Head(queue) = ToApp("disconnected") THEN "disconnected"
                              ELSE app.gui
           /\ Head(queue) # ToApp("connected") => app'.retries > 0
           /\ Head(queue) = ToApp("connected") => app'.retries = app.retries
<1> DEFINE e == Head(queue)
<1>1. /\ queue # <<>> /\ e.to = "app" /\ queue' = Tail(queue)
      /\ client' = client /\ filter' = filter /\ server' = server /\ faults' = faults
      BY DEF DispatchToApp
<1>2. app \in AppType /\ queue \in Seq(Event) /\ e \in Event
      BY <1>1, Heads DEF Typed
<1>3. /\ e = ToApp(e.type)
      /\ e.type \in {"connected", "failed", "refused", "disconnected"}
      BY <1>1, <1>2, Kinds DEF Event
<1> HIDE DEF e
<1>4. \A t, u : t # u => ToApp(t) # ToApp(u)
      BY Kinds
<1>5. CASE e.type = "connected"
      <2>1. app' = [app EXCEPT !.gui = "connected", !.server = 1, !.index = 0]
            BY <1>5 DEF DispatchToApp, HandleClientConnected, e
      <2>2. 1 \in Servers
            BY HostsAssumption DEF Servers
      <2>3. /\ app' \in AppType /\ app'.late = app.late /\ app'.gui = "connected"
            /\ app'.retries = app.retries
            BY <1>2, <2>1, <2>2 DEF AppType
      <2> QED BY <1>1, <1>3, <1>5, <2>3 DEF e
<1>6. CASE e.type = "disconnected"
      <2>1. app' = Retry([app EXCEPT !.gui = "disconnected"])
            BY <1>6 DEF DispatchToApp, HandleClientDisconnected, e
      <2>2. /\ [app EXCEPT !.gui = "disconnected"] \in AppType
            /\ [app EXCEPT !.gui = "disconnected"].gui = "disconnected"
            /\ [app EXCEPT !.gui = "disconnected"].late = app.late
            BY <1>2 DEF AppType
      <2>3. /\ app' \in AppType /\ app'.late = app.late /\ app'.gui = "disconnected"
            /\ app'.retries > 0
            BY <2>1, <2>2, RetryType
      <2> QED BY <1>1, <1>3, <1>4, <1>6, <2>3 DEF e
<1>7. CASE e.type \in {"failed", "refused"}
      <2>1. \E a \in AppType : app' = Retry(a) /\ a.gui = app.gui /\ a.late = app.late
            <3>1. CASE e.type = "refused"
                  BY <1>2, <3>1 DEF DispatchToApp, HandleClientRefused, e
            <3>2. CASE e.type = "failed"
                  <4>1. HandleClientFailed
                        BY <3>2 DEF DispatchToApp, e
                  <4> DEFINE a == [app EXCEPT !.index = @ + 1]
                             b == [app EXCEPT !.index = 0, !.server = NextServer]
                  <4>2. a \in AppType /\ a.gui = app.gui /\ a.late = app.late
                        BY <1>2 DEF AppType
                  <4>3. b \in AppType /\ b.gui = app.gui /\ b.late = app.late
                        BY <1>2, NextServerIsOne DEF AppType
                  <4>4. app' = Retry(a) \/ app' = Retry(b)
                        BY <4>1 DEF HandleClientFailed
                  <4> HIDE DEF a, b
                  <4> QED BY <4>2, <4>3, <4>4
            <3> QED BY <1>7, <3>1, <3>2
      <2>2. /\ app' \in AppType /\ app'.late = app.late /\ app'.gui = app.gui
            /\ app'.retries > 0
            BY <2>1, RetryType
      <2> QED BY <1>1, <1>3, <1>4, <1>7, <2>2 DEF e
<1> QED BY <1>3, <1>5, <1>6, <1>7

LEMMA DispatchToAppFits ==
    ASSUME Typed, Fits(client, app, filter, server, queue), DispatchToApp
    PROVE  NextFits
<1> DEFINE r == Tail(queue)
<1>1. /\ queue # <<>> /\ Head(queue).to = "app" /\ queue' = r
      /\ client' = client /\ filter' = filter /\ server' = server
      /\ app' \in AppType /\ app'.late = app.late
      /\ app'.gui = IF Head(queue) = ToApp("connected") THEN "connected"
                    ELSE IF Head(queue) = ToApp("disconnected") THEN "disconnected"
                         ELSE app.gui
      /\ Head(queue) # ToApp("connected") => app'.retries > 0
      /\ Head(queue) = ToApp("connected") => app'.retries = app.retries
      BY ToldApp
<1>2. queue \in Seq(Event)
      BY DEF Typed
<1>3. /\ Head(queue) \in Event /\ r \in Seq(Event)
      /\ OldComeFirst(r) /\ OwnDials(client, server, r)
      /\ \A E : InQueue(queue, E) <=> Head(queue) \in E \/ InQueue(r, E)
      BY <1>1, <1>2, Dispatched DEF Fits
<1>4. WillShow(r, app'.gui) <=> WillShow(queue, app.gui)
      BY <1>1, <1>2, NewsDispatched
<1>5. Head(queue) \notin GiveUps /\ Head(queue) \notin ToFilter
      BY <1>1, <1>3, Kinds DEF ToFilter
<1>6. Head(queue) = ToApp("connected") => Head(queue) \notin Chances
      BY DEF Chances
<1>7. Going(client, app', r)
      BY <1>1, <1>3, <1>5, <1>6 DEF Fits, Going
<1>8. Remembered(client, filter, r)
      BY <1>3, <1>5 DEF Fits, Remembered
<1>9. NewsFits(client, app', r)
      BY <1>1, <1>4 DEF Fits, NewsFits
<1> QED BY <1>1, <1>3, <1>7, <1>8, <1>9 DEF NextFits, Typed, Fits

LEMMA RetryFiresFits ==
    ASSUME Typed, Fits(client, app, filter, server, queue), RetryFires
    PROVE  NextFits
<1> DEFINE hasty == client.hasty \/ (~client.stream /\ InQueue(queue, OldEvents))
           c == [client EXCEPT !.address = app.server, !.hasty = hasty]
           a == [app EXCEPT !.retries = @ - 1]
<1>1. /\ app.retries > 0
      /\ Connect(c, a, app.server, app.index, queue)
      BY DEF RetryFires
<1>2. /\ client \in ClientType /\ app \in AppType /\ queue \in Seq(Event)
      /\ app.server \in Servers /\ app.index \in Nat
      BY DEF Typed, AppType
<1>0. hasty \in BOOLEAN /\ client.stream \in BOOLEAN
      BY <1>2 DEF ClientType, InQueue
<1> HIDE DEF hasty
<1>3. /\ c \in ClientType
      /\ c.stream = client.stream /\ c.hooks = client.hooks /\ c.timer = client.timer
      /\ c.proxy = client.proxy /\ c.ready = client.ready /\ c.alarm = client.alarm
      /\ c.hasty = hasty /\ c.suspended = client.suspended /\ c.connectOnResume = client.connectOnResume
      BY <1>0, <1>2 DEF ClientType
<1>4. a \in AppType /\ a.gui = app.gui /\ a.late = app.late
      BY <1>1, <1>2 DEF AppType
<1> HIDE DEF c, a
<1>10. client.hasty => c.hasty
      BY <1>3 DEF hasty
<1>5. HooksFit(c) /\ BuffersFit(c, filter, server) /\ OldComeFirst(queue)
      BY <1>3, <1>10 DEF Fits, HooksFit, BuffersFit
<1>6. OwnDials(c, server, queue)
      BY <1>3, <1>10 DEF Fits, OwnDials, DialsFit
<1>7. Remembered(c, filter, queue) /\ NewsFits(c, a, queue)
      BY <1>3, <1>4 DEF Fits, Remembered, NewsFits
<1>8. c.stream => Going(c, a, queue)
      BY <1>3 DEF Fits, Going
<1>9. ASSUME ~c.stream, ~c.hasty, NEW i \in 1 .. Len(queue) PROVE queue[i] \in Fresh
      <2>1. ~InQueue(queue, OldEvents)
            BY <1>3, <1>9 DEF hasty
      <2>2. queue[i] \notin OldEvents /\ queue[i] \in Event
            BY <1>2, <2>1, InQueueAt
      <2> QED BY <2>2 DEF Fresh, OldEvents
<1> QED BY <1>1, <1>2, <1>3, <1>4, <1>5, <1>6, <1>7, <1>8, <1>9, ConnectFits

-----------------------------------------------------------------------------
(* The stream's events.                                                      *)

LEMMA ReadMoreFits ==
    ASSUME Typed, Fits(client, app, filter, server, queue), ReadMore
    PROVE  NextFits
<1>1. /\ queue # <<>> /\ Head(queue).to = "socket" /\ Head(queue).type = "input"
      /\ client.stream /\ app' = app
      BY DEF ReadMore
<1>2. PICK n \in {0, 1, Len(filter.sock)} :
        LET f == [filter EXCEPT !.box = @ \o SubSeq(filter.sock, 1, n),
                                !.sock = SubSeq(@, n + 1, Len(@))]
            q == Tail(queue) \o IF n < Len(filter.sock) THEN <<FromSocket("input")>> ELSE <<>>
        IN /\ n <= Len(filter.sock)
           /\ IF filter.box = <<>> THEN InputReady(f, q)
              ELSE filter' = f /\ queue' = q /\ UNCHANGED <<client, server>>
      BY DEF ReadMore
<1> DEFINE f == [filter EXCEPT !.box = @ \o SubSeq(filter.sock, 1, n),
                               !.sock = SubSeq(@, n + 1, Len(@))]
           es == IF n < Len(filter.sock) THEN <<FromSocket("input")>> ELSE <<>>
           q == Tail(queue) \o es
<1>3. /\ client \in ClientType /\ app \in AppType /\ server \in ServerType
      /\ filter \in FilterType /\ queue \in Seq(Event)
      /\ filter.sock \in Seq(Message) /\ filter.box \in Seq(Message)
      /\ n \in Nat /\ n <= Len(filter.sock)
      BY <1>2 DEF Typed, FilterType
<1>4. f \in FilterType
      <2>1. ASSUME NEW s \in Seq(Message), NEW k \in Nat, k <= Len(s)
            PROVE  SubSeq(s, 1, k) \in Seq(Message) /\ SubSeq(s, k + 1, Len(s)) \in Seq(Message)
            <3>1. /\ \A i \in 1 .. k : s[i] \in Message
                  /\ \A i \in (k + 1) .. Len(s) : s[i] \in Message
                  BY <2>1
            <3> QED BY <2>1, <3>1, SubSeqProperties
      <2>2. /\ SubSeq(filter.sock, 1, n) \in Seq(Message)
            /\ SubSeq(filter.sock, n + 1, Len(filter.sock)) \in Seq(Message)
            BY <1>3, <2>1
      <2>3. filter.box \o SubSeq(filter.sock, 1, n) \in Seq(Message)
            BY <1>3, <2>2
      <2>4. ASSUME NEW b \in Seq(Message), NEW s \in Seq(Message)
            PROVE  [filter EXCEPT !.box = b, !.sock = s] \in FilterType
            BY <1>3 DEF FilterType
      <2> QED BY <2>2, <2>3, <2>4
<1>5. es \in Seq(Calm) /\ ~InQueue(es, {ToApp("connected")})
      <2>1. FromSocket("input") \in Calm /\ FromSocket("input") # ToApp("connected")
            BY CalmSocket
      <2> QED BY <2>1, OneEvent, NoEvents
<1>6. Head(queue) \notin GiveUps /\ Head(queue) \notin ToFilter
      BY <1>1 DEF GiveUps, ToFilter
<1> HIDE DEF es
<1>7. /\ Tail(queue) \in Seq(Event) /\ Fits(client, app, filter, server, Tail(queue))
      BY <1>1, <1>3, <1>6, HeadGone DEF Fits
<1>8. q \in Seq(Event) /\ Fits(client, app, filter, server, q)
      BY <1>5, <1>7, Added
<1> HIDE DEF q, f
<1>9. BuffersFit(client, f, server)
      BY <1>1, <1>8 DEF Fits, BuffersFit
<1>10. CASE filter.box = <<>>
      <2>1. InputReady(f, q)
            BY <1>2, <1>10 DEF f, q, es
      <2> QED BY <1>1, <1>4, <1>8, <1>9, <2>1, InputFits DEF Fits
<1>11. CASE filter.box # <<>>
      <2>1. filter' = f /\ queue' = q /\ client' = client /\ server' = server
            BY <1>2, <1>11 DEF f, q, es
      <2>2. Remembered(client, f, q)
            BY <1>8, <1>11 DEF Fits, Remembered
      <2>3. Fits(client, app, f, server, q)
            BY <1>8, <1>9, <2>2 DEF Fits
      <2> QED BY <1>1, <1>3, <1>4, <1>8, <2>1, <2>3 DEF NextFits
<1> QED BY <1>10, <1>11

LEMMA DispatchInputFits ==
    ASSUME Typed, Fits(client, app, filter, server, queue), DispatchInput
    PROVE  NextFits
<1>1. /\ queue # <<>> /\ Head(queue).to = "filter" /\ Head(queue).type = "input"
      /\ client.stream /\ app' = app /\ InputReady(filter, Tail(queue))
      BY DEF DispatchInput
<1>2. Head(queue) \notin GiveUps
      BY <1>1 DEF GiveUps
<1>3. /\ Tail(queue) \in Seq(Event)
      /\ HooksFit(client) /\ BuffersFit(client, filter, server)
      /\ OldComeFirst(Tail(queue)) /\ OwnDials(client, server, Tail(queue))
      /\ NewsFits(client, app, Tail(queue)) /\ Going(client, app, Tail(queue))
      BY <1>1, <1>2, HeadGone DEF Typed
<1> QED BY <1>1, <1>3, InputFits DEF Typed

\* The stream is connected: the answer was its own, if it was not begun in haste, and
\* nothing old is behind it.
LEMMA HandleConnectedFits ==
    ASSUME Typed, Fits(client, app, filter, server, queue), HandleConnected
    PROVE  NextFits
<1> DEFINE d == [client EXCEPT !.hooks = (@ \ {"connecting"}) \cup {"connection"}]
           e == Head(queue)
           r == Tail(queue)
<1>1. /\ queue # <<>> /\ e.to = "socket" /\ e.type = "connected"
      /\ "connecting" \in client.hooks /\ client' = d /\ queue' = r
      /\ app' = app /\ filter' = filter /\ server' = server
      BY DEF HandleConnected
<1>2. client \in ClientType /\ queue \in Seq(Event)
      BY DEF Typed
<1>3. client.hooks = {"connecting"} /\ client.timer /\ client.stream /\ ~client.proxy
      <2>1. client.stream
            BY <1>1 DEF Fits, HooksFit
      <2>2. client.hooks = {"connecting"}
            BY <1>1, <2>1 DEF Fits, HooksFit
      <2> QED BY <2>1, <2>2 DEF Fits, HooksFit
<1>4. /\ d \in ClientType /\ d.hooks = {"connection"}
      /\ d.stream = client.stream /\ d.timer = client.timer /\ d.proxy = client.proxy
      /\ d.ready = client.ready /\ d.alarm = client.alarm
      /\ d.hasty = client.hasty /\ d.suspended = client.suspended /\ d.connectOnResume = client.connectOnResume
      BY <1>2, <1>3 DEF ClientType
<1>5. /\ e \in Event /\ r \in Seq(Event)
      /\ OldComeFirst(r) /\ NewsFits(client, app, r)
      /\ Remembered(client, filter, r)
      BY <1>1, <1>2, <1>3, HeadGone DEF Fits, Remembered
<1>6. /\ 1 \in 1 .. Len(queue) /\ queue[1] = e /\ Len(queue) \in Nat
      /\ \A i \in 1 .. Len(r) : i + 1 \in 1 .. Len(queue) /\ r[i] = queue[i + 1]
      /\ Len(r) \in Nat
      BY <1>1, <1>2, Heads
<1> HIDE DEF d, e, r
<1>7. ASSUME ~client.hasty PROVE e \in Dials \cap Fresh
      <2>1. e \in Dials
            BY <1>1, <1>5 DEF Dials
      <2> QED BY <1>3, <1>6, <1>7, <2>1 DEF Fits, OwnDials, DialsFit
<1>8. ASSUME ~client.hasty, NEW i \in 1 .. Len(r) PROVE r[i] \in Fresh /\ r[i] \notin Dials
      <2>1. PICK k \in 1 .. Len(queue) : k = i + 1 /\ r[i] = queue[k]
            BY <1>6
      <2>2. 1 < k /\ 1 # k
            BY <1>6, <2>1
      <2>3. e.to # "app"
            BY <1>1
      <2>4. r[i] \in Fresh
            BY <1>6, <1>7, <1>8, <2>1, <2>2, <2>3 DEF Fits, OldComeFirst
      <2>5. r[i] \notin Dials \cap Fresh
            BY <1>6, <1>7, <1>8, <2>1, <2>2 DEF Fits, OwnDials, DialsFit
      <2> QED BY <2>4, <2>5
<1>9. HooksFit(d)
      <2>1. {"connecting"} # {"connection"}
            OBVIOUS
      <2> QED BY <1>3, <1>4, <2>1 DEF Fits, HooksFit
<1>10. BuffersFit(d, filter, server)
      <2>1. server.net # "dialing" \/ client.hasty
            BY <1>6, <1>7 DEF Fits, OwnDials, DialsFit
      <2> QED BY <1>3, <1>4, <2>1 DEF Fits, BuffersFit
<1>11. OwnDials(d, server, r)
      BY <1>3, <1>4, <1>8 DEF OwnDials, DialsFit, Fits, HooksFit
<1>12. Going(d, app, r) /\ Remembered(d, filter, r) /\ NewsFits(d, app, r)
      BY <1>3, <1>4, <1>5 DEF Going, Remembered, NewsFits
<1>13. Fits(d, app, filter, server, r)
      BY <1>5, <1>9, <1>10, <1>11, <1>12 DEF Fits
<1> QED BY <1>1, <1>4, <1>5, <1>13 DEF NextFits, Typed, r

\* The other events that end the stream.
LEMMA DroppingFits ==
    ASSUME Typed, Fits(client, app, filter, server, queue),
           HandleConnectionFailed \/ HandleDisconnected \/ HandleDisconnectRequested
             \/ (HandleConnectTimeout /\ UNCHANGED app)
    PROVE  NextFits
<1>1. client \in ClientType /\ queue \in Seq(Event)
      BY DEF Typed
<1>2. client.stream => ~client.suspended
      BY DEF Fits, HooksFit
<1>3. client.hooks # {} => client.stream
      BY DEF Fits, HooksFit
<1>4. client.timer => client.stream
      BY DEF Fits, HooksFit
<1>5. CASE HandleConnectionFailed
      <2>1. /\ queue # <<>> /\ client.hooks # {} /\ app' = app
            /\ DropStream(client, Tail(queue), "failed")
            BY <1>5 DEF HandleConnectionFailed
      <2>2. Tail(queue) \in Seq(Event)
            BY <1>1, <2>1, Heads
      <2> QED BY <1>1, <1>2, <1>3, <2>1, <2>2, DropFits
<1>6. CASE HandleDisconnected
      <2>1. /\ queue # <<>> /\ client.hooks # {} /\ app' = app
            /\ DropStream(client, Tail(queue), "disconnected")
            BY <1>6 DEF HandleDisconnected
      <2>2. Tail(queue) \in Seq(Event)
            BY <1>1, <2>1, Heads
      <2> QED BY <1>1, <1>2, <1>3, <2>1, <2>2, DropFits
<1>7. CASE HandleDisconnectRequested
      <2> DEFINE c == [client EXCEPT !.connectOnResume = FALSE]
      <2>1. PICK event \in {"failed", "refused", "disconnected"} :
              queue # <<>> /\ app' = app /\ DropStream(c, Tail(queue), event)
            <3>1. Head(queue).type \in {"end", "refuse", "dead"}
                  BY <1>7 DEF HandleDisconnectRequested
            <3>2. CASE Head(queue).type = "end"
                  BY <1>7, <3>2 DEF HandleDisconnectRequested
            <3>3. CASE Head(queue).type = "refuse"
                  BY <1>7, <3>3 DEF HandleDisconnectRequested
            <3>4. CASE Head(queue).type = "dead"
                  BY <1>7, <3>4 DEF HandleDisconnectRequested
            <3> QED BY <3>1, <3>2, <3>3, <3>4
      <2>2. Tail(queue) \in Seq(Event)
            BY <1>1, <2>1, Heads
      <2>3. c \in ClientType /\ ~c.connectOnResume
            BY <1>1 DEF ClientType
      <2> HIDE DEF c
      <2> QED BY <2>1, <2>2, <2>3, DropFits
<1>8. CASE HandleConnectTimeout /\ UNCHANGED app
      <2>1. client.timer /\ app' = app /\ DropStream(client, queue, "failed")
            BY <1>8 DEF HandleConnectTimeout
      <2> QED BY <1>1, <1>2, <1>4, <2>1, DropFits
<1> QED BY <1>5, <1>6, <1>7, <1>8

LEMMA HandleShutdownFits ==
    ASSUME Typed, Fits(client, app, filter, server, queue), HandleShutdown
    PROVE  NextFits
<1> DEFINE g == [filter EXCEPT !.closing = TRUE]
<1>1. /\ queue # <<>> /\ Head(queue).to = "socket" /\ Head(queue).type = "shutdown"
      /\ filter' = g /\ queue' = Tail(queue)
      /\ client' = client /\ app' = app /\ server' = server
      BY DEF HandleShutdown
<1>2. g \in FilterType /\ g.box = filter.box
      BY DEF Typed, FilterType
<1>3. Head(queue) \notin GiveUps /\ Head(queue) \notin ToFilter
      BY <1>1 DEF GiveUps, ToFilter
<1>4. Tail(queue) \in Seq(Event) /\ Fits(client, app, filter, server, Tail(queue))
      BY <1>1, <1>3, HeadGone DEF Fits, Typed
<1> HIDE DEF g
<1>5. Fits(client, app, g, server, Tail(queue))
      BY <1>2, <1>4 DEF Fits, BuffersFit, Remembered
<1> QED BY <1>1, <1>2, <1>4, <1>5 DEF NextFits, Typed

LEMMA UnheardFits ==
    ASSUME Typed, Fits(client, app, filter, server, queue), Unheard
    PROVE  NextFits
<1> DEFINE e == Head(queue)
<1>1. /\ queue # <<>> /\ e.to \in {"socket", "filter"} /\ ~Heard(e) /\ queue' = Tail(queue)
      /\ client' = client /\ app' = app /\ filter' = filter /\ server' = server
      BY DEF Unheard
<1>2. /\ e \in Event /\ Tail(queue) \in Seq(Event)
      /\ HooksFit(client) /\ BuffersFit(client, filter, server)
      /\ OldComeFirst(Tail(queue)) /\ OwnDials(client, server, Tail(queue))
      /\ NewsFits(client, app, Tail(queue))
      /\ e \notin GiveUps \/ ~client.stream \/ client.timer => Going(client, app, Tail(queue))
      /\ e \notin ToFilter => Remembered(client, filter, Tail(queue))
      BY <1>1, HeadGone DEF Typed
<1> HIDE DEF e
<1>3. ~client.stream \/ "connection" \in client.hooks \/ client.timer
      BY <1>2 DEF HooksFit
<1>4. e \in GiveUps => "connection" \notin client.hooks
      <2> SUFFICES ASSUME e \in GiveUps PROVE "connection" \notin client.hooks
          OBVIOUS
      <2>1. e.type \in {"end", "refuse", "dead"}
            BY DEF GiveUps
      <2> QED BY <1>1, <2>1 DEF Heard
<1>5. e \in ToFilter => ~client.stream \/ "connection" \notin client.hooks
      <2> SUFFICES ASSUME e \in ToFilter
                   PROVE  ~client.stream \/ "connection" \notin client.hooks
          OBVIOUS
      <2>1. e.to = "filter" /\ e.type \in {"input", "shutdown", "end", "refuse", "dead"}
            BY <1>2 DEF ToFilter, Event
      <2>2. CASE e.type = "input"
            BY <1>1, <2>2 DEF Heard
      <2>3. CASE e.type # "input"
            BY <1>1, <2>1, <2>3 DEF Heard
      <2> QED BY <2>2, <2>3
<1>6. Going(client, app, Tail(queue))
      BY <1>2, <1>3, <1>4
<1>7. Remembered(client, filter, Tail(queue))
      BY <1>2, <1>3, <1>5 DEF Remembered, BuffersFit
<1> QED BY <1>1, <1>2, <1>6, <1>7 DEF NextFits, Typed, Fits

-----------------------------------------------------------------------------
(* Timers, the power events and the network.                                 *)

LEMMA KeepAliveAlarmFits ==
    ASSUME Typed, Fits(client, app, filter, server, queue), KeepAliveAlarm
    PROVE  NextFits
<1> DEFINE d == [client EXCEPT !.alarm = FALSE]
           e == FromFilter("dead")
           r == Append(queue, e)
<1>1. /\ client' = d /\ queue' = r /\ app' = app /\ filter' = filter /\ server' = server
      BY DEF KeepAliveAlarm
<1>2. /\ client \in ClientType /\ queue \in Seq(Event)
      BY DEF Typed
<1>3. /\ d \in ClientType
      /\ d.stream = client.stream /\ d.hooks = client.hooks /\ d.timer = client.timer
      /\ d.proxy = client.proxy /\ d.ready = client.ready
      /\ d.hasty = client.hasty /\ d.suspended = client.suspended /\ d.connectOnResume = client.connectOnResume
      BY <1>2 DEF ClientType
<1>4. e \in Calm /\ e # ToApp("connected") /\ e \in GiveUps /\ e \in Event
      BY CalmKinds, Kinds
<1> HIDE DEF d, e
<1>5. r \in Seq(Event) /\ Fits(client, app, filter, server, r)
      BY <1>2, <1>4, AddedOne
<1>6. InQueue(r, GiveUps)
      <2>1. Len(queue) + 1 \in 1 .. Len(r) /\ r[Len(queue) + 1] = e
            BY <1>2, <1>4
      <2> QED BY <1>4, <1>5, <2>1, InQueueAt
<1> HIDE DEF r
<1>7. HooksFit(d) /\ BuffersFit(d, filter, server) /\ OwnDials(d, server, r)
      BY <1>3, <1>5 DEF Fits, HooksFit, BuffersFit, OwnDials, DialsFit
<1>8. Going(d, app, r) /\ Remembered(d, filter, r) /\ NewsFits(d, app, r)
      BY <1>3, <1>5, <1>6 DEF Fits, Going, Remembered, NewsFits
<1> QED BY <1>1, <1>3, <1>5, <1>7, <1>8 DEF NextFits, Typed, Fits

\* A client that is to connect when the machine wakes had a server: no answer to an
\* attempt was in the queue.
LEMMA HandleSuspendFits ==
    ASSUME Typed, Fits(client, app, filter, server, queue), HandleSuspend
    PROVE  NextFits
<1> DEFINE c == [client EXCEPT !.suspended = TRUE, !.connectOnResume = client.proxy]
<1>1. DropStream(c, queue, "disconnected") /\ app' = app
      BY DEF HandleSuspend
<1>2. client \in ClientType /\ queue \in Seq(Event)
      BY DEF Typed
<1>3. c \in ClientType /\ c.connectOnResume = client.proxy /\ c.hasty = client.hasty
      BY <1>2 DEF ClientType
<1> HIDE DEF c
<1>4. client.proxy /\ ~client.hasty => ~InQueue(queue, Dials)
      <2> SUFFICES ASSUME client.proxy, ~client.hasty PROVE ~InQueue(queue, Dials)
          OBVIOUS
      <2>1. client.hooks = {"connection"} /\ {"connection"} # {"connecting"}
            BY DEF Fits, HooksFit
      <2>2. \A i \in 1 .. Len(queue) : queue[i] \in Fresh /\ queue[i] \notin Dials \cap Fresh
            BY <2>1 DEF Fits, OwnDials, DialsFit
      <2> QED BY <1>2, <2>2, InQueueAt
<1> QED BY <1>1, <1>2, <1>3, <1>4, DropFits

LEMMA HandleResumeFits ==
    ASSUME Typed, Fits(client, app, filter, server, queue), HandleResume
    PROVE  NextFits
<1>1. client \in ClientType /\ queue \in Seq(Event) /\ app \in AppType
      BY DEF Typed
<1>2. client.suspended /\ ~client.stream /\ client.hooks = {} /\ ~client.timer
      BY DEF HandleResume, Fits, HooksFit
<1>3. CASE client.connectOnResume
      <2> DEFINE c == [client EXCEPT !.suspended = FALSE, !.connectOnResume = FALSE]
      <2>1. Connect(c, app, client.address, 0, queue)
            BY <1>3 DEF HandleResume
      <2>2. /\ c \in ClientType /\ client.address \in Servers
            /\ c.stream = client.stream /\ c.hooks = client.hooks /\ c.timer = client.timer
            /\ c.proxy = client.proxy /\ c.ready = client.ready
            /\ ~c.suspended /\ ~c.connectOnResume /\ c.hasty = client.hasty
            BY <1>1 DEF ClientType
      <2> HIDE DEF c
      <2>3. HooksFit(c) /\ BuffersFit(c, filter, server) /\ OwnDials(c, server, queue)
            BY <2>2 DEF Fits, HooksFit, BuffersFit, OwnDials, DialsFit
      <2>4. Remembered(c, filter, queue) /\ NewsFits(c, app, queue) /\ OldComeFirst(queue)
            BY <2>2 DEF Fits, Remembered, NewsFits
      <2>5. ~c.hasty => \A i \in 1 .. Len(queue) : queue[i] \in Dials => queue[i] \in Fresh
            BY <1>2, <1>3, <2>2 DEF Fits, OwnDials, DialsFit
      <2> QED BY <1>1, <1>2, <2>1, <2>2, <2>3, <2>4, <2>5, ConnectFits
<1>4. CASE ~client.connectOnResume
      <2> DEFINE d == [client EXCEPT !.suspended = FALSE]
      <2>1. client' = d /\ app' = app /\ filter' = filter /\ server' = server /\ queue' = queue
            BY <1>4 DEF HandleResume
      <2>2. /\ d \in ClientType
            /\ d.stream = client.stream /\ d.hooks = client.hooks /\ d.timer = client.timer
            /\ d.proxy = client.proxy /\ d.ready = client.ready
            /\ ~d.suspended /\ ~d.connectOnResume /\ d.hasty = client.hasty
            BY <1>1, <1>4 DEF ClientType
      <2> HIDE DEF d
      <2>3. HooksFit(d) /\ BuffersFit(d, filter, server) /\ OwnDials(d, server, queue)
            BY <2>2 DEF Fits, HooksFit, BuffersFit, OwnDials, DialsFit
      <2>4. Remembered(d, filter, queue) /\ NewsFits(d, app, queue) /\ OldComeFirst(queue)
            BY <2>2 DEF Fits, Remembered, NewsFits
      <2>5. Going(d, app, queue)
            BY <1>2, <1>4, <2>2 DEF Fits, Going
      <2> QED BY <2>1, <2>2, <2>3, <2>4, <2>5 DEF NextFits, Typed, Fits
<1> QED BY <1>3, <1>4

\* The answer to an attempt is the only one there is.
LEMMA AnswerFits ==
    ASSUME Typed, Fits(client, app, filter, server, queue), Answer
    PROVE  NextFits
<1>1. /\ server.net = "dialing" /\ client' = client /\ app' = app /\ filter' = filter
      /\ \E net \in {"up", "none"} : server' = [server EXCEPT !.net = net]
      /\ \E type \in {"connected", "failed"} : queue' = Append(queue, FromSocket(type))
      BY DEF Answer
<1>2. PICK net \in {"up", "none"} : server' = [server EXCEPT !.net = net]
      BY <1>1
<1>3. PICK type \in {"connected", "failed"} : queue' = Append(queue, FromSocket(type))
      BY <1>1
<1> DEFINE e == FromSocket(type)
           r == Append(queue, e)
<1>4. queue \in Seq(Event) /\ server \in ServerType
      BY DEF Typed
<1>5. server' \in ServerType /\ server'.net # "dialing"
      BY <1>2, <1>4 DEF ServerType
<1>6. e \in Event /\ e \in Dials \cap Fresh /\ e.to = "socket"
      BY Kinds DEF FromSocket
<1>7. client.stream /\ (client.hooks = {"connecting"} \/ client.hasty)
      BY <1>1 DEF Fits, BuffersFit
<1> HIDE DEF e
<1>8. /\ r \in Seq(Event) /\ Len(r) = Len(queue) + 1 /\ Len(queue) \in Nat
      /\ \A i \in 1 .. Len(queue) : r[i] = queue[i]
      /\ r[Len(queue) + 1] = e
      BY <1>4, <1>6
<1>9. \A i \in 1 .. Len(r) : i \in 1 .. Len(queue) \/ i = Len(queue) + 1
      BY <1>8
<1> HIDE DEF r
<1>10. OldComeFirst(r)
      <2> SUFFICES ASSUME NEW i \in 1 .. Len(r), NEW j \in 1 .. Len(r), i < j,
                          r[j] \notin Fresh, r[i].to # "app"
                   PROVE  r[i] \notin Fresh
          BY DEF OldComeFirst
      <2>1. j \in 1 .. Len(queue)
            BY <1>6, <1>8, <1>9
      <2>2. i \in 1 .. Len(queue)
            BY <1>8, <2>1
      <2> QED BY <1>8, <2>1, <2>2 DEF Fits, OldComeFirst
<1>11. ASSUME ~client.hasty, NEW i \in 1 .. Len(queue) PROVE queue[i] \notin Dials
      <2>1. queue[i] \notin Dials \cap Fresh
            BY <1>1, <1>11 DEF Fits, OwnDials, DialsFit
      <2>2. queue[i] \in Dials => queue[i] \in Fresh
            BY <1>7, <1>11 DEF Fits, OwnDials, DialsFit
      <2> QED BY <2>1, <2>2
<1>12. ASSUME ~client.hasty, NEW i \in 1 .. Len(r), r[i] \in Dials PROVE i = Len(queue) + 1 /\ r[i] \in Fresh
      BY <1>6, <1>8, <1>9, <1>11, <1>12
<1>13. OwnDials(client, server', r)
      <2>1. {"connecting"} # {"connection"}
            OBVIOUS
      <2> QED BY <1>5, <1>7, <1>12, <2>1 DEF OwnDials, DialsFit
<1>14. \A E : InQueue(queue, E) => InQueue(r, E)
      <2> SUFFICES ASSUME NEW E, InQueue(queue, E) PROVE InQueue(r, E)
          OBVIOUS
      <2>1. PICK i \in 1 .. Len(queue) : queue[i] \in E
            BY <1>4, InQueueAt
      <2>2. i \in 1 .. Len(r) /\ r[i] \in E
            BY <1>8, <2>1
      <2> QED BY <1>8, <2>2, InQueueAt
<1>15. \A gui : WillShow(r, gui) <=> WillShow(queue, gui)
      <2> DEFINE es == <<e>>
      <2>1. es \in Seq(Event) /\ Len(es) = 1 /\ es[1] = e /\ r = queue \o es
            BY <1>4, <1>6 DEF r
      <2> HIDE DEF es
      <2>2. e # ToApp("connected") /\ e # ToApp("disconnected")
            BY <1>6 DEF ToApp
      <2>3. ~InQueue(es, {ToApp("disconnected")}) /\ ~InQueue(es, {ToApp("connected")})
            BY <2>1, <2>2, InQueueAt
      <2> QED BY <1>4, <2>1, <2>3, NewsAppended
<1>16. HooksFit(client) /\ BuffersFit(client, filter, server')
      BY <1>5 DEF Fits, BuffersFit
<1>17. Going(client, app, r) /\ Remembered(client, filter, r) /\ NewsFits(client, app, r)
      BY <1>14, <1>15 DEF Fits, Going, Remembered, NewsFits
<1> QED BY <1>1, <1>3, <1>5, <1>8, <1>10, <1>13, <1>16, <1>17 DEF NextFits, Typed, Fits, r, e

\* The network may change, once it answered, and tell of it.
LEMMA NetworkFits ==
    ASSUME Typed, Fits(client, app, filter, server, queue), server.net # "dialing",
           NEW s \in ServerType, s.net # "dialing",
           NEW f \in FilterType, f.box = filter.box,
           client' = client, app' = app, filter' = f, server' = s,
           \/ queue' = queue
           \/ \E type \in {"input", "shutdown", "disconnected"} :
                queue' = Append(queue, FromSocket(type))
    PROVE  NextFits
<1>1. queue \in Seq(Event)
      BY DEF Typed
<1>2. queue' \in Seq(Event) /\ Fits(client, app, filter, server, queue')
      <2>1. CASE queue' = queue
            BY <1>1, <2>1
      <2>2. ASSUME NEW type \in {"input", "shutdown", "disconnected"},
                   queue' = Append(queue, FromSocket(type))
            PROVE  queue' \in Seq(Event) /\ Fits(client, app, filter, server, queue')
            <3>1. FromSocket(type) \in Calm /\ FromSocket(type) # ToApp("connected")
                  BY CalmSocket
            <3> QED BY <1>1, <2>2, <3>1, AddedOne
      <2> QED BY <2>1, <2>2
<1>3. BuffersFit(client, f, s) /\ Remembered(client, f, queue')
      BY <1>2 DEF Fits, BuffersFit, Remembered
<1>4. OwnDials(client, s, queue')
      BY <1>2 DEF Fits, OwnDials, DialsFit
<1>5. Fits(client, app, f, s, queue')
      BY <1>2, <1>3, <1>4 DEF Fits
<1> QED BY <1>2, <1>5 DEF NextFits, Typed

\* A message at the socket.
LEMMA Arrives ==
    ASSUME Typed, NEW m \in Message, Arrive(m)
    PROVE  /\ filter' \in FilterType /\ filter'.box = filter.box
           /\ \/ queue' = queue
              \/ \E type \in {"input", "shutdown", "disconnected"} :
                   queue' = Append(queue, FromSocket(type))
<1>1. filter \in FilterType /\ Append(filter.sock, m) \in Seq(Message)
      BY DEF Typed, FilterType
<1>2. filter' = [filter EXCEPT !.sock = Append(filter.sock, m)]
      BY DEF Arrive
<1>3. filter' \in FilterType /\ filter'.box = filter.box
      BY <1>1, <1>2 DEF FilterType
<1> QED BY <1>3 DEF Arrive

LEMMA NetworksFit ==
    ASSUME Typed, Fits(client, app, filter, server, queue), Network
    PROVE  NextFits
<1>1. server \in ServerType /\ filter \in FilterType
      BY DEF Typed
<1>2. CASE Answer
      BY <1>2, AnswerFits
<1>3. CASE Greets
      <2>1. /\ server.net = "up" /\ server.said < Len(Handshake)
            /\ client' = client /\ app' = app
            BY <1>3 DEF Greets
      <2>2. PICK m \in Message : Arrive(m)
            <3>1. server.said \in 0 .. 3 /\ server.said < 3
                  BY <1>1, <2>1, Handshakes DEF ServerType
            <3>2. Handshake[server.said + 1] \in Message /\ "alien" \in Message
                  BY <3>1, Handshakes DEF Message
            <3> QED BY <1>3, <3>2 DEF Greets
      <2>3. server' \in ServerType /\ server'.net = "up"
            <3>1. \E k \in 0 .. Len(Handshake) : server' = [server EXCEPT !.said = k]
                  <4>1. server.said + 1 \in 0 .. Len(Handshake) /\ Len(Handshake) \in 0 .. Len(Handshake)
                        BY <1>1, <2>1, Handshakes DEF ServerType
                  <4> QED BY <1>3, <4>1 DEF Greets
            <3> QED BY <1>1, <2>1, <3>1 DEF ServerType
      <2>4. /\ filter' \in FilterType /\ filter'.box = filter.box
            /\ \/ queue' = queue
               \/ \E type \in {"input", "shutdown", "disconnected"} :
                    queue' = Append(queue, FromSocket(type))
            BY <2>2, Arrives
      <2> QED BY <2>1, <2>3, <2>4, NetworkFits
<1>4. ASSUME NEW m \in Message, Says(m) PROVE NextFits
      <2>1. server.net = "up" /\ client' = client /\ app' = app /\ Arrive(m)
            BY <1>4 DEF Says
      <2>2. server' \in ServerType /\ server'.net \in {"up", "lost"}
            <3>1. server' = server \/ server' = [server EXCEPT !.said = Len(Handshake), !.net = "lost"]
                  BY <1>4 DEF Says
            <3>2. Len(Handshake) \in 0 .. Len(Handshake)
                  BY Handshakes
            <3> QED BY <1>1, <2>1, <3>1, <3>2 DEF ServerType
      <2>3. /\ filter' \in FilterType /\ filter'.box = filter.box
            /\ \/ queue' = queue
               \/ \E type \in {"input", "shutdown", "disconnected"} :
                    queue' = Append(queue, FromSocket(type))
            BY <2>1, Arrives
      <2> QED BY <2>1, <2>2, <2>3, NetworkFits
<1>5. CASE HangUp
      <2>1. /\ server.net # "dialing" /\ client' = client /\ app' = app
            /\ \E net \in {"ended", "reset"} : server' = [server EXCEPT !.net = net]
            /\ filter' = filter \/ filter' = [filter EXCEPT !.sock = <<>>]
            /\ \E type \in {"shutdown", "disconnected"} : queue' = Append(queue, FromSocket(type))
            BY <1>5 DEF HangUp
      <2>2. server' \in ServerType /\ server'.net # "dialing"
            BY <1>1, <2>1 DEF ServerType
      <2>3. filter' \in FilterType /\ filter'.box = filter.box
            <3>1. CASE filter' = filter
                  BY <1>1, <3>1
            <3>2. CASE filter' = [filter EXCEPT !.sock = <<>>]
                  <4>1. <<>> \in Seq(Message)
                        OBVIOUS
                  <4> QED BY <1>1, <3>2, <4>1 DEF FilterType
            <3> QED BY <2>1, <3>1, <3>2
      <2> QED BY <2>1, <2>2, <2>3, NetworkFits
<1>6. CASE FallSilent
      <2>1. /\ server.net # "dialing" /\ client' = client /\ app' = app /\ filter' = filter
            /\ queue' = queue /\ server' = [server EXCEPT !.net = "lost"]
            BY <1>6 DEF FallSilent
      <2>2. server' \in ServerType /\ server'.net # "dialing"
            BY <1>1, <2>1 DEF ServerType
      <2> QED BY <1>1, <2>1, <2>2, NetworkFits
<1> QED BY <1>2, <1>3, <1>4, <1>5, <1>6 DEF Network

-----------------------------------------------------------------------------
(* The theorems.                                                             *)

IInv == TypeOK /\ ConnectionInv

LEMMA InitFits == Init => IInv
<1> SUFFICES ASSUME Init PROVE IInv
    OBVIOUS
<1>1. 1 \in Servers
      BY HostsAssumption DEF Servers
<1>2. /\ client \in ClientType /\ app \in AppType /\ queue = <<>> /\ queue \in Seq(Event)
      /\ filter = NoFilter /\ server = NoServer /\ faults \in 0 .. MaxFaults
      BY <1>1, HostsAssumption DEF Init, ClientType, AppType
<1>3. /\ ~client.stream /\ client.hooks = {} /\ ~client.timer /\ ~client.proxy
      /\ ~client.ready /\ ~client.suspended /\ app.retries > 0
      BY DEF Init
<1>4. TypeOK
      BY <1>2, NothingThere, Types
<1>5. HooksFit(client) /\ BuffersFit(client, filter, server)
      BY <1>2, <1>3, NothingThere DEF HooksFit, BuffersFit
<1>6. OldComeFirst(queue) /\ OwnDials(client, server, queue)
      <2>1. Len(queue) = 0
            BY <1>2
      <2> QED BY <2>1 DEF OldComeFirst, OwnDials, DialsFit
<1>7. Going(client, app, queue) /\ Remembered(client, filter, queue)
      /\ NewsFits(client, app, queue)
      BY <1>2, <1>3, NothingThere DEF Going, Remembered, NewsFits
<1> QED BY <1>4, <1>5, <1>6, <1>7 DEF IInv, ConnectionInv, Fits

\* One more fault is within the bound.
LEMMA FaultsFit == TypeOK /\ Next => faults' \in 0 .. MaxFaults
<1> SUFFICES ASSUME TypeOK, Next PROVE faults' \in 0 .. MaxFaults
    OBVIOUS
<1>1. faults \in 0 .. MaxFaults /\ MaxFaults \in Nat
      BY HostsAssumption DEF TypeOK
<1>2. faults' = faults \/ (faults < MaxFaults /\ faults' = faults + 1)
      <2>1. CASE Dispatch
            BY <2>1 DEF Dispatch, DispatchToApp, DispatchToStream, ReadMore, DispatchInput,
                        HandleConnected, HandleConnectionFailed, HandleShutdown,
                        HandleDisconnected, HandleDisconnectRequested, Unheard
      <2>2. CASE RetryFires
            BY <2>2 DEF RetryFires
      <2>3. CASE ConnectTimeout \/ LateAnswer \/ KeepAliveAlarm
            BY <2>3 DEF ConnectTimeout, LateAnswer, KeepAliveAlarm
      <2>4. CASE HandleSuspend \/ HandleResume
            BY <2>4 DEF HandleSuspend, HandleResume
      <2>5. CASE Network
            BY <2>5 DEF Network, Answer, Greets, Says, HangUp, FallSilent
      <2> QED BY <2>1, <2>2, <2>3, <2>4, <2>5 DEF Next
<1> QED BY <1>1, <1>2

\* The invariant is inductive.
LEMMA InvStep == IInv /\ [Next]_vars => IInv'
<1> SUFFICES ASSUME IInv, [Next]_vars PROVE IInv'
    OBVIOUS
<1>1. Typed /\ Fits(client, app, filter, server, queue) /\ TypeOK
      BY Types DEF IInv, ConnectionInv, Typed
<1>2. CASE UNCHANGED vars
      BY <1>2 DEF IInv, TypeOK, ConnectionInv, vars
<1>3. CASE Next
      <2>1. NextFits
            <3>1. CASE Dispatch
                  <4>1. CASE DispatchToApp
                        BY <1>1, <4>1, DispatchToAppFits
                  <4>2. CASE ReadMore
                        BY <1>1, <4>2, ReadMoreFits
                  <4>3. CASE DispatchInput
                        BY <1>1, <4>3, DispatchInputFits
                  <4>4. CASE HandleConnected
                        BY <1>1, <4>4, HandleConnectedFits
                  <4>5. CASE HandleConnectionFailed \/ HandleDisconnected
                             \/ HandleDisconnectRequested
                        BY <1>1, <4>5, DroppingFits
                  <4>6. CASE HandleShutdown
                        BY <1>1, <4>6, HandleShutdownFits
                  <4>7. CASE Unheard
                        BY <1>1, <4>7, UnheardFits
                  <4> QED BY <3>1, <4>1, <4>2, <4>3, <4>4, <4>5, <4>6, <4>7
                          DEF Dispatch, DispatchToStream
            <3>2. CASE RetryFires
                  BY <1>1, <3>2, RetryFiresFits
            <3>3. CASE ConnectTimeout \/ LateAnswer
                  <4>1. HandleConnectTimeout /\ UNCHANGED app
                        BY <3>3 DEF ConnectTimeout, LateAnswer, HandleConnectTimeout
                  <4> QED BY <1>1, <4>1, DroppingFits
            <3>4. CASE KeepAliveAlarm
                  BY <1>1, <3>4, KeepAliveAlarmFits
            <3>5. CASE HandleSuspend
                  BY <1>1, <3>5, HandleSuspendFits
            <3>6. CASE HandleResume
                  BY <1>1, <3>6, HandleResumeFits
            <3>7. CASE Network
                  BY <1>1, <3>7, NetworksFit
            <3> QED BY <1>3, <3>1, <3>2, <3>3, <3>4, <3>5, <3>6, <3>7 DEF Next
      <2>2. faults' \in 0 .. MaxFaults
            BY <1>1, <1>3, FaultsFit
      <2>3. TypeOK'
            BY <2>1, <2>2 DEF NextFits, TypeOK, ClientType, AppType, FilterType, ServerType
      <2> QED BY <2>1, <2>3 DEF IInv, ConnectionInv, NextFits
<1> QED BY <1>2, <1>3 DEF Next

LEMMA AlwaysFits == Spec => []IInv
<1>1. Init => IInv
      BY InitFits
<1>2. IInv /\ [Next]_vars => IInv'
      BY InvStep
<1> QED BY <1>1, <1>2, PTL DEF Spec

\* Every member of the client, of its application and of its packet filter has its
\* type, whatever the servers do.
THEOREM ConnectionTypeCorrect == Spec => []TypeOK
<1>1. IInv => TypeOK
      BY DEF IInv
<1> QED BY <1>1, AlwaysFits, PTL

\* Client, ClientApp: a client without a connection will try again, and one with a
\* connection will find out that it is of no use.
THEOREM NeverGetsStuck == Spec => []NeverStuck
<1>1. IInv => NeverStuck
      BY DEF IInv, ConnectionInv, Fits, Going, NeverStuck, Chances
<1> QED BY <1>1, AlwaysFits, PTL

\* PacketStreamFilter::readMore: a complete message does not wait without an event or
\* a timer that sees to it.
THEOREM MessagesAreRemembered == Spec => []NoMessageForgotten
<1>1. IInv => NoMessageForgotten
      BY DEF IInv, ConnectionInv, Fits, Remembered, NoMessageForgotten, ToFilter
<1> QED BY <1>1, AlwaysFits, PTL

\* Client::setupConnecting, setupConnection: what was left for a stream that is gone
\* finds no handler of the client, though the next stream may have its address, unless
\* a retry ran ahead of it.
THEOREM OldEventsGoUnheard == Spec => []StaleEventsUnheard
<1>1. IInv => StaleEventsUnheard
      <2> SUFFICES ASSUME IInv, queue # <<>>, Head(queue).old, ~client.hasty
                   PROVE  IF Head(queue).type \in {"connected", "failed"}
                          THEN "connecting" \notin client.hooks
                          ELSE "connection" \notin client.hooks
          BY DEF StaleEventsUnheard
      <2> DEFINE e == Head(queue)
      <2>1. queue \in Seq(Event) /\ Fits(client, app, filter, server, queue)
            BY Types DEF IInv, ConnectionInv
      <2>2. e \in Event /\ 1 \in 1 .. Len(queue) /\ queue[1] = e
            BY <2>1, Heads
      <2> HIDE DEF e
      <2>3. e.old
            BY DEF e
      <2>4. e \notin Fresh
            BY <2>3 DEF Fresh
      <2>5. e.to # "app"
            BY <2>2, <2>4, Kinds
      <2>6. client.hooks \in {{}, {"connecting"}, {"connection"}}
            BY <2>1 DEF Fits, HooksFit
      <2>7. client.hooks # {"connection"}
            BY <2>1, <2>2, <2>4 DEF Fits, OwnDials, DialsFit
      <2>8. ASSUME e.type \in {"connected", "failed"} PROVE client.hooks # {"connecting"}
            <3>1. e \in Dials
                  BY <2>2, <2>5, <2>8 DEF Dials, Event
            <3> QED BY <2>1, <2>2, <2>4, <3>1 DEF Fits, OwnDials, DialsFit
      <2> QED BY <2>6, <2>7, <2>8 DEF e
<1> QED BY <1>1, AlwaysFits, PTL

\* ClientApp: once it has handled the client's events, the user is shown what is.
THEOREM GuiIsTruthful == Spec => []GuiTellsTheTruth
<1>1. IInv => GuiTellsTheTruth
      <2> SUFFICES ASSUME IInv, ~InQueue(queue, AppEvents)
                   PROVE  /\ client.ready => app.gui = "connected"
                          /\ app.gui = "connected" /\ ~client.ready =>
                               IF client.stream THEN app.late
                                                ELSE app.retries > 0 \/ client.suspended
          BY DEF GuiTellsTheTruth
      <2>1. queue \in Seq(Event) /\ Fits(client, app, filter, server, queue)
            BY Types DEF IInv, ConnectionInv
      <2>2. \A i \in 1 .. Len(queue) : queue[i] \notin AppEvents
            BY <2>1, InQueueAt
      <2>3. ToApp("connected") \in AppEvents /\ ToApp("disconnected") \in AppEvents
            BY Kinds
      <2>4. /\ ~InQueue(queue, {ToApp("connected"), ToApp("disconnected")})
            /\ ~InQueue(queue, Chances)
            BY <2>1, <2>2, <2>3, InQueueAt DEF Chances
      <2>5. ~NewsUnderWay(queue)
            BY <2>1, <2>2, <2>3, NewsAt
      <2>6. WillShow(queue, app.gui) <=> app.gui = "connected"
            BY <2>4, <2>5 DEF WillShow
      <2> QED BY <2>1, <2>4, <2>6 DEF Fits, NewsFits, Going
<1> QED BY <1>1, AlwaysFits, PTL
=============================================================================
