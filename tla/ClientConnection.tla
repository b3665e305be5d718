-------------------------- MODULE ClientConnection --------------------------
(***************************************************************************)
(* How a client reaches a server and stays with it: client/Client.cpp      *)
(* (connecting, the handlers of the stream's events, suspending), the       *)
(* messages ServerProxy.cpp ends a connection on, the packet filter that    *)
(* stands between the socket and both (deskflow/PacketStreamFilter.cpp),    *)
(* and the retries of deskflow/ClientApp.cpp.                               *)
(*                                                                          *)
(* Everything runs on one thread and meets in the event queue; what is      *)
(* queued for a stream may outlive it.  An event is addressed by a pointer, *)
(* and a new stream may get the place of the old one: then it hears the     *)
(* events that were left for the old one.                                   *)
(***************************************************************************)
EXTENDS Integers, Sequences, Sifting

CONSTANTS
  Hosts,      \* the configured servers: for each, what its addresses do
  MaxIn,      \* bound on the messages in the buffers of the socket and the filter
  MaxFaults   \* bound on hang-ups, refusals, silences and suspensions

ASSUME HostsAssumption ==
  /\ Hosts \in Seq(Seq({"willing", "dead", "mute", "alien"}))
  /\ Hosts # <<>>
  /\ MaxIn \in Nat /\ MaxFaults \in Nat

Servers == DOMAIN Hosts

VARIABLES
  client, \* the members of Client and of its ServerProxy
  app,    \* the members of ClientApp, and what it told the GUI
  filter, \* the packet filter and the socket under it
  server, \* what the server at the other end does
  queue,  \* the event queue
  faults  \* how many faults there were

vars == <<client, app, filter, server, queue, faults>>

\* an event of the socket goes to the filter, which passes it on to the hooks
Event == [type: {"connected", "failed", "input", "shutdown", "disconnected"},
          to: {"socket"}, old: BOOLEAN]
   \cup [type: {"input", "shutdown", "end", "refuse", "dead"},
         to: {"filter"}, old: BOOLEAN]
   \cup [type: {"connected", "failed", "refused", "disconnected"},
         to: {"app"}, old: {FALSE}]

Message == {"hello", "alien", "query", "options", "enter", "leave",
            "other", "unknown", "close", "busy", "bad"}
Handshake == <<"hello", "query", "options">>

TypeOK ==
  /\ client \in [stream: BOOLEAN, hooks: SUBSET {"connecting", "connection"},
                 timer: BOOLEAN, proxy: BOOLEAN, ready: BOOLEAN,
                 entered: BOOLEAN, alarm: BOOLEAN, suspended: BOOLEAN,
                 connectOnResume: BOOLEAN, address: Servers, hasty: BOOLEAN]
  /\ app \in [server: Servers, index: Nat, resolved: Nat, retries: Nat,
              gui: {"disconnected", "connecting", "connected"},
              late: BOOLEAN]
  /\ filter \in [sock: Seq(Message), box: Seq(Message), closing: BOOLEAN]
  /\ server \in [net: {"none", "dialing", "up", "ended", "reset", "lost"},
                 kind: {"willing", "dead", "mute", "alien"},
                 said: 0..Len(Handshake)]
  /\ queue \in Seq(Event)
  /\ faults \in 0..MaxFaults

(***************************************************************************)
(* The pieces of Client.                                                   *)
(***************************************************************************)
ToApp(type) == [type |-> type, to |-> "app", old |-> FALSE]
FromSocket(type) == [type |-> type, to |-> "socket", old |-> FALSE]
FromFilter(type) == [type |-> type, to |-> "filter", old |-> FALSE]

BugKeepHooks(c) ==
  [c EXCEPT !.stream = FALSE, !.timer = FALSE, !.proxy = FALSE, !.ready = FALSE,
            !.alarm = FALSE, !.entered = IF c.ready THEN FALSE ELSE @]

\* Client::cleanup* - a screen that is enabled is disabled, which leaves it
Cleaned(c) ==
  [c EXCEPT !.stream = FALSE, !.hooks = {}, !.timer = FALSE, !.proxy = FALSE,
            !.ready = FALSE, !.alarm = FALSE,
            !.entered = IF c.ready THEN FALSE ELSE @]

\* the events left in q when the stream is deleted: a socket that is still
\* connected says so when it is closed
Left(q) ==
  LET Outlive(e) == IF e.to = "app" THEN e ELSE [e EXCEPT !.old = TRUE]
      last == IF client.stream /\ server.net \in {"up", "lost", "ended"}
              THEN <<FromSocket("disconnected")>> ELSE <<>>
  IN [i \in 1..Len(q \o last) |-> Outlive((q \o last)[i])]

NoFilter == [sock |-> <<>>, box |-> <<>>, closing |-> FALSE]
NoServer == [net |-> "none", kind |-> "mute", said |-> 0]

\* the stream goes, and the application is told: Client::disconnect,
\* refuseConnection, handleDisconnected, handleConnectTimeout
DropStream(c, q, event) ==
  /\ client' = Cleaned(c)
  /\ queue' = Append(Left(q), ToApp(event))
  /\ filter' = NoFilter /\ server' = NoServer

\* events in q, and whether the news that a connection stands is still on its way
InQueue(q, events) == \E i \in DOMAIN q : q[i] \in events
NewsUnderWay(q) ==
  \E i \in DOMAIN q :
    /\ q[i] = ToApp("connected")
    /\ \A j \in DOMAIN q : j > i => q[j] # ToApp("disconnected")

\* what was left for streams that are gone
OldEvents == {e \in Event : e.old}

\* Client::connect of the address with the given index.  A new stream may be at
\* the place of the old one; otherwise nobody hears what was left for that
Connect(c, a, host, index, q) ==
  LET addresses == Hosts[host]
      kind == addresses[IF index < Len(addresses) THEN index + 1
                        ELSE Len(addresses)]
  IN IF c.stream
     THEN client' = c /\ app' = a /\ queue' = q /\ UNCHANGED <<filter, server>>
     ELSE IF c.suspended
     THEN /\ client' = [c EXCEPT !.connectOnResume = TRUE]
          /\ app' = a /\ queue' = q /\ UNCHANGED <<filter, server>>
     ELSE IF addresses = <<>>
     THEN /\ client' = c /\ app' = a
          /\ queue' = Append(q, ToApp("failed"))
          /\ UNCHANGED <<filter, server>>
     ELSE /\ queue' \in {q, Kept(q, {e \in Event : ~e.old})}
          /\ client' = [c EXCEPT !.stream = TRUE, !.timer = TRUE,
                                 !.hooks = @ \cup {"connecting"},
                                 !.hasty = @ /\ InQueue(queue', OldEvents)]
          /\ app' = [a EXCEPT !.resolved = Len(addresses),
                              !.gui = "connecting",
                              !.late = NewsUnderWay(queue')]
          /\ filter' = NoFilter
          /\ server' = [net |-> "dialing", kind |-> kind, said |-> 0]

Init ==
  /\ client = [stream |-> FALSE, hooks |-> {}, timer |-> FALSE,
               proxy |-> FALSE, ready |-> FALSE, entered |-> FALSE,
               alarm |-> FALSE, suspended |-> FALSE,
               connectOnResume |-> FALSE, address |-> 1, hasty |-> FALSE]
  \* startNode() calls startClient(): as if the first retry were due
  /\ app = [server |-> 1, index |-> 0, resolved |-> 0, retries |-> 1,
            gui |-> "disconnected", late |-> FALSE]
  /\ filter = NoFilter /\ server = NoServer
  /\ queue = <<>>
  /\ faults = 0

(***************************************************************************)
(* The handlers of ClientApp.                                              *)
(***************************************************************************)
NextServer == (app.server % Len(Hosts)) + 1

\* ClientApp::scheduleClientRestart: timers are not remembered, each will fire
Retry(a) == [a EXCEPT !.retries = @ + 1]

BugSilentConnected == app' = [app EXCEPT !.server = 1, !.index = 0]

HandleClientConnected ==
  app' = [app EXCEPT !.gui = "connected", !.server = 1, !.index = 0]

BugSameServer ==
  app' = IF app.index + 1 < app.resolved
         THEN Retry([app EXCEPT !.index = @ + 1])
         ELSE Retry([app EXCEPT !.index = 0])

HandleClientFailed ==
  app' = IF app.index + 1 < app.resolved
         THEN Retry([app EXCEPT !.index = @ + 1])
         ELSE Retry([app EXCEPT !.index = 0, !.server = NextServer])

HandleClientRefused == app' = Retry(app)

HandleClientDisconnected == app' = Retry([app EXCEPT !.gui = "disconnected"])

DispatchToApp ==
  /\ queue # <<>> /\ Head(queue).to = "app"
  /\ queue' = Tail(queue)
  /\ CASE Head(queue).type = "connected" -> HandleClientConnected
       [] Head(queue).type = "failed" -> HandleClientFailed
       [] Head(queue).type = "refused" -> HandleClientRefused
       [] Head(queue).type = "disconnected" -> HandleClientDisconnected
  /\ UNCHANGED <<client, filter, server, faults>>

\* ClientApp::handleClientRestart, startClient.  A timer that has expired comes before
\* what is queued (EventQueue::getEvent).  The timer takes a second or more, so that
\* it rarely finds anything queued: that it does is a fault.  It is hasty when it
\* comes before what was left for a stream that is gone
RetryFires ==
  /\ app.retries > 0
  /\ Connect([client EXCEPT !.address = app.server,
                            !.hasty = @ \/ (~client.stream /\ InQueue(queue, OldEvents))],
             [app EXCEPT !.retries = @ - 1], app.server, app.index, queue)
  /\ IF queue = <<>> THEN UNCHANGED faults
     ELSE faults < MaxFaults /\ faults' = faults + 1

(***************************************************************************)
(* The handlers of the stream's events.                                    *)
(***************************************************************************)
\* reading the last complete packet of a stream that has been shut down
ShutdownSeen(box) ==
  IF filter.closing /\ box = <<>> THEN <<FromFilter("shutdown")>> ELSE <<>>

BugNoReminder(f, q) ==
  IF f.box[1] # "hello"
  THEN /\ client' = Cleaned(client)
       /\ queue' = Left(Append(q \o ShutdownSeen(Tail(f.box)), ToApp("failed")))
       /\ filter' = NoFilter /\ server' = NoServer
  ELSE /\ client' = [client EXCEPT !.timer = FALSE, !.proxy = TRUE,
                                   !.alarm = TRUE, !.ready = FALSE]
       /\ filter' = [f EXCEPT !.box = Tail(@)]
       /\ queue' = q \o ShutdownSeen(Tail(f.box))
       /\ UNCHANGED server

\* Client::handleHello: one message
HandleHello(f, q) ==
  IF f.box[1] # "hello"
  THEN \* the failure is queued before the stream goes
       /\ client' = Cleaned(client)
       /\ queue' = Left(Append(q \o ShutdownSeen(Tail(f.box)), ToApp("failed")))
       /\ filter' = NoFilter /\ server' = NoServer
  ELSE /\ client' = [client EXCEPT !.timer = FALSE, !.proxy = TRUE,
                                   !.alarm = TRUE, !.ready = FALSE]
       /\ filter' = [f EXCEPT !.box = Tail(@)]
       /\ queue' = q \o ShutdownSeen(Tail(f.box))
                     \o IF Tail(f.box) # <<>> THEN <<FromFilter("input")>>
                                              ELSE <<>>
       /\ UNCHANGED server

\* ServerProxy::parseHandshakeMessage and parseMessage, for one message: p is
\* what handleData has done so far
Parse(p, m) ==
  LET r == [p EXCEPT !.box = Tail(@), !.events = @ \o ShutdownSeen(Tail(p.box))]
      Stop(request) == [r EXCEPT !.stop = TRUE,
                                 !.events = Append(@, FromFilter(request))]
  IN IF p.stop THEN p ELSE
     CASE m = "close" -> Stop("end")
       [] m = "bad" -> Stop(IF p.ready THEN "dead" ELSE "refuse")
       [] m = "busy" /\ ~p.ready -> Stop("refuse")
       [] m = "options" /\ ~p.ready ->
            [r EXCEPT !.ready = TRUE, !.events = Append(@, ToApp("connected"))]
       [] m = "enter" /\ p.ready -> [r EXCEPT !.entered = TRUE]
       [] m = "leave" /\ p.ready -> [r EXCEPT !.entered = FALSE]
       [] \/ m \in {"query", "other"}
          \/ m = "options" /\ p.ready -> r
       \* unknown: everything that is buffered is discarded
       [] OTHER -> [p EXCEPT !.stop = TRUE, !.box = <<>>,
                             !.events = @ \o ShutdownSeen(<<>>)]

\* ... after each of the messages in the box
Parsed(box) ==
  LET start == [box |-> box, ready |-> client.ready,
                entered |-> client.entered, stop |-> FALSE, events |-> <<>>]
      after[i \in 0 .. Len(box)] ==
        IF i = 0 THEN start ELSE Parse(after[i - 1], box[i])
  IN after

\* ServerProxy::handleData: messages until there are no more
HandleData(f, q) ==
  LET done == Parsed(f.box)[Len(f.box)]
  IN /\ client' = [client EXCEPT !.ready = done.ready,
                                 !.entered = done.entered]
     /\ filter' = [f EXCEPT !.box = done.box]
     /\ queue' = q \o done.events
     /\ UNCHANGED server

\* the filter's StreamInputReady, when anyone listens: ServerProxy's handler
\* replaces the Client's
InputReady(f, q) ==
  IF f.box # <<>> /\ client.proxy THEN HandleData(f, q)
  ELSE IF f.box # <<>> /\ "connection" \in client.hooks THEN HandleHello(f, q)
  ELSE filter' = f /\ queue' = q /\ UNCHANGED <<client, server>>

\* StreamInputReady of the socket: PacketStreamFilter::filterEvent, readMore.
\* It reads everything, or after 256 KiB asks to be called again; only a filter
\* that had no complete packet tells the others
ReadMore ==
  /\ queue # <<>> /\ Head(queue).to = "socket" /\ Head(queue).type = "input"
  /\ client.stream
  /\ \E n \in {0, 1, Len(filter.sock)} :
       LET f == [filter EXCEPT !.box = @ \o SubSeq(filter.sock, 1, n),
                               !.sock = SubSeq(@, n + 1, Len(@))]
           q == Tail(queue) \o IF n < Len(filter.sock)
                               THEN <<FromSocket("input")>> ELSE <<>>
       IN /\ n <= Len(filter.sock) /\ (n = 0 => filter.sock = <<>>)
          /\ IF filter.box = <<>> THEN InputReady(f, q)
             ELSE filter' = f /\ queue' = q /\ UNCHANGED <<client, server>>
  /\ UNCHANGED <<app, faults>>

\* the input that handleHello announces to itself
DispatchInput ==
  /\ queue # <<>> /\ Head(queue).to = "filter" /\ Head(queue).type = "input"
  /\ client.stream
  /\ InputReady(filter, Tail(queue))
  /\ UNCHANGED <<app, faults>>

BugTimerStopped ==
  /\ queue # <<>> /\ Head(queue).to = "socket"
  /\ Head(queue).type = "connected" /\ "connecting" \in client.hooks
  /\ client' = [client EXCEPT !.hooks = {"connection"}, !.timer = FALSE]
  /\ queue' = Tail(queue)
  /\ UNCHANGED <<app, filter, server, faults>>

\* Client::handleConnected
HandleConnected ==
  /\ queue # <<>> /\ Head(queue).to = "socket"
  /\ Head(queue).type = "connected" /\ "connecting" \in client.hooks
  /\ client' = [client EXCEPT !.hooks = (@ \ {"connecting"}) \cup {"connection"}]
  /\ queue' = Tail(queue)
  /\ UNCHANGED <<app, filter, server, faults>>

\* Client::handleConnectionFailed
HandleConnectionFailed ==
  /\ queue # <<>> /\ Head(queue).to = "socket"
  /\ Head(queue).type = "failed" /\ "connecting" \in client.hooks
  /\ DropStream(client, Tail(queue), "failed")
  /\ UNCHANGED <<app, faults>>

\* a shutdown is held back while there is a complete packet to read
HeldBack(e) == e.to = "socket" /\ e.type = "shutdown" /\ filter.box # <<>>

HandleShutdown ==
  /\ queue # <<>> /\ Head(queue).to = "socket" /\ client.stream
  /\ Head(queue).type = "shutdown"
  /\ HeldBack(Head(queue)) \/ "connection" \notin client.hooks
  /\ filter' = [filter EXCEPT !.closing = TRUE]
  /\ queue' = Tail(queue)
  /\ UNCHANGED <<client, app, server, faults>>

\* Client::handleDisconnected
HandleDisconnected ==
  /\ queue # <<>> /\ Head(queue).to \in {"socket", "filter"}
  /\ Head(queue).type \in {"shutdown", "disconnected"}
  /\ "connection" \in client.hooks /\ ~HeldBack(Head(queue))
  /\ DropStream(client, Tail(queue), "disconnected")
  /\ UNCHANGED <<app, faults>>

\* Client::handleDisconnectRequested
HandleDisconnectRequested ==
  /\ queue # <<>> /\ Head(queue).to = "filter"
  /\ Head(queue).type \in {"end", "refuse", "dead"}
  /\ "connection" \in client.hooks
  /\ DropStream([client EXCEPT !.connectOnResume = FALSE], Tail(queue),
                CASE Head(queue).type = "end" -> "disconnected"
                  [] Head(queue).type = "refuse" -> "refused"
                  [] Head(queue).type = "dead" -> "failed")
  /\ UNCHANGED <<app, faults>>

\* does a stream event find a handler?
Heard(e) ==
  CASE e.type \in {"connected", "failed"} -> "connecting" \in client.hooks
    [] e.type = "input" -> client.stream
    [] e.type = "shutdown" /\ e.to = "socket" -> client.stream
    [] OTHER -> "connection" \in client.hooks

Unheard ==
  /\ queue # <<>> /\ Head(queue).to \in {"socket", "filter"}
  /\ ~Heard(Head(queue))
  /\ queue' = Tail(queue)
  /\ UNCHANGED <<client, app, filter, server, faults>>

(***************************************************************************)
(* Timers and the power events, which Windows delivers between two events. *)
(***************************************************************************)
\* Client::handleConnectTimeout, when the server does not answer, or too late
HandleConnectTimeout ==
  /\ client.timer
  /\ DropStream(client, queue, "failed")
  /\ UNCHANGED app

\* a packet waits and nobody will be told of it: an old input made the filter
\* read before Client::handleConnected listened
Deaf == filter.box # <<>> /\ ~InQueue(queue, {e \in Event : e.to = "filter"})

ConnectTimeout ==
  /\ server.kind # "willing" \/ server.net = "lost" \/ Deaf
  /\ HandleConnectTimeout
  /\ UNCHANGED faults

LateAnswer ==
  /\ server.kind = "willing" /\ faults < MaxFaults
  /\ HandleConnectTimeout
  /\ faults' = faults + 1

\* ServerProxy::handleKeepAliveAlarm: the server's keepalives put it off
KeepAliveAlarm ==
  /\ client.alarm /\ server.net \in {"lost", "ended", "reset"}
  /\ client' = [client EXCEPT !.alarm = FALSE]
  /\ queue' = Append(queue, FromFilter("dead"))
  /\ UNCHANGED <<app, filter, server, faults>>

HandleSuspend ==
  /\ ~client.suspended /\ faults < MaxFaults
  /\ faults' = faults + 1
  /\ DropStream([client EXCEPT !.suspended = TRUE,
                               !.connectOnResume = client.proxy],
                queue, "disconnected")
  /\ UNCHANGED app

HandleResume ==
  /\ client.suspended
  /\ IF client.connectOnResume
     THEN Connect([client EXCEPT !.suspended = FALSE,
                                 !.connectOnResume = FALSE],
                  app, client.address, 0, queue)
     ELSE /\ client' = [client EXCEPT !.suspended = FALSE]
          /\ UNCHANGED <<app, filter, server, queue>>
  /\ UNCHANGED faults

(***************************************************************************)
(* The network and the server at the other end.                            *)
(***************************************************************************)
Answer ==
  /\ server.net = "dialing"
  /\ \/ server.kind \in {"willing", "alien"}
        /\ server' = [server EXCEPT !.net = "up"]
        /\ queue' = Append(queue, FromSocket("connected"))
     \/ server.kind = "dead"
        /\ server' = [server EXCEPT !.net = "none"]
        /\ queue' = Append(queue, FromSocket("failed"))
  /\ UNCHANGED <<client, app, filter, faults>>

Arrive(m) ==
  /\ filter' = [filter EXCEPT !.sock = Append(@, m)]
  /\ queue' = IF filter.sock = <<>> THEN Append(queue, FromSocket("input"))
                                    ELSE queue

Greets ==
  /\ server.net = "up" /\ Len(filter.sock) + Len(filter.box) < MaxIn
  /\ server.said < Len(Handshake)
  /\ IF server.kind = "alien"
     THEN Arrive("alien") /\ server' = [server EXCEPT !.said = Len(Handshake)]
     ELSE /\ Arrive(Handshake[server.said + 1])
          /\ server' = [server EXCEPT !.said = @ + 1]
  /\ UNCHANGED <<client, app, faults>>

\* a server sends messages in the middle of nothing only when it has taken the
\* client in; it may refuse it after the hello
Says(m) ==
  /\ server.net = "up" /\ server.kind = "willing" /\ Len(filter.sock) + Len(filter.box) < MaxIn
  /\ \/ server.said = Len(Handshake) /\ m \in {"enter", "leave", "other"}
        /\ UNCHANGED faults
     \/ server.said = Len(Handshake) /\ m \in {"unknown", "close", "bad"}
        /\ faults < MaxFaults /\ faults' = faults + 1
     \/ server.said \in 1..(Len(Handshake) - 1) /\ m \in {"busy", "bad", "close"}
        /\ faults < MaxFaults /\ faults' = faults + 1
  /\ Arrive(m)
  /\ server' = IF m \in {"busy", "bad", "close"}
               THEN [server EXCEPT !.said = Len(Handshake), !.net = "lost"]
               ELSE server
  /\ UNCHANGED <<client, app>>

\* the server closes its connection, resets it, or is not heard of any more
HangUp ==
  /\ server.net \in {"up", "lost"} /\ faults < MaxFaults
  /\ faults' = faults + 1
  /\ \/ /\ queue' = Append(queue, FromSocket("shutdown"))
        /\ server' = [server EXCEPT !.net = "ended"]
        /\ UNCHANGED filter
     \/ /\ queue' = Append(queue, FromSocket("disconnected"))
        /\ server' = [server EXCEPT !.net = "reset"]
        /\ filter' = [filter EXCEPT !.sock = <<>>]
  /\ UNCHANGED <<client, app>>

FallSilent ==
  /\ server.net = "up" /\ faults < MaxFaults
  /\ faults' = faults + 1
  /\ server' = [server EXCEPT !.net = "lost"]
  /\ UNCHANGED <<client, app, filter, queue>>

DispatchToStream ==
  \/ ReadMore \/ DispatchInput \/ HandleConnected \/ HandleConnectionFailed
  \/ HandleShutdown \/ HandleDisconnected \/ HandleDisconnectRequested
  \/ Unheard

Dispatch == DispatchToApp \/ DispatchToStream

Network == Answer \/ Greets \/ (\E m \in Message : Says(m))
             \/ HangUp \/ FallSilent

Next == \/ Dispatch \/ RetryFires \/ ConnectTimeout \/ LateAnswer
        \/ KeepAliveAlarm \/ HandleSuspend \/ HandleResume \/ Network

\* the event loop and its timers go on, the network delivers
Fairness ==
  /\ WF_vars(Dispatch) /\ WF_vars(RetryFires) /\ WF_vars(KeepAliveAlarm)
  /\ WF_vars(ConnectTimeout)
  /\ WF_vars(Answer) /\ WF_vars(Greets)

Spec == Init /\ [][Next]_vars
FairSpec == Spec /\ Fairness

(***************************************************************************)
(* Properties.                                                             *)
(***************************************************************************)
AppEvents == {e \in Event : e.to = "app"}
GiveUps == {e \in Event : e.type \in {"end", "refuse", "dead"} /\ ~e.old}

\* A client that has no connection will try again - by a timer, by an event that
\* starts one, or when the machine wakes - and one that has a connection will
\* find out that it is of no use: the timers of Client and ServerProxy and the
\* requests to disconnect leave no gap in between.
NeverStuck ==
  IF client.stream
  THEN \/ client.timer \/ client.alarm
       \/ InQueue(queue, GiveUps)
  ELSE \/ app.retries > 0
       \/ InQueue(queue, AppEvents \ {ToApp("connected")})
       \/ client.suspended /\ client.connectOnResume

\* An event that was left for a connection that is gone reaches none of the
\* client's handlers when another connection has its place: when it is dispatched,
\* no handler listens for its type, unless a retry came before it.  Only the packet
\* filter hears an old input, which makes it read early (see Deaf), and remembers
\* an old shutdown.
StaleEventsUnheard ==
  queue # <<>> /\ Head(queue).old /\ ~client.hasty =>
    IF Head(queue).type \in {"connected", "failed"}
    THEN "connecting" \notin client.hooks
    ELSE "connection" \notin client.hooks

\* A complete message that waits in the packet filter has an event on its way
\* that makes somebody read it, or the connection is about to be given up: the
\* filter tells of messages only when it had none before.
NoMessageForgotten ==
  filter.box # <<>> =>
    \/ InQueue(queue, {e \in Event : e.to = "filter"})
    \/ client.timer

\* The state shown to the user is that of the connection once the events on
\* their way have been handled; after a silence it may still be "connected",
\* until the next attempt, and during an attempt that overtook the news of a
\* connection lost by a silence.
GuiTellsTheTruth ==
  ~InQueue(queue, AppEvents) =>
    /\ client.ready => app.gui = "connected"
    /\ app.gui = "connected" /\ ~client.ready =>
         IF client.stream THEN app.late
                          ELSE app.retries > 0 \/ client.suspended

\* As long as one address has a willing server, a client that is not suspended
\* comes back to a complete handshake, whatever happened before.
ComesBack == []<>(client.ready \/ client.suspended)
=============================================================================
