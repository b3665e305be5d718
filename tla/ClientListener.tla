--------------------------- MODULE ClientListener ---------------------------
(***************************************************************************)
(* How a connection to the server becomes a client: server/ClientListener  *)
(* accepts it, server/ClientProxyUnknown waits thirty seconds for the       *)
(* client's greeting and for the proxy it then makes to be ready, and the   *)
(* proxy waits in the listener's queue until Server::adoptClient takes it.  *)
(*                                                                          *)
(* All steps meet in the event queue.  Between the decision that a handshake *)
(* succeeded or failed and the event that tells the listener so, the        *)
(* connection may be lost, and the answer taken back.                       *)
(***************************************************************************)
EXTENDS Naturals, Sequences, SequencesExt, FiniteSets, Sifting

CONSTANTS
  Conns,   \* the connections that clients make, by their sockets
  Secure,  \* TLS is on: accepting takes a handshake
  MaxSays  \* bound on the messages of a client

ASSUME ListenerAssumption == Secure \in BOOLEAN /\ MaxSays \in Nat

VARIABLES
  sock,     \* each socket: is its object there, is it open
  filter,   \* its packet filter: what has arrived, what it holds, shut down?
  unknown,  \* its ClientProxyUnknown
  proxy,    \* its ClientProxy, and who handles the proxy's disconnection
  waiting,  \* m_waitingClients
  queue,    \* the event queue
  said,     \* how much each client has said
  crashed   \* a socket was released that is none

vars == <<sock, filter, unknown, proxy, waiting, queue, said, crashed>>

Message == {"hello", "info", "bad"}

\* what a client says first, and later
Sayable(n) == IF n = 0 THEN {"hello", "bad"} ELSE {"info", "bad"}

\* events of the listening socket and of the listener; of a socket, its
\* filter, an unknown client or a proxy
Event ==
  [type: {"connecting", "adopt"}]
    \cup [type: {"accepted", "refused", "input", "shutdown", "ended", "ready",
                 "success", "failure", "disconnected"}, conn: Conns]

Filters == [sock: Seq(Message), box: Seq(Message), closing: BOOLEAN]
Unknowns == [there: BOOLEAN, timer: BOOLEAN, ready: BOOLEAN, stream: BOOLEAN,
             hooks: BOOLEAN]
Proxies == [state: {"none", "asked", "ready", "closing"}, alarm: BOOLEAN,
            heard: {"none", "unknown", "listener", "server"}]

\* Every value has its type: in particular the listener's queue of clients holds
\* proxies only, although a success may be fetched after it was taken back.
TypeOK ==
  /\ sock \in [Conns -> {"none", "backlog", "accepting", "open", "closed",
                         "deleted"}]
  /\ filter \in [Conns -> Filters]
  /\ unknown \in [Conns -> Unknowns]
  /\ proxy \in [Conns -> Proxies]
  /\ waiting \in Seq(Conns)
  /\ queue \in Seq(Event)
  /\ said \in [Conns -> 0..(MaxSays + 1)]
  /\ crashed \in BOOLEAN

NoFilter == [sock |-> <<>>, box |-> <<>>, closing |-> FALSE]
NoUnknown == [there |-> FALSE, timer |-> FALSE, ready |-> FALSE,
              stream |-> FALSE, hooks |-> FALSE]
NoProxy == [state |-> "none", alarm |-> FALSE, heard |-> "none"]

Init ==
  /\ sock = [c \in Conns |-> "none"]
  /\ filter = [c \in Conns |-> NoFilter]
  /\ unknown = [c \in Conns |-> NoUnknown]
  /\ proxy = [c \in Conns |-> NoProxy]
  /\ waiting = <<>> /\ queue = <<>>
  /\ said = [c \in Conns |-> 0]
  /\ crashed = FALSE

Of(type, c) == [type |-> type, conn |-> c]

\* the next event is of this type; the program has not crashed
Dispatched(type) ==
  /\ ~crashed /\ queue # <<>> /\ Head(queue).type = type

(***************************************************************************)
(* Accepting.                                                              *)
(***************************************************************************)
\* ClientListener::handleClientConnecting
HandleClientConnecting ==
  /\ Dispatched("connecting")
  /\ \E c \in Conns :
       /\ sock[c] = "backlog"
       /\ sock' = [sock EXCEPT ![c] = "accepting"]
       /\ queue' = Tail(queue)
                     \o IF Secure THEN <<>> ELSE <<Of("accepted", c)>>
  /\ UNCHANGED <<filter, unknown, proxy, waiting, said, crashed>>

BugAcceptsTwice(c) ==
  /\ Secure /\ ~crashed /\ sock[c] \in {"accepting", "open"}
  /\ \A i \in DOMAIN queue : queue[i] # Of("refused", c)
  /\ \E type \in {"accepted", "refused"} :
       /\ sock[c] = "open" => type = "refused"
       /\ queue' = Append(queue, Of(type, c))
  /\ UNCHANGED <<sock, filter, unknown, proxy, waiting, said, crashed>>

\* the secure socket's accept: done, or the client is gone before
SecureAccept(c) ==
  /\ Secure /\ ~crashed /\ sock[c] = "accepting"
  /\ \A i \in DOMAIN queue : queue[i] \notin {Of("accepted", c), Of("refused", c)}
  /\ \E type \in {"accepted", "refused"} : queue' = Append(queue, Of(type, c))
  /\ UNCHANGED <<sock, filter, unknown, proxy, waiting, said, crashed>>

BugNoTimer ==
  /\ Dispatched("accepted")
  /\ LET c == Head(queue).conn IN
       /\ sock' = [sock EXCEPT ![c] = "open"]
       /\ unknown' = [unknown EXCEPT ![c] =
            [there |-> TRUE, timer |-> FALSE, ready |-> FALSE,
             stream |-> TRUE, hooks |-> TRUE]]
  /\ queue' = Tail(queue)
  /\ UNCHANGED <<filter, proxy, waiting, said, crashed>>

\* ClientListener::handleClientAccepted
HandleClientAccepted ==
  /\ Dispatched("accepted")
  /\ LET c == Head(queue).conn IN
       /\ sock' = [sock EXCEPT ![c] = "open"]
       /\ unknown' = [unknown EXCEPT ![c] =
            [there |-> TRUE, timer |-> TRUE, ready |-> FALSE,
             stream |-> TRUE, hooks |-> TRUE]]
  /\ queue' = Tail(queue)
  /\ UNCHANGED <<filter, proxy, waiting, said, crashed>>

\* ClientListener's handler of ClientListenerDisconnectedOnAccept
HandleDisconnectedOnAccept ==
  /\ Dispatched("refused")
  /\ sock' = [sock EXCEPT ![Head(queue).conn] = "deleted"]
  /\ queue' = Tail(queue)
  /\ UNCHANGED <<filter, unknown, proxy, waiting, said, crashed>>

(***************************************************************************)
(* The handshake.                                                          *)
(***************************************************************************)
\* ClientProxyUnknown::sendFailure, which deletes the proxy with its filter but
\* not the socket.  It forgets the proxy before it would remove the handlers of
\* the proxy's events: these stay with the unknown client
SendFailure(c, q) ==
  /\ proxy' = [proxy EXCEPT ![c] = [NoProxy EXCEPT !.heard = proxy[c].heard]]
  /\ unknown' = [unknown EXCEPT ![c] =
       [@ EXCEPT !.timer = FALSE, !.ready = FALSE, !.hooks = FALSE]]
  /\ queue' = Append(q, Of("failure", c))

\* ClientProxyUnknown::sendSuccess
SendSuccess(c, q) ==
  /\ unknown' = [unknown EXCEPT ![c] = [@ EXCEPT !.timer = FALSE, !.ready = TRUE]]
  /\ queue' = Append(q, Of("success", c))
  /\ UNCHANGED proxy

\* ClientProxy1_0::disconnect, from a handler
Disconnect(c, q) ==
  /\ proxy' = [proxy EXCEPT ![c] = [@ EXCEPT !.state = "closing", !.alarm = FALSE]]
  /\ sock' = [sock EXCEPT ![c] = "closed"]
  /\ filter' = [filter EXCEPT ![c] = NoFilter]
  /\ queue' = Append(q, Of("disconnected", c))

\* PacketStreamFilter::read has emptied a filter whose input is shut down
ShutdownSeen(c, box) ==
  IF filter[c].closing /\ box = <<>> THEN <<Of("ended", c)>> ELSE <<>>

Live(c) == proxy[c].state # "none"

Attached(c) == proxy[c].state \in {"asked", "ready"}

\* ClientProxyUnknown::handleData reads one message and leaves the rest
HandleGreeting(c, f, q) ==
  LET rest == Tail(f.box)
      q2 == q \o ShutdownSeen(c, rest)
  IN /\ filter' = [filter EXCEPT ![c] = [f EXCEPT !.box = rest]]
     /\ IF f.box[1] = "hello"
        THEN /\ proxy' = [proxy EXCEPT ![c] =
                  [state |-> "asked", alarm |-> FALSE, heard |-> "unknown"]]
             /\ unknown' = [unknown EXCEPT ![c] =
                  [@ EXCEPT !.hooks = FALSE, !.stream = FALSE]]
             /\ queue' = q2
        ELSE SendFailure(c, q2)
     /\ UNCHANGED sock

\* ClientProxy1_0::handleData: messages until there are no more.  A message that
\* the handshake does not know makes it discard what is buffered
HandleMessages(c, f, q) ==
  LET asked == proxy[c].state = "asked"
      bad == "bad" \in ToSet(f.box)
      ready == asked /\ f.box[1] = "info"
      q2 == q \o (IF ready THEN <<Of("ready", c)>> ELSE <<>>)
  IN IF bad /\ (ready \/ ~asked)
     THEN Disconnect(c, q2) /\ UNCHANGED unknown
     ELSE /\ filter' = [filter EXCEPT ![c] = [f EXCEPT !.box = <<>>]]
          /\ proxy' = [proxy EXCEPT ![c] =
                  [state |-> IF ready THEN "ready" ELSE @.state, alarm |-> TRUE,
                   heard |-> @.heard]]
          /\ queue' = q2 \o ShutdownSeen(c, <<>>)
          /\ UNCHANGED <<sock, unknown>>

\* the socket's StreamInputReady: the filter reads everything and tells of it
\* only when it had no message before
HandleInput ==
  /\ Dispatched("input")
  /\ LET c == Head(queue).conn
         f == IF unknown[c].stream \/ Attached(c)
              THEN [filter[c] EXCEPT !.box = @ \o filter[c].sock, !.sock = <<>>]
              ELSE filter[c]
     IN IF filter[c].box = <<>> /\ f.box # <<>> /\ Attached(c)
        THEN HandleMessages(c, f, Tail(queue))
        ELSE IF filter[c].box = <<>> /\ f.box # <<>> /\ unknown[c].hooks
        THEN HandleGreeting(c, f, Tail(queue))
        ELSE /\ filter' = [filter EXCEPT ![c] = f]
             /\ queue' = Tail(queue)
             /\ UNCHANGED <<sock, unknown, proxy>>
  /\ UNCHANGED <<waiting, said, crashed>>

\* the connection's input or output has ended
HandleShutdown ==
  /\ \E type \in {"shutdown", "ended"} : Dispatched(type)
  /\ LET c == Head(queue).conn
         held == Head(queue).type = "shutdown" /\ filter[c].box # <<>>
     IN IF held
        THEN /\ filter' = [filter EXCEPT ![c].closing = TRUE]
             /\ queue' = Tail(queue)
             /\ UNCHANGED <<sock, unknown, proxy>>
        ELSE IF Attached(c)
        THEN Disconnect(c, Tail(queue)) /\ UNCHANGED unknown
        ELSE IF unknown[c].hooks
        THEN SendFailure(c, Tail(queue)) /\ UNCHANGED <<sock, filter>>
        ELSE queue' = Tail(queue) /\ UNCHANGED <<sock, filter, unknown, proxy>>
  /\ UNCHANGED <<waiting, said, crashed>>

\* ClientProxyUnknown::handleTimeout
HandleTimeout(c) ==
  /\ ~crashed /\ unknown[c].timer
  /\ SendFailure(c, queue)
  /\ UNCHANGED <<sock, filter, waiting, said, crashed>>

\* ClientProxy1_0::handleFlatline: a client that was heard once falls silent
HandleFlatline(c) ==
  /\ ~crashed /\ proxy[c].alarm
  /\ Disconnect(c, queue)
  /\ UNCHANGED <<unknown, waiting, said, crashed>>

\* the proxy's ClientProxyReady, also of a proxy that a failure has deleted
HandleReady ==
  /\ Dispatched("ready")
  /\ LET c == Head(queue).conn IN
       IF proxy[c].heard = "unknown" THEN SendSuccess(c, Tail(queue))
       ELSE queue' = Tail(queue) /\ UNCHANGED <<unknown, proxy>>
  /\ UNCHANGED <<sock, filter, waiting, said, crashed>>

(***************************************************************************)
(* The listener and the server.                                            *)
(***************************************************************************)
BugNoEvent ==
  /\ Dispatched("success")
  /\ LET c == Head(queue).conn IN
       /\ unknown' = [unknown EXCEPT ![c] = NoUnknown]
       /\ queue' = Tail(queue)
       /\ IF unknown[c].ready
          THEN /\ waiting' = Append(waiting, c)
               /\ proxy' = [proxy EXCEPT ![c].heard = "listener"]
          ELSE UNCHANGED <<waiting, proxy>>
  /\ UNCHANGED <<sock, filter, said, crashed>>

BugQueuesNull ==
  /\ Dispatched("success")
  /\ LET c == Head(queue).conn IN
       /\ unknown' = [unknown EXCEPT ![c] = NoUnknown]
       /\ waiting' = Append(waiting, IF unknown[c].ready THEN c ELSE "null")
       /\ queue' = Append(Tail(queue), [type |-> "adopt"])
       /\ proxy' = [proxy EXCEPT ![c].heard = "listener"]
  /\ UNCHANGED <<sock, filter, said, crashed>>

\* ClientListener::handleUnknownClient.  When the success was taken back, the
\* stream is gone with the proxy, and there is nothing to close; when the unknown
\* client is gone, so is the handler
HandleUnknownClient ==
  /\ Dispatched("success")
  /\ LET c == Head(queue).conn IN
       /\ unknown' = [unknown EXCEPT ![c] = NoUnknown]
       /\ IF unknown[c].ready /\ Live(c)
          THEN /\ waiting' = Append(waiting, c)
               /\ queue' = Append(Tail(queue), [type |-> "adopt"])
               /\ proxy' = [proxy EXCEPT ![c].heard = "listener"]
          ELSE queue' = Tail(queue) /\ UNCHANGED <<waiting, proxy>>
  /\ UNCHANGED <<sock, filter, said, crashed>>

\* the listener's handler of ClientProxyUnknownFailure: the socket is released
\* only when the unknown client is still there, and has the stream
HandleUnknownFailure ==
  /\ Dispatched("failure")
  /\ queue' = Tail(queue)
  /\ LET c == Head(queue).conn IN
       /\ unknown' = [unknown EXCEPT ![c] = NoUnknown]
       /\ filter' = [filter EXCEPT ![c] = NoFilter]
       /\ sock' = [sock EXCEPT ![c] = IF unknown[c].stream THEN "deleted" ELSE @]
  /\ UNCHANGED <<proxy, waiting, said, crashed>>

\* Server::handleClientDisconnected deletes the proxy and its filter
DeleteProxy(c) ==
  /\ proxy' = [proxy EXCEPT ![c] = NoProxy]
  /\ filter' = [filter EXCEPT ![c] = NoFilter]

\* the proxy's ClientProxyDisconnected.  The listener takes the proxy's stream for
\* its socket, deletes the proxy, the stream with it, and then the "socket"
HandleProxyDisconnected ==
  /\ Dispatched("disconnected")
  /\ LET c == Head(queue).conn IN
       CASE proxy[c].heard = "unknown" ->
              /\ SendFailure(c, Tail(queue))
              /\ UNCHANGED <<filter, waiting, crashed>>
         [] proxy[c].heard = "listener" ->
              /\ DeleteProxy(c)
              /\ waiting' = Kept(waiting, Conns \ {c})
              /\ queue' = Tail(queue) /\ crashed' = TRUE
              /\ UNCHANGED unknown
         [] proxy[c].heard = "server" ->
              /\ DeleteProxy(c)
              /\ queue' = Tail(queue)
              /\ UNCHANGED <<unknown, waiting, crashed>>
         [] OTHER ->
              /\ queue' = Tail(queue)
              /\ UNCHANGED <<filter, unknown, proxy, waiting, crashed>>
  /\ UNCHANGED <<sock, said>>

BugKeepsHandler ==
  /\ Dispatched("adopt")
  /\ queue' = Tail(queue)
  /\ waiting' = IF waiting = <<>> THEN waiting ELSE Tail(waiting)
  /\ UNCHANGED <<sock, filter, unknown, proxy, said, crashed>>

\* ServerApp::handleClientConnected: ClientListener::getNextClient, adoptClient
HandleClientConnected ==
  /\ Dispatched("adopt")
  /\ queue' = Tail(queue)
  /\ IF waiting = <<>> THEN UNCHANGED <<proxy, waiting>>
     ELSE /\ waiting' = Tail(waiting)
          /\ proxy' = [proxy EXCEPT ![Head(waiting)].heard = "server"]
  /\ UNCHANGED <<sock, filter, unknown, said, crashed>>

\* Server::handleClientCloseTimeout: a client the server wants to get rid of is
\* deleted; its socket stays as it is
HandleClientCloseTimeout(c) ==
  /\ ~crashed /\ proxy[c].heard = "server"
  /\ DeleteProxy(c)
  /\ UNCHANGED <<sock, unknown, waiting, queue, said, crashed>>

(***************************************************************************)
(* The clients.                                                            *)
(***************************************************************************)
Dial(c) ==
  /\ ~crashed /\ sock[c] = "none"
  /\ sock' = [sock EXCEPT ![c] = "backlog"]
  /\ queue' = Append(queue, [type |-> "connecting"])
  /\ UNCHANGED <<filter, unknown, proxy, waiting, said, crashed>>

Says(c, m) ==
  /\ ~crashed /\ sock[c] = "open" /\ said[c] < MaxSays
  /\ said' = [said EXCEPT ![c] = @ + 1]
  /\ filter' = [filter EXCEPT ![c].sock = Append(@, m)]
  /\ queue' = IF filter[c].sock = <<>> THEN Append(queue, Of("input", c))
                                       ELSE queue
  /\ UNCHANGED <<sock, unknown, proxy, waiting, crashed>>

HangUp(c) ==
  /\ ~crashed /\ sock[c] = "open" /\ said[c] <= MaxSays
  /\ said' = [said EXCEPT ![c] = MaxSays + 1]
  /\ queue' = Append(queue, Of("shutdown", c))
  /\ UNCHANGED <<sock, filter, unknown, proxy, waiting, crashed>>

Dispatch ==
  \/ HandleClientConnecting \/ HandleClientAccepted
  \/ HandleDisconnectedOnAccept \/ HandleInput \/ HandleShutdown
  \/ HandleReady \/ HandleUnknownClient \/ HandleUnknownFailure
  \/ HandleProxyDisconnected \/ HandleClientConnected

Timers(c) ==
  HandleTimeout(c) \/ HandleFlatline(c) \/ HandleClientCloseTimeout(c)

Client(c) ==
  Dial(c) \/ SecureAccept(c) \/ HangUp(c) \/ (\E m \in Sayable(said[c]) : Says(c, m))

Next == Dispatch \/ \E c \in Conns : Timers(c) \/ Client(c)

Spec == Init /\ [][Next]_vars

\* the event loop goes on, and an unknown client's timer fires
Fairness == WF_vars(Dispatch) /\ \A c \in Conns : WF_vars(HandleTimeout(c))

FairSpec == Spec /\ Fairness

(***************************************************************************)
(* Properties.                                                             *)
(***************************************************************************)
\* The socket of a client that is being greeted or is connected exists: nobody
\* releases it under the filter that reads it.
SocketOutlivesUsers ==
  \A c \in Conns : unknown[c].stream \/ Live(c) => sock[c] \in {"open", "closed"}

\* an event of c's proxy is queued, which may have been deleted since
ProxyHasNews(c) == \E i \in DOMAIN queue : queue[i] \in {Of("ready", c), Of("disconnected", c)}

\* Every proxy has exactly one owner that hears of its disconnection, through
\* the handshake, the listener's queue and the server's adoption.  Nobody else is
\* called: the handlers that a failed handshake leaves behind with the address of
\* its proxy run only while the unknown client that they call is there.
DisconnectionIsHeard ==
  \A c \in Conns :
    /\ Live(c) => proxy[c].heard # "none"
    /\ proxy[c].heard = "unknown" /\ (Live(c) \/ ProxyHasNews(c)) => unknown[c].there
    /\ proxy[c].heard \in {"listener", "server"} => Live(c) /\ ~unknown[c].there
    /\ proxy[c].heard = "listener" <=> c \in ToSet(waiting)

\* A client that waits in the listener's queue will be fetched: there are as many
\* events to fetch one as there are clients.
WaitingIsFetched ==
  Len(waiting) <= Count(queue, [type: {"adopt"}])

\* Every handshake ends, whatever the client says or does not say.
HandshakesEnd ==
  \A c \in Conns : unknown[c].there ~> ~unknown[c].there \/ crashed

\* The socket that the listener releases is one it has accepted.
ReleasesSockets == ~crashed
=============================================================================
