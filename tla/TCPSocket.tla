------------------------------ MODULE TCPSocket ------------------------------
(***************************************************************************)
(* The sockets of net/TCPSocket.cpp and net/TCPListenSocket.cpp on the     *)
(* multiplexer.  A socket belongs to one user thread, which reads, writes, *)
(* accepts and closes; the multiplexer's thread services it under the      *)
(* socket's mutex.  A socket method changes its state under the mutex,     *)
(* releases it, and only then hands its new job to the multiplexer: between *)
(* the two the other thread may service the socket.                        *)
(*                                                                         *)
(* Sizes are counted in units of half the input buffer's limit (1 MiB).    *)
(***************************************************************************)
EXTENDS SocketMultiplexer

CONSTANTS
  Listeners,     \* the listening sockets, the others carry data
  Owner,         \* Owner[s]: the thread that uses s
  PolledBefore,  \* the multiplexer's thread has polled before
  MaxOut,        \* bound on the units waiting to be written
  MaxSessions,   \* bound on the connections
  MaxCalls       \* bound on the writes to an empty buffer and the arrivals

MaxIn == 2       \* s_maxInputBufferSize in units
Data == Sockets \ Listeners

ASSUME SocketAssumption ==
  /\ Listeners \subseteq Sockets
  /\ Owner \in [Sockets -> Users]
  /\ \A l, k \in Listeners : Owner[l] = Owner[k] => l = k  \* one listens
  /\ PolledBefore \in BOOLEAN
  /\ MaxOut \in Nat /\ MaxSessions \in Nat /\ MaxCalls \in Nat

VARIABLES
  sock,    \* the members of each socket
  told,    \* the events each socket has queued for its owner
  net,     \* the kernel's end: what can be read, what the peer does
  calls,   \* how many such writes and arrivals there were
  sessions \* how many connections

vars == <<muxVars, sock, told, net, calls, sessions>>
sockVars == <<sock, told, net, calls, sessions>>

\* the events the properties need: those that say that a direction has ended, or
\* that a connection succeeded, are left out, as owners may close at any time
Events == {"input", "disconnected", "failed", "connecting"}

Fresh == [open |-> FALSE, connected |-> FALSE, readable |-> FALSE,
          writable |-> FALSE, paused |-> FALSE, inp |-> 0, out |-> 0]

\* a call's job for a socket, and the place that it makes in the list
Entries == [sock: Sockets, job: Job \cup {None}, then: {"idle", "shut", "relisten"}]
PollEntries == [sock: Sockets, in: BOOLEAN, out: BOOLEAN, revents: Revents]
Members == [open: BOOLEAN, connected: BOOLEAN, readable: BOOLEAN, writable: BOOLEAN,
            paused: BOOLEAN, inp: 0..(MaxIn + 1), out: 0..MaxOut]
Kernel == [in: 0..(MaxIn + 1),
           peer: {"none", "dialing", "refused", "open", "hung", "reset"}]

Labels == {"idle", "makeJob", "lockLock", "unblock", "lockList", "edit", "unlock",
           "shut", "relisten", "wait", "collect", "poll", "polling", "run", "sweep"}

TypeOK ==
  /\ pc \in [Threads -> Labels]
  /\ call \in [Users -> Entries]
  /\ lockOwner \in Threads \cup {None} /\ listOwner \in Threads \cup {None}
  /\ jobsReady \in BOOLEAN /\ update \in BOOLEAN
  /\ jobs \in Seq(Entries)
  /\ pfds \in Seq(PollEntries) /\ at \in Nat \ {0} /\ entry \in Nat \ {0}
  /\ pipe \in [Threads -> {"none", "empty", "full"}]
  /\ sock \in [Sockets -> Members]
  /\ told \in [Sockets -> SUBSET Events]
  /\ net \in [Sockets -> Kernel]
  /\ calls \in 0..MaxCalls /\ sessions \in 0..MaxSessions

Init ==
  /\ pc = [t \in Threads |-> IF t = Mux THEN "wait" ELSE "idle"]
  /\ call = [u \in Users |-> [sock |-> CHOOSE s \in Sockets : TRUE,
                              job |-> None, then |-> "idle"]]
  /\ lockOwner = None /\ listOwner = None
  /\ jobsReady = FALSE /\ update = FALSE
  /\ jobs = <<>> /\ pfds = <<>> /\ at = 1 /\ entry = 1
  /\ pipe = [t \in Threads |->
              IF t = Mux /\ PolledBefore THEN "empty" ELSE "none"]
  /\ sock = [s \in Sockets |-> [Fresh EXCEPT !.open = s \in Listeners]]
  /\ told = [s \in Sockets |-> {}]
  /\ net = [s \in Sockets |-> [in |-> 0, peer |-> "none"]]
  /\ calls = 0 /\ sessions = 0

\* newJob: what the socket wants to be polled for
NewJob(m) ==
  LET in == m.readable /\ (m.connected => ~m.paused)
      out == m.writable /\ (m.connected => m.out > 0)
  IN IF m.open /\ (in \/ out)
     THEN [serve |-> IF m.connected THEN "connected" ELSE "connecting",
           in |-> in, out |-> out]
     ELSE None

Listening == [serve |-> "listening", in |-> TRUE, out |-> FALSE]

Connected(m) == [m EXCEPT !.connected = TRUE, !.readable = TRUE,
                          !.writable = TRUE]
OutputShutdown(m) == [m EXCEPT !.writable = FALSE, !.out = 0]
Disconnected(m) == [OutputShutdown(m) EXCEPT !.connected = FALSE,
                                             !.readable = FALSE, !.inp = 0]

\* setJob: the thread goes to the multiplexer, then to label then
SetJob(u, s, job, then) ==
  /\ call' = [call EXCEPT ![u] = [sock |-> s, job |-> job, then |-> then]]
  /\ Goto(u, "lockLock")

Idle(u, s) == pc[u] = "idle" /\ Owner[s] = u /\ sock[s].open
MuxRest == <<lockOwner, listOwner, jobsReady, jobs, update, pfds, at, entry,
             pipe>>

Tell(s, e) == told' = [told EXCEPT ![s] = @ \cup e]


---------------------------- (* the user threads *) --------------------------

\* the calls into the multiplexer: addSocket and removeSocket of thread u
MultiplexerCall(u) ==
  /\ \/ LockJobListLock(u) \/ UnblockPollSocket(u) \/ LockJobList(u)
     \/ AddSocket(u) \/ RemoveSocket(u) \/ UnlockJobList(u, call[u].then)
  /\ UNCHANGED sockVars

\* the constructor of a data socket, and connect(), which may be done at once
Connect(u, s) ==
  /\ s \in Data /\ pc[u] = "idle" /\ Owner[s] = u /\ ~sock[s].open
  /\ sessions < MaxSessions /\ sessions' = sessions + 1
  /\ \E p \in {"dialing", "open"} :
       LET m == [Fresh EXCEPT !.open = TRUE, !.writable = TRUE] IN
       /\ net' = [net EXCEPT ![s].peer = p]
       /\ sock' = [sock EXCEPT ![s] = IF p = "open" THEN Connected(m) ELSE m]
  /\ call' = [call EXCEPT ![u] = [@ EXCEPT !.sock = s, !.then = "idle"]]
  /\ Goto(u, "makeJob")
  /\ UNCHANGED <<MuxRest, told, calls>>

\* newJob outside the mutex, as connect, write and the shutdowns call it
MakeJob(u) ==
  /\ pc[u] = "makeJob"
  /\ SetJob(u, call[u].sock, NewJob(sock[call[u].sock]), call[u].then)
  /\ UNCHANGED <<MuxRest, sockVars>>

\* a write to a socket that cannot be written to only posts an error event
Write(u, s) ==
  /\ s \in Data /\ Idle(u, s) /\ sock[s].writable /\ sock[s].connected
  /\ sock[s].out < MaxOut
  /\ sock' = [sock EXCEPT ![s].out = @ + 1]
  /\ IF sock[s].out = 0
     THEN /\ calls < MaxCalls /\ calls' = calls + 1
          /\ call' = [call EXCEPT ![u] = [@ EXCEPT !.sock = s, !.then = "idle"]]
          /\ Goto(u, "makeJob")
     ELSE UNCHANGED <<pc, call, calls>>
  /\ UNCHANGED <<MuxRest, told, net, sessions>>

\* mutant: a full input buffer that was emptied stays paused
BugStayPaused(u, s) ==
  /\ s \in Data /\ Idle(u, s) /\ "input" \in told[s]
  /\ \E n \in 0..sock[s].inp :
       LET left == sock[s].inp - n
           ended == n > 0 /\ left = 0 /\ ~sock[s].readable /\ ~sock[s].writable
           resume == FALSE /\ left < MaxIn
           m == [sock[s] EXCEPT !.inp = left,
                                !.connected = @ /\ ~ended,
                                !.paused = @ /\ ~resume]
       IN /\ n = 0 => sock[s].inp = 0
          /\ sock' = [sock EXCEPT ![s] = m]
          /\ told' = [told EXCEPT ![s] =
                       (IF left = 0 THEN @ \ {"input"} ELSE @)
                       \cup (IF ended THEN {"disconnected"} ELSE {})]
          /\ IF resume /\ NewJob(m) # None
             THEN SetJob(u, s, NewJob(m), "idle")
             ELSE UNCHANGED <<pc, call>>
  /\ UNCHANGED <<MuxRest, net, calls, sessions>>

\* the owner handles the event that there is input: it reads everything, or
\* reads a part and posts the event again (PacketStreamFilter::readMore)
Read(u, s) ==
  /\ s \in Data /\ Idle(u, s) /\ "input" \in told[s]
  /\ \E n \in 0..sock[s].inp :
       LET left == sock[s].inp - n
           ended == n > 0 /\ left = 0 /\ ~sock[s].readable /\ ~sock[s].writable
           resume == sock[s].paused /\ 2 * left < MaxIn
           m == [sock[s] EXCEPT !.inp = left,
                                !.connected = @ /\ ~ended,
                                !.paused = @ /\ ~resume]
       IN /\ n = 0 => sock[s].inp = 0
          /\ sock' = [sock EXCEPT ![s] = m]
          /\ told' = [told EXCEPT ![s] =
                       (IF left = 0 THEN @ \ {"input"} ELSE @)
                       \cup (IF ended THEN {"disconnected"} ELSE {})]
          /\ IF resume /\ NewJob(m) # None
             THEN SetJob(u, s, NewJob(m), "idle")
             ELSE UNCHANGED <<pc, call>>
  /\ UNCHANGED <<MuxRest, net, calls, sessions>>

\* mutant: the descriptor is closed with the job still in the list
BugKeepJob(u, s) ==
  /\ s \in Data /\ Idle(u, s)
  /\ call' = [call EXCEPT ![u].sock = s]
  /\ Goto(u, "shut")
  /\ UNCHANGED <<MuxRest, sockVars>>

\* close(): the job goes first, then the descriptor
Close(u, s) ==
  /\ s \in Data /\ Idle(u, s)
  /\ SetJob(u, s, None, "shut")
  /\ UNCHANGED <<MuxRest, sockVars>>

FinishClose(u) ==
  LET s == call[u].sock IN
  /\ pc[u] = "shut"
  /\ sock' = [sock EXCEPT ![s] = Fresh]
  /\ told' = [told EXCEPT ![s] = {}]
  /\ net' = [net EXCEPT ![s] = [in |-> 0, peer |-> "none"]]
  /\ Goto(u, "idle")
  /\ call' = [call EXCEPT ![u].then = "idle"]
  /\ UNCHANGED <<MuxRest, calls, sessions>>

Bind(u, l) ==
  /\ l \in Listeners /\ Idle(u, l) /\ net[l].peer = "none"
  /\ net' = [net EXCEPT ![l].peer = "open"]
  /\ SetJob(u, l, Listening, "idle")
  /\ UNCHANGED <<MuxRest, sock, told, calls, sessions>>

\* accept(): the new socket adds its job, then the listener adds its own again
Accept(u, l, s) ==
  /\ l \in Listeners /\ Idle(u, l) /\ "connecting" \in told[l]
  /\ s \in Data /\ Owner[s] = u /\ ~sock[s].open
  /\ told' = [told EXCEPT ![l] = @ \ {"connecting"}]
  /\ sock' = [sock EXCEPT ![s] = Connected([Fresh EXCEPT !.open = TRUE])]
  /\ net' = [net EXCEPT ![l].in = @ - 1, ![s] = [in |-> 0, peer |-> "open"]]
  /\ SetJob(u, s, NewJob(Connected([Fresh EXCEPT !.open = TRUE])), "relisten")
  /\ UNCHANGED <<MuxRest, calls, sessions>>

\* accept() throws before there is a socket (no descriptors, a connection that
\* was reset): the listener adds nothing and asks for no connection any more,
\* which "paused" remembers
AcceptFails(u, l) ==
  /\ l \in Listeners /\ Idle(u, l) /\ "connecting" \in told[l]
  /\ told' = [told EXCEPT ![l] = @ \ {"connecting"}]
  /\ sock' = [sock EXCEPT ![l].paused = TRUE]
  /\ UNCHANGED <<pc, call, MuxRest, net, calls, sessions>>

\* mutant: the listening socket does not ask for the next connection
BugNoListeningJob(u, l) ==
  /\ pc[u] = "relisten" /\ l \in Listeners /\ Owner[l] = u
  /\ Goto(u, "idle")
  /\ UNCHANGED <<call, MuxRest, sockVars>>

SetListeningJob(u, l) ==
  /\ pc[u] = "relisten" /\ l \in Listeners /\ Owner[l] = u
  /\ SetJob(u, l, Listening, "idle")
  /\ UNCHANGED <<MuxRest, sockVars>>

----------------------- (* the multiplexer's thread *) -----------------------

Current == jobs[at].sock
Revented == pfds[entry].revents

ServiceConnecting ==
  LET s == Current
      refused == net[s].peer \in {"refused", "reset"}
      m == IF refused THEN Disconnected(sock[s])
           ELSE IF "out" \in Revented THEN Connected(sock[s]) ELSE sock[s]
  IN /\ InPass /\ jobs[at].job # None /\ jobs[at].job.serve = "connecting"
     /\ sock' = [sock EXCEPT ![s] = m]
     /\ Tell(s, IF refused THEN {"failed"}
                ELSE {})
     /\ RunJob(IF m = sock[s] THEN jobs[at].job ELSE NewJob(m))
     /\ UNCHANGED <<net, calls, sessions>>

\* whether the kernel has noticed since the poll that the connection is broken
Broken(s) == net[s].peer = "reset"

Nothing(m) == [m |-> m, events |-> {}, new |-> FALSE]

\* mutant: a write that finds the connection broken tells nobody
BugSilentWrite(s, m) ==
  IF "out" \notin Revented \/ m.out = 0 THEN {Nothing(m)}
  ELSE {[m |-> [m EXCEPT !.out = left], events |-> {}, new |-> TRUE] :
          left \in IF Broken(s) THEN {} ELSE 0..(m.out - 1)}
       \cup {[m |-> Disconnected(m), events |-> {}, new |-> TRUE]}

\* a write that throws: the peer reads no more, or the connection is broken
FailedWrites(s, m) ==
  LET ended == ~m.readable /\ m.inp = 0
      shut == [m |-> [OutputShutdown(m) EXCEPT !.connected = @ /\ ~ended],
               events |-> IF ended THEN {"disconnected"} ELSE {}, new |-> TRUE]
      lost == [m |-> Disconnected(m), events |-> {"disconnected"}, new |-> TRUE]
  IN CASE net[s].peer = "hung" -> {shut}
       [] Broken(s) -> {shut, lost}
       [] OTHER -> {}

\* what doWrite can do to the members, and the events it posts
WriteOutcomes(s, m) ==
  IF "out" \notin Revented \/ m.out = 0 THEN {Nothing(m)}
  ELSE {[m |-> [m EXCEPT !.out = left], events |-> {}, new |-> TRUE] :
          left \in IF Broken(s) THEN {} ELSE 0..(m.out - 1)}
       \cup FailedWrites(s, m)

\* mutant: no limit on the input buffer
BugNoLimit(s, m) ==
  IF "in" \in Revented /\ m.readable
  THEN {[m |-> [m EXCEPT !.inp = @ + net[s].in], events |-> {"input"},
         new |-> FALSE, taken |-> net[s].in, peer |-> net[s].peer]}
  ELSE {[m |-> m, events |-> {}, new |-> FALSE, taken |-> 0, peer |-> net[s].peer]}

\* doRead, with the bytes it takes from the kernel: until there are no more or
\* the buffer is over its limit.  On a broken connection what comes after the
\* bytes throws: the stream has hung up, or an error that is ignored, and with it
\* the event that there is input.  The kernel tells such an error once
ReadOutcomes(s, m) ==
  LET room == MaxIn + 1 - m.inp
      taken == IF net[s].in < room THEN net[s].in ELSE room
      ended == ~m.writable /\ m.inp = 0
  IN IF ~("in" \in Revented /\ m.readable /\ ~m.paused)
     THEN {[m |-> m, events |-> {}, new |-> FALSE, taken |-> 0, peer |-> net[s].peer]}
     ELSE IF Broken(s) /\ taken < room
     THEN {[m |-> Disconnected(m), events |-> {"disconnected"},
            new |-> TRUE, taken |-> taken, peer |-> "reset"],
           [m |-> [m EXCEPT !.inp = @ + taken], events |-> {},
            new |-> FALSE, taken |-> taken, peer |-> "hung"]}
     ELSE IF taken > 0
     THEN {[m |-> [m EXCEPT !.inp = @ + taken],
            events |-> IF m.inp = 0 THEN {"input"} ELSE {},
            new |-> FALSE, taken |-> taken, peer |-> net[s].peer]}
     ELSE {[m |-> [m EXCEPT !.readable = FALSE, !.connected = @ /\ ~ended],
            events |-> IF ended THEN {"disconnected"} ELSE {},
            new |-> TRUE, taken |-> 0, peer |-> net[s].peer]}

ServiceConnected ==
  LET s == Current IN
  /\ InPass /\ jobs[at].job # None /\ jobs[at].job.serve = "connected"
  /\ IF "error" \in Revented
     THEN /\ sock' = [sock EXCEPT ![s] = Disconnected(@)]
          /\ Tell(s, {"disconnected"})
          /\ RunJob(NewJob(Disconnected(sock[s])))
          /\ UNCHANGED net
     ELSE \E w \in WriteOutcomes(s, sock[s]) : \E r \in ReadOutcomes(s, w.m) :
            LET full == ~r.m.paused /\ r.m.inp >= MaxIn
                m == [r.m EXCEPT !.paused = @ \/ full]
            IN /\ sock' = [sock EXCEPT ![s] = m]
               /\ Tell(s, w.events \cup r.events)
               /\ net' = [net EXCEPT ![s] = [in |-> @.in - r.taken, peer |-> r.peer]]
               /\ RunJob(IF full \/ w.new \/ r.new THEN NewJob(m)
                         ELSE jobs[at].job)
  /\ UNCHANGED <<calls, sessions>>

\* a listening socket is not polled again until its owner accepts
ServiceListening ==
  /\ InPass /\ jobs[at].job # None /\ jobs[at].job.serve = "listening"
  /\ IF "in" \in Revented
     THEN Tell(Current, {"connecting"}) /\ RunJob(None)
     ELSE RunJob(jobs[at].job) /\ UNCHANGED told
  /\ UNCHANGED <<sock, net, calls, sessions>>

\* what the kernel reports of each socket
Happened == [s \in Sockets |->
  (IF net[s].in > 0 \/ net[s].peer \in {"hung", "reset", "refused"}
   THEN {"in"} ELSE {}) \cup
  (IF s \in Data /\ net[s].peer \in {"open", "hung", "reset", "refused"}
   THEN {"out"} ELSE {}) \cup
  (IF net[s].peer \in {"reset", "refused"} THEN {"error"} ELSE {})]

Multiplex ==
  \/ /\ \/ LockJobListLock(Mux) \/ LockJobList(Mux)
        \/ UnlockJobList(Mux, "wait")
        \/ WaitForJobs \/ CollectPollEntries \/ EnterPoll
        \/ ReturnFromPoll(Happened)
        \/ SkipRemoved \/ SweepRemoved
     /\ UNCHANGED sockVars
  \/ ServiceConnecting
  \/ ServiceConnected
  \/ ServiceListening

------------------------------- (* the peers *) ------------------------------

Answer(s) ==
  /\ net[s].peer = "dialing"
  /\ \E p \in {"open", "refused"} : net' = [net EXCEPT ![s].peer = p]
  /\ UNCHANGED <<muxVars, sock, told, calls, sessions>>

\* some or many bytes for a data socket, or two connections for a listening one
Arrive(s) ==
  /\ net[s].peer = "open" /\ net[s].in = 0
  /\ \E n \in IF s \in Data THEN {1, MaxIn + 1} ELSE {2} :
       net' = [net EXCEPT ![s].in = n]
  /\ IF s \in Data
     THEN calls < MaxCalls /\ calls' = calls + 1 /\ UNCHANGED sessions
     ELSE sessions < MaxSessions /\ sessions' = sessions + 1 /\ UNCHANGED calls
  /\ UNCHANGED <<muxVars, sock, told>>

HangUp(s) ==
  /\ s \in Data /\ net[s].peer = "open"
  /\ \E p \in {"hung", "reset"} : net' = [net EXCEPT ![s].peer = p]
  /\ UNCHANGED <<muxVars, sock, told, calls, sessions>>

User(u) ==
  \/ MultiplexerCall(u) \/ MakeJob(u) \/ FinishClose(u)
  \/ \E s \in Sockets : \/ Connect(u, s) \/ Write(u, s) \/ Read(u, s)
                        \/ Close(u, s) \/ Bind(u, s) \/ AcceptFails(u, s)
                        \/ SetListeningJob(u, s)
                        \/ \E d \in Sockets : Accept(u, s, d)

Peer(s) == Answer(s) \/ Arrive(s) \/ HangUp(s)

Next == Multiplex \/ (\E u \in Users : User(u)) \/ (\E s \in Sockets : Peer(s))

Spec == Init /\ [][Next]_vars

(***************************************************************************)
(* Each thread goes on and each owner handles the events of its sockets; a *)
(* dialed peer answers.  The lock on the lock is free throughout each poll, *)
(* so a thread that waits for it gets it: that is why fairness is strong.  *)
(***************************************************************************)
GoOn(u) ==
  \/ MultiplexerCall(u) \/ MakeJob(u) \/ FinishClose(u)
  \/ \E s \in Sockets : \/ SetListeningJob(u, s) \/ Read(u, s)
                        \/ AcceptFails(u, s) \/ \E d \in Sockets : Accept(u, s, d)

Fairness ==
  /\ WF_vars(Multiplex)
  /\ \A u \in Users : SF_vars(GoOn(u))
  /\ \A s \in Data : WF_vars(Answer(s))

FairSpec == Spec /\ Fairness

------------------------------ (* properties *) ------------------------------

InUse(t) == pc[t] \in IF t = Mux THEN {"collect", "poll", "polling", "run",
                                       "sweep", "unlock"}
                      ELSE {"edit", "unlock"}

\* Two threads never use the job list at once: a job is never deleted by
\* addSocket or removeSocket while the multiplexer's thread runs it.
OneAtATime == \A t, v \in Threads : InUse(t) /\ InUse(v) => t = v

PollEntry(e) == [sock |-> e.sock, in |-> e.job.in, out |-> e.job.out]
Asked(p) == [sock |-> p.sock, in |-> p.in, out |-> p.out]

\* A poll asks for what the jobs want now, and the events it returns go to the
\* job of the socket they are about: places without a job, jobs replaced by the
\* pass and jobs added since the last poll never shift the two lists.
EntriesFitJobs ==
  /\ pc[Mux] = "polling" =>
       /\ Len(Live) = Len(pfds)
       /\ \A i \in DOMAIN Live : PollEntry(Live[i]) = Asked(pfds[i])
  /\ InPass /\ jobs[at].job # None => PollEntry(jobs[at]) = Asked(pfds[entry])

\* The multiplexer only ever holds a job of a socket that exists: close()
\* removes the job before it takes the descriptor and the object away, and no
\* call that was overtaken by the other thread puts one back.
JobsOfOpenSockets ==
  \A i \in DOMAIN jobs : jobs[i].job # None => sock[jobs[i].sock].open

\* Both: SocketMultiplexer's two lists fit each other and the sockets that exist.
JobsFit == EntriesFitJobs /\ JobsOfOpenSockets

\* A connection that was lost is reported to its owner, whichever thread and
\* whichever of the two directions noticed it first.
LossIsTold ==
  \A s \in Data : sock[s].open /\ ~sock[s].connected /\ ~sock[s].writable
                    => told[s] \cap {"disconnected", "failed"} # {}

\* Bytes flow both ways until the connection is lost: a full output buffer is
\* written, and what arrives is read, though the socket pauses at a full input
\* buffer and stops asking for an empty output, and each of the two threads may
\* change its mind while the other one hands over a job.
BytesFlow ==
  \A s \in Data : /\ sock[s].out = MaxOut ~> sock[s].out < MaxOut
                  /\ net[s].in > 0 /\ sock[s].readable
                       ~> net[s].in = 0 \/ ~sock[s].readable

\* A connection that waits at the listening socket is accepted when its owner
\* has a socket for it, unless an accept failed: nothing asks again after that.
ConnectionsAreAccepted ==
  \A l \in Listeners :
    net[l].in > 0 ~> \/ net[l].in = 0 \/ sock[l].paused
                     \/ \A d \in Data : Owner[d] = Owner[l] => sock[d].open
==============================================================================
