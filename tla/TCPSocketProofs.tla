--------------------------- MODULE TCPSocketProofs ---------------------------
(***************************************************************************)
(* Proofs about TCPSocket, for any number of threads and sockets: type     *)
(* correctness, that the job list has one user at a time, that a lost      *)
(* connection is reported, and that the multiplexer's poll entries fit its *)
(* jobs and its jobs fit the sockets.                                      *)
(***************************************************************************)
EXTENDS TCPSocket, SiftingProofs

-----------------------------------------------------------------------------
(* The parts of the inductive invariant.                                   *)

MuxLabels == {"wait", "lockLock", "lockList", "collect", "poll", "polling", "run",
              "sweep", "unlock"}
UserLabels == {"idle", "makeJob", "lockLock", "unblock", "lockList", "edit", "unlock",
               "shut", "relisten"}

\* where a user's thread may hold a job that it hands over
Handing == {"lockLock", "unblock", "lockList", "edit", "unlock"}

\* Each thread is where its own code is.
PcInv == pc[Mux] \in MuxLabels /\ \A u \in Users : pc[u] \in UserLabels

\* The thread that uses the list holds it.
LockInv == \A t \in Threads : InUse(t) => listOwner = t

\* No place of s in the list has a job.
NoJob(s) == \A i \in DOMAIN jobs : jobs[i].sock = s => jobs[i].job = None

\* Nor is there one on its way.
Quiet(s) == NoJob(s) /\ \A u \in Users : call[u].sock = s => call[u].job = None

\* A thread hands over jobs of its own sockets that are open; close() has no
\* job, and from the time that the list was changed the socket is quiet.
CallOf(u) ==
    /\ call[u].job # None => pc[u] \in Handing
    /\ pc[u] # "idle" => Owner[call[u].sock] = u /\ sock[call[u].sock].open
    /\ pc[u] \in {"shut", "relisten"} => call[u].then = pc[u]
    /\ pc[u] = "makeJob" => call[u].sock \in Data
    /\ call[u].then = "shut" => /\ call[u].job = None /\ call[u].sock \in Data
                                /\ pc[u] \in Handing \cup {"shut"}
    /\ call[u].then = "shut" /\ pc[u] \in {"unlock", "shut"} => NoJob(call[u].sock)

CallInv == \A u \in Users : CallOf(u)

\* A socket has one place in the list, and is open when it has a job there.
JobInv ==
    /\ \A i, j \in DOMAIN jobs : jobs[i].sock = jobs[j].sock => i = j
    /\ \A i \in DOMAIN jobs : HasJob(jobs[i]) => sock[jobs[i].sock].open

\* A job that may be handed over or run for s with the members m: a listening socket
\* only listens, and the job of a connection that was lost finds nothing to write.
JobFits(s, job, m) ==
    /\ s \in Listeners => job = Listening
    /\ job.serve = "connected" => m.connected \/ ~m.writable

JobsFitted == \A i \in DOMAIN jobs :
    HasJob(jobs[i]) => JobFits(jobs[i].sock, jobs[i].job, sock[jobs[i].sock])

CallsFitted == \A u \in Users :
    call[u].job # None => JobFits(call[u].sock, call[u].job, sock[call[u].sock])

FitInv == JobsFitted /\ CallsFitted

\* What is not writable has nothing to write; a loss was reported.
LossInv ==
    /\ \A s \in Data : ~sock[s].writable => sock[s].out = 0
    /\ LossIsTold

\* A listening socket is open; between the event that tells its owner of a
\* connection and the next job for it, it is quiet and the connection is there.
ListenOf(l) ==
    /\ sock[l].open /\ net[l].peer \in {"none", "open"}
    /\ net[l].peer = "none" =>
           Quiet(l) /\ told[l] = {} /\ call[Owner[l]].then # "relisten"
    /\ "connecting" \in told[l] =>
           net[l].in >= 1 /\ Quiet(l) /\ call[Owner[l]].then # "relisten"
    /\ call[Owner[l]].then = "relisten" => Quiet(l)
    /\ \A u \in Users : (call[u].sock = l /\ call[u].job # None /\ pc[u] # "unlock")
           => NoJob(l)

ListenInv == \A l \in Listeners : ListenOf(l)

\* The poll entries p fit the jobs q, in their order.
Fits(q, p) ==
    /\ Len(q) = Len(p)
    /\ \A k \in 1 .. Len(q) : PollEntry(q[k]) = Asked(p[k])

\* h tells which job each poll entry was made for: the entries that the pass has
\* yet to visit are those of the jobs that it has yet to visit, and a connection
\* that a listening socket's entry tells of is there.
Matched(h) ==
    /\ h \in [1 .. Len(pfds) -> 1 .. Len(jobs)]
    /\ \A k, m \in 1 .. Len(pfds) : k < m => h[k] < h[m]
    /\ \A k \in entry .. Len(pfds) :
           /\ h[k] >= at /\ HasJob(jobs[h[k]])
           /\ PollEntry(jobs[h[k]]) = Asked(pfds[k])
           /\ (jobs[h[k]].sock \in Listeners /\ "in" \in pfds[k].revents)
                  => net[jobs[h[k]].sock].in >= 1
    /\ \A i \in at .. Len(jobs) :
           HasJob(jobs[i]) => \E k \in entry .. Len(pfds) : h[k] = i

\* Unless an update is due the poll entries fit the jobs; in a pass, those to come do.
PassInv ==
    /\ ~update => Fits(Live, pfds)
    /\ pc[Mux] \in {"poll", "polling"} => ~update
    /\ pc[Mux] # "run" => at = 1 /\ entry = 1
    /\ pc[Mux] = "run" => \E h : Matched(h)

\* The inductive invariant.
SocketInv ==
    /\ TypeOK /\ PcInv /\ LockInv /\ CallInv /\ JobInv /\ FitInv /\ LossInv
    /\ ListenInv /\ PassInv

-----------------------------------------------------------------------------
(* Types.                                                                  *)

\* The members of a socket that its methods set are members.
LEMMA MembersType ==
    /\ Fresh \in Members /\ [Fresh EXCEPT !.open = TRUE] \in Members
    /\ [Fresh EXCEPT !.open = TRUE, !.writable = TRUE] \in Members
    /\ \A m \in Members :
          /\ Connected(m) \in Members /\ OutputShutdown(m) \in Members
          /\ Disconnected(m) \in Members
<1>1. 0 \in 0 .. (MaxIn + 1) /\ 0 \in 0 .. MaxOut
      BY SocketAssumption DEF MaxIn
<1>2. /\ Fresh \in Members /\ [Fresh EXCEPT !.open = TRUE] \in Members
      /\ [Fresh EXCEPT !.open = TRUE, !.writable = TRUE] \in Members
      BY <1>1 DEF Fresh, Members
<1>3. ASSUME NEW m \in Members
      PROVE  Connected(m) \in Members /\ OutputShutdown(m) \in Members
      BY <1>1 DEF Members, Connected, OutputShutdown
<1>4. ASSUME NEW m \in Members PROVE Disconnected(m) \in Members
      <2>1. OutputShutdown(m) \in Members
            BY <1>3
      <2> QED BY <1>1, <2>1 DEF Members, Disconnected
<1> QED BY <1>2, <1>3, <1>4

\* newJob() makes a job or none.
LEMMA NewJobType == \A m \in Members : NewJob(m) \in Job \cup {None}
BY DEF NewJob, Job, Members

\* A listening socket's job.
LEMMA ListeningType == Listening \in Job /\ Listening # None
<1>1. Listening \in Job
      BY DEF Listening, Job
<1> QED BY <1>1, MuxAssumption

\* A place in the list is a call.
LEMMA EntryType ==
    ASSUME NEW e \in Entries
    PROVE  e.sock \in Sockets /\ e.job \in Job \cup {None}
           /\ e.then \in {"idle", "shut", "relisten"}
BY DEF Entries

\* A call for a socket.
LEMMA CallType ==
    ASSUME NEW s \in Sockets, NEW job \in Job \cup {None},
           NEW then \in {"idle", "shut", "relisten"}
    PROVE  [sock |-> s, job |-> job, then |-> then] \in Entries
BY DEF Entries

\* Live leaves the entries that have jobs.
LEMMA LiveType ==
    ASSUME jobs \in Seq(Entries)
    PROVE  /\ Live \in Seq(Entries)
           /\ \E h : ComesFrom(jobs, {e \in Range(jobs) : HasJob(e)}, Len(jobs), Live, h)
           /\ (\A i \in 1 .. Len(jobs) : HasJob(jobs[i])) => Live = jobs
<1> DEFINE T == {e \in Range(jobs) : HasJob(e)}
<1>1. \A i \in 1 .. Len(jobs) : HasJob(jobs[i]) => jobs[i] \in T
      BY DEF Range
<1> HIDE DEF T
<1>2. /\ Kept(jobs, T) \in Seq(Entries)
      /\ \E h : ComesFrom(jobs, T, Len(jobs), Kept(jobs, T), h)
      /\ (\A i \in 1 .. Len(jobs) : jobs[i] \in T) => Kept(jobs, T) = jobs
      BY KeptSifts
<1> QED BY <1>1, <1>2 DEF Live, T

\* What is left has a job.
LEMMA LiveHasJobs ==
    ASSUME jobs \in Seq(Entries), NEW k \in 1 .. Len(Live)
    PROVE  HasJob(Live[k])
<1>1. PICK h : ComesFrom(jobs, {e \in Range(jobs) : HasJob(e)}, Len(jobs), Live, h)
      BY LiveType
<1> QED BY <1>1 DEF ComesFrom

\* The steps of the multiplexer and of the calls into it that leave the sockets alone.
LEMMA MuxStepType ==
    ASSUME TypeOK,
           \/ \E t \in Threads : LockJobListLock(t) \/ LockJobList(t)
           \/ \E u \in Users : \/ UnblockPollSocket(u) \/ AddSocket(u) \/ RemoveSocket(u)
                               \/ UnlockJobList(u, call[u].then)
           \/ UnlockJobList(Mux, "wait")
           \/ WaitForJobs \/ CollectPollEntries \/ EnterPoll
           \/ ReturnFromPoll(Happened)
           \/ SkipRemoved \/ SweepRemoved,
           UNCHANGED sockVars
    PROVE  TypeOK'
<1>1. /\ pc \in [Threads -> Labels] /\ call \in [Users -> Entries]
      /\ lockOwner \in Threads \cup {None} /\ listOwner \in Threads \cup {None}
      /\ jobsReady \in BOOLEAN /\ update \in BOOLEAN
      /\ jobs \in Seq(Entries) /\ pfds \in Seq(PollEntries)
      /\ at \in Nat \ {0} /\ entry \in Nat \ {0}
      /\ pipe \in [Threads -> {"none", "empty", "full"}]
      BY DEF TypeOK
<1>2. Mux \in Threads /\ \A u \in Users : u \in Threads
      BY DEF Threads
<1> SUFFICES
        /\ pc' \in [Threads -> Labels] /\ call' \in [Users -> Entries]
        /\ lockOwner' \in Threads \cup {None} /\ listOwner' \in Threads \cup {None}
        /\ jobsReady' \in BOOLEAN /\ update' \in BOOLEAN
        /\ jobs' \in Seq(Entries) /\ pfds' \in Seq(PollEntries)
        /\ at' \in Nat \ {0} /\ entry' \in Nat \ {0}
        /\ pipe' \in [Threads -> {"none", "empty", "full"}]
    BY DEF TypeOK, sockVars
<1> DEFINE Goal ==
        /\ pc' \in [Threads -> Labels] /\ call' \in [Users -> Entries]
        /\ lockOwner' \in Threads \cup {None} /\ listOwner' \in Threads \cup {None}
        /\ jobsReady' \in BOOLEAN /\ update' \in BOOLEAN
        /\ jobs' \in Seq(Entries) /\ pfds' \in Seq(PollEntries)
        /\ at' \in Nat \ {0} /\ entry' \in Nat \ {0}
        /\ pipe' \in [Threads -> {"none", "empty", "full"}]
<1>3. ASSUME NEW t \in Threads, NEW label \in Labels, Goto(t, label)
      PROVE  pc' \in [Threads -> Labels]
      BY <1>1, <1>3 DEF Goto
<1>4. /\ {"idle", "lockLock", "unblock", "lockList", "edit", "unlock"} \subseteq Labels
      /\ {"shut", "relisten", "wait", "collect", "poll", "polling", "run", "sweep"}
             \subseteq Labels
      BY DEF Labels
<1>5. ASSUME NEW t \in Threads, LockJobListLock(t) \/ LockJobList(t) PROVE Goal
      BY <1>1, <1>3, <1>4, <1>5 DEF LockJobListLock, LockJobList
<1>6. ASSUME NEW u \in Users, UnblockPollSocket(u) PROVE Goal
      BY <1>1, <1>2, <1>3, <1>4, <1>6 DEF UnblockPollSocket
<1>7. ASSUME NEW u \in Users, AddSocket(u) PROVE Goal
      <2>1. jobs' \in Seq(Entries)
            <3>1. call[u] \in Entries
                  BY <1>1
            <3>2. Append(jobs, call[u]) \in Seq(Entries)
                  BY <1>1, <3>1
            <3>3. [i \in DOMAIN jobs |-> IF i \in Places(call[u].sock)
                                         THEN call[u] ELSE jobs[i]] \in Seq(Entries)
                  BY <1>1, <3>1, SMTT(30)
            <3> QED BY <1>7, <3>2, <3>3 DEF AddSocket
      <2> QED BY <1>1, <1>2, <1>3, <1>4, <1>7, <2>1 DEF AddSocket
<1>8. ASSUME NEW u \in Users, RemoveSocket(u) PROVE Goal
      <2>1. jobs' \in Seq(Entries)
            <3>1. call[u] \in Entries
                  BY <1>1
            <3> DEFINE live == {i \in Places(call[u].sock) : jobs[i].job # None}
            <3>2. [i \in DOMAIN jobs |-> IF i \in live THEN call[u] ELSE jobs[i]]
                      \in Seq(Entries)
                  <4> HIDE DEF live
                  <4>1. DOMAIN jobs = 1 .. Len(jobs) /\ Len(jobs) \in Nat
                        BY <1>1
                  <4>2. ASSUME NEW i \in 1 .. Len(jobs)
                        PROVE  (IF i \in live THEN call[u] ELSE jobs[i]) \in Entries
                        BY <1>1, <3>1
                  <4> QED BY <4>1, <4>2
            <3> QED BY <1>8, <3>2 DEF RemoveSocket
      <2> QED BY <1>1, <1>2, <1>3, <1>4, <1>8, <2>1 DEF RemoveSocket
<1>9. ASSUME NEW u \in Users, UnlockJobList(u, call[u].then) PROVE Goal
      <2>1. call[u] \in Entries /\ None \in Job \cup {None}
            BY <1>1
      <2>2. [call[u] EXCEPT !.job = None] \in Entries
            BY <2>1 DEF Entries
      <2>3. call' \in [Users -> Entries]
            BY <1>1, <1>9, <2>2 DEF UnlockJobList
      <2>4. call[u].then \in Labels
            BY <1>4, <2>1, EntryType
      <2> QED BY <1>1, <1>2, <1>3, <1>9, <2>3, <2>4 DEF UnlockJobList
<1>10. CASE UnlockJobList(Mux, "wait")
      BY <1>1, <1>2, <1>3, <1>4, <1>10 DEF UnlockJobList
<1>11. CASE WaitForJobs
      BY <1>1, <1>2, <1>3, <1>4, <1>11 DEF WaitForJobs
<1>12. CASE CollectPollEntries
      <2>1. pfds' \in Seq(PollEntries)
            <3>1. Live \in Seq(Entries)
                  BY <1>1, LiveType
            <3> DEFINE new == [i \in DOMAIN Live |->
                    [sock |-> Live[i].sock, in |-> Live[i].job.in,
                     out |-> Live[i].job.out, revents |-> {}]]
            <3>2. ASSUME NEW i \in DOMAIN Live PROVE new[i] \in PollEntries
                  <4>1. Live[i] \in Entries /\ HasJob(Live[i])
                        BY <1>1, <3>1, LiveHasJobs
                  <4>2. Live[i].sock \in Sockets /\ Live[i].job \in Job
                        BY <4>1, EntryType DEF HasJob
                  <4>3. Live[i].job.in \in BOOLEAN /\ Live[i].job.out \in BOOLEAN
                        BY <4>2 DEF Job
                  <4> QED BY <4>2, <4>3 DEF PollEntries, Revents
            <3>3. new \in Seq(PollEntries)
                  <4>1. DOMAIN Live = 1 .. Len(Live) /\ Len(Live) \in Nat
                        BY <3>1
                  <4> QED BY <3>2, <4>1
            <3> QED BY <1>1, <1>12, <3>3 DEF CollectPollEntries
      <2> QED BY <1>1, <1>2, <1>3, <1>4, <1>12, <2>1 DEF CollectPollEntries
<1>13. CASE EnterPoll
      BY <1>1, <1>2, <1>3, <1>4, <1>13 DEF EnterPoll
<1>14. CASE ReturnFromPoll(Happened)
      <2>1. pfds' \in Seq(PollEntries)
            <3> DEFINE Told(e) == {k \in Happened[e.sock] :
                    k = "error" \/ (k = "in" /\ e.in) \/ (k = "out" /\ e.out)}
                       new == [i \in DOMAIN pfds |-> [pfds[i] EXCEPT !.revents = Told(pfds[i])]]
            <3>1. ASSUME NEW i \in DOMAIN pfds PROVE new[i] \in PollEntries
                  <4>1. pfds[i] \in PollEntries
                        BY <1>1
                  <4>2. Told(pfds[i]) \in Revents
                        <5>1. pfds[i].sock \in Sockets
                              BY <4>1 DEF PollEntries
                        <5> QED BY <5>1 DEF Revents
                  <4> HIDE DEF Told
                  <4> QED BY <4>1, <4>2 DEF PollEntries
            <3>2. new \in Seq(PollEntries)
                  <4>1. DOMAIN pfds = 1 .. Len(pfds) /\ Len(pfds) \in Nat
                        BY <1>1
                  <4> HIDE DEF Told
                  <4> QED BY <3>1, <4>1
            <3>3. pfds' = new
                  BY <1>14 DEF ReturnFromPoll
            <3> QED BY <3>2, <3>3
      <2>2. pc' \in [Threads -> Labels] /\ pipe' \in [Threads -> {"none", "empty", "full"}]
            BY <1>1, <1>2, <1>3, <1>4, <1>14 DEF ReturnFromPoll
      <2> QED BY <1>1, <1>14, <2>1, <2>2 DEF ReturnFromPoll
<1>15. CASE SkipRemoved
      BY <1>1, <1>15 DEF SkipRemoved
<1>16. CASE SweepRemoved
      <2>1. jobs' \in Seq(Entries)
            BY <1>1, <1>16, LiveType DEF SweepRemoved
      <2>2. pfds' \in Seq(PollEntries)
            <3>1. ASSUME NEW i \in DOMAIN pfds
                  PROVE  [pfds[i] EXCEPT !.revents = {}] \in PollEntries
                  <4>1. pfds[i] \in PollEntries /\ {} \in Revents
                        BY <1>1 DEF Revents
                  <4> QED BY <4>1 DEF PollEntries
            <3>2. DOMAIN pfds = 1 .. Len(pfds) /\ Len(pfds) \in Nat
                  BY <1>1
            <3> QED BY <1>16, <3>1, <3>2 DEF SweepRemoved
      <2>3. pc' \in [Threads -> Labels]
            BY <1>2, <1>3, <1>4, <1>16 DEF SweepRemoved
      <2> QED BY <1>1, <1>16, <2>1, <2>2, <2>3 DEF SweepRemoved
<1> QED BY <1>5, <1>6, <1>7, <1>8, <1>9, <1>10, <1>11, <1>12, <1>13, <1>14, <1>15, <1>16

\* The numbers among a socket's members, and what the kernel has for it.
LEMMA SocketTypes ==
    ASSUME TypeOK, NEW s \in Sockets
    PROVE  /\ sock[s] \in Members /\ net[s] \in Kernel /\ told[s] \in SUBSET Events
           /\ sock[s].inp \in 0 .. (MaxIn + 1) /\ sock[s].out \in 0 .. MaxOut
           /\ sock[s].connected \in BOOLEAN /\ sock[s].paused \in BOOLEAN
           /\ sock[s].readable \in BOOLEAN /\ sock[s].writable \in BOOLEAN
           /\ sock[s].open \in BOOLEAN
           /\ net[s].in \in 0 .. (MaxIn + 1) /\ MaxOut \in Nat /\ MaxIn = 2
<1>1. sock[s] \in Members /\ net[s] \in Kernel /\ told[s] \in SUBSET Events
      BY DEF TypeOK
<1>2. MaxOut \in Nat /\ MaxIn = 2
      BY SocketAssumption DEF MaxIn
<1> QED BY <1>1, <1>2 DEF Members, Kernel

\* A thread that hands a job over.
LEMMA SetJobType ==
    ASSUME TypeOK, NEW u \in Users, NEW s \in Sockets, NEW job \in Job \cup {None},
           NEW then \in {"idle", "shut", "relisten"}, SetJob(u, s, job, then)
    PROVE  call' \in [Users -> Entries] /\ pc' \in [Threads -> Labels]
<1>1. call \in [Users -> Entries] /\ pc \in [Threads -> Labels] /\ "lockLock" \in Labels
      BY DEF TypeOK, Labels
<1>2. [sock |-> s, job |-> job, then |-> then] \in Entries
      BY CallType
<1> QED BY <1>1, <1>2 DEF SetJob, Goto, Threads

\* The steps of a user's thread.
LEMMA UserStepType ==
    ASSUME TypeOK, ListenInv, NEW u \in Users, NEW s \in Sockets,
           \/ Connect(u, s) \/ MakeJob(u) \/ Write(u, s) \/ Read(u, s) \/ Close(u, s)
           \/ FinishClose(u) \/ Bind(u, s) \/ AcceptFails(u, s) \/ SetListeningJob(u, s)
           \/ \E d \in Sockets : Accept(u, s, d)
    PROVE  TypeOK'
<1>1. /\ pc \in [Threads -> Labels] /\ call \in [Users -> Entries]
      /\ sock \in [Sockets -> Members] /\ told \in [Sockets -> SUBSET Events]
      /\ net \in [Sockets -> Kernel] /\ calls \in 0 .. MaxCalls
      /\ sessions \in 0 .. MaxSessions /\ MaxCalls \in Nat /\ MaxSessions \in Nat
      BY SocketAssumption DEF TypeOK
<1>2. u \in Threads /\ call[u] \in Entries
      BY <1>1 DEF Threads
<1>3. call[u].sock \in Sockets /\ call[u].then \in {"idle", "shut", "relisten"}
      BY <1>2, EntryType
<1>4. UNCHANGED MuxRest
      BY DEF Connect, MakeJob, Write, Read, Close, FinishClose, Bind, AcceptFails,
             SetListeningJob, Accept
<1> SUFFICES /\ pc' \in [Threads -> Labels] /\ call' \in [Users -> Entries]
             /\ sock' \in [Sockets -> Members] /\ told' \in [Sockets -> SUBSET Events]
             /\ net' \in [Sockets -> Kernel] /\ calls' \in 0 .. MaxCalls
             /\ sessions' \in 0 .. MaxSessions
    BY <1>4 DEF TypeOK, MuxRest
<1> DEFINE Goal ==
             /\ pc' \in [Threads -> Labels] /\ call' \in [Users -> Entries]
             /\ sock' \in [Sockets -> Members] /\ told' \in [Sockets -> SUBSET Events]
             /\ net' \in [Sockets -> Kernel] /\ calls' \in 0 .. MaxCalls
             /\ sessions' \in 0 .. MaxSessions
<1>5. ASSUME NEW label \in {"idle", "makeJob", "shut"}, Goto(u, label)
      PROVE  pc' \in [Threads -> Labels]
      BY <1>1, <1>2, <1>5 DEF Goto, Labels
<1>6. [call[u] EXCEPT !.sock = s, !.then = "idle"] \in Entries
      BY <1>2 DEF Entries
<1>7. CASE Connect(u, s)
      <2>1. call' \in [Users -> Entries] /\ pc' \in [Threads -> Labels]
            BY <1>1, <1>5, <1>6, <1>7 DEF Connect
      <2>2. PICK p \in {"dialing", "open"} :
                /\ net' = [net EXCEPT ![s].peer = p]
                /\ sock' = [sock EXCEPT ![s] =
                       IF p = "open"
                       THEN Connected([Fresh EXCEPT !.open = TRUE, !.writable = TRUE])
                       ELSE [Fresh EXCEPT !.open = TRUE, !.writable = TRUE]]
            BY <1>7 DEF Connect
      <2>3. sock' \in [Sockets -> Members]
            BY <1>1, <2>2, MembersType
      <2>4. [net[s] EXCEPT !.peer = p] \in Kernel
            BY <1>1 DEF Kernel
      <2>5. net' \in [Sockets -> Kernel]
            BY <1>1, <2>2, <2>4
      <2>6. sessions' \in 0 .. MaxSessions /\ UNCHANGED <<told, calls>>
            BY <1>1, <1>7 DEF Connect
      <2> QED BY <1>1, <2>1, <2>3, <2>5, <2>6
<1>8. CASE MakeJob(u)
      <2>1. NewJob(sock[call[u].sock]) \in Job \cup {None}
            BY <1>1, <1>3, NewJobType
      <2>2. call' \in [Users -> Entries] /\ pc' \in [Threads -> Labels]
            BY <1>3, <1>8, <2>1, SetJobType DEF MakeJob
      <2> QED BY <1>1, <1>8, <2>2 DEF MakeJob, sockVars
<1>9. CASE Write(u, s)
      <2>1. [sock[s] EXCEPT !.out = sock[s].out + 1] \in Members
            BY <1>9, SocketTypes DEF Write, Members
      <2>2. sock' \in [Sockets -> Members]
            BY <1>1, <1>9, <2>1 DEF Write
      <2>3. call' \in [Users -> Entries] /\ pc' \in [Threads -> Labels]
            BY <1>1, <1>5, <1>6, <1>9 DEF Write
      <2>4. calls' \in 0 .. MaxCalls
            BY <1>1, <1>9 DEF Write
      <2> QED BY <1>1, <1>9, <2>2, <2>3, <2>4 DEF Write
<1>10. CASE Read(u, s)
      <2>1. PICK n \in 0 .. sock[s].inp :
               LET left == sock[s].inp - n
                   ended == n > 0 /\ left = 0 /\ ~sock[s].readable /\ ~sock[s].writable
                   resume == sock[s].paused /\ 2 * left < MaxIn
                   m == [sock[s] EXCEPT !.inp = left,
                                        !.connected = sock[s].connected /\ ~ended,
                                        !.paused = sock[s].paused /\ ~resume]
               IN /\ sock' = [sock EXCEPT ![s] = m]
                  /\ told' = [told EXCEPT ![s] =
                               (IF left = 0 THEN told[s] \ {"input"} ELSE told[s])
                               \cup (IF ended THEN {"disconnected"} ELSE {})]
                  /\ IF resume /\ NewJob(m) # None
                     THEN SetJob(u, s, NewJob(m), "idle")
                     ELSE UNCHANGED <<pc, call>>
            BY <1>10 DEF Read
      <2> DEFINE left == sock[s].inp - n
                 ended == n > 0 /\ left = 0 /\ ~sock[s].readable /\ ~sock[s].writable
                 resume == sock[s].paused /\ 2 * left < MaxIn
                 m == [sock[s] EXCEPT !.inp = left,
                                      !.connected = sock[s].connected /\ ~ended,
                                      !.paused = sock[s].paused /\ ~resume]
      <2>2. left \in 0 .. (MaxIn + 1)
            BY SocketTypes
      <2>3. m \in Members
            <3> HIDE DEF left, resume, ended
            <3> QED BY <2>2, SocketTypes DEF Members
      <2>4. sock' \in [Sockets -> Members]
            BY <1>1, <2>1, <2>3
      <2>5. told' \in [Sockets -> SUBSET Events]
            BY <1>1, <2>1 DEF Events
      <2>6. NewJob(m) \in Job \cup {None}
            BY <2>3, NewJobType
      <2>7. call' \in [Users -> Entries] /\ pc' \in [Threads -> Labels]
            <3>1. SetJob(u, s, NewJob(m), "idle") \/ UNCHANGED <<pc, call>>
                  BY <2>1
            <3> HIDE DEF m
            <3> QED BY <1>1, <2>6, <3>1, SetJobType
      <2> QED BY <1>1, <1>10, <2>4, <2>5, <2>7 DEF Read
<1>11. CASE Close(u, s)
      <2>1. call' \in [Users -> Entries] /\ pc' \in [Threads -> Labels]
            BY <1>11, SetJobType DEF Close
      <2> QED BY <1>1, <1>11, <2>1 DEF Close, sockVars
<1>12. CASE FinishClose(u)
      <2>1. [call[u] EXCEPT !.then = "idle"] \in Entries
            BY <1>2 DEF Entries
      <2>2. call' \in [Users -> Entries] /\ pc' \in [Threads -> Labels]
            BY <1>1, <1>5, <1>12, <2>1 DEF FinishClose
      <2>3. [in |-> 0, peer |-> "none"] \in Kernel /\ {} \in SUBSET Events
            BY DEF Kernel, MaxIn
      <2> QED BY <1>1, <1>3, <1>12, <2>2, <2>3, MembersType DEF FinishClose
<1>13. CASE Bind(u, s)
      <2>1. call' \in [Users -> Entries] /\ pc' \in [Threads -> Labels]
            BY <1>13, SetJobType, ListeningType DEF Bind
      <2>2. [net[s] EXCEPT !.peer = "open"] \in Kernel
            BY <1>1 DEF Kernel
      <2> QED BY <1>1, <1>13, <2>1, <2>2 DEF Bind
<1>14. CASE AcceptFails(u, s)
      <2>1. [sock[s] EXCEPT !.paused = TRUE] \in Members
            BY <1>1 DEF Members
      <2>2. told[s] \ {"connecting"} \in SUBSET Events
            BY <1>1
      <2> QED BY <1>1, <1>14, <2>1, <2>2 DEF AcceptFails
<1>15. CASE SetListeningJob(u, s)
      <2>1. call' \in [Users -> Entries] /\ pc' \in [Threads -> Labels]
            BY <1>15, SetJobType, ListeningType DEF SetListeningJob
      <2> QED BY <1>1, <1>15, <2>1 DEF SetListeningJob, sockVars
<1>16. ASSUME NEW d \in Sockets, Accept(u, s, d) PROVE Goal
      <2> DEFINE m == Connected([Fresh EXCEPT !.open = TRUE])
      <2>1. m \in Members
            BY MembersType
      <2> HIDE DEF m
      <2>2. call' \in [Users -> Entries] /\ pc' \in [Threads -> Labels]
            <3>1. NewJob(m) \in Job \cup {None} /\ SetJob(u, d, NewJob(m), "relisten")
                  BY <1>16, <2>1, NewJobType DEF Accept, m
            <3> QED BY <3>1, SetJobType
      <2>3. net[s].in >= 1 /\ net[s].in - 1 \in 0 .. (MaxIn + 1)
            <3>1. net[s].in >= 1
                  BY <1>16 DEF Accept, ListenInv, ListenOf
            <3> QED BY <3>1, SocketTypes
      <2>4. [net[s] EXCEPT !.in = net[s].in - 1] \in Kernel
            BY <1>1, <2>3 DEF Kernel
      <2>5. [in |-> 0, peer |-> "open"] \in Kernel
            BY DEF Kernel, MaxIn
      <2>6. net' \in [Sockets -> Kernel]
            <3>1. net' = [net EXCEPT ![s].in = net[s].in - 1, ![d] = [in |-> 0, peer |-> "open"]]
                  BY <1>16 DEF Accept
            <3> QED BY <1>1, <2>4, <2>5, <3>1
      <2>7. sock' \in [Sockets -> Members]
            BY <1>1, <1>16, <2>1 DEF Accept, m
      <2>8. told' \in [Sockets -> SUBSET Events]
            BY <1>1, <1>16 DEF Accept
      <2> QED BY <1>1, <1>16, <2>2, <2>6, <2>7, <2>8 DEF Accept
<1> QED BY <1>7, <1>8, <1>9, <1>10, <1>11, <1>12, <1>13, <1>14, <1>15, <1>16

-----------------------------------------------------------------------------
(* What the multiplexer's thread does to a socket that it services.        *)

\* The members of a socket whose connection a "connected" job may be about.
Alive(m) == m.connected \/ ~m.writable

Lost(m) == ~m.connected /\ ~m.writable

Emptied(m) == ~m.writable => m.out = 0

\* From members m to members n with events e: a loss is told, and what held holds.
Proper(m, n, e) ==
    /\ n \in Members /\ e \in SUBSET Events
    /\ n.open = m.open
    /\ Emptied(m) => Emptied(n)
    /\ Alive(m) => Alive(n)
    /\ Alive(m) /\ Lost(n) => Lost(m) \/ e \cap {"disconnected", "failed"} # {}

\* Nothing happens.
LEMMA NothingProper == \A m \in Members : Proper(m, m, {})
BY DEF Proper

\* One after the other.
LEMMA ProperChain ==
    ASSUME NEW m \in Members, NEW n, NEW o, NEW e, NEW f,
           Proper(m, n, e), Proper(n, o, f)
    PROVE  Proper(m, o, e \cup f)
BY DEF Proper

\* onDisconnected with an event.
LEMMA EndProper ==
    ASSUME NEW m \in Members, NEW e \in {"disconnected", "failed"}
    PROVE  Proper(m, Disconnected(m), {e})
<1> DEFINE o == OutputShutdown(m)
<1>1. o \in Members /\ o.open = m.open /\ ~o.writable /\ o.out = 0
      BY MembersType DEF OutputShutdown, Members
<1> HIDE DEF o
<1>2. Disconnected(m) = [o EXCEPT !.connected = FALSE, !.readable = FALSE, !.inp = 0]
      BY DEF Disconnected, o
<1>3. /\ Disconnected(m) \in Members /\ Disconnected(m).open = m.open
      /\ ~Disconnected(m).writable /\ Disconnected(m).out = 0
      BY <1>1, <1>2, MembersType DEF Members
<1>4. {e} \in SUBSET Events /\ {e} \cap {"disconnected", "failed"} # {}
      BY DEF Events
<1> QED BY <1>3, <1>4 DEF Proper, Emptied, Alive, Lost

\* doWrite.
LEMMA WriteProper ==
    ASSUME TypeOK, NEW s \in Sockets, NEW m \in Members, NEW w \in WriteOutcomes(s, m)
    PROVE  Proper(m, w.m, w.events) /\ w.new \in BOOLEAN
<1>1. /\ m.out \in 0 .. MaxOut /\ MaxOut \in Nat
      /\ m.connected \in BOOLEAN /\ m.readable \in BOOLEAN /\ m.writable \in BOOLEAN
      BY SocketAssumption DEF Members
<1> DEFINE ended == ~m.readable /\ m.inp = 0
           some(left) == [m |-> [m EXCEPT !.out = left], events |-> {}, new |-> TRUE]
           shut == [m |-> [OutputShutdown(m) EXCEPT !.connected = @ /\ ~ended],
                    events |-> IF ended THEN {"disconnected"} ELSE {}, new |-> TRUE]
           lost == [m |-> Disconnected(m), events |-> {"disconnected"}, new |-> TRUE]
           Goal == Proper(m, w.m, w.events) /\ w.new \in BOOLEAN
<1>2. ASSUME w = Nothing(m) PROVE Goal
      BY <1>2, NothingProper DEF Nothing
<1>3. ASSUME NEW left \in 0 .. (m.out - 1), w = some(left), m.out # 0 PROVE Goal
      <2>1. left \in 0 .. MaxOut
            BY <1>1, <1>3
      <2>2. /\ w.m = [m EXCEPT !.out = left] /\ w.events = {} /\ w.new = TRUE
            BY <1>3
      <2>3. w.m \in Members /\ w.m.open = m.open /\ w.m.connected = m.connected
            /\ w.m.writable = m.writable
            BY <2>1, <2>2 DEF Members
      <2> QED BY <1>3, <2>2, <2>3 DEF Proper, Emptied, Alive, Lost
<1>4. ASSUME w = shut PROVE Goal
      <2> DEFINE o == OutputShutdown(m)
      <2>1. /\ o \in Members /\ o.open = m.open /\ ~o.writable /\ o.out = 0
            /\ o.connected = m.connected
            BY MembersType DEF OutputShutdown, Members
      <2> HIDE DEF o, ended
      <2>2. w.m = [o EXCEPT !.connected = @ /\ ~ended]
            /\ w.events = (IF ended THEN {"disconnected"} ELSE {}) /\ w.new = TRUE
            BY <1>4 DEF o
      <2>3. w.m \in Members /\ w.m.open = m.open /\ ~w.m.writable /\ w.m.out = 0
            /\ w.m.connected = (m.connected /\ ~ended)
            BY <1>1, <2>1, <2>2 DEF Members
      <2>4. w.events \in SUBSET Events /\ (ended => w.events \cap {"disconnected", "failed"} # {})
            BY <2>2 DEF Events
      <2> QED BY <1>1, <2>2, <2>3, <2>4 DEF Proper, Emptied, Alive, Lost
<1>5. ASSUME w = lost PROVE Goal
      <2>1. w.m = Disconnected(m) /\ w.events = {"disconnected"} /\ w.new = TRUE
            BY <1>5
      <2> QED BY <2>1, EndProper
<1>6. \/ w = Nothing(m)
      \/ m.out # 0 /\ \E left \in 0 .. (m.out - 1) : w = some(left)
      \/ w = shut \/ w = lost
      <2>1. CASE "out" \notin Revented \/ m.out = 0
            BY <2>1 DEF WriteOutcomes
      <2>2. CASE "out" \in Revented /\ m.out # 0
            <3>1. WriteOutcomes(s, m) =
                      {some(left) : left \in IF Broken(s) THEN {} ELSE 0 .. (m.out - 1)}
                      \cup FailedWrites(s, m)
                  BY <2>2 DEF WriteOutcomes
            <3>2. FailedWrites(s, m) \in {{shut}, {shut, lost}, {}}
                  BY DEF FailedWrites
            <3> HIDE DEF some, shut, lost
            <3> QED BY <2>2, <3>1, <3>2
      <2> QED BY <2>1, <2>2
<1> HIDE DEF some, shut, lost, Goal
<1>7. Goal
      BY <1>2, <1>3, <1>4, <1>5, <1>6
<1> QED BY <1>7 DEF Goal

\* doRead.
LEMMA ReadProper ==
    ASSUME TypeOK, NEW s \in Sockets, NEW m \in Members, NEW r \in ReadOutcomes(s, m)
    PROVE  /\ Proper(m, r.m, r.events) /\ r.new \in BOOLEAN
           /\ [in |-> net[s].in - r.taken, peer |-> r.peer] \in Kernel
<1>1. /\ m.inp \in 0 .. (MaxIn + 1) /\ MaxIn = 2 /\ m.connected \in BOOLEAN
      /\ m.readable \in BOOLEAN /\ m.writable \in BOOLEAN /\ m.paused \in BOOLEAN
      /\ net[s].in \in 0 .. (MaxIn + 1) /\ net[s] \in Kernel
      BY SocketTypes DEF Members
<1> DEFINE room == MaxIn + 1 - m.inp
           taken == IF net[s].in < room THEN net[s].in ELSE room
           ended == ~m.writable /\ m.inp = 0
           same == [m |-> m, events |-> {}, new |-> FALSE, taken |-> 0, peer |-> net[s].peer]
           lost == [m |-> Disconnected(m), events |-> {"disconnected"},
                    new |-> TRUE, taken |-> taken, peer |-> "reset"]
           ignored == [m |-> [m EXCEPT !.inp = @ + taken], events |-> {},
                       new |-> FALSE, taken |-> taken, peer |-> "hung"]
           some == [m |-> [m EXCEPT !.inp = @ + taken],
                    events |-> IF m.inp = 0 THEN {"input"} ELSE {},
                    new |-> FALSE, taken |-> taken, peer |-> net[s].peer]
           shut == [m |-> [m EXCEPT !.readable = FALSE, !.connected = @ /\ ~ended],
                    events |-> IF ended THEN {"disconnected"} ELSE {},
                    new |-> TRUE, taken |-> 0, peer |-> net[s].peer]
           Goal == /\ Proper(m, r.m, r.events) /\ r.new \in BOOLEAN
                   /\ [in |-> net[s].in - r.taken, peer |-> r.peer] \in Kernel
<1>2. r \in {same, lost, ignored, some, shut}
      <2>1. ReadOutcomes(s, m) \in {{same}, {lost, ignored}, {some}, {shut}}
            BY DEF ReadOutcomes
      <2> HIDE DEF same, lost, ignored, some, shut
      <2> QED BY <2>1
<1>3. taken \in 0 .. net[s].in /\ m.inp + taken \in 0 .. (MaxIn + 1)
      <2>1. CASE net[s].in < room
            BY <1>1, <2>1
      <2>2. CASE ~(net[s].in < room)
            BY <1>1, <2>2
      <2> QED BY <2>1, <2>2
<1> HIDE DEF taken
<1>4. \A n \in 0 .. net[s].in, p \in {net[s].peer, "hung", "reset"} :
         [in |-> net[s].in - n, peer |-> p] \in Kernel
      <2>1. /\ net[s].peer \in {k.peer : k \in Kernel} /\ \A n \in 0 .. net[s].in :
               net[s].in - n \in 0 .. (MaxIn + 1)
            BY <1>1
      <2> QED BY <1>1, <2>1 DEF Kernel
<1>5. ASSUME r \in {ignored, some} PROVE Goal
      <2>1. /\ r.m = [m EXCEPT !.inp = m.inp + taken] /\ r.taken = taken /\ r.new = FALSE
            /\ r.peer \in {net[s].peer, "hung", "reset"} /\ r.events \in SUBSET Events
            BY <1>5 DEF Events
      <2>2. /\ r.m \in Members /\ r.m.open = m.open /\ r.m.connected = m.connected
            /\ r.m.writable = m.writable /\ r.m.out = m.out
            BY <1>3, <2>1 DEF Members
      <2> HIDE DEF ignored, some
      <2>3. [in |-> net[s].in - r.taken, peer |-> r.peer] \in Kernel
            BY <1>3, <1>4, <2>1
      <2> QED BY <2>1, <2>2, <2>3 DEF Proper, Emptied, Alive, Lost
<1>6. ended => ~m.writable
      OBVIOUS
<1>7. ASSUME r = shut PROVE Goal
      <2>1. /\ r.m = [m EXCEPT !.readable = FALSE, !.connected = m.connected /\ ~ended]
            /\ r.events = (IF ended THEN {"disconnected"} ELSE {}) /\ r.new = TRUE
            /\ r.taken = 0 /\ r.peer = net[s].peer
            BY <1>7
      <2> HIDE DEF shut, ended
      <2>2. /\ r.m \in Members /\ r.m.open = m.open /\ r.m.writable = m.writable
            /\ r.m.connected = (m.connected /\ ~ended) /\ r.m.out = m.out
            BY <1>1, <2>1 DEF Members
      <2>3. r.events \in SUBSET Events /\ (ended => r.events \cap {"disconnected", "failed"} # {})
            BY <2>1 DEF Events
      <2>4. [in |-> net[s].in - r.taken, peer |-> r.peer] \in Kernel
            <3>1. [in |-> net[s].in - 0, peer |-> net[s].peer] \in Kernel
                  <4>1. 0 \in 0 .. net[s].in
                        BY <1>1
                  <4> QED BY <1>4, <4>1, Zenon
            <3> QED BY <2>1, <3>1
      <2>5. r.new \in BOOLEAN
            BY <2>1
      <2>6. Proper(m, r.m, r.events)
            <3>1. /\ Emptied(m) => Emptied(r.m)
                  /\ Alive(m) => Alive(r.m)
                  BY <1>1, <1>6, <2>2 DEF Emptied, Alive
            <3>2. Lost(r.m) => Lost(m) \/ ended
                  BY <2>2 DEF Lost
            <3> QED BY <2>2, <2>3, <3>1, <3>2 DEF Proper
      <2> QED BY <2>4, <2>5, <2>6
<1>8. ASSUME r = lost PROVE Goal
      <2>1. /\ r.m = Disconnected(m) /\ r.events = {"disconnected"} /\ r.new = TRUE
            /\ r.taken = taken /\ r.peer = "reset"
            BY <1>8
      <2> HIDE DEF lost
      <2>2. [in |-> net[s].in - r.taken, peer |-> r.peer] \in Kernel
            BY <1>3, <1>4, <2>1
      <2> QED BY <2>1, <2>2, EndProper
<1>9. ASSUME r = same PROVE Goal
      <2>1. /\ r.m = m /\ r.events = {} /\ r.new = FALSE
            /\ r.taken = 0 /\ r.peer = net[s].peer
            BY <1>9
      <2> HIDE DEF same
      <2>2. [in |-> net[s].in - r.taken, peer |-> r.peer] \in Kernel
            <3>1. [in |-> net[s].in - 0, peer |-> net[s].peer] \in Kernel
                  <4>1. 0 \in 0 .. net[s].in
                        BY <1>1
                  <4> QED BY <1>4, <4>1, Zenon
            <3> QED BY <2>1, <3>1
      <2> QED BY <2>1, <2>2, NothingProper
<1> HIDE DEF same, lost, ignored, some, shut, Goal
<1>10. Goal
      BY <1>2, <1>5, <1>7, <1>8, <1>9
<1> QED BY <1>10 DEF Goal

\* onConnected.
LEMMA ConnectedProper == \A m \in Members : Proper(m, Connected(m), {})
<1> SUFFICES ASSUME NEW m \in Members PROVE Proper(m, Connected(m), {})
    OBVIOUS
<1>1. /\ Connected(m) \in Members /\ Connected(m).open = m.open
      /\ Connected(m).writable /\ Connected(m).connected
      BY MembersType DEF Connected, Members
<1> QED BY <1>1 DEF Proper, Emptied, Alive, Lost

\* A new job says that the socket is connected only when it is.
LEMMA NewJobAlive ==
    ASSUME NEW m \in Members, NewJob(m) # None, NewJob(m).serve = "connected"
    PROVE  Alive(m)
BY DEF NewJob, Alive

\* A data socket s gets members m, events e and the job that is run next time.
Serves(s, m, e, job) ==
    /\ sock' = [sock EXCEPT ![s] = m]
    /\ told' = [told EXCEPT ![s] = @ \cup e]
    /\ \/ net' = net
       \/ \E k \in Kernel : net' = [net EXCEPT ![s] = k]
    /\ RunJob(job)
    /\ UNCHANGED <<calls, sessions>>

\* serviceConnecting and serviceConnected service a data socket properly.
LEMMA ServiceData ==
    ASSUME TypeOK, FitInv, ServiceConnecting \/ ServiceConnected
    PROVE  /\ Current \in Data
           /\ \E m, e, job :
                 /\ Serves(Current, m, e, job)
                 /\ Proper(sock[Current], m, e)
                 /\ job \in Job \cup {None}
                 /\ job # None /\ job.serve = "connected" => Alive(m)
                 /\ Lost(m) => Lost(sock[Current]) \/ e \cap {"disconnected", "failed"} # {}
<1> DEFINE s == Current
<1>1. /\ at \in 1 .. Len(jobs) /\ at \in DOMAIN jobs /\ jobs[at] \in Entries
      /\ HasJob(jobs[at]) /\ jobs[at].job.serve \in {"connecting", "connected"}
      BY DEF ServiceConnecting, ServiceConnected, InPass, TypeOK, HasJob
<1>2. s \in Data /\ s \in Sockets /\ jobs[at].job \in Job
      <2>1. jobs[at].sock \notin Listeners
            BY <1>1 DEF FitInv, JobsFitted, JobFits, Listening
      <2> QED BY <1>1, <2>1, EntryType DEF Current, Data, HasJob
<1>3. jobs[at].job.serve = "connected" => Alive(sock[s])
      BY <1>1 DEF FitInv, JobsFitted, JobFits, Alive, Current
<1> HIDE DEF s
<1>4. sock[s] \in Members
      BY <1>2, SocketTypes
<1> DEFINE Goal == \E m, e, job :
                 /\ Serves(s, m, e, job)
                 /\ Proper(sock[s], m, e)
                 /\ job \in Job \cup {None}
                 /\ job # None /\ job.serve = "connected" => Alive(m)
                 /\ Lost(m) => Lost(sock[s]) \/ e \cap {"disconnected", "failed"} # {}
<1>5. ASSUME ServiceConnecting PROVE Goal
      <2> DEFINE refused == net[s].peer \in {"refused", "reset"}
                 m == IF refused THEN Disconnected(sock[s])
                      ELSE IF "out" \in Revented THEN Connected(sock[s]) ELSE sock[s]
                 e == IF refused THEN {"failed"} ELSE {}
                 job == IF m = sock[s] THEN jobs[at].job ELSE NewJob(m)
      <2>1. Serves(s, m, e, job)
            BY <1>5 DEF ServiceConnecting, Serves, Tell, s
      <2>2. Proper(sock[s], m, e)
            BY <1>4, EndProper, ConnectedProper, NothingProper
      <2>7. Lost(m) => Lost(sock[s]) \/ e \cap {"disconnected", "failed"} # {}
            <3>1. ~Lost(Connected(sock[s]))
                  BY <1>4 DEF Lost, Connected, Members
            <3> QED BY <3>1
      <2> HIDE DEF m, e
      <2>3. m \in Members
            BY <2>2 DEF Proper
      <2>4. job \in Job \cup {None}
            BY <1>2, <2>3, NewJobType
      <2>5. jobs[at].job.serve = "connecting"
            BY <1>5 DEF ServiceConnecting
      <2>6. job # None /\ job.serve = "connected" => Alive(m)
            BY <2>3, <2>5, NewJobAlive
      <2> HIDE DEF job
      <2> QED BY <2>1, <2>2, <2>4, <2>6, <2>7
<1>6. ASSUME ServiceConnected, "error" \in Revented PROVE Goal
      <2> DEFINE m == Disconnected(sock[s])
      <2>1. Serves(s, m, {"disconnected"}, NewJob(m))
            BY <1>6 DEF ServiceConnected, Serves, Tell, s
      <2>2. Proper(sock[s], m, {"disconnected"})
            BY <1>4, EndProper
      <2> HIDE DEF m
      <2>3. NewJob(m) \in Job \cup {None}
            BY <2>2, NewJobType DEF Proper
      <2>4. NewJob(m) # None /\ NewJob(m).serve = "connected" => Alive(m)
            BY <2>2, NewJobAlive DEF Proper
      <2> QED BY <2>1, <2>2, <2>3, <2>4
<1>7. ASSUME ServiceConnected, "error" \notin Revented PROVE Goal
      <2>1. PICK w \in WriteOutcomes(s, sock[s]) : \E r \in ReadOutcomes(s, w.m) :
               LET full == ~r.m.paused /\ r.m.inp >= MaxIn
                   m == [r.m EXCEPT !.paused = @ \/ full]
               IN /\ sock' = [sock EXCEPT ![s] = m]
                  /\ Tell(s, w.events \cup r.events)
                  /\ net' = [net EXCEPT ![s] = [in |-> @.in - r.taken, peer |-> r.peer]]
                  /\ RunJob(IF full \/ w.new \/ r.new THEN NewJob(m) ELSE jobs[at].job)
            BY <1>7 DEF ServiceConnected, s
      <2>12. PICK r \in ReadOutcomes(s, w.m) :
               LET full == ~r.m.paused /\ r.m.inp >= MaxIn
                   m == [r.m EXCEPT !.paused = @ \/ full]
               IN /\ sock' = [sock EXCEPT ![s] = m]
                  /\ Tell(s, w.events \cup r.events)
                  /\ net' = [net EXCEPT ![s] = [in |-> @.in - r.taken, peer |-> r.peer]]
                  /\ RunJob(IF full \/ w.new \/ r.new THEN NewJob(m) ELSE jobs[at].job)
            BY <2>1
      <2> DEFINE full == ~r.m.paused /\ r.m.inp >= MaxIn
                 m == [r.m EXCEPT !.paused = @ \/ full]
                 e == w.events \cup r.events
                 job == IF full \/ w.new \/ r.new THEN NewJob(m) ELSE jobs[at].job
      <2>2. Proper(sock[s], w.m, w.events)
            BY <1>2, <1>4, WriteProper
      <2>3. w.m \in Members
            BY <2>2 DEF Proper
      <2>4. /\ Proper(w.m, r.m, r.events)
            /\ [in |-> net[s].in - r.taken, peer |-> r.peer] \in Kernel
            BY <1>2, <2>3, ReadProper
      <2>5. Serves(s, m, e, job)
            <3>1. calls' = calls /\ sessions' = sessions
                  BY <1>7 DEF ServiceConnected
            <3>2. net' = [net EXCEPT ![s] = [in |-> net[s].in - r.taken, peer |-> r.peer]]
                  BY <1>2, <2>12 DEF TypeOK
            <3> QED BY <2>4, <2>12, <3>1, <3>2 DEF Serves, Tell
      <2>6. Proper(sock[s], r.m, e)
            BY <1>4, <2>2, <2>4, ProperChain
      <2> HIDE DEF e
      <2>7. Proper(sock[s], m, e)
            <3>1. /\ m \in Members /\ m.open = r.m.open /\ m.connected = r.m.connected
                  /\ m.writable = r.m.writable /\ m.out = r.m.out
                  BY <2>6 DEF Proper, Members
            <3> QED BY <2>6, <3>1 DEF Proper, Emptied, Alive, Lost
      <2>8. m \in Members
            BY <2>7 DEF Proper
      <2> HIDE DEF m, full
      <2>9. job \in Job \cup {None}
            BY <1>2, <2>8, NewJobType
      <2>10. Alive(sock[s]) /\ Alive(m)
            <3>1. jobs[at].job.serve = "connected"
                  BY <1>7 DEF ServiceConnected
            <3> QED BY <1>3, <2>7, <3>1 DEF Proper
      <2> HIDE DEF job
      <2>11. Lost(m) => Lost(sock[s]) \/ e \cap {"disconnected", "failed"} # {}
            BY <2>7, <2>10 DEF Proper
      <2> QED BY <2>5, <2>7, <2>9, <2>10, <2>11
<1> QED BY <1>2, <1>5, <1>6, <1>7 DEF s

\* serviceListening, for data sockets too: they never have such a job.
LEMMA ServiceListeningType ==
    ASSUME TypeOK, ServiceListening
    PROVE  TypeOK'
<1>1. /\ at \in 1 .. Len(jobs) /\ jobs[at] \in Entries /\ jobs \in Seq(Entries)
      BY DEF ServiceListening, InPass, TypeOK
<1>2. Current \in Sockets /\ jobs[at].job \in Job \cup {None}
      BY <1>1, EntryType DEF Current
<1>3. PICK job \in Job \cup {None} : RunJob(job)
      BY <1>2 DEF ServiceListening
<1>4. jobs' \in Seq(Entries)
      <2>1. [jobs[at] EXCEPT !.job = job] \in Entries
            BY <1>1 DEF Entries
      <2>2. jobs' = [jobs EXCEPT ![at] = [jobs[at] EXCEPT !.job = job]]
            BY <1>3 DEF RunJob
      <2> QED BY <1>1, <2>1, <2>2
<1>5. told' \in [Sockets -> SUBSET Events]
      <2>1. {"connecting"} \in SUBSET Events
            BY DEF Events
      <2>2. told' = [told EXCEPT ![Current] = @ \cup {"connecting"}] \/ told' = told
            BY DEF ServiceListening, Tell
      <2>3. told \in [Sockets -> SUBSET Events]
            BY DEF TypeOK
      <2> QED BY <1>2, <2>1, <2>2, <2>3
<1> QED BY <1>3, <1>4, <1>5 DEF ServiceListening, RunJob, TypeOK

\* A service of a data socket.
LEMMA ServiceDataType ==
    ASSUME TypeOK, FitInv, ServiceConnecting \/ ServiceConnected
    PROVE  TypeOK'
<1> DEFINE s == Current
<1>1. PICK m, e, job : /\ Serves(s, m, e, job)
                       /\ Proper(sock[s], m, e)
                       /\ job \in Job \cup {None}
      BY ServiceData
<1>2. s \in Sockets /\ m \in Members /\ e \in SUBSET Events
      BY <1>1, ServiceData DEF Proper, Data
<1>3. /\ at \in 1 .. Len(jobs) /\ jobs[at] \in Entries /\ jobs \in Seq(Entries)
      BY DEF ServiceConnecting, ServiceConnected, InPass, TypeOK
<1>4. jobs' \in Seq(Entries)
      <2>1. [jobs[at] EXCEPT !.job = job] \in Entries
            BY <1>1, <1>3 DEF Entries
      <2>2. jobs' = [jobs EXCEPT ![at] = [jobs[at] EXCEPT !.job = job]]
            BY <1>1 DEF RunJob, Serves
      <2> QED BY <1>3, <2>1, <2>2
<1> HIDE DEF s
<1>5. net' \in [Sockets -> Kernel]
      BY <1>1, <1>2 DEF Serves, TypeOK
<1>6. sock' \in [Sockets -> Members] /\ told' \in [Sockets -> SUBSET Events]
      BY <1>1, <1>2 DEF Serves, TypeOK
<1> QED BY <1>1, <1>4, <1>5, <1>6 DEF Serves, RunJob, TypeOK

\* The peers' steps.
LEMMA PeerStepType ==
    ASSUME TypeOK, NEW s \in Sockets, Peer(s)
    PROVE  TypeOK'
<1>1. net \in [Sockets -> Kernel] /\ net[s] \in Kernel
      BY DEF TypeOK
<1>2. \A p \in {"open", "refused", "hung", "reset"} : [net[s] EXCEPT !.peer = p] \in Kernel
      BY <1>1 DEF Kernel
<1>3. \A n \in 0 .. (MaxIn + 1) : [net[s] EXCEPT !.in = n] \in Kernel
      BY <1>1 DEF Kernel
<1>4. net' \in [Sockets -> Kernel]
      <2>1. CASE Answer(s)
            BY <1>1, <1>2, <2>1 DEF Answer
      <2>2. CASE HangUp(s)
            BY <1>1, <1>2, <2>2 DEF HangUp
      <2>3. CASE Arrive(s)
            <3>1. {1, MaxIn + 1, 2} \subseteq 0 .. (MaxIn + 1)
                  BY DEF MaxIn
            <3>2. PICK n \in {1, MaxIn + 1, 2} : net' = [net EXCEPT ![s].in = n]
                  BY <2>3 DEF Arrive
            <3> QED BY <1>1, <1>3, <3>1, <3>2
      <2> QED BY <2>1, <2>2, <2>3 DEF Peer
<1>5. calls' \in 0 .. MaxCalls /\ sessions' \in 0 .. MaxSessions
      BY SocketAssumption DEF Peer, Answer, Arrive, HangUp, TypeOK
<1> QED BY <1>4, <1>5 DEF Peer, Answer, Arrive, HangUp, TypeOK, muxVars

\* Every step keeps the types.
LEMMA SocketTypeStep ==
    ASSUME TypeOK, FitInv, ListenInv, [Next]_vars
    PROVE  TypeOK'
<1>1. Sockets # {} /\ Mux \in Threads /\ \A u \in Users : u \in Threads
      BY MuxAssumption DEF Threads
<1>2. CASE Multiplex
      BY <1>1, <1>2, MuxStepType, ServiceDataType, ServiceListeningType DEF Multiplex
<1>3. ASSUME NEW u \in Users, User(u) PROVE TypeOK'
      <2>1. CASE MultiplexerCall(u)
            BY <1>1, <2>1, MuxStepType DEF MultiplexerCall
      <2>2. CASE ~MultiplexerCall(u)
            BY <1>1, <1>3, <2>2, UserStepType DEF User
      <2> QED BY <2>1, <2>2
<1>4. ASSUME NEW s \in Sockets, Peer(s) PROVE TypeOK'
      BY <1>4, PeerStepType
<1>5. CASE UNCHANGED vars
      BY <1>5 DEF vars, muxVars, TypeOK
<1> QED BY <1>2, <1>3, <1>4, <1>5 DEF Next

-----------------------------------------------------------------------------
(* Who is where, and who holds the list.                                   *)

\* A socket method of thread u.
SocketMethod(u) ==
    \/ MakeJob(u) \/ FinishClose(u)
    \/ \E s \in Sockets : \/ Connect(u, s) \/ Write(u, s) \/ Read(u, s) \/ Close(u, s)
                          \/ Bind(u, s) \/ AcceptFails(u, s) \/ SetListeningJob(u, s)
                          \/ \E d \in Sockets : Accept(u, s, d)

\* A service of a socket.
Service == ServiceConnecting \/ ServiceConnected \/ ServiceListening

\* It leaves the multiplexer and the other threads alone.
LEMMA MethodFrame ==
    ASSUME TypeOK, NEW u \in Users, SocketMethod(u)
    PROVE  /\ UNCHANGED MuxRest
           /\ pc[u] \in {"idle", "makeJob", "shut", "relisten"}
           /\ pc'[u] \in {"idle", "makeJob", "lockLock"}
           /\ \A t \in Threads \ {u} : pc'[t] = pc[t]
           /\ \A v \in Users \ {u} : call'[v] = call[v]
<1>1. /\ pc \in [Threads -> Labels] /\ call \in [Users -> Entries] /\ u \in Threads
      BY DEF TypeOK, Threads
<1>2. ASSUME NEW s \in Sockets, NEW job, NEW then, SetJob(u, s, job, then)
      PROVE  /\ pc'[u] = "lockLock"
             /\ \A t \in Threads \ {u} : pc'[t] = pc[t]
             /\ \A v \in Users \ {u} : call'[v] = call[v]
      BY <1>1, <1>2 DEF SetJob, Goto
<1>3. CASE MakeJob(u)
      <2>1. call[u].sock \in Sockets
            BY <1>1, EntryType
      <2> QED BY <1>2, <1>3, <2>1 DEF MakeJob
<1>4. CASE FinishClose(u)
      BY <1>1, <1>4 DEF FinishClose, Goto
<1>5. ASSUME NEW s \in Sockets, Connect(u, s) \/ Write(u, s)
      PROVE  /\ UNCHANGED MuxRest /\ pc[u] = "idle"
             /\ pc'[u] \in {"idle", "makeJob", "lockLock"}
             /\ \A t \in Threads \ {u} : pc'[t] = pc[t]
             /\ \A v \in Users \ {u} : call'[v] = call[v]
      BY <1>1, <1>5 DEF Connect, Write, Idle, Goto
<1>6. ASSUME NEW s \in Sockets, Read(u, s)
      PROVE  /\ UNCHANGED MuxRest /\ pc[u] = "idle"
             /\ pc'[u] \in {"idle", "makeJob", "lockLock"}
             /\ \A t \in Threads \ {u} : pc'[t] = pc[t]
             /\ \A v \in Users \ {u} : call'[v] = call[v]
      <2>1. (\E job : SetJob(u, s, job, "idle")) \/ UNCHANGED <<pc, call>>
            BY <1>6 DEF Read
      <2> QED BY <1>2, <1>6, <2>1 DEF Read, Idle
<1>7. ASSUME NEW s \in Sockets, Close(u, s) \/ Bind(u, s) \/ AcceptFails(u, s)
      PROVE  /\ UNCHANGED MuxRest /\ pc[u] = "idle"
             /\ pc'[u] \in {"idle", "makeJob", "lockLock"}
             /\ \A t \in Threads \ {u} : pc'[t] = pc[t]
             /\ \A v \in Users \ {u} : call'[v] = call[v]
      BY <1>2, <1>7 DEF Close, Bind, AcceptFails, Idle
<1>8. ASSUME NEW s \in Sockets, SetListeningJob(u, s)
      PROVE  /\ UNCHANGED MuxRest /\ pc[u] = "relisten"
             /\ pc'[u] \in {"idle", "makeJob", "lockLock"}
             /\ \A t \in Threads \ {u} : pc'[t] = pc[t]
             /\ \A v \in Users \ {u} : call'[v] = call[v]
      BY <1>2, <1>8 DEF SetListeningJob
<1>9. ASSUME NEW s \in Sockets, NEW d \in Sockets, Accept(u, s, d)
      PROVE  /\ UNCHANGED MuxRest /\ pc[u] = "idle"
             /\ pc'[u] \in {"idle", "makeJob", "lockLock"}
             /\ \A t \in Threads \ {u} : pc'[t] = pc[t]
             /\ \A v \in Users \ {u} : call'[v] = call[v]
      <2>1. \E job : SetJob(u, d, job, "relisten")
            BY <1>9 DEF Accept
      <2> QED BY <1>2, <1>9, <2>1 DEF Accept, Idle
<1> QED BY <1>3, <1>4, <1>5, <1>6, <1>7, <1>8, <1>9 DEF SocketMethod

\* A service runs one job and changes no thread.
LEMMA ServiceFrame ==
    ASSUME Service
    PROVE  /\ UNCHANGED <<pc, call, lockOwner, listOwner, jobsReady, pfds, pipe>>
           /\ InPass /\ HasJob(jobs[at])
           /\ \E job : RunJob(job)
BY DEF Service, ServiceConnecting, ServiceConnected, ServiceListening, RunJob, HasJob

\* The steps, in groups.
LEMMA NextCases ==
    ASSUME [Next]_vars
    PROVE  \/ /\ \/ \E t \in Threads : LockJobListLock(t) \/ LockJobList(t)
                 \/ \E u \in Users : \/ UnblockPollSocket(u) \/ AddSocket(u)
                                     \/ RemoveSocket(u) \/ UnlockJobList(u, call[u].then)
                 \/ UnlockJobList(Mux, "wait")
                 \/ WaitForJobs \/ CollectPollEntries \/ EnterPoll
                 \/ ReturnFromPoll(Happened) \/ SkipRemoved \/ SweepRemoved
              /\ UNCHANGED sockVars
           \/ \E u \in Users : SocketMethod(u)
           \/ Service
           \/ \E s \in Sockets : Peer(s)
           \/ UNCHANGED vars
<1>1. CASE Multiplex
      BY <1>1 DEF Multiplex, Service, Threads
<1>2. ASSUME NEW u \in Users, MultiplexerCall(u)
      PROVE  /\ \/ \E t \in Threads : LockJobListLock(t) \/ LockJobList(t)
                \/ UnblockPollSocket(u) \/ AddSocket(u)
                \/ RemoveSocket(u) \/ UnlockJobList(u, call[u].then)
             /\ UNCHANGED sockVars
      BY <1>2 DEF MultiplexerCall, Threads
<1>3. ASSUME NEW u \in Users, User(u), ~MultiplexerCall(u) PROVE SocketMethod(u)
      BY <1>3 DEF User, SocketMethod
<1> QED BY <1>1, <1>2, <1>3 DEF Next

\* Each thread stays in its own code.
LEMMA PcStep ==
    ASSUME TypeOK, PcInv, [Next]_vars
    PROVE  PcInv'
<1>1. /\ pc \in [Threads -> Labels] /\ call \in [Users -> Entries]
      /\ Mux \in Threads /\ Mux \notin Users /\ \A u \in Users : u \in Threads
      BY MuxAssumption DEF TypeOK, Threads
<1>2. pc[Mux] \in MuxLabels /\ \A u \in Users : pc[u] \in UserLabels
      BY DEF PcInv
<1>3. CASE UNCHANGED pc
      BY <1>3 DEF PcInv
<1>4. ASSUME NEW u \in Users, NEW label \in UserLabels, Goto(u, label) PROVE PcInv'
      BY <1>1, <1>2, <1>4 DEF PcInv, Goto
<1>5. ASSUME NEW label \in MuxLabels, Goto(Mux, label) PROVE PcInv'
      BY <1>1, <1>2, <1>5 DEF PcInv, Goto
<1>6. /\ {"lockList", "unlock", "wait", "lockLock", "collect", "poll", "polling", "run",
          "sweep"} \subseteq MuxLabels
      /\ {"unblock", "lockList", "edit", "unlock", "idle", "shut", "relisten"}
             \subseteq UserLabels
      BY DEF MuxLabels, UserLabels
<1>7. ASSUME NEW t \in Threads, LockJobListLock(t) \/ LockJobList(t) PROVE PcInv'
      <2>1. CASE t = Mux
            BY <1>5, <1>6, <1>7, <2>1 DEF LockJobListLock, LockJobList
      <2>2. CASE t # Mux
            <3>1. t \in Users
                  BY <2>2 DEF Threads
            <3> QED BY <1>4, <1>6, <1>7, <2>2, <3>1 DEF LockJobListLock, LockJobList
      <2> QED BY <2>1, <2>2
<1>8. ASSUME NEW u \in Users, \/ UnblockPollSocket(u) \/ AddSocket(u) \/ RemoveSocket(u)
                              \/ UnlockJobList(u, call[u].then)
      PROVE  PcInv'
      <2>1. call[u].then \in UserLabels
            BY <1>1, <1>6, EntryType
      <2> QED BY <1>4, <1>6, <1>8, <2>1
              DEF UnblockPollSocket, AddSocket, RemoveSocket, UnlockJobList
<1>9. CASE \/ UnlockJobList(Mux, "wait") \/ WaitForJobs \/ CollectPollEntries
           \/ SweepRemoved
      BY <1>5, <1>6, <1>9 DEF UnlockJobList, WaitForJobs, CollectPollEntries, SweepRemoved
<1>10. CASE EnterPoll \/ ReturnFromPoll(Happened)
      BY <1>5, <1>6, <1>10 DEF EnterPoll, ReturnFromPoll
<1>11. CASE SkipRemoved \/ UNCHANGED vars
      BY <1>3, <1>11 DEF SkipRemoved, vars, muxVars
<1>12. ASSUME NEW u \in Users, SocketMethod(u) PROVE PcInv'
      <2>1. /\ pc'[u] \in UserLabels /\ \A t \in Threads \ {u} : pc'[t] = pc[t]
            BY <1>12, MethodFrame DEF UserLabels
      <2> QED BY <1>1, <1>2, <2>1 DEF PcInv
<1>13. CASE Service
      BY <1>3, <1>13, ServiceFrame
<1>14. ASSUME NEW s \in Sockets, Peer(s) PROVE PcInv'
      BY <1>3, <1>14 DEF Peer, Answer, Arrive, HangUp, muxVars
<1> QED BY <1>7, <1>8, <1>9, <1>10, <1>11, <1>12, <1>13, <1>14, NextCases

\* Nobody takes the list from the thread that holds it.
LEMMA LockStep ==
    ASSUME TypeOK, PcInv, LockInv, [Next]_vars
    PROVE  LockInv'
<1>1. /\ pc \in [Threads -> Labels] /\ Mux \in Threads /\ Mux \notin Users
      /\ (\A u \in Users : u \in Threads) /\ None \notin Threads
      BY MuxAssumption DEF TypeOK, Threads
<1>2. ASSUME NEW t \in Threads, NEW label, Goto(t, label), listOwner' = listOwner,
             listOwner = t \/ label \notin {"collect", "poll", "polling", "run", "sweep",
                                            "unlock", "edit"}
      PROVE  LockInv'
      BY <1>1, <1>2 DEF LockInv, InUse, Goto
<1>3. ASSUME UNCHANGED <<pc, listOwner>> PROVE LockInv'
      BY <1>3 DEF LockInv, InUse
<1>4. ASSUME NEW t \in Threads, LockJobListLock(t) PROVE LockInv'
      BY <1>2, <1>4 DEF LockJobListLock
<1>5. ASSUME NEW t \in Threads, LockJobList(t) PROVE LockInv'
      <2>1. listOwner = None /\ listOwner' = t
            BY <1>5 DEF LockJobList
      <2>2. \A v \in Threads : ~InUse(v)
            BY <1>1, <2>1 DEF LockInv
      <2>3. \A v \in Threads \ {t} : pc'[v] = pc[v]
            BY <1>1, <1>5 DEF LockJobList, Goto
      <2> QED BY <2>1, <2>2, <2>3 DEF LockInv, InUse
<1>6. ASSUME NEW t \in Threads, NEW label, UnlockJobList(t, label),
             label \notin {"collect", "poll", "polling", "run", "sweep", "unlock", "edit"}
      PROVE  LockInv'
      <2>1. pc[t] = "unlock" /\ pc' = [pc EXCEPT ![t] = label]
            BY <1>6 DEF UnlockJobList, Goto
      <2>2. listOwner = t
            BY <2>1 DEF LockInv, InUse
      <2>3. \A v \in Threads \ {t} : ~InUse(v)
            BY <2>2 DEF LockInv
      <2>4. \A v \in Threads : ~InUse(v)'
            BY <1>1, <1>6, <2>1, <2>3 DEF InUse
      <2> QED BY <2>4 DEF LockInv
<1>7. ASSUME NEW u \in Users, UnlockJobList(u, call[u].then) PROVE LockInv'
      <2>1. call[u].then \in {"idle", "shut", "relisten"}
            BY EntryType DEF TypeOK
      <2> QED BY <1>1, <1>6, <1>7, <2>1
<1>8. CASE UnlockJobList(Mux, "wait")
      BY <1>1, <1>6, <1>8
<1>9. ASSUME NEW u \in Users, UnblockPollSocket(u) PROVE LockInv'
      BY <1>1, <1>2, <1>9 DEF UnblockPollSocket
<1>10. ASSUME NEW u \in Users, AddSocket(u) \/ RemoveSocket(u) PROVE LockInv'
      <2>1. pc[u] = "edit" /\ Goto(u, "unlock") /\ listOwner' = listOwner
            BY <1>10 DEF AddSocket, RemoveSocket
      <2>2. listOwner = u
            BY <1>1, <2>1 DEF LockInv, InUse
      <2> QED BY <1>1, <1>2, <2>1, <2>2
<1>11. CASE WaitForJobs
      BY <1>1, <1>2, <1>11 DEF WaitForJobs
<1>12. ASSUME CollectPollEntries \/ EnterPoll \/ ReturnFromPoll(Happened) \/ SweepRemoved
       PROVE  LockInv'
      <2>1. pc[Mux] \in {"collect", "poll", "polling", "sweep", "run"}
            BY <1>12 DEF CollectPollEntries, EnterPoll, ReturnFromPoll, SweepRemoved
      <2>2. listOwner = Mux /\ listOwner' = listOwner
            BY <1>1, <1>12, <2>1
               DEF LockInv, InUse, CollectPollEntries, EnterPoll, ReturnFromPoll, SweepRemoved
      <2>3. \E label : Goto(Mux, label)
            BY <1>12 DEF CollectPollEntries, EnterPoll, ReturnFromPoll, SweepRemoved
      <2> QED BY <1>1, <1>2, <2>2, <2>3
<1>13. CASE SkipRemoved \/ UNCHANGED vars
      BY <1>3, <1>13 DEF SkipRemoved, vars, muxVars
<1>14. ASSUME NEW u \in Users, SocketMethod(u) PROVE LockInv'
      <2>1. /\ pc'[u] \in {"idle", "makeJob", "lockLock"} /\ u # Mux
            /\ \A t \in Threads \ {u} : pc'[t] = pc[t]
            /\ listOwner' = listOwner
            BY <1>1, <1>14, MethodFrame DEF MuxRest
      <2> QED BY <2>1 DEF LockInv, InUse
<1>15. CASE Service
      BY <1>3, <1>15, ServiceFrame
<1>16. ASSUME NEW s \in Sockets, Peer(s) PROVE LockInv'
      BY <1>3, <1>16 DEF Peer, Answer, Arrive, HangUp, muxVars
<1> QED BY <1>4, <1>5, <1>7, <1>8, <1>9, <1>10, <1>11, <1>12, <1>13, <1>14, <1>15, <1>16,
           NextCases

-----------------------------------------------------------------------------
(* What the threads hand over.                                             *)

\* setJob leaves the thread with its job.
LEMMA SetJobCall ==
    ASSUME TypeOK, NEW u \in Users, NEW s, NEW job, NEW then, SetJob(u, s, job, then)
    PROVE  /\ pc'[u] = "lockLock"
           /\ call'[u].sock = s /\ call'[u].job = job /\ call'[u].then = then
<1>1. pc \in [Threads -> Labels] /\ call \in [Users -> Entries] /\ u \in Threads
      BY DEF TypeOK, Threads
<1> QED BY <1>1 DEF SetJob, Goto

\* A socket stays open until its owner has removed its job and closes it.
LEMMA OpenKept ==
    ASSUME TypeOK, FitInv, ListenInv, [Next]_vars, NEW s \in Sockets, sock[s].open
    PROVE  sock'[s].open \/ \E u \in Users : FinishClose(u) /\ call[u].sock = s
<1>1. sock \in [Sockets -> Members] /\ call \in [Users -> Entries]
      BY DEF TypeOK
<1>2. ASSUME NEW d \in Sockets, NEW m, sock' = [sock EXCEPT ![d] = m],
             d = s => m.open
      PROVE  sock'[s].open
      BY <1>1, <1>2
<1>3. ASSUME NEW m \in Members, m.open
      PROVE  Connected(m).open /\ Disconnected(m).open
      BY <1>3 DEF Members, Connected, Disconnected, OutputShutdown
<1>4. CASE UNCHANGED sock
      BY <1>4
<1>5. ASSUME NEW u \in Users, SocketMethod(u), ~FinishClose(u) PROVE sock'[s].open
      <2>1. CASE MakeJob(u)
            BY <1>4, <2>1 DEF MakeJob, sockVars
      <2>2. ASSUME NEW d \in Sockets, Connect(u, d) PROVE sock'[s].open
            <3>1. d # s
                  BY <2>2 DEF Connect
            <3> QED BY <1>1, <2>2, <3>1 DEF Connect
      <2>3. ASSUME NEW d \in Sockets, Write(u, d) PROVE sock'[s].open
            BY <1>1, <2>3 DEF Write, Members
      <2>4. ASSUME NEW d \in Sockets, Read(u, d) PROVE sock'[s].open
            BY <1>1, <2>4 DEF Read, Members
      <2>5. ASSUME NEW d \in Sockets,
                   Close(u, d) \/ Bind(u, d) \/ SetListeningJob(u, d)
            PROVE  sock'[s].open
            BY <1>4, <2>5 DEF Close, Bind, SetListeningJob, sockVars
      <2>6. ASSUME NEW d \in Sockets, AcceptFails(u, d) PROVE sock'[s].open
            BY <1>1, <2>6 DEF AcceptFails, Members
      <2>7. ASSUME NEW l \in Sockets, NEW d \in Sockets, Accept(u, l, d)
            PROVE  sock'[s].open
            <3>1. d # s
                  BY <2>7 DEF Accept
            <3> QED BY <1>1, <2>7, <3>1 DEF Accept
      <2> QED BY <1>5, <2>1, <2>2, <2>3, <2>4, <2>5, <2>6, <2>7 DEF SocketMethod
<1>6. CASE ServiceConnecting \/ ServiceConnected
      <2>1. \E m, e, job : Serves(Current, m, e, job) /\ Proper(sock[Current], m, e)
            BY <1>6, ServiceData
      <2>2. PICK m : sock' = [sock EXCEPT ![Current] = m] /\ m.open = sock[Current].open
            BY <2>1 DEF Serves, Proper
      <2> QED BY <1>1, <2>2
<1>7. CASE ServiceListening
      BY <1>4, <1>7 DEF ServiceListening
<1>8. ASSUME NEW d \in Sockets, Peer(d) PROVE sock'[s].open
      BY <1>4, <1>8 DEF Peer, Answer, Arrive, HangUp
<1>9. ASSUME NEW u \in Users, FinishClose(u), call[u].sock # s PROVE sock'[s].open
      BY <1>1, <1>9 DEF FinishClose
<1>10. \A u \in Users : SocketMethod(u) =>
           sock'[s].open \/ (FinishClose(u) /\ call[u].sock = s)
      BY <1>5, <1>9
<1>11. CASE UNCHANGED sockVars \/ UNCHANGED vars
      BY <1>4, <1>11 DEF sockVars, vars
<1> QED BY <1>6, <1>7, <1>8, <1>10, <1>11, NextCases DEF Service

\* A socket without a job gets one only from a call that adds it.
LEMMA NoJobKept ==
    ASSUME TypeOK, [Next]_vars, NEW s \in Sockets, NoJob(s)
    PROVE  NoJob(s)' \/ \E u \in Users : AddSocket(u) /\ call[u].sock = s
<1>1. /\ jobs \in Seq(Entries) /\ call \in [Users -> Entries]
      /\ DOMAIN jobs = 1 .. Len(jobs) /\ Len(jobs) \in Nat
      BY DEF TypeOK
<1>2. ASSUME UNCHANGED jobs PROVE NoJob(s)'
      BY <1>2 DEF NoJob
<1>3. ASSUME NEW u \in Users, AddSocket(u), call[u].sock # s PROVE NoJob(s)'
      <2>1. CASE Places(call[u].sock) = {}
            <3>1. call[u] \in Entries
                  BY <1>1
            <3>2. jobs' = Append(jobs, call[u])
                  BY <1>3, <2>1 DEF AddSocket
            <3>3. /\ DOMAIN jobs' = 1 .. (Len(jobs) + 1)
                  /\ jobs'[Len(jobs) + 1] = call[u]
                  /\ \A i \in 1 .. Len(jobs) : jobs'[i] = jobs[i]
                  BY <1>1, <3>1, <3>2
            <3>4. ASSUME NEW i \in 1 .. (Len(jobs) + 1), jobs'[i].sock = s
                  PROVE  jobs'[i].job = None
                  <4>1. i # Len(jobs) + 1
                        BY <1>3, <3>3, <3>4
                  <4>2. i \in 1 .. Len(jobs)
                        BY <1>1, <4>1
                  <4> QED BY <1>1, <3>3, <3>4, <4>2 DEF NoJob
            <3> QED BY <3>3, <3>4 DEF NoJob
      <2>2. CASE Places(call[u].sock) # {}
            <3>1. jobs' = [i \in DOMAIN jobs |-> IF i \in Places(call[u].sock)
                                                 THEN call[u] ELSE jobs[i]]
                  BY <1>3, <2>2 DEF AddSocket
            <3> QED BY <1>3, <3>1 DEF NoJob
      <2> QED BY <2>1, <2>2
<1>4. ASSUME NEW u \in Users, RemoveSocket(u) PROVE NoJob(s)'
      <2> DEFINE live == {i \in Places(call[u].sock) : jobs[i].job # None}
      <2>1. jobs' = [i \in DOMAIN jobs |-> IF i \in live THEN call[u] ELSE jobs[i]]
            BY <1>4 DEF RemoveSocket
      <2>2. call[u].job = None
            BY <1>4 DEF RemoveSocket
      <2> HIDE DEF live
      <2>3. ASSUME NEW i \in DOMAIN jobs, jobs'[i].sock = s PROVE jobs'[i].job = None
            BY <2>1, <2>2, <2>3 DEF NoJob
      <2> QED BY <2>1, <2>3 DEF NoJob
<1>5. CASE SweepRemoved
      <2>1. jobs' = Live
            BY <1>5 DEF SweepRemoved
      <2>2. PICK h : ComesFrom(jobs, {e \in Range(jobs) : HasJob(e)}, Len(jobs), Live, h)
            BY <1>1, LiveType
      <2>3. Live \in Seq(Entries)
            BY <1>1, LiveType
      <2>4. ASSUME NEW i \in 1 .. Len(Live), Live[i].sock = s PROVE FALSE
            <3>1. /\ h[i] \in 1 .. Len(jobs) /\ Live[i] = jobs[h[i]] /\ HasJob(Live[i])
                  BY <2>2 DEF ComesFrom
            <3> QED BY <1>1, <2>4, <3>1 DEF NoJob, HasJob
      <2>5. DOMAIN Live = 1 .. Len(Live)
            BY <2>3
      <2> QED BY <2>1, <2>4, <2>5 DEF NoJob
<1>6. CASE Service
      <2>1. PICK job : RunJob(job)
            BY <1>6, ServiceFrame
      <2>2. /\ at \in DOMAIN jobs /\ jobs[at].job # None
            /\ jobs' = [jobs EXCEPT ![at].job = job]
            BY <1>1, <2>1 DEF RunJob, InPass, TypeOK
      <2>3. jobs[at].sock # s
            BY <2>2 DEF NoJob
      <2>4. jobs[at] \in Entries
            BY <1>1, <2>2
      <2>5. \A i \in DOMAIN jobs : jobs'[i].sock = jobs[i].sock
            BY <2>2, <2>4 DEF Entries
      <2>6. \A i \in DOMAIN jobs : i # at => jobs'[i] = jobs[i]
            BY <2>2
      <2> QED BY <2>2, <2>3, <2>5, <2>6 DEF NoJob
<1>7. ASSUME NEW u \in Users, SocketMethod(u) PROVE NoJob(s)'
      BY <1>2, <1>7, MethodFrame DEF MuxRest
<1>8. ASSUME \/ \E t \in Threads : LockJobListLock(t) \/ LockJobList(t)
             \/ \E u \in Users : UnblockPollSocket(u) \/ UnlockJobList(u, call[u].then)
             \/ UnlockJobList(Mux, "wait") \/ WaitForJobs \/ CollectPollEntries
             \/ EnterPoll \/ ReturnFromPoll(Happened) \/ SkipRemoved
             \/ (\E d \in Sockets : Peer(d)) \/ UNCHANGED vars
      PROVE  NoJob(s)'
      <2>1. UNCHANGED jobs
            BY <1>8 DEF LockJobListLock, LockJobList, UnblockPollSocket, UnlockJobList,
               WaitForJobs, CollectPollEntries, EnterPoll, ReturnFromPoll, SkipRemoved,
               Peer, Answer, Arrive, HangUp, vars, muxVars
      <2> QED BY <1>2, <2>1
<1> QED BY <1>3, <1>4, <1>5, <1>6, <1>7, <1>8, NextCases

\* A thread's own steps apart, nothing disturbs what it hands over.
LEMMA CallFrame ==
    ASSUME TypeOK, FitInv, ListenInv, CallInv, [Next]_vars, NEW v \in Users,
           pc'[v] = pc[v], call'[v] = call[v]
    PROVE  CallOf(v)'
<1>1. /\ CallOf(v) /\ call[v] \in Entries /\ call[v].sock \in Sockets
      BY EntryType DEF CallInv, TypeOK
<1>2. ASSUME pc[v] # "idle" PROVE sock'[call[v].sock].open
      <2>1. ASSUME NEW u \in Users, FinishClose(u), call[u].sock = call[v].sock
            PROVE  FALSE
            <3>1. pc[u] = "shut" /\ pc'[u] = "idle"
                  BY <2>1 DEF FinishClose, Goto, TypeOK, Threads
            <3>2. Owner[call[u].sock] = u /\ Owner[call[v].sock] = v
                  BY <1>1, <1>2, <3>1 DEF CallInv, CallOf
            <3> QED BY <2>1, <3>1, <3>2
      <2> QED BY <1>1, <1>2, <2>1, OpenKept DEF CallOf
<1>3. ASSUME call[v].then = "shut", pc[v] \in {"unlock", "shut"}
      PROVE  NoJob(call[v].sock)'
      <2>1. ASSUME NEW u \in Users, AddSocket(u), call[u].sock = call[v].sock
            PROVE  FALSE
            <3>1. pc[u] = "edit" /\ call[u].job # None
                  BY <2>1 DEF AddSocket
            <3>2. Owner[call[u].sock] = u /\ Owner[call[v].sock] = v
                  BY <1>1, <1>3, <3>1 DEF CallInv, CallOf
            <3> QED BY <1>3, <2>1, <3>1, <3>2
      <2> QED BY <1>1, <1>3, <2>1, NoJobKept DEF CallOf
<1> QED BY <1>1, <1>2, <1>3 DEF CallOf

\* What a thread hands over is right after its own steps too.
LEMMA CallStep ==
    ASSUME TypeOK, PcInv, FitInv, ListenInv, CallInv, [Next]_vars
    PROVE  CallInv'
<1>1. /\ pc \in [Threads -> Labels] /\ call \in [Users -> Entries]
      /\ sock \in [Sockets -> Members]
      /\ Mux \in Threads /\ Mux \notin Users /\ \A u \in Users : u \in Threads
      BY MuxAssumption DEF TypeOK, Threads
<1>2. \A v \in Users : pc'[v] = pc[v] /\ call'[v] = call[v] => CallOf(v)'
      BY CallFrame
<1>3. ASSUME NEW u \in Users, CallOf(u)',
             \A v \in Users \ {u} : pc'[v] = pc[v] /\ call'[v] = call[v]
      PROVE  CallInv'
      BY <1>2, <1>3 DEF CallInv
<1>4. ASSUME UNCHANGED <<pc, call>> PROVE CallInv'
      BY <1>2, <1>4 DEF CallInv
<1>5. ASSUME NEW u \in Users, NEW label, Goto(u, label)
      PROVE  pc'[u] = label /\ \A v \in Users \ {u} : pc'[v] = pc[v]
      BY <1>1, <1>5 DEF Goto
<1>6. ASSUME NEW label, Goto(Mux, label) PROVE \A v \in Users : pc'[v] = pc[v]
      BY <1>1, <1>6 DEF Goto
<1>7. ASSUME NEW u \in Users,
             \/ LockJobListLock(u) \/ LockJobList(u) \/ UnblockPollSocket(u)
             \/ AddSocket(u) \/ RemoveSocket(u) \/ UnlockJobList(u, call[u].then),
             UNCHANGED sockVars
      PROVE  CallInv'
      <2>1. CallOf(u) /\ call[u] \in Entries /\ sock' = sock /\ u # Mux
            BY <1>1, <1>7 DEF CallInv, sockVars
      <2>2. \A v \in Users \ {u} : pc'[v] = pc[v] /\ call'[v] = call[v]
            BY <1>1, <1>5, <1>7 DEF LockJobListLock, LockJobList, UnblockPollSocket,
               AddSocket, RemoveSocket, UnlockJobList
      <2>3. CASE LockJobListLock(u) \/ LockJobList(u) \/ UnblockPollSocket(u)
            <3>1. /\ pc[u] \in {"lockLock", "lockList", "unblock"}
                  /\ pc'[u] \in {"unblock", "lockList", "edit"} /\ call' = call
                  BY <1>1, <1>5, <2>1, <2>3
                     DEF LockJobListLock, LockJobList, UnblockPollSocket
            <3>2. CallOf(u)'
                  BY <2>1, <3>1 DEF CallOf, Handing
            <3> QED BY <1>3, <2>2, <3>2
      <2>4. CASE AddSocket(u)
            <3>1. pc[u] = "edit" /\ pc'[u] = "unlock" /\ call' = call /\ call[u].job # None
                  BY <1>5, <2>4 DEF AddSocket
            <3>2. CallOf(u)'
                  BY <2>1, <3>1 DEF CallOf, Handing
            <3> QED BY <1>3, <2>2, <3>2
      <2>5. CASE RemoveSocket(u)
            <3>1. pc[u] = "edit" /\ pc'[u] = "unlock" /\ call' = call /\ call[u].job = None
                  BY <1>5, <2>5 DEF RemoveSocket
            <3> DEFINE s == call[u].sock
                       live == {i \in Places(s) : jobs[i].job # None}
            <3>2. jobs' = [i \in DOMAIN jobs |-> IF i \in live THEN call[u] ELSE jobs[i]]
                  BY <2>5 DEF RemoveSocket
            <3>3. \A i \in DOMAIN jobs : jobs[i].sock = s => jobs[i].job = None \/ i \in live
                  BY DEF Places
            <3> HIDE DEF live
            <3>4. \A i \in DOMAIN jobs' : jobs'[i].sock = s => jobs'[i].job = None
                  BY <3>1, <3>2, <3>3
            <3>5. CallOf(u)'
                  BY <2>1, <3>1, <3>4 DEF CallOf, Handing, NoJob
            <3> QED BY <1>3, <2>2, <3>5
      <2>6. CASE UnlockJobList(u, call[u].then)
            <3>1. /\ pc[u] = "unlock" /\ pc'[u] = call[u].then /\ jobs' = jobs
                  /\ call'[u] = [call[u] EXCEPT !.job = None]
                  BY <1>1, <1>5, <2>1, <2>6 DEF UnlockJobList
            <3>2. /\ call'[u].sock = call[u].sock /\ call'[u].job = None
                  /\ call'[u].then = call[u].then
                  /\ call[u].then \in {"idle", "shut", "relisten"}
                  BY <2>1, <3>1 DEF Entries
            <3>3. CallOf(u)'
                  BY <2>1, <3>1, <3>2 DEF CallOf, Handing, NoJob
            <3> QED BY <1>3, <2>2, <3>3
      <2> QED BY <1>7, <2>3, <2>4, <2>5, <2>6
<1>8. ASSUME \/ LockJobListLock(Mux) \/ LockJobList(Mux) \/ UnlockJobList(Mux, "wait")
             \/ WaitForJobs \/ CollectPollEntries \/ EnterPoll
             \/ ReturnFromPoll(Happened) \/ SkipRemoved \/ SweepRemoved
      PROVE  CallInv'
      <2>1. call' = call
            BY <1>1, <1>8 DEF LockJobListLock, LockJobList, UnlockJobList, WaitForJobs,
               CollectPollEntries, EnterPoll, ReturnFromPoll, SkipRemoved, SweepRemoved
      <2>2. (\E label : Goto(Mux, label)) \/ pc' = pc
            BY <1>8 DEF LockJobListLock, LockJobList, UnlockJobList, WaitForJobs,
               CollectPollEntries, EnterPoll, ReturnFromPoll, SkipRemoved, SweepRemoved
      <2> QED BY <1>2, <1>6, <2>1, <2>2 DEF CallInv
<1>9. ASSUME NEW u \in Users, SocketMethod(u) PROVE CallInv'
      <2>1. \A v \in Users \ {u} : pc'[v] = pc[v] /\ call'[v] = call[v]
            BY <1>1, <1>9, MethodFrame
      <2>2. CallOf(u) /\ call[u] \in Entries /\ call[u].sock \in Sockets
            BY <1>1, EntryType DEF CallInv
      <2>3. ASSUME NEW s \in Sockets, NEW job, NEW then, SetJob(u, s, job, then),
                   Owner[s] = u, sock'[s].open,
                   then = "shut" => job = None /\ s \in Data
            PROVE  CallInv'
            <3>1. /\ pc'[u] = "lockLock"
                  /\ call'[u].sock = s /\ call'[u].job = job /\ call'[u].then = then
                  BY <2>3, SetJobCall
            <3>2. CallOf(u)'
                  BY <2>3, <3>1 DEF CallOf, Handing
            <3> QED BY <1>3, <2>1, <3>2
      <2>4. CASE UNCHANGED <<pc, call>>
            BY <1>4, <2>4
      <2>5. CASE MakeJob(u)
            <3>1. /\ call[u].then # "shut" /\ Owner[call[u].sock] = u
                  /\ sock'[call[u].sock].open
                  BY <2>2, <2>5 DEF MakeJob, CallOf, Handing, sockVars
            <3>2. \E job : SetJob(u, call[u].sock, job, call[u].then)
                  BY <2>5 DEF MakeJob
            <3> QED BY <2>2, <2>3, <3>1, <3>2
      <2>6. CASE FinishClose(u)
            <3>1. /\ pc[u] = "shut" /\ pc'[u] = "idle"
                  /\ call'[u] = [call[u] EXCEPT !.then = "idle"]
                  BY <1>1, <1>5, <2>6 DEF FinishClose
            <3>2. call'[u].job = call[u].job /\ call'[u].then = "idle"
                  BY <2>2, <3>1 DEF Entries
            <3>3. call[u].job = None
                  BY <2>2, <3>1 DEF CallOf, Handing
            <3>4. CallOf(u)'
                  BY <3>1, <3>2, <3>3 DEF CallOf
            <3> QED BY <1>3, <2>1, <3>4
      <2>7. ASSUME NEW s \in Sockets,
                   Connect(u, s) \/ (Write(u, s) /\ sock[s].out = 0)
            PROVE  CallInv'
            <3>1. /\ pc[u] = "idle" /\ pc'[u] = "makeJob" /\ s \in Data /\ Owner[s] = u
                  /\ call'[u] = [call[u] EXCEPT !.sock = s, !.then = "idle"]
                  BY <1>1, <1>5, <2>7 DEF Connect, Write, Idle
            <3>2. /\ call'[u].sock = s /\ call'[u].job = call[u].job
                  /\ call'[u].then = "idle"
                  BY <2>2, <3>1 DEF Entries
            <3>3. call[u].job = None
                  BY <2>2, <3>1 DEF CallOf, Handing
            <3>4. sock'[s].open
                  <4>1. CASE Write(u, s)
                        BY <1>1, <4>1 DEF Write, Idle, Members
                  <4>2. CASE Connect(u, s)
                        <5>1. [Fresh EXCEPT !.open = TRUE, !.writable = TRUE] \in Members
                              BY MembersType
                        <5>2. [Fresh EXCEPT !.open = TRUE, !.writable = TRUE].open
                              BY DEF Fresh
                        <5>3. \A m \in Members : Connected(m).open = m.open
                              BY DEF Members, Connected
                        <5> QED BY <1>1, <4>2, <5>1, <5>2, <5>3 DEF Connect
                  <4> QED BY <2>7, <4>1, <4>2
            <3>5. CallOf(u)'
                  BY <3>1, <3>2, <3>3, <3>4 DEF CallOf
            <3> QED BY <1>3, <2>1, <3>5
      <2>8. ASSUME NEW s \in Sockets, Read(u, s) PROVE CallInv'
            <3>1. (\E job : SetJob(u, s, job, "idle")) \/ UNCHANGED <<pc, call>>
                  BY <2>8 DEF Read
            <3>2. Owner[s] = u /\ sock'[s].open
                  BY <1>1, <2>8 DEF Read, Idle, Members
            <3> QED BY <2>3, <2>4, <3>1, <3>2
      <2>9. ASSUME NEW s \in Sockets, Close(u, s) \/ Bind(u, s) PROVE CallInv'
            <3>1. Owner[s] = u /\ sock'[s].open
                  BY <2>9 DEF Close, Bind, Idle, sockVars
            <3>2. (s \in Data /\ SetJob(u, s, None, "shut")) \/ SetJob(u, s, Listening, "idle")
                  BY <2>9 DEF Close, Bind
            <3> QED BY <2>3, <3>1, <3>2
      <2>10. ASSUME NEW l \in Sockets, SetListeningJob(u, l) PROVE CallInv'
            <3>1. Owner[l] = u /\ sock'[l].open /\ SetJob(u, l, Listening, "idle")
                  BY <2>10 DEF SetListeningJob, ListenInv, ListenOf, sockVars
            <3> QED BY <2>3, <3>1
      <2>11. ASSUME NEW l \in Sockets, NEW d \in Sockets, Accept(u, l, d) PROVE CallInv'
            <3>1. [Fresh EXCEPT !.open = TRUE] \in Members
                  BY MembersType
            <3>2. [Fresh EXCEPT !.open = TRUE].open
                  BY DEF Fresh
            <3>3. \A m \in Members : Connected(m).open = m.open
                  BY DEF Members, Connected
            <3>4. Owner[d] = u /\ sock'[d].open
                  BY <1>1, <2>11, <3>1, <3>2, <3>3 DEF Accept
            <3>5. \E job : SetJob(u, d, job, "relisten")
                  BY <2>11 DEF Accept
            <3> QED BY <2>3, <3>4, <3>5
      <2>12. ASSUME NEW s \in Sockets, (Write(u, s) /\ sock[s].out # 0) \/ AcceptFails(u, s)
             PROVE  CallInv'
            BY <2>4, <2>12 DEF Write, AcceptFails
      <2> QED BY <1>9, <2>5, <2>6, <2>7, <2>8, <2>9, <2>10, <2>11, <2>12 DEF SocketMethod
<1>10. CASE Service
      BY <1>4, <1>10, ServiceFrame
<1>11. ASSUME NEW s \in Sockets, Peer(s) PROVE CallInv'
      BY <1>4, <1>11 DEF Peer, Answer, Arrive, HangUp, muxVars
<1>12. CASE UNCHANGED vars
      BY <1>4, <1>12 DEF vars, muxVars
<1> QED BY <1>7, <1>8, <1>9, <1>10, <1>11, <1>12, NextCases DEF Threads

-----------------------------------------------------------------------------
(* The jobs in the list.                                                   *)

\* The multiplexer's thread runs the job at a place of the list.
LEMMA RunAt ==
    ASSUME TypeOK, NEW job, RunJob(job)
    PROVE  /\ at \in 1 .. Len(jobs) /\ DOMAIN jobs' = 1 .. Len(jobs)
           /\ DOMAIN jobs = 1 .. Len(jobs) /\ Len(jobs') = Len(jobs)
           /\ HasJob(jobs[at]) /\ jobs'[at].job = job /\ jobs'[at].sock = jobs[at].sock
           /\ \A i \in 1 .. Len(jobs) : i # at => jobs'[i] = jobs[i]
<1>1. /\ at \in 1 .. Len(jobs) /\ jobs \in Seq(Entries) /\ DOMAIN jobs = 1 .. Len(jobs)
      /\ HasJob(jobs[at]) /\ jobs' = [jobs EXCEPT ![at].job = job]
      BY DEF RunJob, InPass, TypeOK, HasJob
<1>2. jobs[at] \in Entries
      BY <1>1
<1>3. jobs' = [jobs EXCEPT ![at] = [jobs[at] EXCEPT !.job = job]]
      BY <1>1
<1>4. [jobs[at] EXCEPT !.job = job].job = job
      /\ [jobs[at] EXCEPT !.job = job].sock = jobs[at].sock
      BY <1>2 DEF Entries
<1>5. Len(jobs') = Len(jobs)
      BY <1>1
<1> QED BY <1>1, <1>3, <1>4, <1>5

\* A call puts its entry where the socket has its place, or at the end.
LEMMA AddAt ==
    ASSUME TypeOK, NEW u \in Users, AddSocket(u)
    PROVE  /\ DOMAIN jobs = 1 .. Len(jobs) /\ Len(jobs) \in Nat
           /\ DOMAIN jobs' = 1 .. Len(jobs) \/ (/\ DOMAIN jobs' = 1 .. (Len(jobs) + 1)
                                               /\ jobs'[Len(jobs) + 1] = call[u]
                                               /\ Places(call[u].sock) = {})
           /\ \A i \in 1 .. Len(jobs) :
                 jobs'[i] = IF jobs[i].sock = call[u].sock THEN call[u] ELSE jobs[i]
<1>1. /\ jobs \in Seq(Entries) /\ DOMAIN jobs = 1 .. Len(jobs) /\ Len(jobs) \in Nat
      /\ call[u] \in Entries
      BY DEF TypeOK
<1>2. CASE Places(call[u].sock) = {}
      <2>1. jobs' = Append(jobs, call[u])
            BY <1>2 DEF AddSocket
      <2>2. \A i \in 1 .. Len(jobs) : jobs[i].sock # call[u].sock
            BY <1>1, <1>2 DEF Places
      <2>3. /\ DOMAIN jobs' = 1 .. (Len(jobs) + 1) /\ jobs'[Len(jobs) + 1] = call[u]
            /\ \A i \in 1 .. Len(jobs) : jobs'[i] = jobs[i]
            BY <1>1, <2>1
      <2> QED BY <1>1, <1>2, <2>2, <2>3
<1>3. CASE Places(call[u].sock) # {}
      <2>1. jobs' = [i \in 1 .. Len(jobs) |->
                       IF i \in Places(call[u].sock) THEN call[u] ELSE jobs[i]]
            BY <1>1, <1>3 DEF AddSocket
      <2> QED BY <1>1, <2>1 DEF Places
<1> QED BY <1>2, <1>3

\* A call takes the job from the socket's place.
LEMMA RemoveAt ==
    ASSUME TypeOK, NEW u \in Users, RemoveSocket(u)
    PROVE  /\ DOMAIN jobs = 1 .. Len(jobs) /\ DOMAIN jobs' = 1 .. Len(jobs)
           /\ Len(jobs) \in Nat /\ call[u].job = None
           /\ \A i \in 1 .. Len(jobs) :
                 jobs'[i] = IF jobs[i].sock = call[u].sock /\ HasJob(jobs[i])
                            THEN call[u] ELSE jobs[i]
<1> DEFINE live == {i \in Places(call[u].sock) : jobs[i].job # None}
<1>1. DOMAIN jobs = 1 .. Len(jobs) /\ Len(jobs) \in Nat
      BY DEF TypeOK
<1>2. /\ jobs' = [i \in 1 .. Len(jobs) |-> IF i \in live THEN call[u] ELSE jobs[i]]
      /\ call[u].job = None
      BY <1>1 DEF RemoveSocket
<1>3. \A i \in 1 .. Len(jobs) :
          i \in live <=> jobs[i].sock = call[u].sock /\ HasJob(jobs[i])
      BY <1>1 DEF Places, HasJob
<1> HIDE DEF live
<1> QED BY <1>1, <1>2, <1>3

\* The sweep leaves the places that have a job.
LEMMA SweepAt ==
    ASSUME TypeOK, SweepRemoved
    PROVE  /\ DOMAIN jobs = 1 .. Len(jobs) /\ DOMAIN jobs' = 1 .. Len(jobs')
           /\ Len(jobs) \in Nat /\ Len(jobs') \in Nat /\ jobs' = Live
           /\ \E h \in [1 .. Len(jobs') -> 1 .. Len(jobs)] :
                 /\ \A k, m \in 1 .. Len(jobs') : k < m => h[k] < h[m]
                 /\ \A k \in 1 .. Len(jobs') : jobs'[k] = jobs[h[k]] /\ HasJob(jobs[h[k]])
<1>1. jobs \in Seq(Entries) /\ jobs' = Live /\ Live \in Seq(Entries)
      BY LiveType DEF TypeOK, SweepRemoved
<1>2. PICK h : ComesFrom(jobs, {e \in Range(jobs) : HasJob(e)}, Len(jobs), Live, h)
      BY <1>1, LiveType
<1>3. /\ h \in [1 .. Len(Live) -> 1 .. Len(jobs)]
      /\ \A k, m \in 1 .. Len(Live) : k < m => h[k] < h[m]
      /\ \A k \in 1 .. Len(Live) : Live[k] = jobs[h[k]] /\ HasJob(jobs[h[k]])
      BY <1>2 DEF ComesFrom
<1> QED BY <1>1, <1>3, SMTT(30)

\* The steps that change no job.
LEMMA JobsFrame ==
    ASSUME TypeOK, [Next]_vars
    PROVE  \/ UNCHANGED jobs
           \/ (\E u \in Users : AddSocket(u) \/ RemoveSocket(u)) /\ UNCHANGED sockVars
           \/ SweepRemoved /\ UNCHANGED sockVars
           \/ Service
<1>1. ASSUME NEW u \in Users, SocketMethod(u) PROVE UNCHANGED jobs
      BY <1>1, MethodFrame DEF MuxRest
<1>2. ASSUME NEW s \in Sockets, Peer(s) PROVE UNCHANGED jobs
      BY <1>2 DEF Peer, Answer, Arrive, HangUp, muxVars
<1>3. ASSUME NEW t \in Threads, LockJobListLock(t) \/ LockJobList(t) PROVE UNCHANGED jobs
      BY <1>3 DEF LockJobListLock, LockJobList
<1>4. ASSUME NEW u \in Users, UnblockPollSocket(u) \/ UnlockJobList(u, call[u].then)
      PROVE  UNCHANGED jobs
      BY <1>4 DEF UnblockPollSocket, UnlockJobList
<1>5. ASSUME \/ UnlockJobList(Mux, "wait") \/ WaitForJobs \/ CollectPollEntries
             \/ EnterPoll \/ ReturnFromPoll(Happened) \/ SkipRemoved \/ UNCHANGED vars
      PROVE  UNCHANGED jobs
      BY <1>5 DEF UnlockJobList, WaitForJobs, CollectPollEntries, EnterPoll,
         ReturnFromPoll, SkipRemoved, vars, muxVars
<1> QED BY <1>1, <1>2, <1>3, <1>4, <1>5, NextCases

\* A socket keeps its one place, and is open while it has a job there.
LEMMA JobStep ==
    ASSUME TypeOK, PcInv, FitInv, ListenInv, CallInv, JobInv, [Next]_vars
    PROVE  JobInv'
<1> DEFINE N == Len(jobs)
<1>1. /\ DOMAIN jobs = 1 .. N /\ N \in Nat /\ jobs \in Seq(Entries)
      /\ \A i \in 1 .. N : jobs[i].sock \in Sockets
      BY EntryType DEF TypeOK
<1>2. ASSUME NEW i \in 1 .. N, HasJob(jobs[i]) PROVE sock'[jobs[i].sock].open
      <2> DEFINE s == jobs[i].sock
      <2>1. s \in Sockets /\ sock[s].open
            BY <1>1, <1>2 DEF JobInv
      <2>2. ASSUME NEW u \in Users, FinishClose(u), call[u].sock = s PROVE FALSE
            <3>1. pc[u] = "shut"
                  BY <2>2 DEF FinishClose
            <3>2. NoJob(s)
                  BY <2>2, <3>1 DEF CallInv, CallOf
            <3> QED BY <1>1, <1>2, <3>2 DEF NoJob, HasJob
      <2> HIDE DEF s
      <2>3. sock'[s].open
            BY <2>1, <2>2, OpenKept
      <2> QED BY <2>3 DEF s
<1>3. \A i, j \in 1 .. N : jobs[i].sock = jobs[j].sock => i = j
      BY <1>1 DEF JobInv
<1> HIDE DEF N
<1>4. ASSUME DOMAIN jobs' = 1 .. N,
             \A i \in 1 .. N : jobs'[i].sock = jobs[i].sock,
             \A i \in 1 .. N : HasJob(jobs'[i]) => sock'[jobs[i].sock].open
      PROVE  JobInv'
      BY <1>3, <1>4 DEF JobInv
<1>5. CASE UNCHANGED jobs
      BY <1>1, <1>2, <1>4, <1>5
<1>6. ASSUME NEW u \in Users, AddSocket(u), UNCHANGED sockVars PROVE JobInv'
      <2>1. sock' = sock /\ sock[call[u].sock].open
            BY <1>6 DEF AddSocket, CallInv, CallOf, sockVars
      <2>2. /\ \/ DOMAIN jobs' = 1 .. N
               \/ (DOMAIN jobs' = 1 .. (N + 1) /\ jobs'[N + 1] = call[u]
                                               /\ Places(call[u].sock) = {})
            /\ \A i \in 1 .. N :
                  jobs'[i] = IF jobs[i].sock = call[u].sock THEN call[u] ELSE jobs[i]
            BY <1>6, AddAt DEF N
      <2>3. \A i \in 1 .. N : jobs'[i].sock = jobs[i].sock
                             /\ (HasJob(jobs'[i]) => sock'[jobs[i].sock].open)
            BY <1>2, <2>1, <2>2
      <2>4. CASE DOMAIN jobs' = 1 .. N
            BY <1>4, <2>3, <2>4
      <2>5. CASE DOMAIN jobs' = 1 .. (N + 1) /\ jobs'[N + 1] = call[u]
                                             /\ Places(call[u].sock) = {}
            <3>1. \A i \in 1 .. N : jobs[i].sock # call[u].sock
                  BY <1>1, <2>5 DEF Places
            <3>2. \A i \in 1 .. (N + 1) : i \in 1 .. N \/ i = N + 1
                  BY <1>1
            <3>3. \A i, j \in 1 .. (N + 1) : jobs'[i].sock = jobs'[j].sock => i = j
                  BY <1>3, <2>3, <2>5, <3>1, <3>2
            <3>4. \A i \in 1 .. (N + 1) : HasJob(jobs'[i]) => sock'[jobs'[i].sock].open
                  BY <2>1, <2>3, <2>5, <3>2
            <3> QED BY <2>5, <3>3, <3>4 DEF JobInv
      <2> QED BY <2>2, <2>4, <2>5
<1>7. ASSUME NEW u \in Users, RemoveSocket(u) PROVE JobInv'
      <2>1. /\ DOMAIN jobs' = 1 .. N /\ call[u].job = None
            /\ \A i \in 1 .. N :
                  jobs'[i] = IF jobs[i].sock = call[u].sock /\ HasJob(jobs[i])
                             THEN call[u] ELSE jobs[i]
            BY <1>7, RemoveAt DEF N
      <2>2. \A i \in 1 .. N : jobs'[i].sock = jobs[i].sock
                             /\ (HasJob(jobs'[i]) => sock'[jobs[i].sock].open)
            BY <1>2, <2>1 DEF HasJob
      <2> QED BY <1>4, <2>1, <2>2
<1>8. CASE SweepRemoved
      <2> DEFINE M == Len(jobs')
      <2>1. /\ DOMAIN jobs' = 1 .. M /\ M \in Nat
            /\ \E h \in [1 .. M -> 1 .. N] :
                 /\ \A k, m \in 1 .. M : k < m => h[k] < h[m]
                 /\ \A k \in 1 .. M : jobs'[k] = jobs[h[k]] /\ HasJob(jobs[h[k]])
            BY <1>8, SweepAt DEF N
      <2> HIDE DEF M
      <2>2. PICK h \in [1 .. M -> 1 .. N] :
                 /\ \A k, m \in 1 .. M : k < m => h[k] < h[m]
                 /\ \A k \in 1 .. M : jobs'[k] = jobs[h[k]] /\ HasJob(jobs[h[k]])
            BY <2>1
      <2>3. ASSUME NEW k \in 1 .. M, NEW m \in 1 .. M, jobs'[k].sock = jobs'[m].sock
            PROVE  k = m
            <3>1. h[k] = h[m] /\ h[k] \in 1 .. N
                  BY <1>3, <2>2, <2>3
            <3>2. ~(k < m) /\ ~(m < k)
                  BY <1>1, <2>2, <3>1
            <3> QED BY <2>1, <3>2
      <2>4. \A k \in 1 .. M : sock'[jobs'[k].sock].open
            BY <1>2, <2>2
      <2> QED BY <2>1, <2>3, <2>4 DEF JobInv
<1>9. CASE Service
      <2>1. PICK job : RunJob(job)
            BY <1>9, ServiceFrame
      <2>2. /\ at \in 1 .. N /\ DOMAIN jobs' = 1 .. N
            /\ HasJob(jobs[at]) /\ jobs'[at].sock = jobs[at].sock
            /\ \A i \in 1 .. N : i # at => jobs'[i] = jobs[i]
            BY <2>1, RunAt DEF N
      <2>3. \A i \in 1 .. N : jobs'[i].sock = jobs[i].sock
                             /\ (HasJob(jobs'[i]) => sock'[jobs[i].sock].open)
            BY <1>2, <2>2
      <2> QED BY <1>4, <2>2, <2>3
<1> QED BY <1>5, <1>6, <1>7, <1>8, <1>9, JobsFrame

-----------------------------------------------------------------------------
(* The members of the sockets, and the losses.                             *)

Losses == {"disconnected", "failed"}

\* Socket d gets the members m: it does not come alive for an old job, has nothing
\* to write that it could not, and the owner of a lost connection has an event.
Becomes(d, m) ==
    /\ m \in Members /\ sock' = [sock EXCEPT ![d] = m]
    /\ Emptied(sock[d]) => Emptied(m)
    /\ sock[d].open /\ Alive(sock[d]) => Alive(m)
    /\ d \in Data /\ m.open /\ Lost(m) =>
           (sock[d].open /\ Lost(sock[d])) \/ told'[d] \cap Losses # {}
    /\ \A x \in Sockets : sock'[x].open => told[x] \cap Losses \subseteq told'[x]

\* Nothing happens to the sockets.
LEMMA StaysSame ==
    ASSUME TypeOK, sock' = sock,
           \A x \in Sockets : told[x] \cap Losses \subseteq told'[x]
    PROVE  \E d \in Sockets : \E m : Becomes(d, m)
<1>1. PICK d \in Sockets : TRUE
      BY MuxAssumption
<1>2. sock[d] \in Members /\ sock' = [sock EXCEPT ![d] = sock[d]]
      BY DEF TypeOK
<1>3. Becomes(d, sock[d])
      BY <1>2 DEF Becomes
<1> QED BY <1>3

\* What a socket method does to the members.
LEMMA MethodBecomes ==
    ASSUME TypeOK, NEW u \in Users, SocketMethod(u)
    PROVE  \E d \in Sockets : \E m : Becomes(d, m)
<1> DEFINE Goal == \E d \in Sockets : \E m : Becomes(d, m)
<1>1. /\ sock \in [Sockets -> Members] /\ told \in [Sockets -> SUBSET Events]
      /\ call \in [Users -> Entries] /\ MaxOut \in Nat /\ MaxIn = 2
      BY SocketAssumption DEF TypeOK, MaxIn
<1>2. /\ Fresh \in Members /\ ~Fresh.open /\ ~Fresh.writable /\ Fresh.out = 0
      BY MembersType DEF Fresh
<1>3. ASSUME NEW o \in {[Fresh EXCEPT !.open = TRUE],
                        [Fresh EXCEPT !.open = TRUE, !.writable = TRUE]}
      PROVE  /\ o \in Members /\ o.out = 0
             /\ Connected(o) \in Members /\ Connected(o).out = 0
             /\ Connected(o).writable
      <2>1. o \in Members /\ o.out = 0
            BY <1>3, MembersType DEF Fresh
      <2> QED BY <2>1, MembersType, ZenonT(40) DEF Connected, Members
<1>4. ASSUME sock' = sock, told' = told PROVE Goal
      BY <1>4, StaysSame
<1>5. CASE MakeJob(u)
      BY <1>4, <1>5 DEF MakeJob, sockVars
<1>6. CASE FinishClose(u)
      <2>1. call[u].sock \in Sockets
            BY <1>1, EntryType
      <2>2. PICK s \in Sockets : /\ sock' = [sock EXCEPT ![s] = Fresh]
                                 /\ told' = [told EXCEPT ![s] = {}]
            BY <1>6, <2>1 DEF FinishClose
      <2>3. Becomes(s, Fresh)
            BY <1>1, <1>2, <2>2 DEF Becomes, Emptied, Alive, Lost
      <2> QED BY <2>3
<1>7. ASSUME NEW s \in Sockets, Connect(u, s) PROVE Goal
      <2> DEFINE o == [Fresh EXCEPT !.open = TRUE, !.writable = TRUE]
      <2>1. ~sock[s].open /\ told' = told /\ o.writable
            BY <1>7 DEF Connect, Fresh
      <2>2. PICK m \in {o, Connected(o)} : sock' = [sock EXCEPT ![s] = m]
            BY <1>7 DEF Connect
      <2>3. m \in Members /\ m.out = 0 /\ m.writable
            BY <1>3, <2>1, <2>2
      <2> HIDE DEF o
      <2>4. Becomes(s, m)
            BY <1>1, <2>1, <2>2, <2>3 DEF Becomes, Emptied, Alive, Lost
      <2> QED BY <2>4
<1>8. ASSUME NEW s \in Sockets, Write(u, s) PROVE Goal
      <2> DEFINE m == [sock[s] EXCEPT !.out = @ + 1]
      <2>1. /\ sock[s].connected /\ sock[s].writable /\ told' = told
            /\ sock' = [sock EXCEPT ![s] = m] /\ sock[s].out < MaxOut
            BY <1>8 DEF Write
      <2>2. /\ m \in Members /\ m.connected /\ m.writable
            BY <1>1, <2>1 DEF Members
      <2> HIDE DEF m
      <2>3. Becomes(s, m)
            BY <2>1, <2>2 DEF Becomes, Emptied, Alive, Lost
      <2> QED BY <2>3
<1>9. ASSUME NEW s \in Sockets, Read(u, s) PROVE Goal
      <2>1. PICK n \in 0 .. sock[s].inp :
               LET left == sock[s].inp - n
                   ended == n > 0 /\ left = 0 /\ ~sock[s].readable /\ ~sock[s].writable
                   resume == sock[s].paused /\ 2 * left < MaxIn
                   m == [sock[s] EXCEPT !.inp = left,
                                        !.connected = @ /\ ~ended,
                                        !.paused = @ /\ ~resume]
               IN /\ sock' = [sock EXCEPT ![s] = m]
                  /\ told' = [told EXCEPT ![s] =
                               (IF left = 0 THEN @ \ {"input"} ELSE @)
                               \cup (IF ended THEN {"disconnected"} ELSE {})]
            BY <1>9 DEF Read
      <2> DEFINE left == sock[s].inp - n
                 ended == n > 0 /\ left = 0 /\ ~sock[s].readable /\ ~sock[s].writable
                 resume == sock[s].paused /\ 2 * left < MaxIn
                 m == [sock[s] EXCEPT !.inp = left, !.connected = @ /\ ~ended,
                                      !.paused = @ /\ ~resume]
                 e == (IF left = 0 THEN told[s] \ {"input"} ELSE told[s])
                      \cup (IF ended THEN {"disconnected"} ELSE {})
      <2>2. sock' = [sock EXCEPT ![s] = m] /\ told' = [told EXCEPT ![s] = e] /\ sock[s].open
            BY <1>9, <2>1 DEF Read, Idle
      <2>3. /\ left \in 0 .. (MaxIn + 1) /\ ended \in BOOLEAN /\ resume \in BOOLEAN
            /\ ended => ~sock[s].writable
            <3>1. sock[s].inp \in 0 .. (MaxIn + 1) /\ sock[s].paused \in BOOLEAN
                  BY <1>1 DEF Members
            <3> QED BY <1>1, <3>1
      <2>4. told[s] \cap Losses \subseteq e /\ (ended => e \cap Losses # {})
            BY DEF Losses
      <2> HIDE DEF left, ended, resume, e
      <2>5. /\ m \in Members /\ m.open = sock[s].open /\ m.out = sock[s].out
            /\ m.writable = sock[s].writable /\ m.connected = (sock[s].connected /\ ~ended)
            BY <1>1, <2>3 DEF Members
      <2> HIDE DEF m
      <2>6. told'[s] = e /\ \A x \in Sockets : x # s => told'[x] = told[x]
            BY <1>1, <2>2
      <2>7. \A x \in Sockets : told[x] \cap Losses \subseteq told'[x]
            BY <2>4, <2>6
      <2>8. Becomes(s, m)
            BY <2>2, <2>3, <2>4, <2>5, <2>6, <2>7 DEF Becomes, Emptied, Alive, Lost
      <2> QED BY <2>8
<1>10. ASSUME NEW s \in Sockets, Close(u, s) \/ Bind(u, s) \/ SetListeningJob(u, s)
       PROVE  Goal
      BY <1>4, <1>10 DEF Close, Bind, SetListeningJob, sockVars
<1>11. ASSUME NEW l \in Sockets, AcceptFails(u, l) PROVE Goal
      <2> DEFINE m == [sock[l] EXCEPT !.paused = TRUE]
      <2>1. /\ sock' = [sock EXCEPT ![l] = m] /\ told' = [told EXCEPT ![l] = @ \ {"connecting"}]
            /\ l \in Listeners
            BY <1>11 DEF AcceptFails
      <2>2. /\ m \in Members /\ m.open = sock[l].open /\ m.out = sock[l].out
            /\ m.writable = sock[l].writable /\ m.connected = sock[l].connected
            BY <1>1 DEF Members
      <2> HIDE DEF m
      <2>3. \A x \in Sockets : told[x] \cap Losses \subseteq told'[x]
            BY <1>1, <2>1 DEF Losses
      <2>4. Becomes(l, m)
            BY <2>1, <2>2, <2>3 DEF Becomes, Emptied, Alive, Lost, Data
      <2> QED BY <2>4
<1>12. ASSUME NEW l \in Sockets, NEW s \in Sockets, Accept(u, l, s) PROVE Goal
      <2> DEFINE o == [Fresh EXCEPT !.open = TRUE]
      <2>1. /\ sock' = [sock EXCEPT ![s] = Connected(o)] /\ ~sock[s].open
            /\ told' = [told EXCEPT ![l] = @ \ {"connecting"}]
            BY <1>12 DEF Accept
      <2>2. /\ Connected(o) \in Members /\ Connected(o).out = 0 /\ Connected(o).writable
            BY <1>3
      <2> HIDE DEF o
      <2>3. \A x \in Sockets : told[x] \cap Losses \subseteq told'[x]
            BY <1>1, <2>1 DEF Losses
      <2>4. Becomes(s, Connected(o))
            BY <2>1, <2>2, <2>3 DEF Becomes, Emptied, Alive, Lost
      <2> QED BY <2>4
<1> QED BY <1>5, <1>6, <1>7, <1>8, <1>9, <1>10, <1>11, <1>12 DEF SocketMethod

\* What any step does to them.
LEMMA StepBecomes ==
    ASSUME TypeOK, FitInv, [Next]_vars
    PROVE  \E d \in Sockets : \E m : Becomes(d, m)
<1>1. /\ sock \in [Sockets -> Members] /\ told \in [Sockets -> SUBSET Events]
      BY DEF TypeOK
<1>2. ASSUME sock' = sock, told' = told PROVE \E d \in Sockets : \E m : Becomes(d, m)
      BY <1>2, StaysSame
<1>3. CASE ServiceConnecting \/ ServiceConnected
      <2>1. PICK m, e, job :
                /\ Serves(Current, m, e, job) /\ Proper(sock[Current], m, e)
                /\ Lost(m) => Lost(sock[Current]) \/ e \cap Losses # {}
            BY <1>3, ServiceData DEF Losses
      <2>2. Current \in Sockets
            BY <1>3, ServiceData DEF Data
      <2> DEFINE s == Current
      <2> HIDE DEF s
      <2>3. /\ sock' = [sock EXCEPT ![s] = m] /\ told' = [told EXCEPT ![s] = @ \cup e]
            /\ m \in Members /\ m.open = sock[s].open /\ s \in Sockets
            /\ Emptied(sock[s]) => Emptied(m)
            /\ Alive(sock[s]) => Alive(m)
            /\ Lost(m) => Lost(sock[s]) \/ e \cap Losses # {}
            BY <2>1, <2>2 DEF Serves, Proper, s
      <2>4. \A x \in Sockets : told[x] \cap Losses \subseteq told'[x]
            BY <1>1, <2>3
      <2>5. told'[s] = told[s] \cup e
            BY <1>1, <2>3
      <2>6. Becomes(s, m)
            BY <2>3, <2>4, <2>5 DEF Becomes
      <2> QED BY <2>3, <2>6
<1>4. CASE ServiceListening
      <2>1. sock' = sock /\ \A x \in Sockets : told[x] \subseteq told'[x]
            BY <1>1, <1>4 DEF ServiceListening, Tell
      <2> QED BY <2>1, StaysSame
<1>5. ASSUME NEW s \in Sockets, Peer(s) PROVE \E d \in Sockets : \E m : Becomes(d, m)
      BY <1>2, <1>5 DEF Peer, Answer, Arrive, HangUp
<1>6. CASE UNCHANGED sockVars \/ UNCHANGED vars
      BY <1>2, <1>6 DEF sockVars, vars
<1> QED BY <1>3, <1>4, <1>5, <1>6, MethodBecomes, NextCases DEF Service

\* A lost connection is reported, and what cannot be written to has nothing to write.
LEMMA LossStep ==
    ASSUME TypeOK, FitInv, LossInv, [Next]_vars
    PROVE  LossInv'
<1>0. PICK d \in Sockets : \E m : Becomes(d, m)
      BY StepBecomes
<1>1. PICK m : Becomes(d, m)
      BY <1>0
<1>2. /\ sock \in [Sockets -> Members] /\ sock' = [sock EXCEPT ![d] = m]
      BY <1>1 DEF TypeOK, Becomes
<1>3. ASSUME NEW s \in Data, ~sock'[s].writable PROVE sock'[s].out = 0
      <2>1. Emptied(sock[s])
            BY DEF LossInv, Emptied
      <2>2. s \in Sockets
            BY DEF Data
      <2>3. Emptied(sock'[s])
            BY <1>1, <1>2, <2>1, <2>2 DEF Becomes
      <2> QED BY <1>3, <2>3 DEF Emptied
<1>4. ASSUME NEW s \in Data, sock'[s].open, ~sock'[s].connected, ~sock'[s].writable
      PROVE  told'[s] \cap Losses # {}
      <2>1. s \in Sockets
            BY DEF Data
      <2>2. told[s] \cap Losses \subseteq told'[s]
            BY <1>1, <1>4, <2>1 DEF Becomes
      <2>3. sock[s].open /\ Lost(sock[s]) => told[s] \cap Losses # {}
            BY DEF LossInv, LossIsTold, Lost, Losses
      <2>4. CASE s # d
            BY <1>2, <1>4, <2>1, <2>2, <2>3, <2>4 DEF Lost
      <2>5. CASE s = d
            <3>1. sock'[s] = m /\ Lost(m) /\ m.open
                  BY <1>2, <1>4, <2>1, <2>5 DEF Lost
            <3>2. (sock[s].open /\ Lost(sock[s])) \/ told'[s] \cap Losses # {}
                  BY <1>1, <2>5, <3>1 DEF Becomes
            <3> QED BY <2>2, <2>3, <3>2
      <2> QED BY <2>4, <2>5
<1>5. /\ LossInv' <=> /\ \A s \in Data : ~sock'[s].writable => sock'[s].out = 0
                      /\ LossIsTold'
      BY DEF LossInv
<1>6. LossIsTold'
      BY <1>4 DEF LossIsTold, Losses
<1> QED BY <1>3, <1>5, <1>6

\* A job that fits an open socket goes on to fit it.
LEMMA FitKept ==
    ASSUME TypeOK, FitInv, [Next]_vars,
           NEW s \in Sockets, NEW job, sock[s].open, JobFits(s, job, sock[s])
    PROVE  JobFits(s, job, sock'[s])
<1>0. PICK d \in Sockets : \E m : Becomes(d, m)
      BY StepBecomes
<1>1. PICK m : Becomes(d, m)
      BY <1>0
<1>2. sock \in [Sockets -> Members] /\ sock' = [sock EXCEPT ![d] = m]
      BY <1>1 DEF TypeOK, Becomes
<1>3. Alive(sock[s]) => Alive(sock'[s])
      BY <1>1, <1>2 DEF Becomes
<1> QED BY <1>3 DEF JobFits, Alive

\* A new job fits its data socket.
LEMMA NewJobFits ==
    ASSUME NEW s \in Data, NEW m \in Members, NewJob(m) # None
    PROVE  JobFits(s, NewJob(m), m)
<1>1. NewJob(m).serve = "connected" => Alive(m)
      BY NewJobAlive
<1>2. s \notin Listeners
      BY DEF Data
<1> QED BY <1>1, <1>2 DEF JobFits, Alive

\* The jobs in the list fit their sockets.
LEMMA JobsFittedStep ==
    ASSUME TypeOK, FitInv, CallInv, JobInv, [Next]_vars
    PROVE  JobsFitted'
<1> DEFINE N == Len(jobs)
<1>1. /\ DOMAIN jobs = 1 .. N /\ N \in Nat
      /\ \A i \in 1 .. N : jobs[i].sock \in Sockets
      BY EntryType DEF TypeOK
<1>2. ASSUME NEW i \in 1 .. N, HasJob(jobs[i])
      PROVE  JobFits(jobs[i].sock, jobs[i].job, sock'[jobs[i].sock])
      <2>1. /\ jobs[i].sock \in Sockets /\ sock[jobs[i].sock].open
            /\ JobFits(jobs[i].sock, jobs[i].job, sock[jobs[i].sock])
            BY <1>1, <1>2 DEF JobInv, FitInv, JobsFitted
      <2> QED BY <2>1, FitKept
<1> HIDE DEF N
<1>3. ASSUME DOMAIN jobs' = 1 .. N,
             \A i \in 1 .. N : HasJob(jobs'[i]) =>
                 \/ jobs'[i] = jobs[i]
                 \/ JobFits(jobs'[i].sock, jobs'[i].job, sock'[jobs'[i].sock])
      PROVE  JobsFitted'
      BY <1>2, <1>3 DEF JobsFitted
<1>4. CASE UNCHANGED jobs
      BY <1>1, <1>3, <1>4
<1>5. ASSUME NEW u \in Users, AddSocket(u), UNCHANGED sockVars PROVE JobsFitted'
      <2>1. JobFits(call[u].sock, call[u].job, sock'[call[u].sock])
            BY <1>5 DEF AddSocket, FitInv, CallsFitted, sockVars
      <2>2. /\ DOMAIN jobs' = 1 .. N \/ (/\ DOMAIN jobs' = 1 .. (N + 1)
                                         /\ jobs'[N + 1] = call[u])
            /\ \A i \in 1 .. N :
                  jobs'[i] = IF jobs[i].sock = call[u].sock THEN call[u] ELSE jobs[i]
            BY <1>5, AddAt DEF N
      <2>3. \A i \in 1 .. (N + 1) : i \in 1 .. N \/ i = N + 1
            BY <1>1
      <2>4. \A i \in 1 .. N : HasJob(jobs'[i]) =>
                JobFits(jobs'[i].sock, jobs'[i].job, sock'[jobs'[i].sock])
            BY <1>2, <2>1, <2>2
      <2> QED BY <2>1, <2>2, <2>3, <2>4 DEF JobsFitted
<1>6. ASSUME NEW u \in Users, RemoveSocket(u) PROVE JobsFitted'
      <2>1. /\ DOMAIN jobs' = 1 .. N /\ call[u].job = None
            /\ \A i \in 1 .. N :
                  jobs'[i] = IF jobs[i].sock = call[u].sock /\ HasJob(jobs[i])
                             THEN call[u] ELSE jobs[i]
            BY <1>6, RemoveAt DEF N
      <2> QED BY <1>3, <2>1 DEF HasJob
<1>7. CASE SweepRemoved
      <2> DEFINE M == Len(jobs')
      <2>1. /\ DOMAIN jobs' = 1 .. M
            /\ \E h \in [1 .. M -> 1 .. N] :
                 \A k \in 1 .. M : jobs'[k] = jobs[h[k]] /\ HasJob(jobs[h[k]])
            BY <1>7, SweepAt DEF N
      <2> HIDE DEF M
      <2>2. PICK h \in [1 .. M -> 1 .. N] :
                 \A k \in 1 .. M : jobs'[k] = jobs[h[k]] /\ HasJob(jobs[h[k]])
            BY <2>1
      <2> QED BY <1>2, <2>1, <2>2 DEF JobsFitted
<1>8. CASE ServiceConnecting \/ ServiceConnected
      <2>1. PICK m, e, job :
                /\ Serves(Current, m, e, job)
                /\ job # None /\ job.serve = "connected" => Alive(m)
            BY <1>8, ServiceData
      <2>2. /\ at \in 1 .. N /\ DOMAIN jobs' = 1 .. N
            /\ jobs'[at].job = job /\ jobs'[at].sock = Current
            /\ \A i \in 1 .. N : i # at => jobs'[i] = jobs[i]
            BY <2>1, RunAt DEF N, Current, Serves
      <2>3. Current \in Data /\ Current \in Sockets
            BY <1>8, ServiceData DEF Data
      <2>4. sock'[Current] = m
            BY <2>1, <2>3 DEF Serves, TypeOK
      <2>5. HasJob(jobs'[at]) => JobFits(jobs'[at].sock, jobs'[at].job, sock'[jobs'[at].sock])
            BY <2>1, <2>2, <2>3, <2>4 DEF JobFits, Alive, HasJob, Data
      <2> QED BY <1>3, <2>2, <2>5
<1>9. CASE ServiceListening
      <2>1. PICK job \in {None, jobs[at].job} : RunJob(job)
            BY <1>9 DEF ServiceListening
      <2>2. /\ at \in 1 .. N /\ DOMAIN jobs' = 1 .. N /\ HasJob(jobs[at])
            /\ jobs'[at].job = job /\ jobs'[at].sock = jobs[at].sock
            /\ \A i \in 1 .. N : i # at => jobs'[i] = jobs[i]
            BY <2>1, RunAt DEF N
      <2>3. HasJob(jobs'[at]) => JobFits(jobs'[at].sock, jobs'[at].job, sock'[jobs'[at].sock])
            BY <1>2, <2>1, <2>2 DEF HasJob
      <2> QED BY <1>3, <2>2, <2>3
<1> QED BY <1>4, <1>5, <1>6, <1>7, <1>8, <1>9, JobsFrame DEF Service

\* The jobs that are handed over fit their sockets.
LEMMA CallsFittedStep ==
    ASSUME TypeOK, PcInv, FitInv, CallInv, ListenInv, [Next]_vars
    PROVE  CallsFitted'
<1>1. /\ call \in [Users -> Entries] /\ sock \in [Sockets -> Members]
      BY DEF TypeOK
<1>2. \A u \in Users : call[u].sock \in Sockets /\ call[u] \in Entries
      BY <1>1, EntryType
<1>3. ASSUME NEW v \in Users, call'[v] = call[v], call[v].job # None
      PROVE  JobFits(call'[v].sock, call'[v].job, sock'[call'[v].sock])
      <2>1. /\ sock[call[v].sock].open /\ call[v].sock \in Sockets
            /\ JobFits(call[v].sock, call[v].job, sock[call[v].sock])
            BY <1>2, <1>3 DEF CallInv, CallOf, Handing, FitInv, CallsFitted
      <2>2. JobFits(call[v].sock, call[v].job, sock'[call[v].sock])
            BY <2>1, FitKept
      <2> QED BY <1>3, <2>2
<1>4. ASSUME NEW u \in Users, \A v \in Users \ {u} : call'[v] = call[v],
             \/ call'[u].job = None \/ call'[u] = call[u]
             \/ JobFits(call'[u].sock, call'[u].job, sock'[call'[u].sock])
      PROVE  CallsFitted'
      BY <1>3, <1>4 DEF CallsFitted
<1>5. ASSUME UNCHANGED call PROVE CallsFitted'
      BY <1>3, <1>5 DEF CallsFitted
<1>6. ASSUME NEW u \in Users, UnlockJobList(u, call[u].then) PROVE CallsFitted'
      <2>1. call'[u].job = None /\ \A v \in Users \ {u} : call'[v] = call[v]
            <3>1. call'[u] = [call[u] EXCEPT !.job = None] \/ u = Mux
                  BY <1>1, <1>6 DEF UnlockJobList
            <3>2. u # Mux
                  BY MuxAssumption
            <3>3. [call[u] EXCEPT !.job = None].job = None
                  BY <1>2 DEF Entries
            <3> QED BY <1>1, <1>6, <3>1, <3>2, <3>3 DEF UnlockJobList
      <2> QED BY <1>4, <2>1
<1>7. ASSUME NEW u \in Users, SocketMethod(u) PROVE CallsFitted'
      <2>1. \A v \in Users \ {u} : call'[v] = call[v]
            BY <1>7, MethodFrame
      <2>2. ASSUME NEW s \in Sockets, NEW job, NEW then, SetJob(u, s, job, then),
                   job = None \/ JobFits(s, job, sock'[s])
            PROVE  CallsFitted'
            <3>1. call'[u].sock = s /\ call'[u].job = job
                  BY <2>2, SetJobCall
            <3> QED BY <1>4, <2>1, <2>2, <3>1
      <2>3. ASSUME NEW l \in Listeners, NEW then, SetJob(u, l, Listening, then)
            PROVE  CallsFitted'
            <3>1. \A m : JobFits(l, Listening, m)
                  BY DEF JobFits, Listening
            <3>2. l \in Sockets
                  BY SocketAssumption
            <3> QED BY <2>2, <2>3, <3>1, <3>2
      <2>4. CASE MakeJob(u)
            <3> DEFINE s == call[u].sock
            <3>1. s \in Data /\ s \in Sockets /\ sock' = sock /\ sock[s] \in Members
                  BY <1>1, <1>2, <2>4 DEF MakeJob, CallInv, CallOf, sockVars
            <3>2. NewJob(sock[s]) = None \/ JobFits(s, NewJob(sock[s]), sock'[s])
                  BY <3>1, NewJobFits
            <3>3. SetJob(u, s, NewJob(sock[s]), call[u].then)
                  BY <2>4 DEF MakeJob
            <3> QED BY <2>2, <3>1, <3>2, <3>3
      <2>5. ASSUME call'[u].job = call[u].job, pc[u] \in {"idle", "shut"} PROVE CallsFitted'
            <3>1. call[u].job = None
                  BY <2>5 DEF CallInv, CallOf, Handing
            <3> QED BY <1>4, <2>1, <2>5, <3>1
      <2>6. CASE FinishClose(u)
            <3>1. call'[u] = [call[u] EXCEPT !.then = "idle"] /\ pc[u] = "shut"
                  BY <1>1, <2>6 DEF FinishClose
            <3>2. call'[u].job = call[u].job
                  BY <1>2, <3>1 DEF Entries
            <3> QED BY <2>5, <3>1, <3>2
      <2>7. ASSUME NEW s \in Sockets, Connect(u, s) \/ (Write(u, s) /\ sock[s].out = 0)
            PROVE  CallsFitted'
            <3>1. call'[u] = [call[u] EXCEPT !.sock = s, !.then = "idle"] /\ pc[u] = "idle"
                  BY <1>1, <2>7 DEF Connect, Write, Idle
            <3>2. call'[u].job = call[u].job
                  BY <1>2, <3>1 DEF Entries
            <3> QED BY <2>5, <3>1, <3>2
      <2>8. ASSUME NEW s \in Sockets, (Write(u, s) /\ sock[s].out # 0) \/ AcceptFails(u, s)
            PROVE  CallsFitted'
            BY <1>5, <2>8 DEF Write, AcceptFails
      <2>9. ASSUME NEW s \in Sockets, Read(u, s) PROVE CallsFitted'
            <3>1. s \in Data /\ \E m \in Members :
                    /\ sock' = [sock EXCEPT ![s] = m]
                    /\ SetJob(u, s, NewJob(m), "idle") \/ UNCHANGED call
                  <4>1. sock' \in [Sockets -> Members]
                        BY <2>9, UserStepType DEF TypeOK
                  <4>2. s \in Data /\ \E m :
                          /\ sock' = [sock EXCEPT ![s] = m]
                          /\ SetJob(u, s, NewJob(m), "idle") \/ UNCHANGED call
                        BY <2>9 DEF Read
                  <4> QED BY <1>1, <4>1, <4>2
            <3>2. PICK m \in Members : /\ sock' = [sock EXCEPT ![s] = m]
                                       /\ SetJob(u, s, NewJob(m), "idle") \/ UNCHANGED call
                  BY <3>1
            <3>3. sock'[s] = m
                  BY <1>1, <3>2
            <3>4. NewJob(m) = None \/ JobFits(s, NewJob(m), sock'[s])
                  BY <3>1, <3>3, NewJobFits
            <3> QED BY <1>5, <2>2, <3>2, <3>4
      <2>10. ASSUME NEW s \in Sockets, Close(u, s) PROVE CallsFitted'
            BY <2>2, <2>10 DEF Close
      <2>11. ASSUME NEW s \in Sockets, Bind(u, s) \/ SetListeningJob(u, s)
             PROVE  CallsFitted'
            BY <2>3, <2>11 DEF Bind, SetListeningJob
      <2>12. ASSUME NEW l \in Sockets, NEW s \in Sockets, Accept(u, l, s)
             PROVE  CallsFitted'
            <3> DEFINE m == Connected([Fresh EXCEPT !.open = TRUE])
            <3>1. m \in Members
                  BY MembersType
            <3>2. s \in Data /\ sock' = [sock EXCEPT ![s] = m]
                  /\ SetJob(u, s, NewJob(m), "relisten")
                  BY <2>12 DEF Accept
            <3> HIDE DEF m
            <3>3. sock'[s] = m
                  BY <1>1, <3>2
            <3>4. NewJob(m) = None \/ JobFits(s, NewJob(m), sock'[s])
                  BY <3>1, <3>2, <3>3, NewJobFits
            <3> QED BY <2>2, <3>2, <3>4
      <2> QED BY <1>7, <2>4, <2>6, <2>7, <2>8, <2>9, <2>10, <2>11, <2>12 DEF SocketMethod
<1>8. CASE Service
      BY <1>5, <1>8, ServiceFrame
<1>9. ASSUME NEW s \in Sockets, Peer(s) PROVE CallsFitted'
      BY <1>5, <1>9 DEF Peer, Answer, Arrive, HangUp, muxVars
<1>10. ASSUME NEW t \in Threads, LockJobListLock(t) \/ LockJobList(t) PROVE CallsFitted'
      BY <1>5, <1>10 DEF LockJobListLock, LockJobList
<1>11. ASSUME NEW u \in Users, UnblockPollSocket(u) \/ AddSocket(u) \/ RemoveSocket(u)
       PROVE  CallsFitted'
      BY <1>5, <1>11 DEF UnblockPollSocket, AddSocket, RemoveSocket
<1>12. ASSUME \/ UnlockJobList(Mux, "wait") \/ WaitForJobs \/ CollectPollEntries
              \/ EnterPoll \/ ReturnFromPoll(Happened) \/ SkipRemoved \/ SweepRemoved
              \/ UNCHANGED vars
       PROVE  CallsFitted'
      BY <1>5, <1>12 DEF UnlockJobList, WaitForJobs, CollectPollEntries, EnterPoll,
         ReturnFromPoll, SkipRemoved, SweepRemoved, vars, muxVars
<1> QED BY <1>6, <1>7, <1>8, <1>9, <1>10, <1>11, <1>12, NextCases

-----------------------------------------------------------------------------
(* The listening sockets.                                                  *)

\* What a socket method leaves with its thread.
LEMMA MethodCall ==
    ASSUME TypeOK, CallInv, NEW u \in Users, SocketMethod(u)
    PROVE  /\ \/ call'[u].job = None \/ call'[u].sock \in Data
              \/ \E l \in Sockets : (Bind(u, l) \/ SetListeningJob(u, l)) /\ call'[u].sock = l
           /\ call'[u].then = "relisten" =>
                 \/ call[u].then = "relisten"
                 \/ \E l, s \in Sockets : Accept(u, l, s)
           /\ \A l \in Sockets : Bind(u, l) \/ SetListeningJob(u, l) =>
                 call'[u].then = "idle"
<1> DEFINE Goal ==
        /\ \/ call'[u].job = None \/ call'[u].sock \in Data
           \/ \E l \in Sockets : (Bind(u, l) \/ SetListeningJob(u, l)) /\ call'[u].sock = l
        /\ call'[u].then = "relisten" =>
              \/ call[u].then = "relisten"
              \/ \E l, s \in Sockets : Accept(u, l, s)
<1>1. /\ call \in [Users -> Entries] /\ call[u] \in Entries /\ call[u].sock \in Sockets
      BY EntryType DEF TypeOK
<1>2. pc[u] \in {"idle", "shut", "makeJob"} => call[u].job = None
      BY DEF CallInv, CallOf, Handing
<1>3. ASSUME NEW l \in Sockets, Bind(u, l) \/ SetListeningJob(u, l)
      PROVE  call'[u].sock = l /\ call'[u].then = "idle"
      <2>1. SetJob(u, l, Listening, "idle")
            BY <1>3 DEF Bind, SetListeningJob
      <2> QED BY <2>1, SetJobCall
<1>4. CASE MakeJob(u)
      <2>1. SetJob(u, call[u].sock, NewJob(sock[call[u].sock]), call[u].then)
            /\ call[u].sock \in Data
            BY <1>4 DEF MakeJob, CallInv, CallOf
      <2>2. call'[u].sock = call[u].sock /\ call'[u].then = call[u].then
            BY <2>1, SetJobCall
      <2>3. Goal
            BY <2>1, <2>2
      <2> QED BY <1>3, <2>3
<1>5. CASE FinishClose(u)
      <2>1. call'[u] = [call[u] EXCEPT !.then = "idle"] /\ pc[u] = "shut"
            BY <1>1, <1>5 DEF FinishClose
      <2>2. call'[u].job = call[u].job /\ call'[u].then = "idle"
            BY <1>1, <2>1 DEF Entries
      <2>3. Goal
            BY <1>2, <2>1, <2>2
      <2> QED BY <1>3, <2>3
<1>6. ASSUME NEW s \in Sockets, Connect(u, s) \/ (Write(u, s) /\ sock[s].out = 0)
      PROVE  Goal
      <2>1. call'[u] = [call[u] EXCEPT !.sock = s, !.then = "idle"] /\ pc[u] = "idle"
            BY <1>1, <1>6 DEF Connect, Write, Idle
      <2>2. call'[u].job = call[u].job /\ call'[u].then = "idle"
            BY <1>1, <2>1 DEF Entries
      <2> QED BY <1>2, <2>1, <2>2
<1>7. ASSUME NEW s \in Sockets, (Write(u, s) /\ sock[s].out # 0) \/ AcceptFails(u, s)
      PROVE  Goal
      <2>1. call' = call /\ pc[u] = "idle"
            BY <1>7 DEF Write, AcceptFails, Idle
      <2> QED BY <1>2, <2>1
<1>8. ASSUME NEW s \in Sockets, Read(u, s) PROVE Goal
      <2>1. (\E job : SetJob(u, s, job, "idle")) \/ UNCHANGED call
            BY <1>8 DEF Read
      <2>2. s \in Data /\ pc[u] = "idle"
            BY <1>8 DEF Read, Idle
      <2>3. ASSUME NEW job, SetJob(u, s, job, "idle")
            PROVE  call'[u].sock = s /\ call'[u].then = "idle"
            BY <2>3, SetJobCall
      <2> QED BY <1>2, <2>1, <2>2, <2>3
<1>9. ASSUME NEW s \in Sockets, Close(u, s) PROVE Goal
      <2>1. SetJob(u, s, None, "shut")
            BY <1>9 DEF Close
      <2>2. call'[u].job = None /\ call'[u].then = "shut"
            BY <2>1, SetJobCall
      <2> QED BY <2>2
<1>10. ASSUME NEW l \in Sockets, NEW s \in Sockets, Accept(u, l, s) PROVE Goal
      <2>1. s \in Data /\ SetJob(u, s, NewJob(Connected([Fresh EXCEPT !.open = TRUE])),
                                 "relisten")
            BY <1>10 DEF Accept
      <2>2. call'[u].sock = s
            BY <2>1, SetJobCall
      <2> QED BY <1>10, <2>1, <2>2
<1>11. ASSUME NEW l \in Sockets, Bind(u, l) \/ SetListeningJob(u, l) PROVE Goal
      BY <1>3, <1>11
<1>12. (\E s \in Sockets : \/ Connect(u, s) \/ Write(u, s) \/ Read(u, s) \/ Close(u, s)
                          \/ Bind(u, s) \/ AcceptFails(u, s) \/ SetListeningJob(u, s)
                          \/ \E d \in Sockets : Accept(u, s, d)) => Goal
      BY <1>6, <1>7, <1>8, <1>9, <1>10, <1>11
<1> HIDE DEF Goal
<1>13. Goal
      BY <1>4, <1>5, <1>12 DEF SocketMethod, Goal
<1> QED BY <1>3, <1>13 DEF Goal

\* A thread has a job for a listening socket in its hands only from bind() or when the
\* accepted socket has its own.
LEMMA ListenCall ==
    ASSUME TypeOK, PcInv, CallInv, [Next]_vars, NEW u \in Users, NEW l \in Listeners,
           call'[u].sock = l, call'[u].job # None
    PROVE  \/ Bind(u, l) \/ SetListeningJob(u, l)
           \/ call[u].sock = l /\ call[u].job # None /\ (pc[u] = "unlock" => pc'[u] = "unlock")
<1>1. /\ call \in [Users -> Entries] /\ pc \in [Threads -> Labels] /\ call[u] \in Entries
      /\ Mux \in Threads /\ Mux \notin Users /\ \A v \in Users : v \in Threads
      BY MuxAssumption DEF TypeOK, Threads
<1>2. CASE UNCHANGED <<pc, call>>
      BY <1>2
<1>3. ASSUME NEW t \in Threads, NEW label, UnlockJobList(t, label)
      PROVE  call[u].sock = l /\ call[u].job # None /\ (pc[u] = "unlock" => pc'[u] = "unlock")
      <2>1. CASE t = u
            <3>1. call'[u] = [call[u] EXCEPT !.job = None]
                  BY <1>1, <1>3, <2>1 DEF UnlockJobList
            <3>2. call'[u].job = None
                  BY <1>1, <3>1 DEF Entries
            <3> QED BY <3>2
      <2>2. CASE t # u
            BY <1>1, <1>3, <2>2 DEF UnlockJobList, Goto
      <2> QED BY <2>1, <2>2
<1>4. ASSUME NEW t \in Threads, NEW label, Goto(t, label), call' = call,
             t # u \/ pc[u] # "unlock"
      PROVE  call[u].sock = l /\ call[u].job # None /\ (pc[u] = "unlock" => pc'[u] = "unlock")
      BY <1>1, <1>4 DEF Goto
<1>5. ASSUME NEW t \in Threads, LockJobListLock(t) \/ LockJobList(t)
      PROVE  call[u].sock = l /\ call[u].job # None /\ (pc[u] = "unlock" => pc'[u] = "unlock")
      <2>1. pc[t] # "unlock" /\ call' = call /\ \E label : Goto(t, label)
            BY <1>5 DEF LockJobListLock, LockJobList
      <2> QED BY <1>4, <2>1
<1>6. ASSUME NEW v \in Users, UnblockPollSocket(v) \/ AddSocket(v) \/ RemoveSocket(v)
      PROVE  call[u].sock = l /\ call[u].job # None /\ (pc[u] = "unlock" => pc'[u] = "unlock")
      <2>1. pc[v] # "unlock" /\ call' = call /\ \E label : Goto(v, label)
            BY <1>6 DEF UnblockPollSocket, AddSocket, RemoveSocket
      <2> QED BY <1>1, <1>4, <2>1
<1>7. ASSUME \/ WaitForJobs \/ CollectPollEntries \/ EnterPoll
             \/ ReturnFromPoll(Happened) \/ SkipRemoved \/ SweepRemoved
      PROVE  call[u].sock = l /\ call[u].job # None /\ (pc[u] = "unlock" => pc'[u] = "unlock")
      <2>1. call' = call /\ (UNCHANGED pc \/ \E label : Goto(Mux, label))
            BY <1>7 DEF WaitForJobs, CollectPollEntries, EnterPoll, ReturnFromPoll,
               SkipRemoved, SweepRemoved
      <2> QED BY <1>1, <1>4, <2>1
<1>8. ASSUME NEW v \in Users, SocketMethod(v)
      PROVE  \/ Bind(u, l) \/ SetListeningJob(u, l)
             \/ call[u].sock = l /\ call[u].job # None /\ (pc[u] = "unlock" => pc'[u] = "unlock")
      <2>1. CASE v = u
            BY <1>8, <2>1, MethodCall DEF Data
      <2>2. CASE v # u
            <3>1. call'[u] = call[u] /\ pc'[u] = pc[u]
                  BY <1>1, <1>8, <2>2, MethodFrame
            <3> QED BY <3>1
      <2> QED BY <2>1, <2>2
<1>9. CASE Service
      BY <1>2, <1>9, ServiceFrame
<1>10. ASSUME (\E s \in Sockets : Peer(s)) \/ UNCHANGED vars PROVE UNCHANGED <<pc, call>>
      BY <1>10 DEF Peer, Answer, Arrive, HangUp, muxVars, vars
<1> QED BY <1>1, <1>2, <1>3, <1>5, <1>6, <1>7, <1>8, <1>9, <1>10, NextCases

\* A thread is to add a listening socket's job again only after it accepted.
LEMMA RelistenCall ==
    ASSUME TypeOK, PcInv, CallInv, [Next]_vars, NEW u \in Users, call'[u].then = "relisten"
    PROVE  /\ call[u].then = "relisten" \/ \E l, s \in Sockets : Accept(u, l, s)
           /\ \A l \in Sockets : ~Bind(u, l) /\ ~SetListeningJob(u, l)
<1>1. /\ call \in [Users -> Entries] /\ call[u] \in Entries
      BY DEF TypeOK
<1>2. ASSUME NEW l \in Sockets, Bind(u, l) \/ SetListeningJob(u, l) PROVE FALSE
      <2>1. SetJob(u, l, Listening, "idle")
            BY <1>2 DEF Bind, SetListeningJob
      <2> QED BY <2>1, SetJobCall
<1>3. CASE UNCHANGED call
      BY <1>2, <1>3
<1>4. ASSUME NEW t \in Threads, NEW label, UnlockJobList(t, label)
      PROVE  call[u].then = "relisten"
      <2>1. call'[u] = call[u] \/ call'[u] = [call[u] EXCEPT !.job = None]
            BY <1>1, <1>4 DEF UnlockJobList
      <2> QED BY <1>1, <2>1 DEF Entries
<1>5. ASSUME NEW v \in Users, SocketMethod(v)
      PROVE  call[u].then = "relisten" \/ \E l, s \in Sockets : Accept(u, l, s)
      <2>1. CASE v = u
            BY <1>5, <2>1, MethodCall
      <2>2. CASE v # u
            <3>1. call'[u] = call[u]
                  BY <1>5, <2>2, MethodFrame
            <3> QED BY <3>1
      <2> QED BY <2>1, <2>2
<1>6. ASSUME \/ \E t \in Threads : LockJobListLock(t) \/ LockJobList(t)
             \/ \E v \in Users : UnblockPollSocket(v) \/ AddSocket(v) \/ RemoveSocket(v)
             \/ WaitForJobs \/ CollectPollEntries \/ EnterPoll
             \/ ReturnFromPoll(Happened) \/ SkipRemoved \/ SweepRemoved
      PROVE  UNCHANGED call
      BY <1>6 DEF LockJobListLock, LockJobList, UnblockPollSocket, AddSocket, RemoveSocket,
         WaitForJobs, CollectPollEntries, EnterPoll, ReturnFromPoll, SkipRemoved, SweepRemoved
<1>7. ASSUME Service \/ (\E s \in Sockets : Peer(s)) \/ UNCHANGED vars PROVE UNCHANGED call
      BY <1>7, ServiceFrame DEF Peer, Answer, Arrive, HangUp, muxVars, vars
<1>8. Mux \in Threads /\ \A v \in Users : v \in Threads
      BY DEF Threads
<1> QED BY <1>2, <1>3, <1>4, <1>5, <1>6, <1>7, <1>8, NextCases

\* What happens to a listening socket at the kernel's end: its connections wait until
\* one is accepted, and what is bound stays so.
LEMMA ListenNet ==
    ASSUME TypeOK, PcInv, FitInv, CallInv, [Next]_vars, NEW l \in Listeners
    PROVE  /\ net'[l].peer = "none" => net[l].peer = "none" /\ \A u \in Users : ~Bind(u, l)
           /\ net[l].in >= 1 => net'[l].in >= 1 \/ \E u \in Users, s \in Sockets : Accept(u, l, s)
           /\ net[l].peer \in {"none", "open"} => net'[l].peer \in {"none", "open"}
<1>1. /\ net \in [Sockets -> Kernel] /\ l \in Sockets /\ net[l] \in Kernel
      /\ net[l].in \in 0 .. (MaxIn + 1) /\ MaxIn = 2
      BY SocketAssumption DEF TypeOK, Kernel, MaxIn
<1> DEFINE Goal ==
        /\ net'[l].peer = "none" => net[l].peer = "none" /\ \A u \in Users : ~Bind(u, l)
        /\ net[l].in >= 1 => net'[l].in >= 1 \/ \E u \in Users, s \in Sockets : Accept(u, l, s)
        /\ net[l].peer \in {"none", "open"} => net'[l].peer \in {"none", "open"}
<1>2. ASSUME net'[l] = net[l], \A u \in Users : ~Bind(u, l) PROVE Goal
      BY <1>2
<1>3. ASSUME NEW u \in Users, Bind(u, l) PROVE Goal
      <2>1. net' = [net EXCEPT ![l].peer = "open"]
            BY <1>3 DEF Bind
      <2>2. net'[l].peer = "open" /\ net'[l].in = net[l].in
            BY <1>1, <2>1 DEF Kernel
      <2> QED BY <2>2
<1>4. ASSUME NEW d \in Data, NEW k, net' = [net EXCEPT ![d] = k],
             \A u \in Users : ~Bind(u, l)
      PROVE  Goal
      BY <1>1, <1>2, <1>4 DEF Data
<1>5. ASSUME net' = net, \A u \in Users : ~Bind(u, l) PROVE Goal
      BY <1>2, <1>5
<1>6. ASSUME NEW u \in Users, SocketMethod(u) PROVE Goal
      <2>1. CASE \E v \in Users : Bind(v, l)
            BY <1>3, <2>1
      <2>2. CASE \A v \in Users : ~Bind(v, l)
            <3>1. CASE MakeJob(u)
                  BY <1>5, <2>2, <3>1 DEF MakeJob, sockVars
            <3>2. CASE FinishClose(u)
                  <4>1. call[u].sock \in Data
                        BY <3>2 DEF FinishClose, CallInv, CallOf
                  <4>2. net' = [net EXCEPT ![call[u].sock] = [in |-> 0, peer |-> "none"]]
                        BY <3>2 DEF FinishClose
                  <4> QED BY <1>4, <2>2, <4>1, <4>2
            <3>3. ASSUME NEW s \in Sockets, Connect(u, s) PROVE Goal
                  <4>1. s \in Data /\ \E p : net' = [net EXCEPT ![s].peer = p]
                        BY <3>3 DEF Connect
                  <4> QED BY <1>4, <2>2, <4>1
            <3>4. ASSUME NEW s \in Sockets, \/ Write(u, s) \/ Read(u, s) \/ Close(u, s)
                                            \/ AcceptFails(u, s) \/ SetListeningJob(u, s)
                  PROVE  Goal
                  BY <1>5, <2>2, <3>4 DEF Write, Read, Close, AcceptFails, SetListeningJob,
                     sockVars
            <3>5. ASSUME NEW k \in Sockets, Bind(u, k) PROVE Goal
                  <4>1. k # l /\ \E p : net' = [net EXCEPT ![k].peer = p]
                        BY <2>2, <3>5 DEF Bind
                  <4> QED BY <1>1, <1>2, <2>2, <4>1
            <3>6. ASSUME NEW k \in Sockets, NEW s \in Sockets, Accept(u, k, s) PROVE Goal
                  <4>1. /\ s \in Data /\ s # l
                        /\ net' = [net EXCEPT ![k].in = @ - 1,
                                              ![s] = [in |-> 0, peer |-> "open"]]
                        BY <3>6 DEF Accept, Data
                  <4>2. CASE k = l
                        <5>1. net'[l].peer = net[l].peer
                              BY <1>1, <4>1, <4>2 DEF Kernel
                        <5> QED BY <2>2, <3>6, <4>2, <5>1
                  <4>3. CASE k # l
                        BY <1>1, <1>2, <2>2, <4>1, <4>3
                  <4> QED BY <4>2, <4>3
            <3> QED BY <1>6, <3>1, <3>2, <3>3, <3>4, <3>5, <3>6 DEF SocketMethod
      <2> QED BY <2>1, <2>2
<1>7. ASSUME ServiceConnecting \/ ServiceConnected PROVE Goal
      <2>1. PICK m, e, job : Serves(Current, m, e, job)
            BY <1>7, ServiceData
      <2>2. Current \in Data
            BY <1>7, ServiceData
      <2>3. net' = net \/ \E k : net' = [net EXCEPT ![Current] = k]
            BY <2>1 DEF Serves
      <2>4. \A u \in Users : ~Bind(u, l)
            <3>1. SUFFICES ASSUME NEW u \in Users, Bind(u, l) PROVE FALSE
                  OBVIOUS
            <3>2. UNCHANGED <<pc, jobs>> /\ pc[Mux] = "run" /\ u # Mux
                  BY <1>7, <3>1, MuxAssumption, ServiceFrame
                     DEF Service, Bind, MuxRest, InPass
            <3>3. pc[u] = "idle" /\ pc'[u] = "lockLock"
                  BY <3>1, SetJobCall, SocketAssumption DEF Bind, Idle
            <3> QED BY <3>2, <3>3
      <2> QED BY <1>4, <1>5, <2>2, <2>3, <2>4
<1>8. ASSUME UNCHANGED pc, NEW u \in Users PROVE ~Bind(u, l)
      <2>1. SUFFICES ASSUME Bind(u, l) PROVE FALSE
            OBVIOUS
      <2>2. pc[u] = "idle" /\ pc'[u] = "lockLock"
            BY <2>1, SetJobCall DEF Bind, Idle
      <2> QED BY <1>8, <2>2
<1>9. ASSUME NEW s \in Sockets, Peer(s) PROVE Goal
      <2>1. \A u \in Users : ~Bind(u, l)
            BY <1>8, <1>9 DEF Peer, Answer, Arrive, HangUp, muxVars
      <2>2. CASE s # l
            <3>1. \E k : net' = [net EXCEPT ![s] = k]
                  BY <1>9 DEF Peer, Answer, Arrive, HangUp
            <3> QED BY <1>1, <1>2, <2>1, <2>2, <3>1
      <2>3. CASE s = l
            <3>1. l \notin Data
                  BY DEF Data
            <3>2. \/ \E p \in {"open", "refused"} : net' = [net EXCEPT ![l].peer = p]
                     /\ net[l].peer = "dialing"
                  \/ net' = [net EXCEPT ![l].in = 2] /\ net[l].peer = "open"
                  BY <1>9, <2>3, <3>1 DEF Peer, Answer, Arrive, HangUp
            <3>3. CASE \E p \in {"open", "refused"} : net' = [net EXCEPT ![l].peer = p]
                       /\ net[l].peer = "dialing"
                  <4>1. net'[l].peer # "none" /\ net'[l].in = net[l].in
                        BY <1>1, <3>3 DEF Kernel
                  <4> QED BY <3>3, <4>1
            <3>4. CASE net' = [net EXCEPT ![l].in = 2] /\ net[l].peer = "open"
                  <4>1. net'[l].peer = "open" /\ net'[l].in = 2
                        BY <1>1, <3>4 DEF Kernel
                  <4> QED BY <4>1
            <3> QED BY <3>2, <3>3, <3>4
      <2> QED BY <2>2, <2>3
<1>10. ASSUME net' = net, \A u \in Users : ~SocketMethod(u) PROVE Goal
      <2>1. \A u \in Users : ~Bind(u, l)
            BY <1>1, <1>10 DEF SocketMethod
      <2> QED BY <1>5, <1>10, <2>1
<1>11. ASSUME ServiceListening \/ UNCHANGED sockVars \/ UNCHANGED vars PROVE Goal
      <2>1. net' = net
            BY <1>11 DEF ServiceListening, sockVars, vars
      <2> QED BY <1>6, <1>10, <2>1
<1> HIDE DEF Goal
<1>12. Goal
      BY <1>6, <1>7, <1>9, <1>11, NextCases DEF Service
<1> QED BY <1>12 DEF Goal

\* The events of a listening socket: the first of a pass that asks tells it.
LEMMA ListenTold ==
    ASSUME TypeOK, FitInv, CallInv, [Next]_vars, NEW l \in Listeners
    PROVE  /\ told'[l] \subseteq told[l]
              \/ (ServiceListening /\ Current = l /\ "in" \in Revented /\ RunJob(None))
           /\ \A u \in Users, s \in Sockets : Accept(u, l, s) => "connecting" \notin told'[l]
<1>1. /\ told \in [Sockets -> SUBSET Events] /\ l \in Sockets
      BY SocketAssumption DEF TypeOK
<1>2. ASSUME NEW u \in Users, NEW s \in Sockets, Accept(u, l, s)
      PROVE  "connecting" \notin told'[l] /\ told'[l] \subseteq told[l]
      BY <1>1, <1>2 DEF Accept
<1>3. ASSUME NEW u \in Users, SocketMethod(u) PROVE told'[l] \subseteq told[l]
      <2>1. CASE MakeJob(u)
            BY <2>1 DEF MakeJob, sockVars
      <2>2. CASE FinishClose(u)
            BY <1>1, <2>2 DEF FinishClose
      <2>3. ASSUME NEW s \in Sockets, \/ Connect(u, s) \/ Write(u, s) \/ Close(u, s)
                                      \/ Bind(u, s) \/ SetListeningJob(u, s)
            PROVE  told'[l] = told[l]
            BY <2>3 DEF Connect, Write, Close, Bind, SetListeningJob, sockVars
      <2>4. ASSUME NEW s \in Sockets, Read(u, s) PROVE told'[l] = told[l]
            <3>1. s # l /\ \E e : told' = [told EXCEPT ![s] = e]
                  BY <2>4 DEF Read, Data
            <3> QED BY <1>1, <3>1
      <2>5. ASSUME NEW k \in Sockets, \/ AcceptFails(u, k)
                                      \/ \E s \in Sockets : Accept(u, k, s)
            PROVE  told'[l] \subseteq told[l]
            BY <1>1, <2>5 DEF AcceptFails, Accept
      <2> QED BY <1>3, <2>1, <2>2, <2>3, <2>4, <2>5 DEF SocketMethod
<1>4. CASE ServiceConnecting \/ ServiceConnected
      <2>1. PICK m, e, job : Serves(Current, m, e, job)
            BY <1>4, ServiceData
      <2>2. Current # l
            BY <1>4, ServiceData DEF Data
      <2> QED BY <1>1, <1>2, <2>1, <2>2 DEF Serves
<1>5. CASE ServiceListening
      <2>1. CASE Current = l /\ "in" \in Revented
            BY <1>2, <1>5, <2>1 DEF ServiceListening
      <2>2. CASE ~(Current = l /\ "in" \in Revented)
            <3>1. told'[l] = told[l]
                  BY <1>1, <1>5, <2>2 DEF ServiceListening, Tell
            <3> QED BY <1>2, <3>1
      <2> QED BY <2>1, <2>2
<1>6. CASE UNCHANGED told
      BY <1>2, <1>6
<1>7. ASSUME (\E s \in Sockets : Peer(s)) \/ UNCHANGED sockVars \/ UNCHANGED vars
      PROVE  UNCHANGED told
      BY <1>7 DEF Peer, Answer, Arrive, HangUp, sockVars, vars
<1> QED BY <1>2, <1>3, <1>4, <1>5, <1>6, <1>7, NextCases DEF Service

\* A quiet listening socket stays quiet until its owner asks for a connection.
LEMMA QuietKept ==
    ASSUME TypeOK, PcInv, CallInv, [Next]_vars, NEW l \in Listeners, Quiet(l),
           \A u \in Users : ~Bind(u, l) /\ ~SetListeningJob(u, l)
    PROVE  Quiet(l)'
<1>1. l \in Sockets
      BY SocketAssumption
<1>2. NoJob(l)'
      <2>1. ASSUME NEW u \in Users, AddSocket(u), call[u].sock = l PROVE FALSE
            BY <2>1 DEF AddSocket, Quiet
      <2> QED BY <1>1, <2>1, NoJobKept DEF Quiet
<1>3. ASSUME NEW u \in Users, call'[u].sock = l PROVE call'[u].job = None
      <2>1. call'[u].job # None => call[u].sock = l /\ call[u].job # None
            BY <1>3, ListenCall
      <2> QED BY <2>1 DEF Quiet
<1> QED BY <1>2, <1>3 DEF Quiet

\* The pass's entry is that of the job that it has reached.
LEMMA PassHead ==
    ASSUME TypeOK, NEW h, Matched(h), entry <= Len(pfds), at <= Len(jobs), HasJob(jobs[at])
    PROVE  entry \in 1 .. Len(pfds) /\ h[entry] = at
<1>1. /\ entry \in 1 .. Len(pfds) /\ Len(pfds) \in Nat
      /\ at \in at .. Len(jobs) /\ at \in 1 .. Len(jobs) /\ Len(jobs) \in Nat
      BY DEF TypeOK
<1>2. PICK k \in entry .. Len(pfds) : h[k] = at
      BY <1>1 DEF Matched
<1>3. /\ k \in 1 .. Len(pfds) /\ entry \in entry .. Len(pfds)
      /\ entry < k \/ k = entry
      BY <1>1, <1>2
<1>4. h[entry] >= at /\ h[entry] \in 1 .. Len(jobs)
      BY <1>1, <1>3 DEF Matched
<1>5. entry < k => h[entry] < h[k]
      BY <1>1, <1>3 DEF Matched
<1> QED BY <1>1, <1>2, <1>3, <1>4, <1>5

\* While a listening socket is quiet for one of these reasons it is not asked for.
LEMMA ListenStep ==
    ASSUME TypeOK, PcInv, LockInv, CallInv, JobInv, FitInv, ListenInv, PassInv, [Next]_vars
    PROVE  ListenInv'
<1> SUFFICES ASSUME NEW l \in Listeners PROVE ListenOf(l)'
    BY DEF ListenInv
<1>1. /\ l \in Sockets /\ ListenOf(l) /\ Owner[l] \in Users /\ TypeOK
      /\ Mux \in Threads /\ Mux \notin Users /\ (\A u \in Users : u \in Threads)
      BY SocketAssumption, MuxAssumption DEF ListenInv, Threads
<1> DEFINE o == Owner[l]
<1>2. /\ DOMAIN jobs = 1 .. Len(jobs) /\ Len(jobs) \in Nat
      /\ pc \in [Threads -> Labels]
      BY DEF TypeOK
<1>3. sock'[l].open
      <2>1. ASSUME NEW u \in Users, FinishClose(u), call[u].sock = l PROVE FALSE
            BY <2>1 DEF FinishClose, CallInv, CallOf, Data
      <2> QED BY <1>1, <2>1, OpenKept DEF ListenOf
\* who may ask for a connection
<1>4. ASSUME NEW u \in Users, Bind(u, l) PROVE net[l].peer = "none"
      BY <1>4 DEF Bind
<1>5. ASSUME NEW u \in Users, SetListeningJob(u, l) PROVE call[o].then = "relisten"
      <2>1. pc[u] = "relisten" /\ u = o
            BY <1>5 DEF SetListeningJob
      <2> QED BY <2>1 DEF CallInv, CallOf
<1>6. ASSUME NEW u \in Users, NEW k \in Sockets, NEW s \in Sockets, Accept(u, k, s), u = o
      PROVE  k = l /\ "connecting" \in told[l] /\ "connecting" \notin told'[l]
      <2>1. k \in Listeners /\ Owner[k] = u /\ "connecting" \in told[k]
            BY <1>6 DEF Accept, Idle
      <2>2. k = l
            BY <1>6, <2>1, SocketAssumption
      <2> QED BY <1>1, <1>6, <2>1, <2>2, ListenTold
\* the service that tells of a connection
<1>7. ASSUME ServiceListening, Current = l, "in" \in Revented, RunJob(None)
      PROVE  net'[l].in >= 1 /\ Quiet(l)' /\ call'[o].then # "relisten"
                            /\ net'[l].peer # "none"
      <2>1. /\ at \in 1 .. Len(jobs) /\ HasJob(jobs[at]) /\ jobs[at].sock = l
            /\ DOMAIN jobs' = 1 .. Len(jobs)
            /\ jobs'[at].job = None /\ \A i \in 1 .. Len(jobs) : i # at => jobs'[i] = jobs[i]
            BY <1>7, RunAt DEF Current
      <2>2. /\ call' = call /\ pc[Mux] = "run" /\ entry <= Len(pfds) /\ net' = net
            BY <1>7 DEF ServiceListening, RunJob, InPass
      <2>3. ~Quiet(l) /\ ~NoJob(l)
            BY <1>2, <2>1 DEF Quiet, NoJob, HasJob
      <2>4. NoJob(l)'
            <3>1. \A i \in 1 .. Len(jobs) : jobs[i].sock = l => i = at
                  BY <1>2, <2>1 DEF JobInv
            <3> QED BY <2>1, <3>1 DEF NoJob
      <2>5. ASSUME NEW u \in Users, call[u].sock = l PROVE call[u].job = None
            <3>1. pc[u] = "unlock" => u = Mux
                  BY <1>1, <2>2 DEF LockInv, InUse
            <3> QED BY <1>1, <2>3, <2>5, <3>1 DEF ListenOf
      <2>6. Quiet(l)'
            BY <2>2, <2>4, <2>5 DEF Quiet
      <2>7. net[l].in >= 1
            <3>1. PICK h : Matched(h)
                  BY <2>2 DEF PassInv
            <3>2. entry \in 1 .. Len(pfds) /\ h[entry] = at
                  BY <1>2, <2>1, <2>2, <3>1, PassHead DEF TypeOK
            <3>3. entry \in entry .. Len(pfds)
                  BY <3>2
            <3>5. "in" \in pfds[entry].revents
                  BY <1>7 DEF Revented
            <3> QED BY <2>1, <3>1, <3>2, <3>3, <3>5 DEF Matched
      <2> QED BY <1>1, <2>2, <2>3, <2>6, <2>7 DEF ListenOf
<1>8. told'[l] \subseteq told[l]
          \/ (ServiceListening /\ Current = l /\ "in" \in Revented /\ RunJob(None))
      BY ListenTold
<1>9. ASSUME net'[l].peer = "none"
      PROVE  Quiet(l)' /\ told'[l] = {} /\ call'[o].then # "relisten"
      <2>1. net[l].peer = "none" /\ \A u \in Users : ~Bind(u, l)
            BY <1>9, ListenNet
      <2>2. Quiet(l) /\ told[l] = {} /\ call[o].then # "relisten"
            BY <1>1, <2>1 DEF ListenOf
      <2>3. \A u \in Users : ~SetListeningJob(u, l)
            BY <1>5, <2>2
      <2>4. Quiet(l)'
            BY <2>1, <2>2, <2>3, QuietKept
      <2>5. call'[o].then # "relisten"
            BY <1>1, <1>6, <2>2, RelistenCall
      <2> QED BY <1>7, <1>8, <1>9, <2>2, <2>4, <2>5
<1>10. ASSUME "connecting" \in told'[l]
       PROVE  net'[l].in >= 1 /\ Quiet(l)' /\ call'[o].then # "relisten"
      <2>1. CASE ServiceListening /\ Current = l /\ "in" \in Revented /\ RunJob(None)
            BY <1>7, <2>1
      <2>2. CASE told'[l] \subseteq told[l]
            <3>1. net[l].in >= 1 /\ Quiet(l) /\ call[o].then # "relisten"
                  /\ net[l].peer # "none"
                  BY <1>1, <1>10, <2>2 DEF ListenOf
            <3>2. \A u \in Users : ~Bind(u, l) /\ ~SetListeningJob(u, l)
                  BY <1>4, <1>5, <3>1
            <3>3. \A u \in Users, s \in Sockets : ~Accept(u, l, s)
                  BY <1>10, ListenTold
            <3>4. call'[o].then # "relisten"
                  BY <1>1, <1>6, <1>10, <3>1, RelistenCall
            <3> QED BY <3>1, <3>2, <3>3, <3>4, ListenNet, QuietKept
      <2> QED BY <1>8, <2>1, <2>2
<1>11. ASSUME call'[o].then = "relisten" PROVE Quiet(l)'
      <2>1. \A u \in Users : ~Bind(u, l) /\ ~SetListeningJob(u, l)
            <3>1. ASSUME NEW u \in Users, Bind(u, l) \/ SetListeningJob(u, l) PROVE u = o
                  BY <3>1 DEF Bind, Idle, SetListeningJob
            <3> QED BY <1>1, <1>11, <3>1, RelistenCall
      <2>2. call[o].then = "relisten" \/ "connecting" \in told[l]
            BY <1>1, <1>6, <1>11, RelistenCall
      <2> QED BY <1>1, <2>1, <2>2, QuietKept DEF ListenOf
<1>12. ASSUME NEW u \in Users, call'[u].sock = l, call'[u].job # None, pc'[u] # "unlock"
       PROVE  NoJob(l)'
      <2>1. NoJob(l)
            <3>1. CASE Bind(u, l) \/ SetListeningJob(u, l)
                  BY <1>1, <1>4, <1>5, <3>1 DEF ListenOf, Quiet
            <3>2. CASE call[u].sock = l /\ call[u].job # None
                       /\ (pc[u] = "unlock" => pc'[u] = "unlock")
                  BY <1>1, <1>12, <3>2 DEF ListenOf
            <3> QED BY <1>12, <3>1, <3>2, ListenCall
      <2>2. ASSUME NEW v \in Users, AddSocket(v), call[v].sock = l PROVE FALSE
            <3>1. pc[v] = "edit" /\ pc'[v] = "unlock" /\ call' = call
                  BY <1>1, <1>2, <2>2 DEF AddSocket, Goto
            <3>2. v = o /\ u = o
                  BY <1>12, <2>2, <3>1 DEF CallInv, CallOf, Handing
            <3> QED BY <1>12, <3>1, <3>2
      <2> QED BY <1>1, <2>1, <2>2, NoJobKept
<1>13. ListenOf(l)' <=>
       /\ sock'[l].open /\ net'[l].peer \in {"none", "open"}
       /\ net'[l].peer = "none" =>
              Quiet(l)' /\ told'[l] = {} /\ call'[o].then # "relisten"
       /\ "connecting" \in told'[l] =>
              net'[l].in >= 1 /\ Quiet(l)' /\ call'[o].then # "relisten"
       /\ call'[o].then = "relisten" => Quiet(l)'
       /\ \A u \in Users : (call'[u].sock = l /\ call'[u].job # None /\ pc'[u] # "unlock")
              => NoJob(l)'
      BY DEF ListenOf
<1> HIDE DEF o
<1>14. net'[l].peer \in {"none", "open"}
      BY <1>1, ListenNet DEF ListenOf
<1> QED BY <1>3, <1>9, <1>10, <1>11, <1>12, <1>13, <1>14

-----------------------------------------------------------------------------
(* The multiplexer's two lists.                                            *)

\* A connection that waits at a listening socket that has a job goes on to wait.
LEMMA WaitsOn ==
    ASSUME TypeOK, PcInv, CallInv, FitInv, ListenInv, [Next]_vars,
           NEW i \in 1 .. Len(jobs), HasJob(jobs[i]), jobs[i].sock \in Listeners,
           net[jobs[i].sock].in >= 1
    PROVE  net'[jobs[i].sock].in >= 1
<1> DEFINE l == jobs[i].sock
<1>1. ~Quiet(l)
      BY DEF Quiet, NoJob, HasJob, TypeOK
<1>2. l \in Listeners /\ net[l].in >= 1
      OBVIOUS
<1> HIDE DEF l
<1>3. ASSUME NEW u \in Users, NEW s \in Sockets, Accept(u, l, s) PROVE FALSE
      <2>1. "connecting" \in told[l]
            BY <1>3 DEF Accept
      <2> QED BY <1>1, <1>2, <2>1 DEF ListenInv, ListenOf
<1>4. net'[l].in >= 1
      BY <1>2, <1>3, ListenNet
<1> QED BY <1>4 DEF l

\* Steps that leave the lists alone.
LEMMA PassFrame ==
    ASSUME TypeOK, PcInv, CallInv, FitInv, ListenInv, PassInv, [Next]_vars,
           UNCHANGED <<jobs, update, pfds, at, entry>>,
           pc'[Mux] = pc[Mux] \/ pc'[Mux] \notin {"run", "poll", "polling"},
           pc[Mux] = "run" => pc'[Mux] = "run"
    PROVE  PassInv'
<1>1. Live' = Live
      BY DEF Live
<1>2. pc'[Mux] = "run" => pc[Mux] = "run"
      OBVIOUS
<1>3. ASSUME NEW h, Matched(h) PROVE Matched(h)'
      <2>1. h \in [1 .. Len(pfds) -> 1 .. Len(jobs)]
            BY <1>3 DEF Matched
      <2>2. \A k \in entry .. Len(pfds) : k \in 1 .. Len(pfds)
            BY DEF TypeOK
      <2>3. ASSUME NEW k \in entry .. Len(pfds), jobs[h[k]].sock \in Listeners,
                   "in" \in pfds[k].revents
            PROVE  net'[jobs[h[k]].sock].in >= 1
            <3>1. h[k] \in 1 .. Len(jobs) /\ HasJob(jobs[h[k]])
                  /\ net[jobs[h[k]].sock].in >= 1
                  BY <1>3, <2>1, <2>2, <2>3 DEF Matched
            <3> QED BY <2>3, <3>1, WaitsOn
      <2> QED BY <1>3, <2>3 DEF Matched
<1>4. pc[Mux] = "run" => \E h : Matched(h)'
      BY <1>3 DEF PassInv
<1>5. Fits(Live, pfds)' <=> Fits(Live, pfds)
      BY <1>1 DEF Fits
<1> QED BY <1>2, <1>4, <1>5 DEF PassInv

\* The pass goes on by one place: i is the place that it leaves, and a poll entry is
\* used if there was a job.
LEMMA PassGoesOn ==
    ASSUME TypeOK, PcInv, CallInv, FitInv, ListenInv, [Next]_vars,
           NEW h, Matched(h), InPass, at' = at + 1, pfds' = pfds,
           \/ HasJob(jobs[at]) /\ entry' = entry + 1
           \/ ~HasJob(jobs[at]) /\ entry' = entry,
           Len(jobs') = Len(jobs),
           \A i \in 1 .. Len(jobs) : i # at => jobs'[i] = jobs[i]
    PROVE  Matched(h)'
<1> DEFINE N == Len(jobs)
           M == Len(pfds)
<1>1. /\ N \in Nat /\ M \in Nat /\ at \in 1 .. N /\ entry \in 1 .. M /\ at \in Nat
      /\ entry \in Nat /\ entry' \in Nat /\ entry <= entry'
      BY DEF TypeOK, InPass
<1>2. /\ h \in [1 .. M -> 1 .. N] /\ \A k, m \in 1 .. M : k < m => h[k] < h[m]
      /\ \A k \in entry .. M : h[k] >= at /\ HasJob(jobs[h[k]])
      BY DEF Matched
<1>3. HasJob(jobs[at]) => h[entry] = at
      BY <1>1, PassHead DEF InPass
<1> HIDE DEF N, M
<1>4. \A k \in entry' .. M : k \in entry .. M /\ k \in 1 .. M
      BY <1>1
<1>5. ASSUME NEW k \in entry' .. M PROVE h[k] >= at + 1 /\ h[k] \in 1 .. N /\ h[k] # at
      <2>1. h[k] \in 1 .. N /\ h[k] >= at
            BY <1>2, <1>4
      <2>2. CASE HasJob(jobs[at])
            <3>1. entry < k
                  BY <1>1, <2>2
            <3>2. h[entry] < h[k]
                  BY <1>1, <1>2, <1>4, <3>1
            <3> QED BY <1>1, <1>3, <2>1, <2>2, <3>2
      <2>3. CASE ~HasJob(jobs[at])
            <3>1. h[k] # at
                  BY <1>2, <1>4, <2>3
            <3> QED BY <1>1, <2>1, <3>1
      <2> QED BY <2>2, <2>3
<1>6. ASSUME NEW k \in entry' .. M
      PROVE  /\ jobs'[h[k]] = jobs[h[k]] /\ HasJob(jobs[h[k]])
             /\ PollEntry(jobs[h[k]]) = Asked(pfds[k])
             /\ (jobs[h[k]].sock \in Listeners /\ "in" \in pfds[k].revents)
                    => net'[jobs[h[k]].sock].in >= 1
      <2>1. k \in entry .. Len(pfds) /\ h[k] \in 1 .. Len(jobs)
            BY <1>4, <1>5 DEF M, N
      <2>2. /\ HasJob(jobs[h[k]]) /\ PollEntry(jobs[h[k]]) = Asked(pfds[k])
            /\ (jobs[h[k]].sock \in Listeners /\ "in" \in pfds[k].revents)
                    => net[jobs[h[k]].sock].in >= 1
            BY <2>1 DEF Matched
      <2> QED BY <1>5, <2>1, <2>2, WaitsOn
<1>7. ASSUME NEW i \in (at + 1) .. N, HasJob(jobs'[i])
      PROVE  \E k \in entry' .. M : h[k] = i
      <2>1. i \in at .. Len(jobs) /\ i \in 1 .. Len(jobs) /\ i # at
            BY <1>1 DEF N
      <2>2. PICK k \in entry .. Len(pfds) : h[k] = i
            BY <1>7, <2>1 DEF Matched
      <2>3. k # entry \/ ~HasJob(jobs[at])
            BY <1>3, <2>1, <2>2
      <2>4. k \in entry' .. M
            <3>1. k \in entry .. M
                  BY <2>2 DEF M
            <3> QED BY <1>1, <2>3, <3>1
      <2> QED BY <2>2, <2>4
<1>8. Len(pfds') = M
      BY DEF M
<1> QED BY <1>2, <1>5, <1>6, <1>7, <1>8 DEF Matched, N

\* The poll entries are made from the jobs.
LEMMA CollectFits ==
    ASSUME TypeOK, PassInv, CollectPollEntries
    PROVE  Fits(Live, pfds)'
<1>1. Live' = Live
      BY DEF Live, CollectPollEntries
<1>2. CASE ~update
      BY <1>1, <1>2 DEF PassInv, Fits, CollectPollEntries
<1>3. CASE update
      <2>1. Live \in Seq(Entries)
            BY LiveType DEF TypeOK
      <2>2. pfds' = [i \in 1 .. Len(Live) |->
                      [sock |-> Live[i].sock, in |-> Live[i].job.in,
                       out |-> Live[i].job.out, revents |-> {}]]
            BY <1>3, <2>1 DEF CollectPollEntries
      <2>3. Len(Live) = Len(pfds')
            BY <2>1, <2>2
      <2>4. \A k \in 1 .. Len(Live) : PollEntry(Live[k]) = Asked(pfds'[k])
            BY <2>2 DEF PollEntry, Asked
      <2> QED BY <1>1, <2>3, <2>4 DEF Fits
<1> QED BY <1>2, <1>3

\* The kernel's answers change nothing of what was asked for.
LEMMA AnswersFit ==
    ASSUME pfds \in Seq(PollEntries), NEW f,
           pfds' = [i \in DOMAIN pfds |-> [pfds[i] EXCEPT !.revents = f[i]]]
    PROVE  /\ Len(pfds') = Len(pfds)
           /\ \A k \in 1 .. Len(pfds) : Asked(pfds'[k]) = Asked(pfds[k])
                                         /\ pfds'[k].revents = f[k]
                                         /\ pfds'[k].sock = pfds[k].sock
<1>1. /\ DOMAIN pfds = 1 .. Len(pfds) /\ Len(pfds) \in Nat
      /\ \A k \in 1 .. Len(pfds) : pfds[k] \in PollEntries
      OBVIOUS
<1>2. Len(pfds') = Len(pfds)
      BY <1>1
<1>3. \A k \in 1 .. Len(pfds) : pfds'[k] = [pfds[k] EXCEPT !.revents = f[k]]
      BY <1>1
<1> QED BY <1>1, <1>2, <1>3 DEF Asked, PollEntries

\* A pass begins with the entries of all the jobs.
LEMMA PassBegins ==
    ASSUME TypeOK, ListenInv, PassInv, ReturnFromPoll(Happened), UNCHANGED sockVars
    PROVE  Fits(Live, pfds)' /\ \E h : Matched(h)'
<1> DEFINE Told(e) == {k \in Happened[e.sock] :
                         k = "error" \/ (k = "in" /\ e.in) \/ (k = "out" /\ e.out)}
           f == [i \in DOMAIN pfds |-> Told(pfds[i])]
<1>1. /\ jobs \in Seq(Entries) /\ pfds \in Seq(PollEntries)
      /\ Len(jobs) \in Nat /\ Len(pfds) \in Nat /\ DOMAIN pfds = 1 .. Len(pfds)
      BY DEF TypeOK
<1>2. /\ UNCHANGED <<jobs, update, at, entry>> /\ pc[Mux] = "polling"
      /\ pfds' = [i \in DOMAIN pfds |-> [pfds[i] EXCEPT !.revents = Told(pfds[i])]]
      BY DEF ReturnFromPoll, sockVars
<1>3. pfds' = [i \in DOMAIN pfds |-> [pfds[i] EXCEPT !.revents = f[i]]]
      BY <1>2
<1>4. \A k \in 1 .. Len(pfds) : "in" \in f[k] => "in" \in Happened[pfds[k].sock]
      BY <1>1
<1> HIDE DEF Told, f
<1>5. /\ Len(pfds') = Len(pfds)
      /\ \A k \in 1 .. Len(pfds) : Asked(pfds'[k]) = Asked(pfds[k])
                                    /\ pfds'[k].revents = f[k]
      BY <1>1, <1>3, AnswersFit
<1>6. Fits(Live, pfds) /\ at = 1 /\ entry = 1
      BY <1>2 DEF PassInv
<1>7. Live' = Live
      BY <1>2 DEF Live
<1>8. Fits(Live, pfds)'
      BY <1>5, <1>6, <1>7 DEF Fits
<1>9. PICK h : ComesFrom(jobs, {e \in Range(jobs) : HasJob(e)}, Len(jobs), Live, h)
      BY <1>1, LiveType
<1>10. /\ h \in [1 .. Len(pfds) -> 1 .. Len(jobs)] /\ Len(Live) = Len(pfds)
       /\ \A k, l \in 1 .. Len(pfds) : k < l => h[k] < h[l]
       /\ \A k \in 1 .. Len(pfds) : Live[k] = jobs[h[k]] /\ HasJob(jobs[h[k]])
      BY <1>6, <1>9 DEF ComesFrom, Fits
<1>11. ASSUME NEW i \in 1 .. Len(jobs), HasJob(jobs[i])
       PROVE  \E k \in 1 .. Len(pfds) : h[k] = i
      <2>1. jobs[i] \in {e \in Range(jobs) : HasJob(e)}
            BY <1>1, <1>11 DEF Range
      <2> QED BY <1>6, <1>9, <2>1 DEF ComesFrom, Fits
<1>12. ASSUME NEW k \in 1 .. Len(pfds) PROVE PollEntry(jobs[h[k]]) = Asked(pfds'[k])
      BY <1>5, <1>6, <1>10 DEF Fits
<1>13. ASSUME NEW k \in 1 .. Len(pfds), jobs[h[k]].sock \in Listeners,
              "in" \in pfds'[k].revents
       PROVE  net[jobs[h[k]].sock].in >= 1
      <2>1. pfds[k].sock = jobs[h[k]].sock
            BY <1>5, <1>12 DEF PollEntry, Asked
      <2> DEFINE l == jobs[h[k]].sock
      <2>2. l \in Listeners /\ l \in Sockets /\ "in" \in Happened[l]
            BY <1>4, <1>5, <1>13, <2>1, SocketAssumption
      <2> HIDE DEF l
      <2>3. net[l].in > 0 \/ net[l].peer \in {"hung", "reset", "refused"}
            BY <2>2 DEF Happened
      <2>4. net[l].peer \in {"none", "open"} /\ net[l].in \in 0 .. (MaxIn + 1) /\ MaxIn = 2
            BY <2>2, SocketTypes DEF ListenInv, ListenOf
      <2>5. net[l].in >= 1
            BY <2>3, <2>4
      <2> QED BY <2>5 DEF l
<1>14. net' = net
       BY DEF sockVars
<1>15. \A k \in entry' .. Len(pfds') : k \in 1 .. Len(pfds) /\ k \in entry .. Len(pfds)
       BY <1>1, <1>2, <1>5, <1>6
<1>16. \A k \in 1 .. Len(pfds) : h[k] >= at'
       BY <1>1, <1>2, <1>6, <1>10
<1>17. Matched(h)'
       <2>1. h \in [1 .. Len(pfds') -> 1 .. Len(jobs')]
             BY <1>2, <1>5, <1>10
       <2>2. \A k, l \in 1 .. Len(pfds') : k < l => h[k] < h[l]
             BY <1>5, <1>10
       <2>3. \A k \in entry' .. Len(pfds') :
                /\ h[k] >= at' /\ HasJob(jobs'[h[k]])
                /\ PollEntry(jobs'[h[k]]) = Asked(pfds'[k])
                /\ (jobs'[h[k]].sock \in Listeners /\ "in" \in pfds'[k].revents)
                       => net'[jobs'[h[k]].sock].in >= 1
             BY <1>2, <1>10, <1>12, <1>13, <1>14, <1>15, <1>16
       <2>4. ASSUME NEW i \in at' .. Len(jobs'), HasJob(jobs'[i])
             PROVE  \E k \in entry' .. Len(pfds') : h[k] = i
             <3>1. i \in 1 .. Len(jobs) /\ HasJob(jobs[i])
                   BY <1>2, <1>6, <2>4
             <3> QED BY <1>2, <1>5, <1>6, <1>11, <3>1
       <2> QED BY <2>1, <2>2, <2>3, <2>4 DEF Matched
<1> QED BY <1>8, <1>17

\* The sweep changes no list unless a job was removed.
LEMMA SweepFits ==
    ASSUME TypeOK, PassInv, SweepRemoved, ~update'
    PROVE  Fits(Live, pfds)'
<1> DEFINE f == [i \in DOMAIN pfds |-> {}]
<1>1. /\ ~update /\ \A i \in DOMAIN jobs : HasJob(jobs[i])
      /\ jobs' = Live
      BY DEF SweepRemoved, TypeOK
<1>2. jobs \in Seq(Entries) /\ pfds \in Seq(PollEntries) /\ DOMAIN jobs = 1 .. Len(jobs)
      BY DEF TypeOK
<1>3. Live = jobs
      BY <1>1, <1>2, LiveType
<1>4. Live' = Live /\ Fits(Live, pfds)
      BY <1>1, <1>3 DEF Live, PassInv
<1>5. pfds' = [i \in DOMAIN pfds |-> [pfds[i] EXCEPT !.revents = f[i]]]
      BY DEF SweepRemoved
<1> HIDE DEF f
<1>6. /\ Len(pfds') = Len(pfds)
      /\ \A k \in 1 .. Len(pfds) : Asked(pfds'[k]) = Asked(pfds[k])
      BY <1>2, <1>5, AnswersFit
<1> QED BY <1>4, <1>6 DEF Fits

\* A call that changes a job asks for new poll entries.
LEMMA EditFits ==
    ASSUME TypeOK, PassInv, NEW u \in Users, AddSocket(u) \/ RemoveSocket(u), ~update'
    PROVE  Fits(Live, pfds)'
<1>1. ~update /\ RemoveSocket(u) /\ UNCHANGED pfds
      BY DEF AddSocket, RemoveSocket, TypeOK
<1>2. \A i \in Places(call[u].sock) : jobs[i].job = None
      BY <1>1 DEF RemoveSocket
<1>3. jobs \in Seq(Entries) /\ DOMAIN jobs = 1 .. Len(jobs)
      BY DEF TypeOK
<1>4. jobs' = [i \in DOMAIN jobs |-> jobs[i]]
      <2> DEFINE live == {i \in Places(call[u].sock) : jobs[i].job # None}
      <2>1. live = {}
            BY <1>2
      <2>2. jobs' = [i \in DOMAIN jobs |-> IF i \in live THEN call[u] ELSE jobs[i]]
            BY <1>1 DEF RemoveSocket
      <2> HIDE DEF live
      <2> QED BY <2>1, <2>2
<1>5. jobs' = jobs
      BY <1>3, <1>4
<1>6. Live' = Live
      BY <1>5 DEF Live
<1> QED BY <1>1, <1>6 DEF Fits, PassInv

\* The multiplexer's lists fit each other after each step.
LEMMA PassStep ==
    ASSUME TypeOK, PcInv, LockInv, CallInv, JobInv, FitInv, ListenInv, PassInv, [Next]_vars
    PROVE  PassInv'
<1>1. /\ pc \in [Threads -> Labels] /\ Mux \in Threads /\ Mux \notin Users
      /\ (\A u \in Users : u \in Threads) /\ update \in BOOLEAN
      /\ jobs \in Seq(Entries) /\ Len(jobs) \in Nat
      BY MuxAssumption DEF TypeOK, Threads
<1>2. ASSUME NEW label, Goto(Mux, label) PROVE pc'[Mux] = label
      BY <1>1, <1>2 DEF Goto
<1>3. ASSUME NEW u \in Users, NEW label, Goto(u, label) PROVE pc'[Mux] = pc[Mux]
      BY <1>1, <1>3 DEF Goto
<1>4. ASSUME UNCHANGED <<jobs, update, pfds, at, entry>>, pc'[Mux] = pc[Mux] PROVE PassInv'
      BY <1>4, PassFrame
<1>5. ASSUME NEW u \in Users, AddSocket(u) \/ RemoveSocket(u) PROVE PassInv'
      <2>1. /\ pc[u] = "edit" /\ pc'[Mux] = pc[Mux] /\ UNCHANGED <<at, entry>>
            BY <1>3, <1>5 DEF AddSocket, RemoveSocket
      <2>2. ~InUse(Mux)
            BY <1>1, <2>1 DEF LockInv, InUse
      <2>3. pc[Mux] \notin {"poll", "polling", "run"}
            BY <2>2 DEF InUse
      <2>4. ~update' => Fits(Live, pfds)'
            BY <1>5, EditFits
      <2> QED BY <2>1, <2>3, <2>4 DEF PassInv
<1>6. ASSUME NEW t \in Threads, LockJobListLock(t) \/ LockJobList(t) PROVE PassInv'
      <2>1. UNCHANGED <<jobs, update, pfds, at, entry>>
            /\ pc[t] \in {"lockLock", "lockList"} /\ \E label : Goto(t, label)
            BY <1>6 DEF LockJobListLock, LockJobList
      <2>2. CASE t # Mux
            BY <1>1, <1>3, <1>4, <2>1, <2>2 DEF Threads
      <2>3. CASE t = Mux
            <3>1. pc'[Mux] \in {"lockList", "collect"}
                  BY <1>2, <1>6, <2>3 DEF LockJobListLock, LockJobList
            <3> QED BY <2>1, <2>3, <3>1, PassFrame
      <2> QED BY <2>2, <2>3
<1>7. ASSUME NEW u \in Users, UnblockPollSocket(u) \/ UnlockJobList(u, call[u].then)
      PROVE  PassInv'
      BY <1>3, <1>4, <1>7 DEF UnblockPollSocket, UnlockJobList
<1>8. CASE UnlockJobList(Mux, "wait") \/ WaitForJobs
      <2>1. /\ UNCHANGED <<jobs, update, pfds, at, entry>>
            /\ pc[Mux] \in {"unlock", "wait"} /\ pc'[Mux] \in {"wait", "lockLock"}
            BY <1>2, <1>8 DEF UnlockJobList, WaitForJobs
      <2> QED BY <2>1, PassFrame
<1>9. CASE CollectPollEntries
      <2>1. /\ pc[Mux] = "collect" /\ pc'[Mux] = "poll" /\ ~update'
            /\ UNCHANGED <<at, entry>>
            BY <1>2, <1>9 DEF CollectPollEntries
      <2> QED BY <1>9, <2>1, CollectFits DEF PassInv
<1>10. CASE EnterPoll
      <2>1. /\ pc[Mux] = "poll" /\ pc'[Mux] \in {"polling", "sweep"}
            /\ UNCHANGED <<jobs, update, pfds, at, entry>>
            BY <1>2, <1>10 DEF EnterPoll
      <2>2. Live' = Live
            BY <2>1 DEF Live
      <2> QED BY <2>1, <2>2 DEF PassInv, Fits
<1>11. ASSUME ReturnFromPoll(Happened), UNCHANGED sockVars PROVE PassInv'
      <2>1. /\ pc[Mux] = "polling" /\ pc'[Mux] \in {"run", "sweep"}
            /\ UNCHANGED <<at, entry>>
            BY <1>2, <1>11 DEF ReturnFromPoll
      <2> QED BY <1>11, <2>1, PassBegins DEF PassInv
<1>12. CASE SkipRemoved
      <2>1. /\ pc[Mux] = "run" /\ InPass /\ ~HasJob(jobs[at]) /\ at' = at + 1
            /\ UNCHANGED <<pc, jobs, update, pfds, entry>>
            BY <1>12 DEF SkipRemoved, InPass, HasJob
      <2>2. PICK h : Matched(h)
            BY <2>1 DEF PassInv
      <2>3. Matched(h)'
            BY <2>1, <2>2, PassGoesOn
      <2>4. Live' = Live
            BY <2>1 DEF Live
      <2> QED BY <2>1, <2>3, <2>4 DEF PassInv, Fits
<1>13. CASE Service
      <2>1. PICK job : RunJob(job)
            BY <1>13, ServiceFrame
      <2>2. /\ pc[Mux] = "run" /\ InPass /\ at' = at + 1 /\ entry' = entry + 1
            /\ UNCHANGED <<pc, pfds>>
            BY <2>1 DEF RunJob, InPass
      <2>3. /\ Len(jobs') = Len(jobs) /\ HasJob(jobs[at])
            /\ \A i \in 1 .. Len(jobs) : i # at => jobs'[i] = jobs[i]
            BY <2>1, RunAt
      <2>4. PICK h : Matched(h)
            BY <2>2 DEF PassInv
      <2>5. Matched(h)'
            BY <2>2, <2>3, <2>4, PassGoesOn
      <2>6. ~update' => ~update /\ jobs' = jobs
            <3>1. SUFFICES ASSUME ~update' PROVE ~update /\ jobs' = jobs
                  OBVIOUS
            <3>2. ~update /\ job = jobs[at].job /\ jobs' = [jobs EXCEPT ![at].job = job]
                  BY <1>1, <2>1, <3>1 DEF RunJob
            <3>3. at \in 1 .. Len(jobs) /\ jobs[at] \in Entries
                  BY <1>1, <2>1, RunAt
            <3>4. [jobs[at] EXCEPT !.job = job] = jobs[at]
                  BY <3>2, <3>3 DEF Entries
            <3>5. jobs' = [jobs EXCEPT ![at] = [jobs[at] EXCEPT !.job = job]]
                  BY <3>2
            <3>6. jobs' = [jobs EXCEPT ![at] = jobs[at]]
                  BY <3>4, <3>5
            <3> QED BY <1>1, <3>2, <3>3, <3>6
      <2>7. ~update' => Fits(Live, pfds)'
            <3>1. jobs' = jobs => Live' = Live
                  BY DEF Live
            <3> QED BY <2>2, <2>6, <3>1 DEF PassInv, Fits
      <2> QED BY <2>2, <2>5, <2>7 DEF PassInv
<1>14. CASE SweepRemoved
      <2>1. pc'[Mux] = "unlock" /\ at' = 1 /\ entry' = 1
            BY <1>2, <1>14 DEF SweepRemoved
      <2> QED BY <1>14, <2>1, SweepFits DEF PassInv
<1>15. ASSUME NEW u \in Users, SocketMethod(u) PROVE PassInv'
      <2>1. UNCHANGED MuxRest /\ pc'[Mux] = pc[Mux]
            BY <1>1, <1>15, MethodFrame
      <2> QED BY <1>4, <2>1 DEF MuxRest
<1>16. ASSUME NEW s \in Sockets, Peer(s) PROVE PassInv'
      BY <1>4, <1>16 DEF Peer, Answer, Arrive, HangUp, muxVars
<1>17. CASE UNCHANGED vars
      BY <1>4, <1>17 DEF vars, muxVars
<1> QED BY <1>5, <1>6, <1>7, <1>8, <1>9, <1>10, <1>11, <1>12, <1>13, <1>14, <1>15, <1>16,
           <1>17, NextCases

-----------------------------------------------------------------------------
(* The theorems.                                                           *)

\* No socket is connected and there are no jobs when it begins.
LEMMA SocketInit == Init => SocketInv
<1> SUFFICES ASSUME Init PROVE SocketInv
    OBVIOUS
<1>1. /\ Mux \in Threads /\ Mux \notin Users /\ (\A u \in Users : u \in Threads)
      /\ None \notin Threads /\ Sockets # {} /\ Listeners \subseteq Sockets
      /\ Owner \in [Sockets -> Users]
      /\ 0 \in 0 .. MaxOut /\ 0 \in 0 .. MaxCalls /\ 0 \in 0 .. MaxSessions
      /\ 0 \in 0 .. (MaxIn + 1) /\ {} \in SUBSET Events
      BY MuxAssumption, SocketAssumption DEF Threads, MaxIn
<1> DEFINE first == CHOOSE s \in Sockets : TRUE
<1>2. first \in Sockets
      BY <1>1
<1> HIDE DEF first
<1>3. call = [u \in Users |-> [sock |-> first, job |-> None, then |-> "idle"]]
      BY DEF Init, first
<1>4. /\ pc = [t \in Threads |-> IF t = Mux THEN "wait" ELSE "idle"]
      /\ lockOwner = None /\ listOwner = None /\ jobsReady = FALSE /\ update = FALSE
      /\ jobs = <<>> /\ pfds = <<>> /\ at = 1 /\ entry = 1
      /\ pipe = [t \in Threads |-> IF t = Mux /\ PolledBefore THEN "empty" ELSE "none"]
      /\ sock = [s \in Sockets |-> [Fresh EXCEPT !.open = s \in Listeners]]
      /\ told = [s \in Sockets |-> {}]
      /\ net = [s \in Sockets |-> [in |-> 0, peer |-> "none"]]
      /\ calls = 0 /\ sessions = 0
      BY DEF Init
<1>5. ASSUME NEW s \in Sockets
      PROVE  /\ sock[s] \in Members /\ sock[s].open = (s \in Listeners)
             /\ sock[s].out = 0 /\ ~sock[s].writable
      BY <1>1, <1>4, MembersType DEF Fresh, Members
<1>6. TypeOK
      <2>1. pc \in [Threads -> Labels]
            BY <1>4 DEF Labels
      <2>2. call \in [Users -> Entries]
            BY <1>2, <1>3, CallType
      <2>3. jobs \in Seq(Entries) /\ pfds \in Seq(PollEntries)
            BY <1>4
      <2>4. sock \in [Sockets -> Members]
            BY <1>4, <1>5
      <2>5. net \in [Sockets -> Kernel] /\ told \in [Sockets -> SUBSET Events]
            BY <1>1, <1>4 DEF Kernel
      <2>6. pipe \in [Threads -> {"none", "empty", "full"}]
            BY <1>4
      <2>7. /\ lockOwner \in Threads \cup {None} /\ listOwner \in Threads \cup {None}
            /\ jobsReady \in BOOLEAN /\ update \in BOOLEAN
            BY <1>4, Zenon
      <2>8. at \in Nat \ {0} /\ entry \in Nat \ {0}
            BY <1>4
      <2>9. calls \in 0 .. MaxCalls /\ sessions \in 0 .. MaxSessions
            BY <1>1, <1>4
      <2>10. told \in [Sockets -> SUBSET Events]
            BY <2>5
      <2> QED BY <2>1, <2>2, <2>3, <2>4, <2>5, <2>6, <2>7, <2>8, <2>9, <2>10 DEF TypeOK
<1>7. /\ pc[Mux] = "wait" /\ \A u \in Users : pc[u] = "idle"
      BY <1>1, <1>4
<1>8. /\ DOMAIN jobs = {} /\ Len(jobs) = 0 /\ Len(pfds) = 0
      BY <1>4
<1>9. PcInv
      BY <1>7 DEF PcInv, MuxLabels, UserLabels
<1>10. LockInv
      <2>1. \A t \in Threads : t = Mux \/ t \in Users
            BY DEF Threads
      <2> QED BY <1>1, <1>7, <2>1 DEF LockInv, InUse
<1>11. \A u \in Users : call[u].job = None /\ call[u].then = "idle"
      BY <1>3
<1>12. CallInv
      BY <1>7, <1>11 DEF CallInv, CallOf
<1>13. JobInv
      BY <1>8 DEF JobInv
<1>14. FitInv
      BY <1>8, <1>11 DEF FitInv, JobsFitted, CallsFitted
<1>15. LossInv
      BY <1>5 DEF LossInv, LossIsTold, Data
<1>16. ListenInv
      <2>1. \A l \in Listeners : NoJob(l) /\ Quiet(l)
            BY <1>8, <1>11 DEF NoJob, Quiet
      <2>2. \A l \in Listeners : net[l].peer = "none" /\ told[l] = {}
            BY <1>1, <1>4
      <2> QED BY <1>1, <1>5, <1>11, <2>1, <2>2 DEF ListenInv, ListenOf
<1>17. PassInv
      <2>1. Live = jobs
            BY <1>6, <1>8, LiveType DEF TypeOK
      <2> QED BY <1>4, <1>7, <1>8, <2>1 DEF PassInv, Fits
<1> QED BY <1>6, <1>9, <1>10, <1>12, <1>13, <1>14, <1>15, <1>16, <1>17 DEF SocketInv

\* Every step keeps the invariant.
LEMMA SocketStep == SocketInv /\ [Next]_vars => SocketInv'
<1> SUFFICES ASSUME SocketInv, [Next]_vars PROVE SocketInv'
    OBVIOUS
<1>1. /\ TypeOK /\ PcInv /\ LockInv /\ CallInv /\ JobInv /\ FitInv /\ LossInv
      /\ ListenInv /\ PassInv
      BY DEF SocketInv
<1>2. TypeOK' /\ PcInv' /\ LockInv'
      BY <1>1, SocketTypeStep, PcStep, LockStep
<1>3. CallInv' /\ JobInv'
      BY <1>1, CallStep, JobStep
<1>4. FitInv'
      BY <1>1, JobsFittedStep, CallsFittedStep DEF FitInv
<1>5. LossInv' /\ ListenInv' /\ PassInv'
      BY <1>1, LossStep, ListenStep, PassStep
<1> QED BY <1>2, <1>3, <1>4, <1>5 DEF SocketInv

\* The invariant holds throughout.
LEMMA SocketInvariant == Spec => []SocketInv
<1>1. Init => SocketInv
      BY SocketInit
<1>2. SocketInv /\ [Next]_vars => SocketInv'
      BY SocketStep
<1> QED BY <1>1, <1>2, PTL DEF Spec

\* The variables keep their types: the sizes of the buffers stay within their limits,
\* and accept() is only tried when there is a connection to accept.
THEOREM SocketTypeCorrect == Spec => []TypeOK
<1>1. SocketInv => TypeOK
      BY DEF SocketInv
<1> QED BY <1>1, SocketInvariant, PTL

\* SocketMultiplexer's lock on a lock: the thread that uses the job list is the only one
\* that does, from lockJobList to unlockJobList, so that addSocket and removeSocket never
\* replace a job while serviceThread runs it.
THEOREM ListHasOneUser == Spec => []OneAtATime
<1>1. SocketInv => OneAtATime
      BY DEF SocketInv, LockInv, OneAtATime
<1> QED BY <1>1, SocketInvariant, PTL

\* TCPSocket tells its owner of a lost connection, whichever of the two threads and of
\* the two directions noticed it first.
THEOREM LossesAreTold == Spec => []LossIsTold
<1>1. SocketInv => LossIsTold
      BY DEF SocketInv, LossInv
<1> QED BY <1>1, SocketInvariant, PTL

\* A poll asks for what the jobs want, its events go to the jobs that asked, and no job
\* is one of a socket that was closed.
THEOREM JobsFitSockets == Spec => []JobsFit
<1>1. SocketInv => JobsOfOpenSockets
      BY DEF SocketInv, JobInv, JobsOfOpenSockets, HasJob
<1>2. ASSUME SocketInv PROVE EntriesFitJobs
      <2>1. TypeOK /\ PassInv
            BY <1>2 DEF SocketInv
      <2>2. ASSUME pc[Mux] = "polling"
            PROVE  /\ Len(Live) = Len(pfds)
                   /\ \A i \in DOMAIN Live : PollEntry(Live[i]) = Asked(pfds[i])
            <3>1. Fits(Live, pfds)
                  BY <2>1, <2>2 DEF PassInv
            <3>2. DOMAIN Live = 1 .. Len(Live)
                  BY <2>1, LiveType DEF TypeOK
            <3> QED BY <3>1, <3>2 DEF Fits
      <2>3. ASSUME InPass, jobs[at].job # None
            PROVE  PollEntry(jobs[at]) = Asked(pfds[entry])
            <3>1. PICK h : Matched(h)
                  BY <2>1, <2>3 DEF PassInv, InPass
            <3>2. entry \in 1 .. Len(pfds) /\ h[entry] = at
                  BY <2>1, <2>3, <3>1, PassHead DEF InPass, HasJob
            <3>3. entry \in entry .. Len(pfds)
                  BY <3>2
            <3> QED BY <3>1, <3>2, <3>3 DEF Matched
      <2> QED BY <2>2, <2>3 DEF EntriesFitJobs
<1>3. SocketInv => JobsFit
      BY <1>1, <1>2 DEF JobsFit
<1> QED BY <1>3, SocketInvariant, PTL
=============================================================================
