-------------------------- MODULE SocketMultiplexer --------------------------
(***************************************************************************)
(* The multiplexer of net/SocketMultiplexer.cpp: one thread polls every    *)
(* socket and runs the job of each one that is ready; other threads add    *)
(* and remove jobs.  The list of jobs is guarded by a lock that is itself  *)
(* guarded by a lock, so that a thread that wants the list can stop the    *)
(* multiplexer's thread from taking it again, wake it from its poll with a *)
(* byte in a pipe, and then wait for the list.                             *)
(*                                                                         *)
(* A wait on a condition variable is a guard: on POSIX a wait returns after *)
(* 100 ms at most and every caller tests its condition in a loop, so a     *)
(* signal cannot be lost.  m_mutex is held for one step at a time.         *)
(* This module has the variables and the steps; TCPSocket composes them    *)
(* with the sockets that add and remove the jobs.                          *)
(***************************************************************************)
EXTENDS Integers, Sequences, Functions, Sifting

CONSTANTS
  Users,        \* threads that add and remove sockets
  Mux,          \* the multiplexer's thread
  Sockets,
  None          \* no thread, no job

VARIABLES
  pc,           \* what each thread does next
  call,         \* call[u]: the job u adds for a socket, None to remove it
  lockOwner,    \* m_jobListLockLocker: who may lock the list next
  listOwner,    \* m_jobListLocker: who holds the list
  jobsReady,    \* m_jobsReady
  jobs,         \* m_socketJobs and m_socketJobMap: the jobs in order
  update,       \* m_update: the poll entries are out of date
  pfds,         \* the poll entries, in the order of the jobs
  at, entry,    \* the service loop's cursor and its index in pfds
  pipe          \* the pipe that wakes each thread's poll: none, empty, full

muxVars == <<pc, call, lockOwner, listOwner, jobsReady, jobs, update, pfds,
             at, entry, pipe>>

Threads == Users \cup {Mux}
Job == [serve: {"connecting", "connected", "listening"},
        in: BOOLEAN, out: BOOLEAN]

ASSUME MuxAssumption ==
  /\ Mux \notin Users /\ Sockets # {}
  /\ None \notin Users \cup {Mux} /\ None \notin Job

Revents == SUBSET {"in", "out", "error"}

Goto(t, label) == pc' = [pc EXCEPT ![t] = label]

\* lockJobListLock, at the start of addSocket, removeSocket and of a pass
LockJobListLock(t) ==
  /\ pc[t] = "lockLock" /\ lockOwner = None
  /\ lockOwner' = t
  /\ Goto(t, IF t = Mux THEN "lockList" ELSE "unblock")
  /\ UNCHANGED <<call, listOwner, jobsReady, jobs, update, pfds, at, entry,
                 pipe>>

\* unblockPollSocket: when the thread has no pipe yet, the pipe that is made
\* becomes the caller's own
UnblockPollSocket(u) ==
  /\ pc[u] = "unblock"
  /\ pipe' = [pipe EXCEPT ![IF pipe[Mux] = "none" THEN u ELSE Mux] = "full"]
  /\ Goto(u, "lockList")
  /\ UNCHANGED <<call, lockOwner, listOwner, jobsReady, jobs, update, pfds,
                 at, entry>>

\* mutant: the list is taken from its holder
BugNoWait(t) ==
  /\ pc[t] = "lockList"
  /\ listOwner' = t
  /\ lockOwner' = None
  /\ Goto(t, IF t = Mux THEN "collect" ELSE "edit")
  /\ UNCHANGED <<call, jobsReady, jobs, update, pfds, at, entry, pipe>>

\* lockJobList: takes the list and lets others lock the lock
LockJobList(t) ==
  /\ pc[t] = "lockList" /\ listOwner = None
  /\ listOwner' = t
  /\ lockOwner' = None
  /\ Goto(t, IF t = Mux THEN "collect" ELSE "edit")
  /\ UNCHANGED <<call, jobsReady, jobs, update, pfds, at, entry, pipe>>

Places(s) == {i \in DOMAIN jobs : jobs[i].sock = s}

\* the body of addSocket: a socket that is in the list keeps its place
AddSocket(u) ==
  /\ pc[u] = "edit" /\ call[u].job # None
  /\ LET s == call[u].sock IN
     jobs' = IF Places(s) = {}
             THEN Append(jobs, call[u])
             ELSE [i \in DOMAIN jobs |->
                    IF i \in Places(s) THEN call[u] ELSE jobs[i]]
  /\ update' = TRUE
  /\ Goto(u, "unlock")
  /\ UNCHANGED <<call, lockOwner, listOwner, jobsReady, pfds, at, entry, pipe>>

\* the body of removeSocket: the place stays, the service thread removes it
RemoveSocket(u) ==
  /\ pc[u] = "edit" /\ call[u].job = None
  /\ LET live == {i \in Places(call[u].sock) : jobs[i].job # None} IN
     /\ jobs' = [i \in DOMAIN jobs |->
                  IF i \in live THEN call[u] ELSE jobs[i]]
     /\ update' = (update \/ live # {})
  /\ Goto(u, "unlock")
  /\ UNCHANGED <<call, lockOwner, listOwner, jobsReady, pfds, at, entry, pipe>>

\* unlockJobList: the thread goes on at label
UnlockJobList(t, label) ==
  /\ pc[t] = "unlock"
  /\ listOwner' = None
  /\ jobsReady' = (jobs # <<>>)
  /\ call' = IF t = Mux THEN call ELSE [call EXCEPT ![t].job = None]
  /\ Goto(t, label)
  /\ UNCHANGED <<lockOwner, jobs, update, pfds, at, entry, pipe>>

\* serviceThread waits until there are jobs
WaitForJobs ==
  /\ pc[Mux] = "wait" /\ jobsReady
  /\ Goto(Mux, "lockLock")
  /\ UNCHANGED <<call, lockOwner, listOwner, jobsReady, jobs, update, pfds,
                 at, entry, pipe>>

HasJob(e) == e.job # None

\* the places that have a job, in their order
Live == Kept(jobs, {e \in Range(jobs) : HasJob(e)})

\* serviceThread collects the poll entries when the jobs have changed
CollectPollEntries ==
  /\ pc[Mux] = "collect"
  /\ update' = FALSE
  /\ pfds' = IF ~update THEN pfds
             ELSE [i \in DOMAIN Live |->
                    [sock |-> Live[i].sock, in |-> Live[i].job.in,
                     out |-> Live[i].job.out, revents |-> {}]]
  /\ Goto(Mux, "poll")
  /\ UNCHANGED <<call, lockOwner, listOwner, jobsReady, jobs, at, entry, pipe>>

\* pollSocket begins: it makes its thread's pipe if there is none
EnterPoll ==
  /\ pc[Mux] = "poll"
  /\ IF pfds = <<>>
     THEN Goto(Mux, "sweep") /\ UNCHANGED pipe
     ELSE /\ Goto(Mux, "polling")
          /\ pipe' = [pipe EXCEPT ![Mux] = IF @ = "none" THEN "empty" ELSE @]
  /\ UNCHANGED <<call, lockOwner, listOwner, jobsReady, jobs, update, pfds,
                 at, entry>>

\* pollSocket returns: what happened[s] is what the kernel has for socket s;
\* errors are told to everyone, the rest to who asked
ReturnFromPoll(happened) ==
  LET Told(e) == {k \in happened[e.sock] :
                    k = "error" \/ (k = "in" /\ e.in) \/ (k = "out" /\ e.out)}
      some == \E i \in DOMAIN pfds : Told(pfds[i]) # {}
  IN /\ pc[Mux] = "polling"
     /\ some \/ pipe[Mux] = "full"
     /\ pfds' = [i \in DOMAIN pfds |->
                  [pfds[i] EXCEPT !.revents = Told(pfds[i])]]
     /\ pipe' = [pipe EXCEPT ![Mux] = "empty"]
     /\ Goto(Mux, IF some THEN "run" ELSE "sweep")
     /\ UNCHANGED <<call, lockOwner, listOwner, jobsReady, jobs, update, at,
                    entry>>

InPass == pc[Mux] = "run" /\ entry <= Len(pfds) /\ at <= Len(jobs)

\* a place whose job was removed has no poll entry
SkipRemoved ==
  /\ InPass /\ jobs[at].job = None
  /\ at' = at + 1
  /\ UNCHANGED <<pc, call, lockOwner, listOwner, jobsReady, jobs, update,
                 pfds, entry, pipe>>

\* a job is run with its poll entry and returns the job to poll for next
RunJob(newJob) ==
  /\ InPass /\ jobs[at].job # None
  /\ jobs' = [jobs EXCEPT ![at].job = newJob]
  /\ update' = (update \/ newJob # jobs[at].job)
  /\ at' = at + 1 /\ entry' = entry + 1
  /\ UNCHANGED <<pc, call, lockOwner, listOwner, jobsReady, pfds, pipe>>

\* the removed jobs leave the list, after the pass or at once
SweepRemoved ==
  /\ pc[Mux] = "sweep" \/ (pc[Mux] = "run" /\ ~InPass)
  /\ jobs' = Live
  /\ update' = (update \/ \E i \in DOMAIN jobs : ~HasJob(jobs[i]))
  /\ pfds' = [i \in DOMAIN pfds |-> [pfds[i] EXCEPT !.revents = {}]]
  /\ at' = 1 /\ entry' = 1
  /\ Goto(Mux, "unlock")
  /\ UNCHANGED <<call, lockOwner, listOwner, jobsReady, pipe>>

==============================================================================
