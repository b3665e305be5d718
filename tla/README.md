# A TLA+ model of DeskConnect

DeskConnect lets one keyboard and mouse control several computers. The computer
they are plugged into runs the *server*, the others run *clients*; moving the
pointer over the edge of a screen moves the keyboard and mouse to the screen
that lies there. Clipboards and files travel over the same connections. This
directory holds a model of the program's core logic (`src/src/lib/`), the model
checking runs on small instances of it, and theorems about it with proofs.

- `ServerFocus.tla` — the server: which screens are connected, which has the focus
- `FileDelivery.tla`, `FileTransfer.tla` — what file transfer promises, and how it is done
- `FilePaste.tla` — files copied on one computer and pasted on the other
- `EventQueue.tla` — the event queue on which every other part runs
- `SocketMultiplexer.tla`, `TCPSocket.tla` — the sockets and the thread that services them
- `ClientConnection.tla` — how a client reaches a server and stays with it
- `ClientListener.tla` — how the server takes a client in
- `ClipboardSharing.tla` — how a copy reaches the other screens
- `Sifting.tla` — sequences from which elements are left out, which the job list and the queues are
- `ServerFocusProofs.tla`, `FileTransferProofs.tla`, `EventQueueProofs.tla`, `TCPSocketProofs.tla`,
  `ClientConnectionProofs.tla`, `ClientListenerProofs.tla`, `SiftingProofs.tla` — theorems about
  the module each is named after; `ClipboardProofs.tla` — about the two halves of the clipboard,
  `FilePaste` and `ClipboardSharing`
- `MC*.tla`, `*.cfg` — the instances TLC checks
- `PROJECT.json` — components, runs, mutants, the source lines of every
  definition, findings, hazards, theorems

Run `tlc -config X.cfg M` in this directory for the module and the configuration
named under "runs" in PROJECT.json, and `tlapm M.tla` for each of the modules of proofs.

Contents: [1 Inventory](#1-inventory) · [2 Plan](#2-plan) ·
[3 The focus](#3-the-server-and-its-focus) · [4 File transfer](#4-file-transfer) ·
[5 File paste](#5-file-paste) · [6 The event queue](#6-the-event-queue) ·
[7 Sockets](#7-sockets-and-multiplexer) · [8 The client](#8-the-clients-connection) ·
[9 The listener](#9-the-listener-and-the-handshake) · [10 Clipboards](#10-clipboard-sharing) ·
[11 Runs](#11-runs-and-bounds) · [12 Proofs](#12-proofs) · [13 Findings](#13-findings-and-observations) ·
[14 Limits](#14-what-is-not-modelled)

## 1 Inventory

The server and the client are each one event loop thread, plus one thread of the
socket multiplexer and short-lived workers (file lists, resolver). State is
touched on the event loop's thread only; other threads talk to it by adding
events. The hard behaviours therefore come from the *order* of events, from
events that are queued for something that has changed meanwhile, from what a
timer finds when it expires, and from the two ends of a connection disagreeing.

| Component (`src/src/lib/`) | State it keeps | Operations | Talks to | What is hard | What makes it correct |
|---|---|---|---|---|---|
| Focus and connected screens (`server/Server.cpp`) | `m_clients` by name, `m_clientSet` by proxy, `m_oldClients` with close timers, `m_active`, `m_activeSaver`, the pending switch, the cursor lock | adopt a client, lose one, close one and wait 5 s, reload the configuration, force reconnect, motion at an edge, hotkeys, screen saver, delay and second tap | client proxies (enter, leave), primary screen, configuration, file receive session | takeover by a session of the same name; loss of a screen while something is pending that names it; reload while connected | the tables agree; the focus is on a connected screen; exactly that one is entered; a lock holds; closing sessions are deleted |
| Layout (`server/Config.cpp`) | screens, aliases, links, options | canonical name, neighbour | focus | cycles of links through screens that are not connected; edge arithmetic | the search ends; a link and its inverse agree |
| Handshake (`server/ClientListener.cpp`, `ClientProxyUnknown.cpp`) | new and waiting clients | accept, hello, time out after 30 s, hand over | focus | a peer that hangs up between success and adoption | every connection is adopted or closed, once |
| Client proxies (`server/ClientProxy1_*.cpp`) | protocol version, keep-alive timers, clipboard cache | parse, forward, keep-alive | focus, sockets | alarm against late traffic | a dead peer is noticed, a live one is not dropped |
| Primary screen (`server/PrimaryClient.cpp`, `deskflow/Screen.cpp`) | entered, fake input count | enter, leave | focus, platform | a leave the platform refuses | input is captured iff a client has the focus |
| Input filter (`server/InputFilter.cpp`) | rules | match, perform actions | focus | – | – |
| File transfer (`filetransfer/FileSend.cpp`, `FileReceiveSession.cpp`) | per connection a send session; per process one receive session and the name of its source | list files, pump, cancel; begin, chunk, reset | focus (session loss), proxies, sockets | one receive session for all clients; refused offers whose chunks still come; back-pressure; a connection that breaks and is taken over | what is announced is what one client sent; sends end; sessions are freed |
| File paste (`filetransfer/ClipboardFiles.cpp`) | offers, one waiting paste, its private receive session | announce, request, offer, refuse, wait 60 s, cancel | both proxies, file transfer | answers carry the offer's id only; late answers | a paste gets the files of its offer; nothing else arrives by that way |
| Client (`client/Client.cpp`, `ServerProxy.cpp`, `deskflow/ClientApp.cpp`) | connecting, ready, timers, handlers; the server proxy's handshake state and keep-alive alarm; which server and address to try | connect, hello, refuse, retry, disconnect, suspend | sockets, screen, file transfer | timer, refusal, disconnect and suspension in any order; events that outlive their stream | always a next attempt; old events do nothing to a new connection |
| Clipboard (`Server.cpp`, `ClipboardChunk.cpp`, `StreamChunker.cpp`) | owner, sequence number and content of each clipboard; what each proxy has sent | grab, change, retry, send on enter | focus, proxies, clients, phones | simultaneous grabs; reads that fail; echoes of what was just set | everybody ends with the last copy; the exchange ends |
| Event queue (`base/EventQueue.cpp`) | buffer, pending events, ready flag, timers, handlers | add, loop, dispatch, timers | all | other threads during start-up; starvation | order; every event and timer is served |
| Sockets and multiplexer (`net/`) | jobs, per-socket buffers, connection state | add and remove jobs, poll, read, write, close | event queue | two threads, a cursor that is protected by a hand-made lock | no job of a closed socket runs; no lost wake-up |
| Framing and stream buffers (`deskflow/PacketStreamFilter.cpp`, `io/`) | partial packet | read, write | sockets, proxies | packets split anywhere | sequential, within reach of unit tests |
| Key state (`deskflow/KeyState.cpp`, `KeyMap.cpp`) | key maps, pressed keys | press, release, update | platform | layouts | sequential tables |
| GUI core process (`gui/core/CoreProcess.cpp`) | process state, retry timer | start, stop, restart | core over IPC | restarts that race a stop | one process |
| IPC, daemon and watchdog (`deskflow/ipc/`, `platform/MSWindowsWatchdog.cpp`) | line protocol; child process | send command; restart child | GUI | a crash loop | – |
| Platform back ends, threads, logging, GUI, network monitor, Android client, packaging | – | – | – | – | – |

PROJECT.json lists the same components with their status, and 40 hazards, each
at the line where it bites, with the properties that cover it or the reason why
none does.

## 2 Plan

Ordered by importance; all rows are modelled. In the last column ✓ marks what is
proved (section 12).

| # | Module | Models | Composes | Properties | Theorems worth proving |
|---|---|---|---|---|---|
| 1 | `ServerFocus` | tables of screens, focus, pending switch, saver, reload | – | section 3 | type correctness ✓, focus and tables ✓, `LockHoldsPointer` ✓ |
| 2 | `FileTransfer` over `FileDelivery` | senders, the receive session, connections | refines `FileDelivery` | section 4 | type correctness ✓, `SourceIsConnected` ✓, the refinement `DeliversWhole` ✓ |
| 3 | `EventQueue` | start-up, order, timers | – | section 6 | type correctness ✓, `HandledInOrder` ✓, `LatenessIsBounded` ✓ |
| 4 | `FilePaste` | offers, requests, time-out, cancellation, transfers between two peers | – | section 5 | type correctness ✓, `ServesWhatItSends` ✓, `PasteGetsItsOffer` ✓, `PasteIsAnswered` ✓ |
| 5 | `TCPSocket` over `SocketMultiplexer` | the job list's hand-made lock, cursor, wake-up; the sockets whose jobs it runs | extends `SocketMultiplexer` | section 7 | type correctness ✓, `OneAtATime` ✓, `JobsFit` ✓, `LossIsTold` ✓ for any number of threads and sockets |
| 6 | `ClientConnection` | connect, retry, refusal, handshake, keep-alive alarm, suspension | – | section 8 | type correctness ✓, `NeverStuck` ✓, `NoMessageForgotten` ✓, `StaleEventsUnheard` ✓, `GuiTellsTheTruth` ✓ |
| 7 | `ClientListener` | accept, handshake with its 30 s timer, waiting clients, sockets | – | section 9 | type correctness ✓, `DisconnectionIsHeard` ✓, `WaitingIsFetched` ✓, `SocketOutlivesUsers` ✓ for any number of connections |
| 8 | `ClipboardSharing` | grabs, sequence numbers, chunked transfers, retries, switches | – | section 10 | type correctness ✓, `OthersFollowOwner` ✓, `LastCopyWins` ✓ |

Left in the parts that are done: in `FilePaste` the exchange of file lists (`list`,
`listing`) and the loss of the connection; in `FileTransfer` the other direction; in
`TCPSocket` closing a listening socket and shutting down one direction. Of the proofs
only what section 12 lists as model-checked.

The modules are written to be proved about: no `RECURSIVE` operators, constants with
named assumptions, one action per handler, invariants as conjunctions of named parts.

## 3 The server and its focus

`ServerFocus.tla`. Everything runs on the event loop's thread, so an action is one
event handler with all the calls it makes.

A *session* is a `BaseClientProxy` object; objects are reused by the model once
they are deleted (`stage = "free"`), so that a bound of three sessions is a bound
on those that live at once, not on those that ever connect. A session is
`waiting` between its handshake and its adoption, then `adopted`. `hungUp` says
that its `ClientProxyDisconnected` event is queued. `clients`, `clientSet` and `oldClients`
are the server's three tables, `active`, `activeSaver`, `switch` its members of that
name. `entered` collects the screens that have been told `enter` and not `leave`.

| Action | Code |
|---|---|
| `Handshake`, `DropWaiting` | `ClientListener::handleUnknownClient`, `handleClientDisconnected` |
| `HangUp` | the peer, or the proxy's own keep-alive |
| `AdoptClient` | `Server::adoptClient` with `addClient`, `removeOldClient`, `closeClient` |
| `HandleClientDisconnected`, `HandleClientCloseTimeout` | the handlers of the same name |
| `Reload`, `Disconnect` | `ServerApp::reloadConfig` + `Server::setConfig` + `closeClients`; `forceReconnect` |
| `MouseMovePrimary`, `MouseMoveSecondary` | `onMouseMovePrimary`, `onMouseMoveSecondary` with `isSwitchOkay`, `noSwitch`, `switchScreen` |
| `SwitchWaitTimeout`, `JumpToScreen`, `LockCursorToScreen` | the handlers of the delay timer and the hotkeys |
| `SaverActivated`, `SaverDeactivated` | `onScreensaver(true / false)` |

Abstractions. *Geometry*: a motion reaches no edge, or an edge behind which lies any
connected screen or none; where on the edge and how the links are drawn is left
open, which includes every layout. The second tap is in time or not, the pointer
is in a locked corner or not, a mouse button is down or not: all left open. *The lock*:
`lock.on` is `m_lockedToScreen`, `lock.disabled` the option `disableLockToScreen`, which an
accepted reload sets or clears and which `isLockedToScreen` asks first: with it neither the lock nor
a button holds the pointer (`Held`).
*Waiting clients*: the application fetches them in order; the model adopts any, which
includes that order. *Names*: the configuration is the function from names to canonical names
(`NoName`: not in the configuration).

`SwitchDuringSaver` says whether a switch can be asked for between the two events
of the screen saver. The code has no guard against it; whether the platform lets
it happen differs. It is FALSE in every run: with TRUE, TLC finds `FocusIsConnected` violated when a
switch during the saver is followed by the loss of the client it went to, because
`forceLeaveClient` looks at the remembered screen instead of the focus. In the
same way `SwitchDelay` and `TwoTap` are the options.

Properties. `TablesAgree` relates the table by name to the table by proxy, the names as they
are *now* to those the table is keyed with, and both to the objects that exist.
`FocusIsConnected`, `OnlyFocusIsEntered`, `SaverReturnsToConnected` relate the
focus to them. `WaitIsCurrent` says that a delayed switch belongs to the edge
where it was begun; it does not hold and no run checks it (section 13). `LockHoldsPointer` is an action property: while the cursor
is locked, and the configuration does not disable the lock, no motion and no timer moves the focus. `SessionsEnd` is a liveness
property: who hangs up or is told to close is deleted in the end.

Fairness: the actions that dispatch a queued event or an expired timer
(`DropWaiting`, `AdoptClient`, `HandleClientDisconnected`,
`HandleClientCloseTimeout`). `EventQueue` shows why the code justifies it: every
event and every timer is served. No fairness for peers and users.

## 4 File transfer

`FileDelivery.tla` says what the user is promised: a transfer that is announced as
received has exactly the files of one offer, complete and in order, and is
announced once, and a client's transfers are announced in the order in which they were offered. Less is promised
to a client of which a session was taken over: what the older session announced may come
late, behind transfers offered later, and a transfer may come *mixed*, with messages of both sessions, of whose files nothing
is said. `FileTransfer.tla` says how it is done, between clients that send and the
server that receives; `DeliversWhole` is the refinement, with `offers` and `overtaken` mapped to themselves and
`delivered` without the files of mixed transfers (`Promised`).

Each client has a `FileSendSession` (`send[c]`): `StartPaths` starts the worker that
lists the files, `Prepared` is the turn of the pump that finds the list ready and
writes the drag information, `Pump` a turn that writes the header of a file, a chunk
and its end as due, `WaitForDrain` a turn that finds too much output pending, `ReadFailure` a
file that vanished, shrank or cannot be read, `CancelSend` the user. The server has
one `FileReceiveSession` for all clients (`recv`) and knows its source by screen
name; `DragInfo` and `FileChunk` are `Server::onDragInfo` and `onFileChunk` with the
receive session's `begin` and `onChunk`. A transfer that is refused is refused at
the server only: its client goes on sending, and what it sends is ignored.

`wire[c]` is everything between a pump and the server's parser: output buffer,
network and input buffer, in order. `Cut` breaks a connection and loses a suffix of it;
each end notices on its own (`ClientNotices`, `ServerNotices`), and a client may be back before the
server has noticed (`Reconnect`), in which case the server's old session is taken
over: it is in `closing` until it hangs up or its 5 s are over. Until then it reads on: `closeClient()` sends a
close message and leaves the proxy's input handler in place, and `onDragInfo` and `onFileChunk` take what it reads for the
new session's, as the two have one name (`ReadOld`). The receive session remembers for the properties whether such
a session announced what is being received (`stale`) and whether the other session of that name added to it (`mixed`). A
client has at most one session in `closing` at a time (a bound).

Abstractions. A file is its size in chunks; empty files and directories are size 0.
A chunk is named by transfer, file and position, so that a chunk of another transfer, a
lost, repeated or reordered one shows. At full speed a timer event runs
up to 64 turns of the pump; the model's turns are single, which includes it.
The pump may be made to wait whenever something is on the wire (how much of it is
still in the output buffer is not known), and must wait when `WireLimit` messages are. Any message may fail to be taken
(disk, size limits, path checks): `Abandon`. Not in the model: the transfers from the server to a client, which use the same
two classes with one sender; speed limits and progress; names and paths.

Fairness: the pump's timer, the server's reading of input, both ends' notice of a
broken connection (TCP or the keep-alive alarm), and the worker that lists the files. No
fairness for `WaitForDrain`: the wire drains because the server reads.

## 5 File paste

`FilePaste.tla`. Copying files on one computer sends an *offer*; reading the pasted
files on the other sends a *request* and waits in a loop that dispatches events,
until the files have been sent by ordinary file transfer, or the paste fails. Both
ends of a connection run the same class, `ClipboardFiles`; `p` below is either end.

| Variable | Code |
|---|---|
| `local[p]`, `sendingId[p]` | `m_localId` (0: no paths), `m_sendingId`: what `p` offers, and which request it serves |
| `pull[p]` | `m_pull`: the offer that can be pasted here, and the paste of it, with what the paste was given (`got`) |
| `send[p]`, `recv[p]` | the stage of the `FileSendSession` and whether the `FileReceiveSession` is active, each with what it sends or receives |
| `wire[p]` | messages on their way to `p`, in order |
| `pasted`, `announced` | what pastes returned, and what the user was told has been received |

| Action | Code |
|---|---|
| `Announce` | `announce()`: something is copied |
| `PasteBegins`, `PasteReturns`, `PasteTimesOut` | the callback made for an offer, and `wait()` |
| `HandleOffer`, `HandleRequest`, `HandleCancel`, `HandleAnswer` | the branches of `handle()`, with what `fileOfferReceived` and `onClipboardFileOffer` do around it |
| `SendPlain`, `Pump`, `CancelTransfer` | `sendFilesTo`, the pump with its completion callback and `sendFinished()`, `cancelActiveFileTransfer` |
| `DragInfo`, `ChunkFails`, `LastChunk` | `onDragInfo`, `onFileChunk` and their counterparts in `ServerProxy.cpp` |

Offers are numbered where the code draws a random identifier. `what` and `got` are
history: a transfer carries no identifier in the code, and nothing in the model's guards reads
them. A transfer is two messages, its list (`drag`) and its last chunk (`end`);
chunks between them matter only in that one may fail (`ChunkFails`). While a paste waits
the loop dispatches everything, so the two ends are interleaved freely; once the
paste is over nothing else is dispatched until its caller has gone on (`Returning`).
A paste may time out at any moment, which includes 60 s without progress.

`PasteGetsItsOffer`: a paste returns the files of the offer it was made for.
It rests on the order of one connection, as the answers name the offer only and the
files name nothing; section 12 says how. `ServesWhatItSends`: a peer remembers the request whose files it
is sending, and forgets it when the send ends in whatever way. `PasteIsAnswered`: a
paste that waits has its request, its service, its answer or its end under way; a
state property, so no fairness is assumed. `PasteStaysPrivate` does not hold (section 13).

## 6 The event queue

`EventQueue.tla`. One thread runs `loop()`; another, the socket multiplexer's, adds
events. `addEvent` on another thread is two actions, because it reads the ready flag without the lock that protects the
buffer (`BeginAddEvent`, `EndAddEvent`). `loop()` first sets the flag (`SetReady`), then moves the pending events one
by one (`FlushPending`), then takes turns: a timer that has expired (`HandleTimer`), but not two in a row while events
are queued; else an event (`HandleEvent`); else it waits (`Wait`). In a turn zero or one unit of time
passes: the unit is the longest a turn takes. Input (`PlatformInput`) is added as fast as the loop can take
it. Pending events are moved and pushed without a lock, which is a data race; the model takes
each of the two as atomic and finds the disorder all the same.

Properties: the events of one thread are dispatched in order and none is skipped
(`HandledInOrder`); every one of them is dispatched although a timer expires at every turn,
and every timer is served although input never ends (`NothingStarves`); and none is late by more than two turns for each timer
(`LatenessIsBounded`), which needs the most overdue timer to be served first.

`EarlyThreads` are the threads that may add events before `loop()` is ready: a client connects before it enters
the loop (`ClientApp::mainLoop`), so its socket thread is one. The two properties about order and dispatch are about the others
(`Steady`), beside early threads, of which the run has one; of an early thread neither holds (section 13).

Fairness: the loop's thread and a thread inside `addEvent` go on. None for those who add events.

## 7 Sockets and multiplexer

`SocketMultiplexer.tla` has the variables and steps of the service thread and of the
threads that add and remove jobs; `TCPSocket.tla` extends it with the sockets whose
jobs are run, data and listening ones. Here, and only here, two threads share state,
so an action is one critical section or one step outside of any.

| Variable | Code |
|---|---|
| `lockOwner`, `listOwner` | `m_jobListLockLocker`, `m_jobListLocker`: the lock on the lock, and the lock |
| `jobs`, `update`, `jobsReady` | `m_socketJobs` with `m_socketJobMap`, `m_update`, `m_jobsReady` |
| `pfds`, `at`, `entry` | `serviceThread`'s poll entries, its cursor and the index it counts along |
| `pipe` | the pipe that wakes a thread's poll |
| `pc`, `call` | where each thread is, and the job it brings |
| `sock`, `net`, `told` | a socket's members; the kernel's end of it; the events it has queued |

| Action | Code |
|---|---|
| `LockJobListLock`, `UnblockPollSocket`, `LockJobList`, `AddSocket`, `RemoveSocket`, `UnlockJobList` | `addSocket`, `removeSocket`, step by step |
| `WaitForJobs`, `CollectPollEntries`, `EnterPoll`, `ReturnFromPoll`, `RunJob`, `SkipRemoved`, `SweepRemoved` | `serviceThread` |
| `Connect`, `Write`, `Read`, `Close`, `Bind`, `Accept`, `AcceptFails`, `SetListeningJob`, `MakeJob` | the methods of the sockets, up to where they call the multiplexer |
| `ServiceConnecting`, `ServiceConnected`, `ServiceListening` | the jobs |
| `WriteOutcomes` with `FailedWrites`, `ReadOutcomes` | `doWrite` and `doRead` with the handlers of what they throw |

`MakeJob` is separate from `Write` because the code calls `setJob(newJob())` after it
has released the socket's mutex. Bytes are counted in halves of the input buffer's limit.
Condition variables are guards: the POSIX implementation returns from every wait
after 100 ms and every caller tests its condition in a loop.
A connection may break between the poll and the service: the poll has then reported
no error, and it is the write or the read that throws (`Broken`). The write ends in a shut
output or in a loss; the read ends in a loss, or in another error, which the code
ignores together with the announcement of what was read before it.

The places that jobs have left are swept out of the list with `Kept` (`Sifting.tla`).

`OneAtATime`: the job list is never used by two threads. `JobsFit`: the poll entries
and the jobs, two lists walked side by side, match although places without a
job are left and jobs change during the pass; and no job is of a socket that is
closed. `LossIsTold`: whichever direction and thread notices a loss, in a poll, a write or a read, the owner hears of it.
`BytesFlow` and `ConnectionsAreAccepted` are liveness: no wake-up and no job is lost between the two threads.

Fairness: weak for the service thread and the peer's answer to a dial, strong for the application's
thread, as the lock it wants is free during every poll but taken again and again
(a POSIX mutex gives no order). `SocketAssumption`: an owner has at most one listening
socket, as the server's application has. `PolledBefore` says that the service thread has
made its wake-up pipe; see section 13 for the first calls. Left out: closing a listening socket,
shutting down one direction, the error event of a write to a lost connection, TLS.

## 8 The client's connection

`ClientConnection.tla`. A client tries its servers, and each server's addresses, one after
another; the stream's events, two timers, power events and the
application's retry timer come in any order. An action is one handler.

| Variable | Code |
|---|---|
| `client` | members of `Client` and of its `ServerProxy`: stream, handlers (`hooks`), connection timer, ready, entered, keep-alive alarm, suspended; `hasty` (history): a retry began this connection before the events of one that is gone were dispatched, or an earlier one whose events still are not |
| `app` | members of `ClientApp`: server, address index, number of resolved addresses, retry timers that run; `gui`: what the GUI was told; `late` (history): the attempt under way overtook the news that a connection stands |
| `filter` | the socket's input buffer and the complete packets in `PacketStreamFilter`; `closing`: `m_inputShutdown` |
| `server` | the other end: how it answers, how far its greeting is |
| `queue` | the event queue, each event with `old`: its stream has been deleted |

The actions carry the handlers' names: `HandleConnected`, `HandleConnectionFailed`,
`HandleDisconnected`, `HandleDisconnectRequested`, `HandleConnectTimeout`, `HandleSuspend`,
`HandleResume` of `Client.cpp`; `HandleClientConnected`, `-Failed`, `-Refused`, `-Disconnected` and
`RetryFires` of `ClientApp.cpp`; `KeepAliveAlarm` and `HandleData` of `ServerProxy.cpp`;
`ReadMore`, `HandleShutdown` of the packet filter; `Unheard` dispatches what nobody
listens for.

An event is addressed by a pointer. A new stream may be allocated where the old one
was, so `Connect` either leaves the old stream's events in the queue, where the new
stream would hear them, or drops them. A retry takes a second or more, but an expired timer comes before
the events that are queued (`EventQueue::getEvent`), several retry timers may run at once, and a machine that wakes
finds them due: a retry may come at any time. One that finds anything in the queue counts as a fault, which only bounds how often.
A message is one of eleven kinds, by what the client does on it. 256 KiB of input make the filter
yield to the queue: `ReadMore` may stop after one message. `ConnectTimeout` is what the 2 s timer does to an attempt
that is of no use: the server does not answer, or a packet waits that nobody will be told of (`Deaf`). `MaxIn`
bounds the messages of the socket and of the filter together.

`NeverStuck`: without a connection there is a timer or an event that starts one, and
with one there is a timer or an event that ends it if it is of no use. `StaleEventsUnheard`: an event of a stream that
is gone finds none of the client's handlers, above all when the machine wakes and connects at once, unless a retry ran ahead of it (`hasty`);
the packet filter below them may hear an old input or shutdown (section 13). The other properties hold
after a hasty retry too. `NoMessageForgotten`: a message that waits in the filter has an event
that makes somebody read it, or the connect timer runs. `GuiTellsTheTruth`: the state shown is that of the
connection once the queue is empty; after a silence it may say connected until the retry, and during an attempt
that overtook the news.
`ComesBack`: as long as one address of one server is willing, the client is ready again and again, or suspended.

Fairness: dispatching, timers, the network, a willing server's greeting. None for users and faults.

## 9 The listener and the handshake

`ClientListener.tla`. A connection is a socket; around it come a packet filter, a
`ClientProxyUnknown` that waits for the greeting, and the proxy it makes. All meet in one
event queue. `sock`, `filter`, `unknown` and `proxy` are these objects; `proxy[c].heard` is whose
handlers hear of the proxy, also after a failed handshake has deleted it: `ClientProxyUnknown::sendFailure`
forgets the proxy before it removes the handlers, which stay under the dead proxy's address; `waiting` is `m_waitingClients`; `crashed` is
set when something is released that is no socket.

| Action | Code |
|---|---|
| `HandleClientConnecting`, `HandleClientAccepted`, `HandleUnknownClient`, `HandleUnknownFailure`, `HandleProxyDisconnected`, `HandleDisconnectedOnAccept` | the handlers of `ClientListener` |
| `HandleInput` with `HandleGreeting`, `HandleMessages` | the packet filter, `ClientProxyUnknown::handleData`, `ClientProxy1_0::handleData` |
| `HandleReady`, `HandleTimeout`, `HandleShutdown`, `HandleFlatline` | the handlers of `ClientProxyUnknown` and `ClientProxy1_0` |
| `HandleClientConnected`, `HandleClientCloseTimeout` | adoption by the server (`ServerApp`), and the server's deletion of a proxy |

A message is a greeting, the screen's information, or one that is not understood. Versions are
left out: every version's proxy inherits these handlers.

`SocketOutlivesUsers`: no socket is released under a filter that reads it. `DisconnectionIsHeard`:
every proxy has exactly one owner who hears of its end, in each of the windows between a
decision and the event that reports it, and the events a deleted proxy leaves behind, which end the handshake a second time, come while
the unknown client that their handlers call is there. `WaitingIsFetched`: every waiting client has its event.
`HandshakesEnd` (liveness): no connection stays unknown; it rests on the
30 s timer. `ReleasesSockets` does not hold (section 13).

Fairness: dispatching, and the 30 s timer. `ServerFocus` starts where a client waits; what it does
there in single actions (`Handshake`, `DropWaiting`) is here in steps.

## 10 Clipboard sharing

`ClipboardSharing.tla`: the server with its own screen, computers and phones, one clipboard with text.

| Variable | Code |
|---|---|
| `clip[s]` | what the clipboard of screen `s` holds: the number of the copy, 0 nothing |
| `server` | `ClipboardInfo` (owner, sequence number, cached clipboard, `m_clipboardData`), `m_seqNum`, the active screen; `m_primaryClipboardRetryTimer`, when it runs for this clipboard, and how many delays are left |
| `proxy[c]` | `ClientProxy1_6`: dirty, content received, and its `StreamChunker`'s queue |
| `client[c]` | `Client` (owns, sent, `m_dataClipboard`, sequence number) or `BarrierClient` (sequence number); notices of its screen not handled yet |
| `up`, `down`, `events` | messages of each connection, and the server's event queue |
| `history` | for the properties: the last copy, where it was made, whether it crossed another, whose update was refused as too old |
| `spent` | how much of the two bounds is used up; `fails`: the readings since the primary's last grab that failed or were called off |

| Action | Code |
|---|---|
| `DispatchEvent` with `HandleClipboardGrabbed`, `OnClipboardChanged` | the server's handlers of the two events |
| `RetryFires` | the retry timer, running for this clipboard of the primary |
| `OtherGrabbed` | `schedulePrimaryClipboardRetry` for the other clipboard, which takes the timer over: there is one for both |
| `SwitchScreen` | what `switchScreen` does to the clipboard: refresh before leaving, hand over on entering |
| `ServerReceives`, `ServerPumps` | `ClientProxy1_6::recvClipboard`, `recvGrabClipboard`; its chunked sender |
| `HandleLocalGrab`, `ComputerReceives`, `ClientPumps` | `Client::handleClipboardGrabbed`, `sendClipboard`; `ServerProxy`'s messages; its sender |
| `PhoneReceives`, `PhoneCopies` | the Android client |
| `PrimaryCopies`, `PrimaryEchoes` | the platform's screen notices a copy, or notices the same content again |

Names that `FilePaste` has too begin with `Sharing`, as `ClipboardProofs` extends both modules. What a handler
of the server changes is a record of its own (`Now`, its six parts), so that the calls that one handler makes are operators
from records to sets of records.

Reading a screen's clipboard may fail or come back empty, at a cost (`MaxTwists`).
The other clipboard (the selection) runs the same code on state of its own; what the two share is the retry timer. A
grab of the other one calls off the retries of this one at any time (`OtherGrabbed`); on Windows it comes
with every copy, as `MSWindowsScreen::onClipboardChange` reports both. No number of readings is
taken for granted.
A transfer is one message, which arrives with its last chunk; a large one leaves its sender
over two turns (`Large`), and queued snapshots are replaced as `sendClipboard` does.

`OthersFollowOwner`: once all is quiet every screen shows what the server published
last, except the one it came from, those whose own later copy was refused as too old, and the primary when it was read
as empty since or none of the readings of its copy came to something (`Unfound`). `LastCopyWins`: once all is quiet every screen shows the last copy,
whatever echoes, retries and switches followed it. It excludes a copy made while another was on its way,
one that the server refuses as too old, and a copy of the primary that is `Unfound`: all three really happen (section 13).
A copy is unfound only if its first reading and all retries have failed or been called off: one failure
is made up for by the retries.
`ComesToRest` (liveness): screens do not hand each other the clipboard for ever, and the retries end.

Fairness: something of what is queued or due is handled. Left out: formats, size limits, files
(`FilePaste`), the second clipboard (the same code; the timer is not left out), loss of a session.

## 11 Runs and bounds

| Run | Instance | States | Shows |
|---|---|---|---|
| `focus` | 3 sessions (symmetric), 2 client names, reloads that drop a screen or are refused, one side edge and one top edge | 37 k | tables, focus and saver, default options |
| `focus_delay` | 2 sessions, switchDelay and switchDoubleTap | 102 k | the lock holds against timers; sessions end |
| `focus_delay_target` | switchDelay, 2 sessions | stops | finding: `FocusIsConnected` |
| `transfer` | 2 clients, 2 transfers, lists `<<0>>`, `<<2>>` and `<<0, 1>>`, 1 broken connection | 838 k | delivery is whole; the receive session is freed |
| `transfer_ends` | the same with list `<<0, 1>>`, output limit 1 | 96 k | sends end; complete transfers do not stay half received |
| `paste` | 2 peers (symmetric), 2 copies, 2 pastes, 1 other transfer, 1 cancellation | 465 k | a paste gets its offer; requests are served and answered |
| `events` | a timer of period 1, a one-shot of period 2, 2 events per thread, 1 of a thread that is early | 118 k | order, no starvation, bounded lateness |
| `sockets` | 1 application thread, 1 data and 1 listening socket, 2 calls, 1 connection | 280 k | mutual exclusion, matching lists, losses told, bytes and connections flow |
| `client` | 3 servers (alien and mute; no address; willing and dead), 3 messages in the buffers, 4 faults | 521 k | never stuck, a stale event heard only after a hasty retry, no message forgotten, the GUI, always back |
| `listener` | 2 connections over TLS, 2 messages each | 310 k | owners, sockets, waiting clients; handshakes end |
| `listener_release` | 1 connection | stops | finding: `ReleasesSockets` |
| `clipboard` | the primary, a computer, a phone; 2 copies, the first large; 2 twists | 877 k | all follow the owner; the last copy wins; rest |

Why these bounds are enough to be of use.

- *Focus.* Three sessions and two names are one session that holds a name, one that takes it over, and one
  more that does so again or holds the other name; two edges exercise the loop over both.
- *Files.* Two transfers are the least for interference, of two clients or of a client
  with its own past; a list with a file of two chunks and one with an empty file
  followed by a file reach every branch of the pump and of the receiver. One broken
  connection is enough for a takeover. Two copies are the least for an offer to be
  replaced, two pastes for one to be repeated or for both ends to paste at once, one
  other transfer and one cancellation for each to interfere; the ends of a paste
  run the same code, so its instance is symmetric in them.
- *Events.* Two events per thread are enough for disorder, two timers for one to hold up the other.
- *Sockets.* Two sockets make the two lists long enough to shift; two calls (`MaxCalls`: writes to an
  empty buffer and arrivals) bring one job from each side while the other's is under way;
  `MaxOut` 2 has a buffer that is partly written. The program has one application thread per
  multiplexer, which is why there is one.
- *Client.* Every kind of address, a server without any, and a willing one that a client that wakes up
  reconnects to at once, which is how a new stream comes while the old one's events are queued. Four faults
  (`MaxFaults`: hang-ups, refusals, silences, late answers, suspensions, overtaken news) are one
  that breaks a connection, one that breaks the attempt after it and two that meet what both left behind; an attempt
  that overtakes news of a connection needs all four. Three messages (`MaxIn`) are the whole handshake.
- *Listener.* Two connections, so that a waiting client can be fetched by another's event; two messages,
  the greeting and the information, each of which may be wrong (`MaxSays`).
- *Clipboard.* Two copies are one and one that replaces, crosses or is refused against it; the
  three screens run the three programs there are. `MaxTwists` bounds switches, echoes and failing
  readings together. The code has a table of three retries, the run one (`Retries`): two twists are enough
  for a copy of which every reading fails, and for one that the retry finds; a grab of the other
  clipboard costs nothing.

`MaxTransfers`, `MaxCuts`, `WireLimit`, `MaxPosts`, `MaxEarly`, `MaxQueued`, `MaxPastes`, `MaxPlain`, `MaxCancels`,
`MaxCalls`, `MaxOut`, `MaxSessions`, `MaxIn` (of the client), `MaxFaults`, `MaxSays`, `MaxCopies`, `MaxTexts` and
`MaxTwists` are the bounds that the code does not have, or has with larger values; all appear in the guards. Deadlock is not
checked where all may be quiet (the server with no input, transfers used up); it is checked for the event
queue, which always has its timers.

Every property of a passing run has a mutant: the definition of the model changed as a
plausible bug in the code would change it, under which TLC finds the property violated.

## 12 Proofs

All invariants and action properties that the passing runs check are theorems. TLAPS checks them for every value of the constants under the modules'
named assumptions, which say no more than what kind of thing each constant is, with two exceptions that
come from the code: an owner has one listening socket (`SocketAssumption`) and a client has a server
to connect to (`HostsAssumption`). A theorem that needs more states it as a hypothesis.

| Module of proofs | Assumptions | Theorems on the runs' properties | Hypotheses |
|---|---|---|---|
| `ServerFocusProofs` | `NamesAssumption`, `OptionsAssumption` | `TypeCorrect`, `LockHolds`, `FocusSafe` (four invariants) | `FocusSafe`: `DefaultOptions` |
| `FileTransferProofs` | `TransferAssumption` | `TransferTypeCorrect`, `SourceStaysConnected`, `TransferDelivers` (refinement) | – |
| `EventQueueProofs` | `QueueAssumption` | `QueueTypeCorrect`, `TimersAreInTime`, `SteadyInOrder` | – |
| `ClipboardProofs` | `PasteAssumption` | `PasteTypeCorrect`, `ServesAlways`, `PastesGetTheirOffer`, `PastesAreAnswered` | – |
| | `ClipboardAssumption` | `SharingTypeCorrect`, `OthersFollow`, `LastCopyIsShown` | – |
| `TCPSocketProofs` | `MuxAssumption`, `SocketAssumption` | `SocketTypeCorrect`, `ListHasOneUser`, `LossesAreTold`, `JobsFitSockets` | – |
| `ClientConnectionProofs` | `HostsAssumption` | `ConnectionTypeCorrect`, `NeverGetsStuck`, `MessagesAreRemembered`, `OldEventsGoUnheard`, `GuiIsTruthful` | – |
| `ClientListenerProofs` | `ListenerAssumption` | `ListenerTypeCorrect`, `SocketsOutlive`, `DisconnectionsAreHeard`, `WaitingAreFetched` | – |
| `SiftingProofs` | – | `KeptSifts` (used by four of the others) | – |

The hypothesis is necessary: without each part of it TLC finds a property violated (section 13, and for the switch during
the screen saver section 3).

The modules are laid out alike: the parts of the inductive invariant, lemmas about the operators, one lemma for
each action or group of actions with one step per part of the invariant, a lemma that the next-state relation
keeps it, and the theorems. Where several steps change a value in the same way, the part is a predicate
on values (`Fits(client, app, filter, server, queue)`), so that one lemma speaks of it before and after.
The arguments:

- **Focus.** `TypeOK` is not inductive: a wait timer that expires switches to `switch.screen`, which the type
  allows to be no screen; `TypeInv` adds that a timer that runs has a screen. The invariant of `FocusSafe`
  is `TypeInv /\ TableInv /\ Focus`. `TableInv` says that each connected session is filed under the name it was adopted
  with, which without aliases is the name it announced and does not change with a reload; that is
  why what `removeClient` erases by name is what it erases by proxy. `Focus` adds that no timer runs, and that while
  something is remembered for the end of the screen saver, the saver is on and the focus is the primary, so that
  losing the screen that is remembered never loses the one that has the focus. `DefaultOptions`: no switch delay, no
  switch during the screen saver, no aliases. `LockHolds` needs no invariant: `HeldPush` says that no push switches while
  the cursor is held, and every caller passes the lock on.
- **File transfer.** `TransferInv` follows what a connection carries. `Chained`: each message on the wire is one
  that its transfer can send, and begins where the one before ended; `Receiving`: the first goes on where the receiver is;
  `Sending`: the last leads to where the sender is, until the connection breaks. The wire of a session that was taken over
  is followed alike, and all on it is older than what the new one has (`Apart`). `Received` says that what has come so far is what the
  transfer says, or is mixed and then of a client that was overtaken;
  with it, each read of the server is a step of `FileDelivery` or a stutter. Transfers are numbered as they begin, and
  what has begun comes before what is on a wire (`BegunBefore`, by `Precedes`: in order, but for what came late), which
  keeps every transfer from coming twice. How much waits on a wire (`WireFits`) bounds it for `TypeOK`.
- **Event queue.** For lateness, `LateInv`: a timer can have lost two turns for each timer that is not ahead of it, and one
  more unless the last turn was a timer's. For order, `OrderInv`: of every thread that adds nothing before
  the loop is ready, the events that were added and not dispatched are in the buffer in order, none missing.
- **Paste.** `EndsFit` speaks of both directions of the connection at once. A request that stands is on its way, or served
  by the other end, or answered; and (`BeginsSettled`) once a request was begun, the first transfer that ends is
  its own and was prepared for by its list, or an error for it comes before, or the sender still
  serves it. That is the order on which `PasteGetsItsOffer` rests, as the files carry no identifier.
- **Sockets.** `LockInv` ties each step of a thread to who holds the list, and gives `OneAtATime`. `JobInv`,
  `FitInv`, `CallInv` and `ListenInv` say which jobs can be in the list, or on their way to it, for a socket in a given state: a closed one has
  none, a lost one only a job that finds nothing to write, a listening one none between a
  connection and the next call of `accept`. `PassInv` has a witness for each pass: a monotone function from the poll entries
  to the jobs they were made for, which survives jobs that are added, replaced or taken away during the pass.
- **Clipboard.** The server's part of the state is one record, and each handler has a predicate on the record before and after
  (`ReadOutcome`, `GrabbedByClient`, `PushedToAll`, `EntersFrom`), which is all that the invariants need to know of it. `Leads` follows a connection:
  what a client shows once the transfers in its proxy's outbox and the messages on the way have come is decided by the last
  of them that settles it. `FollowInv` says that every client is led to what the server published last, except the source, those that were
  refused and those whose grab the server has not seen; and that the primary shows it, or has an event to come, or a retry (`Unread`: the readings of its last
  copy that failed or were called off, and those still to come, are all that there are, so that with none left the copy is unfound). It rests on no proxy being dirty while something is published, so that a
  switch sends nothing. `LastInv` is about an orderly last copy: all clients but its source have nothing under way; if the primary made it, it is to be
  read or everybody is led to it; if client `s` made it, `s` keeps showing it, and either it is the last thing that `s` has under way (`Final`: in
  its notices, its outbox, the messages, the events) or it was refused or everybody is led to it. A snapshot that a newer one replaces in an outbox
  (`Queued`) does no harm, since only the last transfer counts.
- **Client.** `Fits` has the phases of a stream by the handlers that are installed (`HooksFit`), the answer
  to an attempt that comes at most once (`DialsFit`, unless the attempt was begun in haste: `OwnDials`), and the order of the queue: what was left for
  streams that are gone stands before what is fresh (`OldComeFirst`), which is why it is dispatched before the
  new stream's handlers change, except those of a hasty one. `NewsFits` follows what the GUI will show when the news in the queue has been told.
- **Listener.** `ConnInv` is the life of one connection by its socket, its greeting, its proxy
  and the kinds of its events in the queue; `Once`: accepting is answered once. `WaitingIsFetched` compares two
  numbers, the clients that wait and the events that fetch one, and is proved by counting. `NewsInv` is the order of a
  connection's events: a proxy is ready once, nothing follows its disconnection, and once its handshake has failed what it had to tell
  stands before the outcomes, whose dispatch deletes the unknown client.
- **Sifting.** `Kept` is defined by recursion on the places of a sequence. That the function exists, and that what is kept is what
  was there, in order and once, is proved by induction in the form of a least counterexample
  (`LeastNumber`, from `WellFoundedInduction`); the same is done for `Parsed` of `ClientConnection`.

Only model-checked:

- Liveness, which TLAPS cannot prove under fairness: `SessionsEnd`, `SendEnds`, `CompleteArrives`, `NothingStarves`, `BytesFlow`,
  `ConnectionsAreAccepted`, `ComesBack`, `HandshakesEnd`, `ComesToRest`.
- The findings' properties, which do not hold.

## 13 Findings and observations

PROJECT.json gives each finding with the quoted promise and the run that shows it.

1. A delayed switch keeps pointing to a client that was lost and deleted (`focus_delay_target`).
2. The listener releases as a socket what is none, when a waiting client is lost (`listener_release`).

Further disagreements that the models show, without a run of their own; the constants
with which TLC finds them are given.

- A delayed switch survives the edge it was begun on, and ends elsewhere (`WaitIsCurrent`; constants of `focus_delay_target`).
- A reload that makes a name an alias leaves the two tables disagreeing (`TablesAgree`; `Configs <- AliasConfigs`).
- A session that was taken over reads on, although `closeClient()` says "we're not going to listen to it anymore"
  (`Server.cpp:2184`): its transfer may replace the new session's, its chunks may go into the new one's file or the reverse, and such a file is
  announced as received (`delivered[d].files = Delivery!Content(delivered[d].id)` for all `d`; constants of `transfer`, one client).
- It may also begin a transfer when the new session is gone as well; after its 5 s the receive session stays active with nobody
  to receive from, and every other client's files are refused until the user cancels or a client of that name
  sends or is lost (`SourceIsConnected` without `~recv.stale`; one client, two cuts).
- Events added while the loop starts are overtaken, or stay in the pending queue (`HandledInOrder` with `Posters` for `Steady`).
- The files of a paste that is over before they arrive are announced as received (`PasteStaysPrivate`; constants of `paste`).
- A switch during the screen saver and the loss of its target leave the focus on a deleted proxy (`FocusIsConnected`; `SwitchDuringSaver = TRUE`).
- The first call into the multiplexer, before its thread has polled, writes its wake-up byte to a pipe that
  becomes the caller's own (`ArchNetworkBSD.cpp:717`): the poll is not woken and the call waits until some socket
  has an event (`ConnectionsAreAccepted` and `BytesFlow` are checked with `PolledBefore = TRUE` for that reason).
- Bytes that were read before an error that the read ignores are in the buffer and nobody is told (`TCPSocket.cpp:559`): `doRead`
  throws before it posts the event, and later input finds the buffer not empty and posts none (`ReadOutcomes`).
- An accept that fails without a socket never asks for the next connection (`TCPListenSocket.cpp:105`); the property leaves it out.

What the models had to allow or exclude, as the code does nothing about it:

- Clipboards copied on two screens at once may end exchanged; a copy on the server's screen between a client's
  grab and its data, even an echo, overwrites the client's copy; an empty read leaves an empty cache, and the
  switch back to the primary then clears its clipboard; the first switch to a client sends it an empty clipboard.
- A client's copy may be refused as too old and stay where it is, when another's sequence number is ahead
  (the phone counts on its own; a computer starts at 0 again after reconnecting). It keeps that copy while the others show what
  the server published; and when a later copy of its own is accepted but read as empty, it is led to nothing new either.
- A copy on the primary of which all readings fail, or come back empty, is not published before the pointer leaves the primary, which
  reads it once more; until then, or if that fails too, the clients keep the copy before and nobody is told (`LastCopyWins` without `~Unfound`; constants of `clipboard`).
  It takes four readings where a copy grabs one clipboard. On Windows, where it grabs both, it takes one: the selection's grab takes the
  retry timer over (`Server.cpp:1295`), and what is read again is the selection.
- After a retry that comes before the events of a stream that is gone, these may be heard by the new one: an old
  answer makes it listen before it is connected, an old disconnection ends it (`StaleEventsUnheard` without `hasty`). It is
  tried again. Every suspension
  while connected starts a second chain of retries, next to the one that the disconnection has started.
- Two retry timers may run at once (a suspension starts the second). When a keep-alive alarm has queued the end of a
  connection before the last message of its handshake is read, and the connection is then reset, the news that the
  client is connected is queued behind the end: a retry that comes before the news is dispatched starts the next attempt, and the GUI
  shows a connection during all of it (`app.late`; `ClientApp::handleClientConnected` asks nobody whether it still stands).
- An old input event that reaches a new stream at the same address (suspended and resumed at once, before the
  event is dispatched) makes the packet filter read before `Client::handleConnected` has installed the handler of
  its input. The filter then has a complete packet and tells of no later one (`PacketStreamFilter.cpp:126-160`), so that
  the connection hangs until the 2 s timer ends it (`Deaf`).
- A handshake may be ended twice: a proxy that tells that it is ready or disconnected just before the 30 s timer deletes it
  is heard after the failure, whose outcome is then announced again. The second finds nothing to do. The handlers stay
  under the dead proxy's address when its unknown client is deleted; another object at that address, which the model does not have, would
  first put its own in their place (`EventQueue::addHandler` overwrites them).
- A message that arrives together with the client's greeting waits for the next one, or for the 30 s timer
  (`ClientProxyUnknown::handleData` reads one message); sockets of adopted clients stay in `m_clientSockets`, and
  a failure after the proxy took the stream leaves the socket open.

## 14 What is not modelled

Left of the modelled parts: section 2. Not modelled at all, with the reason:

- *The search for the neighbour and the geometry of edges* (`Server::getNeighbor`, `Config`'s intervals): sequential
  arithmetic over the layout. `ServerFocus` leaves its result open, which covers every layout, at the price of
  saying nothing about which screen lies where.
- *Key state and key maps, input filter, hotkeys*: large sequential tables, no concurrency.
- *Packet framing, stream buffers, message formats, clipboard formats*: byte shuffling within reach of unit tests.
- *Platform back ends* (Windows, macOS, X11, Wayland), *threads and primitives, network monitor, daemon and watchdog*: calls
  into the operating system. What they promise the rest (a copy is noticed, a poll returns) is an
  external action where it is used.
- *GUI, core process control, IPC*: widgets, a process handle with a timer, line protocols.
- *TLS*: a library; only its accept is a step of the listener.
- *The Android client's connection, input and files*: a second implementation of the same protocol; its clipboard is modelled.
- *Logging, packaging, translations*: no logic.

By lines these are most of the repository: the platform back ends, the GUI and the key tables are over two thirds of it.
