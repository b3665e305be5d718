---------------------------- MODULE FileTransfer ----------------------------
(***************************************************************************)
(* Files sent by clients to the server: FileSendSession at each client     *)
(* (src/lib/filetransfer/FileSend.cpp), FileReceiveSession at the server   *)
(* (FileReceiveSession.cpp) and what Server.cpp and ServerProxy.cpp make   *)
(* of them.  The server has one receive session for all its clients; it    *)
(* tells senders apart by their screen name only.                          *)
(*                                                                         *)
(* A file is its size in chunks; an empty file and a directory are size 0. *)
(* wire[c] is everything between a client's pump and the server's parser:  *)
(* output buffer, network and input buffer, in order.                      *)
(***************************************************************************)
EXTENDS Integers, Sequences, FiniteSets

CONSTANTS
    Clients,       \* the clients' screen names
    Manifests,     \* file lists that can be sent: sequences of sizes, in chunks
    MaxTransfers,  \* bound on the transfers begun
    MaxCuts,       \* bound on the connections that break
    WireLimit,     \* messages pending from which on the pump must wait
    NoClient       \* the empty m_fileReceiveSource

ASSUME TransferAssumption ==
    /\ NoClient \notin Clients
    /\ Manifests \subseteq Seq(Nat) \ {<<>>}
    /\ MaxTransfers \in Nat /\ MaxCuts \in Nat
    /\ WireLimit \in Nat \ {0}

VARIABLES
    offers,     \* every transfer begun: its client and its file sizes
    told,       \* what each transfer's sender was told: "nothing", "ok", "error"
    fate,       \* of each transfer at the server: "unseen", "receiving", "dropped", "delivered"
    send,       \* m_fileSend of each client
    link,       \* of each client: "up"; "cut", broken unnoticed; "down", noticed
    cuts,       \* connections that have broken
    session,    \* clients the server has a session for
    wire,       \* messages of that session the server has yet to read
    closing,    \* clients with an older session, taken over and not yet gone
    oldWire,    \* messages of the older session the server has yet to read
    overtaken,  \* (history) clients of which a session was taken over
    recv,       \* m_fileReceive and m_fileReceiveSource
    delivered   \* transfers announced as received

vars == <<offers, told, fate, send, link, cuts, session, wire, closing, oldWire, overtaken,
          recv, delivered>>

senderVars == <<offers, told, send>>
linkVars == <<link, cuts, session, closing, overtaken>>
receiverVars == <<recv, fate, delivered>>

-----------------------------------------------------------------------------
(* The sender.                                                             *)

Ready == [stage |-> "idle", id |-> 0, index |-> 1, sent |-> 0, started |-> FALSE,
          timer |-> FALSE]

SizesOf(id) == offers[id].sizes

\* What c writes joins its wire, unless its connection is broken.
Write(c, messages) ==
    wire' = IF link[c] = "up" THEN [wire EXCEPT ![c] = @ \o messages] ELSE wire

\* fail(), completeOk() and cancel(): the session is ready for another send.
Finish(c, outcome) ==
    /\ send' = [send EXCEPT ![c] = Ready]
    /\ told' = [told EXCEPT ![send[c].id] = outcome]

\* Mutant of TurnMessages: only an empty file has an end.
BugNoEndAfterChunk(s) ==
    LET size == SizesOf(s.id)[s.index]
        header == [kind |-> "start", id |-> s.id, file |-> s.index, size |-> size]
        chunk == [kind |-> "chunk", id |-> s.id, part |-> <<s.id, s.index, s.sent + 1>>]
        end == [kind |-> "end", id |-> s.id, file |-> s.index]
    IN (IF s.started THEN <<>> ELSE <<header>>)
       \o (IF s.sent < size THEN <<chunk>> ELSE <<>>)
       \o (IF s.sent >= size THEN <<end>> ELSE <<>>)

\* The messages one turn of the pump writes: the header of a file that is not
\* started, one chunk if one is missing, and the end after the last chunk.  Which
\* transfer and file they are of is there for the properties: the receiver of a
\* chunk or an end does not see it.
TurnMessages(s) ==
    LET size == SizesOf(s.id)[s.index]
        header == [kind |-> "start", id |-> s.id, file |-> s.index, size |-> size]
        chunk == [kind |-> "chunk", id |-> s.id, part |-> <<s.id, s.index, s.sent + 1>>]
        end == [kind |-> "end", id |-> s.id, file |-> s.index]
    IN (IF s.started THEN <<>> ELSE <<header>>)
       \o (IF s.sent < size THEN <<chunk>> ELSE <<>>)
       \o (IF s.sent + 1 >= size THEN <<end>> ELSE <<>>)

\* The session after that turn.
AfterTurn(s) ==
    IF s.sent + 1 >= SizesOf(s.id)[s.index]
    THEN [s EXCEPT !.index = @ + 1, !.sent = 0, !.started = FALSE]
    ELSE [s EXCEPT !.sent = @ + 1, !.started = TRUE]

\* sendFiles() and startPaths(): a worker lists the files, the pump polls it.
StartPaths(c, sizes) ==
    /\ link[c] # "down"
    /\ send[c].stage = "idle"
    /\ Len(offers) < MaxTransfers
    /\ offers' = Append(offers, [from |-> c, sizes |-> sizes])
    /\ send' = [send EXCEPT ![c] = [Ready EXCEPT !.stage = "preparing",
                                                 !.id = Len(offers) + 1, !.timer = TRUE]]
    /\ UNCHANGED <<told, linkVars, wire, oldWire, receiverVars>>

\* The pump finds the list ready: start() writes it, or it is refused.
Prepared(c) ==
    LET id == send[c].id
        drag == [kind |-> "drag", id |-> id, count |-> Len(SizesOf(id))]
    IN /\ send[c].stage = "preparing" /\ send[c].timer
       /\ \/ /\ Write(c, <<drag>>)
             /\ send' = [send EXCEPT ![c].stage = "sending"]
             /\ UNCHANGED told
          \/ Finish(c, "error") /\ UNCHANGED wire
       /\ UNCHANGED <<offers, linkVars, oldWire, receiverVars>>

\* Mutant of WaitForDrain: the pump is not scheduled again.
BugWaitForever(c) ==
    /\ send[c].stage = "sending" /\ send[c].timer
    /\ wire[c] # <<>>
    /\ send' = [send EXCEPT ![c].timer = FALSE]
    /\ UNCHANGED <<offers, told, linkVars, wire, oldWire, receiverVars>>

\* pump() with too much output pending: poll again.
WaitForDrain(c) ==
    /\ send[c].stage = "sending" /\ send[c].timer
    /\ wire[c] # <<>>
    /\ send' = [send EXCEPT ![c].timer = TRUE]
    /\ UNCHANGED <<offers, told, linkVars, wire, oldWire, receiverVars>>

\* Mutant of Pump: what is pending is not looked at.
BugPumpFlood(c) ==
    LET s == send[c]
    IN /\ s.stage = "sending" /\ s.timer
       /\ \/ /\ s.index > Len(SizesOf(s.id))
             /\ Finish(c, "ok") /\ UNCHANGED wire
          \/ /\ s.index <= Len(SizesOf(s.id))
             /\ Write(c, TurnMessages(s))
             /\ send' = [send EXCEPT ![c] = AfterTurn(s)]
             /\ UNCHANGED told
       /\ UNCHANGED <<offers, linkVars, oldWire, receiverVars>>

\* pump(): one turn at limited speed; at full speed a timer event does several.
Pump(c) ==
    LET s == send[c]
    IN /\ s.stage = "sending" /\ s.timer
       /\ link[c] = "up" => Len(wire[c]) < WireLimit
       /\ \/ /\ s.index > Len(SizesOf(s.id))
             /\ Finish(c, "ok") /\ UNCHANGED wire
          \/ /\ s.index <= Len(SizesOf(s.id))
             /\ Write(c, TurnMessages(s))
             /\ send' = [send EXCEPT ![c] = AfterTurn(s)]
             /\ UNCHANGED told
       /\ UNCHANGED <<offers, linkVars, oldWire, receiverVars>>

\* pump(): the file cannot be opened, shrank or cannot be read.  A header that
\* was written stays written.
ReadFailure(c) ==
    LET s == send[c]
    IN /\ s.stage = "sending" /\ s.timer
       /\ link[c] = "up" => Len(wire[c]) < WireLimit
       /\ s.index <= Len(SizesOf(s.id))
       /\ \/ UNCHANGED wire
          \/ /\ ~s.started /\ s.sent < SizesOf(s.id)[s.index]
             /\ Write(c, <<Head(TurnMessages(s))>>)
       /\ Finish(c, "error")
       /\ UNCHANGED <<offers, linkVars, oldWire, receiverVars>>

\* cancelFileTransfer(): the server is not told.
CancelSend(c) ==
    /\ send[c].stage # "idle"
    /\ Finish(c, "error")
    /\ UNCHANGED <<offers, linkVars, wire, oldWire, receiverVars>>

-----------------------------------------------------------------------------
(* The receiver.                                                           *)

\* For the properties: stale, announced by a session that was taken over; mixed, another
\* session of that name than the one that announced it has added to it.
Inactive == [active |-> FALSE, source |-> NoClient, id |-> 0, stale |-> FALSE, mixed |-> FALSE,
             count |-> 0, files |-> <<>>, open |-> FALSE, size |-> 0, data |-> <<>>]

\* reset(): m_fileReceiveSource is kept.
Reset == [Inactive EXCEPT !.source = recv.source]

\* The fates once the transfer that is being received is abandoned.
Abandoned == IF recv.active THEN [fate EXCEPT ![recv.id] = "dropped"] ELSE fate

Abandon ==
    /\ recv' = Reset
    /\ fate' = Abandoned
    /\ UNCHANGED delivered

\* onDragInfo(): refused while another client's files come in; otherwise it
\* replaces what was coming in, and begin() may fail.
DragInfo(c, m, stale) ==
    \/ /\ recv.active /\ recv.source # c
       /\ UNCHANGED receiverVars
    \/ /\ ~recv.active \/ recv.source = c
       /\ \/ /\ recv' = [Inactive EXCEPT !.active = TRUE, !.source = c, !.id = m.id,
                                         !.stale = stale, !.count = m.count]
             /\ fate' = [Abandoned EXCEPT ![m.id] = "receiving"]
          \/ /\ recv' = [Inactive EXCEPT !.source = c]
             /\ fate' = [Abandoned EXCEPT ![m.id] = "dropped"]
       /\ UNCHANGED delivered

\* The messages onChunk() takes; any other is an error.
Acceptable(m) ==
    CASE m.kind = "start" -> ~recv.open /\ Len(recv.files) < recv.count
      [] m.kind = "chunk" -> recv.open /\ Len(recv.data) < recv.size
      [] m.kind = "end"   -> recv.open /\ Len(recv.data) = recv.size

\* onChunk() of a message it takes; after the last file the transfer is
\* announced and the session reset.
TakeChunk(m, mixed) ==
    LET files == Append(recv.files, recv.data)
    IN \/ /\ m.kind = "start"
          /\ recv' = [recv EXCEPT !.open = TRUE, !.size = m.size, !.data = <<>>, !.mixed = mixed]
          /\ UNCHANGED <<fate, delivered>>
       \/ /\ m.kind = "chunk"
          /\ recv' = [recv EXCEPT !.data = Append(@, m.part), !.mixed = mixed]
          /\ UNCHANGED <<fate, delivered>>
       \/ /\ m.kind = "end" /\ Len(files) < recv.count
          /\ recv' = [recv EXCEPT !.files = files, !.open = FALSE, !.size = 0, !.data = <<>>,
                                  !.mixed = mixed]
          /\ UNCHANGED <<fate, delivered>>
       \/ /\ m.kind = "end" /\ Len(files) = recv.count
          /\ delivered' = Append(delivered, [id |-> recv.id, late |-> recv.stale,
                                             mixed |-> mixed, files |-> files])
          /\ fate' = [fate EXCEPT ![recv.id] = "delivered"]
          /\ recv' = Reset

\* Mutant of FileChunk: whoever sent it.
BugAnySender(c, m, stale) ==
    IF ~recv.active THEN UNCHANGED receiverVars
    ELSE (Acceptable(m) /\ TakeChunk(m, recv.mixed \/ (recv.source = c /\ stale # recv.stale)))
         \/ Abandon

\* onFileChunk(): a chunk without a drag info, or of another client than the
\* one that is being received from, is ignored; which session of that client it
\* comes from is not looked at.  Whatever the message, the disk, a size limit or
\* the message itself may end the transfer.
FileChunk(c, m, stale) ==
    IF ~recv.active \/ recv.source # c THEN UNCHANGED receiverVars
    ELSE (Acceptable(m) /\ TakeChunk(m, recv.mixed \/ stale # recv.stale)) \/ Abandon

\* ClientProxy1_5::parseMessage()
ParseMessage(c, m, stale) ==
    IF m.kind = "drag" THEN DragInfo(c, m, stale) ELSE FileChunk(c, m, stale)

Read(c) ==
    /\ c \in session /\ wire[c] # <<>>
    /\ ParseMessage(c, Head(wire[c]), FALSE)
    /\ wire' = [wire EXCEPT ![c] = Tail(@)]
    /\ UNCHANGED <<senderVars, linkVars, oldWire>>

\* The session that was taken over reads on until it is deleted: closeClient()
\* leaves its input handler in place.
ReadOld(c) ==
    /\ c \in closing /\ oldWire[c] # <<>>
    /\ ParseMessage(c, Head(oldWire[c]), TRUE)
    /\ oldWire' = [oldWire EXCEPT ![c] = Tail(@)]
    /\ UNCHANGED <<senderVars, linkVars, wire>>

\* cancelActiveFileTransfer()
CancelReceive ==
    /\ recv.active
    /\ Abandon
    /\ UNCHANGED <<senderVars, linkVars, wire, oldWire>>

-----------------------------------------------------------------------------
(* Connections.                                                            *)

\* The connection breaks; of what is on its way some has arrived.
Cut(c) ==
    /\ link[c] = "up" /\ cuts < MaxCuts
    /\ link' = [link EXCEPT ![c] = "cut"]
    /\ cuts' = cuts + 1
    /\ \E n \in 0 .. Len(wire[c]) : wire' = [wire EXCEPT ![c] = SubSeq(@, 1, n)]
    /\ UNCHANGED <<senderVars, session, closing, oldWire, overtaken, receiverVars>>

\* The client notices: ~ServerProxy cancels its send.
ClientNotices(c) ==
    /\ link[c] = "cut"
    /\ link' = [link EXCEPT ![c] = "down"]
    /\ IF send[c].stage = "idle" THEN UNCHANGED <<send, told>> ELSE Finish(c, "error")
    /\ UNCHANGED <<offers, cuts, session, closing, wire, oldWire, overtaken, receiverVars>>

\* Mutant of DropSource: the receive session outlives its source.
BugKeepReceiving(c) == UNCHANGED receiverVars

\* removeClient() and handleClientDisconnected(): nothing more comes from c.
DropSource(c) == IF recv.source = c THEN Abandon ELSE UNCHANGED receiverVars

\* The server notices: handleClientDisconnected() of the current session.
ServerNotices(c) ==
    /\ c \in session /\ link[c] # "up"
    /\ session' = session \ {c}
    /\ wire' = [wire EXCEPT ![c] = <<>>]
    /\ DropSource(c)
    /\ UNCHANGED <<senderVars, link, cuts, closing, oldWire, overtaken>>

\* The client connects again; if the server still has its session, adoptClient()
\* closes that one first, and what it has not read stays to be read.  A client has
\* at most one such session at a time (a bound).
Reconnect(c) ==
    /\ link[c] = "down" /\ c \notin closing
    /\ link' = [link EXCEPT ![c] = "up"]
    /\ session' = session \cup {c}
    /\ IF c \in session
       THEN /\ closing' = closing \cup {c} /\ overtaken' = overtaken \cup {c}
            /\ oldWire' = [oldWire EXCEPT ![c] = wire[c]]
            /\ DropSource(c)
       ELSE UNCHANGED <<closing, overtaken, oldWire, receiverVars>>
    /\ wire' = [wire EXCEPT ![c] = <<>>]
    /\ UNCHANGED <<senderVars, cuts>>

\* handleClientDisconnected() of the session that was taken over: it looks at
\* the name only.
OldSessionGone(c) ==
    /\ c \in closing
    /\ closing' = closing \ {c}
    /\ oldWire' = [oldWire EXCEPT ![c] = <<>>]
    /\ DropSource(c)
    /\ UNCHANGED <<senderVars, link, cuts, session, wire, overtaken>>

\* handleClientCloseTimeout() of that session.
OldSessionTimeout(c) ==
    /\ c \in closing
    /\ closing' = closing \ {c}
    /\ oldWire' = [oldWire EXCEPT ![c] = <<>>]
    /\ UNCHANGED <<senderVars, link, cuts, session, wire, overtaken, receiverVars>>

Init ==
    /\ offers = <<>>
    /\ told = [id \in 1 .. MaxTransfers |-> "nothing"]
    /\ fate = [id \in 1 .. MaxTransfers |-> "unseen"]
    /\ send = [c \in Clients |-> Ready]
    /\ link = [c \in Clients |-> "up"]
    /\ cuts = 0
    /\ session = Clients
    /\ wire = [c \in Clients |-> <<>>]
    /\ closing = {}
    /\ oldWire = [c \in Clients |-> <<>>]
    /\ overtaken = {}
    /\ recv = Inactive
    /\ delivered = <<>>

Sender(c) ==
    \/ \E sizes \in Manifests : StartPaths(c, sizes)
    \/ Prepared(c)
    \/ WaitForDrain(c)
    \/ Pump(c)
    \/ ReadFailure(c)
    \/ CancelSend(c)

Connection(c) ==
    \/ Cut(c)
    \/ ClientNotices(c)
    \/ ServerNotices(c)
    \/ Reconnect(c)
    \/ OldSessionGone(c)
    \/ OldSessionTimeout(c)

Next ==
    \/ \E c \in Clients : Sender(c) \/ Read(c) \/ ReadOld(c) \/ Connection(c)
    \/ CancelReceive

Spec == Init /\ [][Next]_vars

\* Event loops dispatch timers and input; a broken connection is noticed, by
\* TCP or by the keep-alive alarms; the worker that lists the files ends.
Fairness == \A c \in Clients :
    /\ WF_vars(Prepared(c))
    /\ WF_vars(Pump(c))
    /\ WF_vars(Read(c))
    /\ WF_vars(ClientNotices(c))
    /\ WF_vars(ServerNotices(c))

FairSpec == Spec /\ Fairness

-----------------------------------------------------------------------------
(* Properties.                                                             *)

Parts == Nat \X Nat \X Nat

Messages ==
    [kind : {"drag"}, id : 1 .. MaxTransfers, count : Nat]
      \cup [kind : {"start"}, id : 1 .. MaxTransfers, file : Nat, size : Nat]
      \cup [kind : {"chunk"}, id : 1 .. MaxTransfers, part : Parts]
      \cup [kind : {"end"}, id : 1 .. MaxTransfers, file : Nat]

Sends == [stage : {"idle", "preparing", "sending"}, id : 0 .. MaxTransfers, index : Nat,
          sent : Nat, started : BOOLEAN, timer : BOOLEAN]

Announcements == [id : 1 .. MaxTransfers, late : BOOLEAN, mixed : BOOLEAN,
                  files : Seq(Seq(Parts))]

Receipts == [active : BOOLEAN, source : Clients \cup {NoClient}, id : 0 .. MaxTransfers,
             stale : BOOLEAN, mixed : BOOLEAN, count : Nat, files : Seq(Seq(Parts)), open : BOOLEAN,
             size : Nat, data : Seq(Parts)]

\* Every variable has its type; in particular what is queued for a connection,
\* which also carries the pointer and the keys, stays bounded.
\* (kMaxQueuedOutputBytes.)
TypeOK ==
    /\ offers \in Seq([from : Clients, sizes : Manifests]) /\ Len(offers) <= MaxTransfers
    /\ told \in [1 .. MaxTransfers -> {"nothing", "ok", "error"}]
    /\ fate \in [1 .. MaxTransfers -> {"unseen", "receiving", "dropped", "delivered"}]
    /\ send \in [Clients -> Sends]
    /\ link \in [Clients -> {"up", "cut", "down"}] /\ cuts \in 0 .. MaxCuts
    /\ session \subseteq Clients /\ closing \subseteq Clients /\ overtaken \subseteq Clients
    /\ wire \in [Clients -> Seq(Messages)] /\ oldWire \in [Clients -> Seq(Messages)]
    /\ \A c \in Clients : Len(wire[c]) <= WireLimit + 2 + MaxTransfers
    /\ recv \in Receipts
    /\ delivered \in Seq(Announcements)

\* What is promised of an announcement: of a mixed one, not its files.
Promised(d) == [d EXCEPT !.files = IF d.mixed THEN <<>> ELSE @]

Delivery == INSTANCE FileDelivery
            WITH delivered <- [i \in DOMAIN delivered |-> Promised(delivered[i])]

\* What is announced as received is exactly what one client sent in one
\* transfer, once and in order, whatever other clients send, whatever is
\* cancelled and however connections come and go; only when a session was taken
\* over may its last transfers come late or mixed with those of the new one.
\* (onDragInfo, onFileChunk, onChunk, pump, closeClient.)
DeliversWhole == Delivery!Spec

\* A transfer the sender's user was told is complete does not stay half
\* received, unless a session that was taken over announced it: the server
\* announces it as received, gives it up or replaces it.  In particular what
\* the sender wrote is what the receiver waits for.
\* (finishCurrentFile, completeOk, onChunk.)
CompleteArrives == \A id \in 1 .. MaxTransfers :
    (told[id] = "ok" /\ fate[id] = "receiving" /\ ~recv.stale) ~> fate[id] # "receiving"

\* Every send comes to an end, also when the output is full or the connection
\* breaks, so that the client can send again.  (pump, schedulePump,
\* ~ServerProxy.)
SendEnds == \A c \in Clients : (send[c].stage # "idle") ~> (send[c].stage = "idle")

\* The receive session is bound to a session of its source: while it is active
\* the server has one, unless a session that was taken over began it.
\* (removeClient, handleClientDisconnected.)
SourceIsConnected == recv.active /\ ~recv.stale => recv.source \in session

=============================================================================
