----------------------------- MODULE FilePaste -----------------------------
(***************************************************************************)
(* Files that are copied on one computer and pasted on the other:          *)
(* src/lib/filetransfer/ClipboardFiles.cpp, one object at each end of a    *)
(* connection, with what Server.cpp and ServerProxy.cpp make of it.        *)
(* Copying sends an offer; the first read of a pasted file sends a         *)
(* request, and waits, dispatching events meanwhile, until the files have  *)
(* been sent by ordinary file transfer.  Both ends run the same code.      *)
(*                                                                         *)
(* wire[p] is what is on its way to p: control messages and file           *)
(* messages, in order.  An offer is a number, the random id of the code.   *)
(***************************************************************************)
EXTENDS Integers, SequencesExt

CONSTANTS
    Server, Client,  \* the two ends of the connection
    MaxCopies,       \* bound on the offers made
    MaxPastes,       \* bound on the requests made
    MaxPlain,        \* bound on the transfers that are no paste
    MaxCancels       \* bound on the user's cancellations

Peers == {Server, Client}

ASSUME PasteAssumption ==
    /\ Server # Client
    /\ MaxCopies \in Nat /\ MaxPastes \in Nat /\ MaxPlain \in Nat /\ MaxCancels \in Nat

VARIABLES
    local,      \* m_localId, 0 if m_localPaths is empty
    sendingId,  \* m_sendingId, 0 if empty
    send,       \* m_fileSend: its stage and what it sends
    pull,       \* m_pull, with what the paste was given
    recv,       \* m_fileReceive: what it receives and where to
    wire,       \* messages on their way to each peer
    used,       \* number of copies, pastes, plain transfers and cancellations
    pasted,     \* what pastes have returned, for which offer
    announced   \* transfers announced to the user as received

vars == <<local, sendingId, send, pull, recv, wire, used, pasted, announced>>

sendVars == <<sendingId, send>>
resultVars == <<pasted, announced>>

Other(p) == IF p = Server THEN Client ELSE Server

\* What a transfer that is no paste sends.
Plain == 0

NoPull == [id |-> 0, waiting |-> FALSE, started |-> FALSE, done |-> FALSE,
           success |-> FALSE, got |-> Plain]

NoSend == [stage |-> "idle", what |-> Plain]

NoReceive == [active |-> FALSE, what |-> Plain, private |-> FALSE]

-----------------------------------------------------------------------------
(* ClipboardFiles.                                                         *)

Control(op, id) == [op |-> op, id |-> id]

\* p writes the messages to its connection.
Write(p, messages) == wire' = [wire EXCEPT ![Other(p)] = @ \o messages]

\* p reads the first message that is on its way to it, and answers.
Answer(p, messages) ==
    wire' = [wire EXCEPT ![p] = Tail(@), ![Other(p)] = @ \o messages]

\* Mutant of IsWaiting: any answer counts, not only one that has begun.
BugWaitingUnstarted(pl) == pl.waiting /\ ~pl.done

\* waiting(): the paste's own files are coming in.
IsWaiting(pl) == pl.waiting /\ pl.started /\ ~pl.done

\* failed()
Failed(pl) == IF pl.waiting THEN [pl EXCEPT !.success = FALSE, !.done = TRUE] ELSE pl

\* Mutant of ErrorsOf: the peer is not told.
BugSilent(p) == <<>>

\* sendFinished(false): what it writes; the request is over.
ErrorsOf(p) == IF sendingId[p] = 0 THEN <<>> ELSE <<Control("error", sendingId[p])>>

\* The paste of p is over and the waiting loop is about to return: nothing else
\* is dispatched before it does.
Returning(p) == pull[p].waiting /\ pull[p].done

\* announce(): a copy of files, or of something else, replaces both the offer
\* made and the one received; a paste that waits for the latter is void.
Announce(p, files) ==
    LET id == used.copies + 1
    IN /\ ~Returning(p) /\ used.copies < MaxCopies
       /\ used' = [used EXCEPT !.copies = id]
       /\ local' = [local EXCEPT ![p] = IF files THEN id ELSE 0]
       /\ pull' = [pull EXCEPT ![p] = NoPull]
       /\ Write(p, <<[op |-> "offer", id |-> id, files |-> files]>>)
       /\ UNCHANGED <<sendVars, recv, resultVars>>

\* handle() of an offer: it is armed for pasting.  A paste of the last one is
\* void, and what comes in for it is dropped.
HandleOffer(p, m) ==
    /\ m.op = "offer"
    /\ local' = [local EXCEPT ![p] = 0]
    /\ recv' = IF IsWaiting(pull[p]) THEN [recv EXCEPT ![p] = NoReceive] ELSE recv
    /\ pull' = [pull EXCEPT ![p] = IF m.files THEN [NoPull EXCEPT !.id = m.id] ELSE NoPull]
    /\ Answer(p, <<>>)
    /\ UNCHANGED <<sendVars, used, resultVars>>

\* Mutant of PasteBegins: files that were pasted before are requested again.
BugPasteAgain(p) ==
    /\ pull[p].id # 0 /\ ~pull[p].waiting
    /\ used.pastes < MaxPastes
    /\ used' = [used EXCEPT !.pastes = @ + 1]
    /\ pull' = [pull EXCEPT ![p].waiting = TRUE, ![p].done = FALSE, ![p].started = FALSE]
    /\ Write(p, <<Control("request", pull[p].id)>>)
    /\ UNCHANGED <<local, sendVars, recv, resultVars>>

\* The pasted files are read: request them.
PasteBegins(p) ==
    /\ pull[p].id # 0 /\ ~pull[p].waiting
    /\ ~(pull[p].done /\ pull[p].success)
    /\ used.pastes < MaxPastes
    /\ used' = [used EXCEPT !.pastes = @ + 1]
    /\ pull' = [pull EXCEPT ![p].waiting = TRUE, ![p].done = FALSE, ![p].started = FALSE]
    /\ Write(p, <<Control("request", pull[p].id)>>)
    /\ UNCHANGED <<local, sendVars, recv, resultVars>>

\* wait() returns; after a failure what comes in is dropped and the peer asked
\* to stop.
PasteReturns(p) ==
    /\ Returning(p)
    /\ pull' = [pull EXCEPT ![p].waiting = FALSE]
    /\ IF pull[p].success
       THEN /\ pasted' = pasted \cup {[id |-> pull[p].id, got |-> pull[p].got]}
            /\ UNCHANGED <<recv, wire>>
       ELSE /\ recv' = [recv EXCEPT ![p] = NoReceive]
            /\ Write(p, <<Control("cancel", pull[p].id)>>)
            /\ UNCHANGED pasted
    /\ UNCHANGED <<local, sendVars, used, announced>>

\* wait(): no progress for 60 s.
PasteTimesOut(p) ==
    /\ pull[p].waiting /\ ~pull[p].done
    /\ pull' = [pull EXCEPT ![p].done = TRUE]
    /\ UNCHANGED <<local, sendVars, recv, wire, used, resultVars>>

\* handle() of a request: refused, or begun and, unless a transfer is under way
\* or there is nothing to send, sent.
HandleRequest(p, m) ==
    /\ m.op = "request"
    /\ \/ /\ m.id # local[p] \/ sendingId[p] # 0
          /\ Answer(p, <<Control("error", m.id)>>)
          /\ UNCHANGED sendVars
       \/ /\ m.id = local[p] /\ sendingId[p] = 0
          /\ Answer(p, <<Control("begin", m.id), Control("error", m.id)>>)
          /\ UNCHANGED sendVars
       \/ /\ m.id = local[p] /\ sendingId[p] = 0 /\ send[p].stage = "idle"
          /\ sendingId' = [sendingId EXCEPT ![p] = m.id]
          /\ send' = [send EXCEPT ![p] = [stage |-> "preparing", what |-> m.id]]
          /\ Answer(p, <<Control("begin", m.id)>>)
    /\ UNCHANGED <<local, pull, recv, used, resultVars>>

\* handle() of a cancel: of the request that is being served, or of none.
HandleCancel(p, m) ==
    /\ m.op = "cancel"
    /\ IF m.id = sendingId[p]
       THEN /\ send' = [send EXCEPT ![p] = NoSend]
            /\ sendingId' = [sendingId EXCEPT ![p] = 0]
            /\ Answer(p, ErrorsOf(p))
       ELSE Answer(p, <<>>) /\ UNCHANGED sendVars
    /\ UNCHANGED <<local, pull, recv, used, resultVars>>

\* handle() of begin and error, and fileOfferReceived(): when a paste ends, what
\* comes in is dropped.
HandleAnswer(p, m) ==
    LET mine == pull[p].waiting /\ m.id = pull[p].id
        after == IF ~mine THEN pull[p]
                 ELSE IF m.op = "begin" THEN [pull[p] EXCEPT !.started = TRUE]
                 ELSE Failed(pull[p])
    IN /\ m.op \in {"begin", "error"}
       /\ pull' = [pull EXCEPT ![p] = after]
       /\ recv' = IF IsWaiting(pull[p]) /\ ~IsWaiting(after)
                  THEN [recv EXCEPT ![p] = NoReceive] ELSE recv
       /\ Answer(p, <<>>)
       /\ UNCHANGED <<local, sendVars, used, resultVars>>

-----------------------------------------------------------------------------
(* File transfer, as far as pastes can tell.                               *)

\* sendFiles() and sendFilesTo(): the user sends files.
SendPlain(p) ==
    /\ ~Returning(p) /\ send[p].stage = "idle" /\ used.plain < MaxPlain
    /\ used' = [used EXCEPT !.plain = @ + 1]
    /\ send' = [send EXCEPT ![p] = [stage |-> "preparing", what |-> Plain]]
    /\ UNCHANGED <<local, sendingId, pull, recv, wire, resultVars>>

\* Mutant of SendEnds: the request stays.
BugKeepSendingId(p, messages) ==
    /\ send' = [send EXCEPT ![p] = NoSend]
    /\ Write(p, messages)
    /\ UNCHANGED sendingId

\* The completion callback and sendFinished(): the send is over, and with it
\* the request it served.
SendEnds(p, messages) ==
    /\ send' = [send EXCEPT ![p] = NoSend]
    /\ sendingId' = [sendingId EXCEPT ![p] = 0]
    /\ Write(p, messages)

\* The pump: the list is ready, and then the last file is written; or something
\* fails, of which the peer of a paste is told.
Pump(p) ==
    /\ ~Returning(p)
    /\ \/ /\ send[p].stage = "preparing"
          /\ send' = [send EXCEPT ![p].stage = "sending"]
          /\ Write(p, <<[op |-> "drag", id |-> send[p].what]>>)
          /\ UNCHANGED sendingId
       \/ /\ send[p].stage = "sending"
          /\ SendEnds(p, <<[op |-> "end", id |-> send[p].what]>>)
       \/ /\ send[p].stage # "idle"
          /\ SendEnds(p, ErrorsOf(p))
    /\ UNCHANGED <<local, pull, recv, used, resultVars>>

\* onDragInfo(), dragInfoReceived(): a new transfer replaces one that came in;
\* it is private if a paste waits for it.  begin() may fail.
DragInfo(p, m) ==
    /\ m.op = "drag"
    /\ \/ /\ recv' = [recv EXCEPT ![p] = [active |-> TRUE, what |-> m.id,
                                          private |-> IsWaiting(pull[p])]]
          /\ UNCHANGED pull
       \/ /\ recv' = [recv EXCEPT ![p] = NoReceive]
          /\ pull' = [pull EXCEPT ![p] = Failed(@)]
    /\ Answer(p, <<>>)
    /\ UNCHANGED <<local, sendVars, used, resultVars>>

\* A chunk is next on its way to p, or could be: chunks have no message here.
ChunkIsNext(p) ==
    IF wire[p] = <<>> THEN send[Other(p)].stage = "sending" ELSE Head(wire[p]).op = "end"

\* onFileChunk(), fileChunkReceived(): a chunk is not taken, and the transfer fails.
ChunkFails(p) ==
    /\ recv[p].active /\ ChunkIsNext(p) /\ ~Returning(p)
    /\ recv' = [recv EXCEPT ![p] = NoReceive]
    /\ pull' = [pull EXCEPT ![p] = Failed(@)]
    /\ UNCHANGED <<local, sendVars, wire, used, resultVars>>

\* onFileChunk(), fileChunkReceived(): the last file is complete, and goes to
\* the paste that waits or is announced to the user.
LastChunk(p, m) ==
    /\ m.op = "end"
    /\ recv' = [recv EXCEPT ![p] = NoReceive]
    /\ \/ ~recv[p].active /\ UNCHANGED <<pull, announced>>
       \/ /\ recv[p].active /\ IsWaiting(pull[p])
          /\ pull' = [pull EXCEPT ![p].got = m.id, ![p].success = TRUE, ![p].done = TRUE]
          /\ UNCHANGED announced
       \/ /\ recv[p].active /\ ~IsWaiting(pull[p])
          /\ announced' = announced \cup {[what |-> m.id, private |-> recv[p].private]}
          /\ UNCHANGED pull
    /\ Answer(p, <<>>)
    /\ UNCHANGED <<local, sendVars, used, pasted>>

\* cancelFileTransfer(), cancelActiveFileTransfer(): the user stops whatever is
\* going on at p.
CancelTransfer(p) ==
    LET pasting == pull[p].waiting /\ ~pull[p].done
        cancel == IF pasting THEN <<Control("cancel", pull[p].id)>> ELSE <<>>
    IN /\ ~Returning(p) /\ used.cancels < MaxCancels
       /\ pasting \/ send[p].stage # "idle" \/ recv[p].active
       /\ used' = [used EXCEPT !.cancels = @ + 1]
       /\ pull' = [pull EXCEPT ![p] = Failed(@)]
       /\ recv' = [recv EXCEPT ![p] = NoReceive]
       /\ SendEnds(p, cancel \o ErrorsOf(p))
       /\ UNCHANGED <<local, resultVars>>

\* The event loop, or the waiting loop, dispatches what has arrived.
Dispatch(p) ==
    LET m == Head(wire[p])
    IN /\ wire[p] # <<>> /\ ~Returning(p)
       /\ \/ HandleOffer(p, m)
          \/ HandleRequest(p, m)
          \/ HandleCancel(p, m)
          \/ HandleAnswer(p, m)
          \/ DragInfo(p, m)
          \/ LastChunk(p, m)

-----------------------------------------------------------------------------
Init ==
    /\ local = [p \in Peers |-> 0]
    /\ sendingId = [p \in Peers |-> 0]
    /\ send = [p \in Peers |-> NoSend]
    /\ pull = [p \in Peers |-> NoPull]
    /\ recv = [p \in Peers |-> NoReceive]
    /\ wire = [p \in Peers |-> <<>>]
    /\ used = [copies |-> 0, pastes |-> 0, plain |-> 0, cancels |-> 0]
    /\ pasted = {}
    /\ announced = {}

Next == \E p \in Peers :
    \/ \E files \in BOOLEAN : Announce(p, files)
    \/ PasteBegins(p)
    \/ PasteReturns(p)
    \/ PasteTimesOut(p)
    \/ SendPlain(p)
    \/ Pump(p)
    \/ CancelTransfer(p)
    \/ ChunkFails(p)
    \/ Dispatch(p)

Spec == Init /\ [][Next]_vars

-----------------------------------------------------------------------------
(* Properties.                                                             *)

Ids == 0 .. MaxCopies

Messages ==
    [op : {"request", "cancel", "begin", "error", "drag", "end"}, id : Ids]
      \cup [op : {"offer"}, id : Ids, files : BOOLEAN]

Sends == [stage : {"idle", "preparing", "sending"}, what : Ids]

Pulls == [id : Ids, waiting : BOOLEAN, started : BOOLEAN, done : BOOLEAN,
          success : BOOLEAN, got : Ids]

Receives == [active : BOOLEAN, what : Ids, private : BOOLEAN]

Uses == [copies : 0 .. MaxCopies, pastes : 0 .. MaxPastes, plain : 0 .. MaxPlain,
         cancels : 0 .. MaxCancels]

\* Every variable has its type; a paste that succeeded is done.
TypeOK ==
    /\ local \in [Peers -> Ids]
    /\ sendingId \in [Peers -> Ids]
    /\ send \in [Peers -> Sends]
    /\ pull \in [Peers -> Pulls]
    /\ \A p \in Peers : pull[p].success => pull[p].done
    /\ recv \in [Peers -> Receives]
    /\ wire \in [Peers -> Seq(Messages)]
    /\ used \in Uses
    /\ pasted \subseteq [id : Ids, got : Ids]
    /\ announced \subseteq [what : Ids, private : BOOLEAN]

\* A paste returns the files of the offer it was made for, although answers name
\* the offer only, transfers name nothing at all, and pastes are cancelled,
\* repeated and overtaken by new copies and other transfers.
\* (docs/clipboard-file-paste.md: a request must match the current offer.)
PasteGetsItsOffer == \A r \in pasted : r.got = r.id

\* The request a peer remembers to be serving is the one whose files it is
\* sending, and it remembers one as long as it sends; otherwise it would refuse
\* every later paste, or report the end of one paste to another.  (handle,
\* sendFinished, cancelFileTransfer.)
ServesWhatItSends == \A p \in Peers :
    sendingId[p] = IF send[p].stage = "idle" THEN 0 ELSE send[p].what

\* A paste does not wait in vain: its request is on the way, or is being served,
\* or an answer is on the way, or an offer that makes it void; so it ends
\* without its time-out of 60 s.  (handle, sendFinished, failed.)
PasteIsAnswered == \A p \in Peers :
    pull[p].waiting /\ ~pull[p].done =>
        LET id == pull[p].id
            toPeer == ToSet(wire[Other(p)])
            toHere == ToSet(wire[p])
        IN \/ Control("request", id) \in toPeer
           \/ sendingId[Other(p)] = id
           \/ Control("error", id) \in toHere
           \/ Control("end", id) \in toHere
           \/ \E m \in toHere : m.op = "offer"

\* Files of a paste are never announced to the user as files that were
\* received.  (FileReceiveSession.cpp:82: "Clipboard downloads are private
\* implementation details, not delivered items in Downloads".)  It does not hold:
\* a transfer does not say which paste it belongs to, and may outlive it.
PasteStaysPrivate == \A r \in announced : r.what = Plain /\ ~r.private

=============================================================================
