-------------------------- MODULE ClipboardSharing --------------------------
(***************************************************************************)
(* How a copy made on one screen reaches the clipboards of all the others: *)
(* the server's clipboard record (server/Server), its proxies of the        *)
(* clients, the client program (client/Client, client/ServerProxy), the     *)
(* Android client (BarrierClient.kt) and the chunked transfer they share     *)
(* (deskflow/StreamChunker).                                                *)
(*                                                                          *)
(* One clipboard, sharing enabled, text within the limit, no files; of the   *)
(* server's other clipboard, the timer it shares.  What a clipboard holds is  *)
(* the number of the copy that put it there, 0 nothing.                       *)
(* The sessions are up throughout.                                          *)
(***************************************************************************)
EXTENDS Integers, Sequences, SequencesExt, FiniteSets, FiniteSetsExt, Sifting

CONSTANTS
  Computers,    \* clients that run this program
  Phones,       \* clients that run the Android client
  Primary,      \* the server's own screen
  Retries,      \* delays in Server::schedulePrimaryClipboardRetry's table: three
  Large,        \* the copies that take a sender more than one turn
  MaxTexts,     \* bound on the copies users make
  MaxTwists     \* bound on all the readings that come to nothing, the switches between
                \* screens and the grabs of the primary without a new copy, together

Clients == Computers \cup Phones
Screens == Clients \cup {Primary}

Cleared == -1    \* m_clipboardData after a client's grab, unlike any marshalled data
NotRead == -2    \* a clipboard that could not be read

ASSUME ClipboardAssumption ==
  /\ Primary \notin Clients /\ Computers \cap Phones = {}
  /\ {MaxTexts, MaxTwists, Retries} \subseteq Nat
  /\ Large \subseteq 1..MaxTexts

VARIABLES
  clip,     \* what the clipboard of each screen holds
  server,   \* the server's record of the clipboard, its focus, its retry timer
  proxy,    \* ClientProxy1_6 of each client
  client,   \* the client's own record
  up,       \* from each client: messages not yet read by the server
  down,     \* to each client: messages not yet read by it
  events,   \* the server's event queue
  history,  \* for the properties: the last copy and how it fared
  spent     \* of the two bounds, how much is used up; fails counts the readings since
            \* the primary's last grab that failed or were called off

sharingVars == <<clip, server, proxy, client, up, down, events, history, spent>>

Transfers(content) == [copy: content, seq: Nat, started: BOOLEAN]
Transfer == Transfers(0..MaxTexts)

UpMessages(content) ==
  [type: {"grab"}, seq: Nat] \cup [type: {"data"}, copy: content, seq: Nat]
DownMessages(content) ==
  [type: {"grab", "leave"}] \cup [type: {"enter"}, seq: Nat]
    \cup [type: {"data"}, copy: content, seq: Nat]
Event == [type: {"grabbed"}, from: Screens, seq: Nat]
           \cup [type: {"changed"}, from: Clients, seq: Nat]

\* A sender holds one transfer under way and one snapshot.
Outboxes(content) ==
  {box \in Seq(Transfers(content)) :
     Len(box) <= 2 /\ \A i \in 2..Len(box) : ~box[i].started}

\* Every value has its type, and every copy is one that was made: in particular the
\* retry timer never runs longer than its table of delays, and a phone, which sends at
\* once, has nothing waiting.
SharingTypeOK ==
  LET Made == 0..spent.copies
  IN /\ clip \in [Screens -> Made]
     /\ server \in [owner: Screens, seq: Nat, cache: Made, data: Made \cup {Cleared},
                    count: Nat, active: Screens, screenSeq: Nat,
                    retry: 0..Retries, retrySeq: Nat]
     /\ proxy \in [Clients -> [dirty: BOOLEAN, content: Made, outbox: Outboxes(Made)]]
     /\ client \in [Clients -> [own: BOOLEAN, sent: BOOLEAN, seq: Nat, told: Made,
                                data: Made, outbox: Outboxes(Made)]]
     /\ \A h \in Phones :
          client[h].told = 0 /\ client[h].outbox = <<>> /\ ~client[h].own
     /\ up \in [Clients -> Seq(UpMessages(Made))]
     /\ down \in [Clients -> Seq(DownMessages(Made))]
     /\ events \in Seq(Event)
     /\ history \in [from: Screens, copy: Made, orderly: BOOLEAN, source: Screens,
                     refused: SUBSET Clients]
     /\ spent \in [copies: 0..MaxTexts, fails: Nat, twists: 0..MaxTwists]

SharingInit ==
  /\ clip = [s \in Screens |-> 0]
  /\ server = [owner |-> Primary, seq |-> 0, cache |-> 0, data |-> 0,
               count |-> 0, active |-> Primary, screenSeq |-> 0,
               retry |-> 0, retrySeq |-> 0]
  /\ proxy = [c \in Clients |-> [dirty |-> TRUE, content |-> 0, outbox |-> <<>>]]
  /\ client = [c \in Clients |-> [own |-> FALSE, sent |-> FALSE, seq |-> 0,
                                  told |-> 0, data |-> 0, outbox |-> <<>>]]
  /\ up = [c \in Clients |-> <<>>]
  /\ down = [c \in Clients |-> <<>>]
  /\ events = <<>>
  /\ history = [from |-> Primary, copy |-> 0, orderly |-> TRUE,
                source |-> Primary, refused |-> {}]
  /\ spent = [copies |-> 0, fails |-> 0, twists |-> 0]

-----------------------------------------------------------------------------
(* StreamChunker: a sender's queue of transfers.                            *)

\* pump() writes sixteen chunks at most and, if more are to come, leaves the rest to
\* its timer: a large transfer is only started, and ended by a later turn.  The
\* chunks of a transfer are one message, which arrives with its last chunk.
Pumped(box) ==
  LET Waits(i) == box[i].copy \in Large /\ ~box[i].started
      n == Min({i \in DOMAIN box : Waits(i)} \cup {Len(box) + 1}) - 1
  IN [left |-> [SubSeq(box, n + 1, Len(box)) EXCEPT ![1].started = TRUE],
      out |-> [i \in 1..n |-> [type |-> "data", copy |-> box[i].copy,
                               seq |-> box[i].seq]]]

\* mutant: snapshots that were not started pile up
BugPilesUp(box, copy, seq) ==
  [left |-> Append(box, [copy |-> copy, seq |-> seq, started |-> box = <<>>]),
   out |-> <<>>]

\* sendClipboard: a new transfer replaces the snapshots that were not started, and
\* is pumped unless it waits behind one under way.
Queued(box, copy, seq) ==
  LET after == Append(Kept(box, {t \in Transfer : t.started}),
                      [copy |-> copy, seq |-> seq, started |-> FALSE])
  IN IF after[1].started THEN [left |-> after, out |-> <<>>] ELSE Pumped(after)

-----------------------------------------------------------------------------
(* The server.  A handler starts from the state [srv, px, dn, clip, spent,   *)
(* source] and has a set of states it may end in.                           *)

Now == [srv |-> server, px |-> proxy, dn |-> down, clip |-> clip,
        spent |-> spent, source |-> history.source]

Commit(st) ==
  /\ server' = st.srv
  /\ proxy' = st.px
  /\ down' = st.dn
  /\ clip' = st.clip
  /\ spent' = st.spent

\* How a screen's clipboard may be read: it may fail or come back empty, at a cost,
\* which is counted for the primary.
Reads(content, costs, count) ==
  {[got |-> content, spent |-> costs]}
    \cup IF costs.twists < MaxTwists
         THEN {[got |-> g, spent |-> [costs EXCEPT !.fails = @ + count, !.twists = @ + 1]] :
                 g \in {NotRead, 0}}
         ELSE {}

\* None of the readings of a new copy of the primary has been made.
Afresh(st) == [st EXCEPT !.spent.fails = 0]

\* The proxies of these clients send them the cache; each is clean from then on.
Sent(st, clients) ==
  LET copy == st.srv.cache
      q == [c \in clients |-> Queued(st.px[c].outbox, copy, 0)]
  IN [st EXCEPT
        !.px = [c \in Clients |-> IF c \notin clients THEN @[c]
                  ELSE [dirty |-> FALSE, content |-> copy, outbox |-> q[c].left]],
        !.dn = [c \in Clients |-> IF c \notin clients THEN @[c]
                  ELSE @[c] \o q[c].out]]

\* BaseClientProxy::setClipboard: a proxy sends if it is dirty, the primary sets.
SetClipboard(st, s) ==
  IF s = Primary THEN [st EXCEPT !.clip[Primary] = st.srv.cache]
  ELSE IF st.px[s].dirty THEN Sent(st, {s}) ELSE st

\* mutant: the clients are not marked dirty first
BugOnlyDirty(st, sender) ==
  LET pushed == Sent(st, {c \in Clients \ {sender} : st.px[c].dirty})
  IN IF sender = Primary THEN pushed
     ELSE [pushed EXCEPT !.clip[Primary] = st.srv.cache, !.px[sender].dirty = FALSE]

\* Push the cache to every screen but the sender, dirty or not; the acknowledgement
\* to the sender changes nothing there.
Publish(st, sender) ==
  LET pushed == Sent(st, Clients \ {sender})
  IN IF sender = Primary THEN pushed
     ELSE [pushed EXCEPT !.clip[Primary] = st.srv.cache, !.px[sender].dirty = FALSE]

\* Server::onClipboardChanged
OnClipboardChanged(st, sender, seq) ==
  LET adopted == IF st.srv.owner = sender THEN st
                 ELSE [st EXCEPT !.srv.owner = sender, !.srv.seq = seq]
      reads == IF sender = Primary THEN Reads(st.clip[Primary], st.spent, 1)
               ELSE {[got |-> st.px[sender].content, spent |-> st.spent]}
      After(r) ==
        LET read == [adopted EXCEPT !.spent = r.spent]
            cached == [read EXCEPT !.srv.cache = r.got]
            same == sender = Primary /\ r.got = st.srv.data
        IN CASE r.got = NotRead -> read
             [] r.got = 0 \/ same -> cached
             [] OTHER -> Publish([cached EXCEPT !.srv.data = r.got,
                                                !.source = sender], sender)
  IN IF seq < st.srv.seq THEN {st} ELSE {After(r) : r \in reads}

\* Whether an update of this sender is too old to count.
Stale(e) == e.from # Primary /\ e.seq < server.seq

\* What a grab by a client does: the other clients give theirs up, the primary keeps
\* what it has until the data comes.
Emptied(e, st) ==
  [st EXCEPT !.srv.cache = 0, !.srv.data = Cleared,
     !.px = [c \in Clients |-> [@[c] EXCEPT !.dirty = (c # e.from)]],
     !.dn = [c \in Clients |-> IF c = e.from THEN @[c]
                                ELSE Append(@[c], [type |-> "grab"])]]

\* mutant: a primary that could not be read is not read again
BugNoRetry(e) ==
  LET owned == [Now EXCEPT !.srv.owner = e.from, !.srv.seq = e.seq]
  IN CASE Stale(e) -> {Now}
       [] e.from = Primary -> OnClipboardChanged(Afresh(owned), Primary, e.seq)
       [] OTHER -> {Emptied(e, owned)}

\* Server::handleClipboardGrabbed
HandleClipboardGrabbed(e) ==
  LET owned == [Now EXCEPT !.srv.owner = e.from, !.srv.seq = e.seq]
      Rescheduled(st) ==
        [st EXCEPT !.srv.retry = Retries, !.srv.retrySeq = e.seq]
  IN CASE Stale(e) -> {Now}
       [] e.from = Primary ->
            {Rescheduled(st) : st \in OnClipboardChanged(Afresh(owned), Primary, e.seq)}
       [] OTHER -> {Emptied(e, owned)}

\* The next event: a grab, or a clipboard that has arrived.
DispatchEvent ==
  /\ events # <<>>
  /\ LET e == Head(events)
     IN /\ \E st \in IF e.type = "grabbed" THEN HandleClipboardGrabbed(e)
                     ELSE OnClipboardChanged(Now, e.from, e.seq) :
             /\ Commit(st)
             /\ history' = [history EXCEPT !.source = st.source,
                  !.refused = IF Stale(e) THEN @ \cup {e.from}
                              ELSE IF e.type = "changed" /\ proxy[e.from].content # 0
                              THEN @ \ {e.from} ELSE @]
  /\ events' = Tail(events)
  /\ UNCHANGED <<client, up>>

\* mutant: a retry schedules the first retry again
BugRetriesForEver ==
  /\ server.retry > 0
  /\ server.owner = Primary /\ server.seq = server.retrySeq
  /\ \E st \in OnClipboardChanged(Now, Primary, server.seq) :
       /\ Commit(st)
       /\ history' = [history EXCEPT !.source = st.source]
  /\ UNCHANGED <<client, up, events>>

\* Server::schedulePrimaryClipboardRetryAt: the timer's handler
RetryFires ==
  LET current == server.owner = Primary /\ server.seq = server.retrySeq
  IN /\ server.retry > 0
     /\ \E st \in IF current THEN OnClipboardChanged(Now, Primary, server.seq)
                  ELSE {Now} :
          /\ Commit([st EXCEPT !.srv.retry = IF current THEN @ - 1 ELSE 0])
          /\ history' = [history EXCEPT !.source = st.source]
     /\ UNCHANGED <<client, up, events>>

\* ClientProxy1_0::recvGrabClipboard, ClientProxy1_6::recvClipboard
ServerReceives(c) ==
  /\ up[c] # <<>>
  /\ LET m == Head(up[c])
         type == IF m.type = "grab" THEN "grabbed" ELSE "changed"
     IN /\ proxy' = IF m.type = "grab" THEN proxy
                    ELSE [proxy EXCEPT ![c].content = m.copy]
        /\ events' = Append(events, [type |-> type, from |-> c, seq |-> m.seq])
  /\ up' = [up EXCEPT ![c] = Tail(@)]
  /\ UNCHANGED <<clip, server, client, down, history, spent>>

\* the pump timer of a proxy
ServerPumps(c) ==
  /\ proxy[c].outbox # <<>>
  /\ LET q == Pumped(proxy[c].outbox)
     IN /\ proxy' = [proxy EXCEPT ![c].outbox = q.left]
        /\ down' = [down EXCEPT ![c] = @ \o q.out]
  /\ UNCHANGED <<clip, server, client, up, events, history, spent>>

\* What Server::switchScreen does before it leaves: refresh the primary's copy.
Refreshed ==
  LET now == [Now EXCEPT !.spent.twists = @ + 1]
  IN IF server.active = Primary /\ server.owner = Primary
     THEN OnClipboardChanged(now, Primary, server.seq) ELSE {now}

\* ... and after: leave, count the switch, enter, hand over the clipboard.
Entered(st, dst) ==
  LET Told(c, m) == [st.dn EXCEPT ![c] = Append(@, m)]
      left == IF st.srv.active = Primary THEN st
              ELSE [st EXCEPT !.dn = Told(st.srv.active, [type |-> "leave"])]
      count == st.srv.count + 1
      cut == [left EXCEPT !.srv.active = dst, !.srv.count = count]
      there == IF dst = Primary THEN [cut EXCEPT !.srv.screenSeq = count]
               ELSE [cut EXCEPT !.dn[dst] =
                       Append(@, [type |-> "enter", seq |-> count])]
  IN SetClipboard(there, dst)

\* What Client::leave sends.
Unsent(c) == client[c].own /\ ~(client[c].sent /\ client[c].data = clip[c])

\* Whether a copy of this screen, or the notice of one, is on its way.
Underway(s) ==
  IF s = Primary
  THEN \/ \E i \in DOMAIN events : events[i].from = Primary
       \/ server.owner = Primary /\ server.cache # clip[Primary]
  ELSE \/ client[s].told > 0 \/ client[s].outbox # <<>> \/ up[s] # <<>>
       \/ \E i \in DOMAIN events : events[i].from = s
       \/ Unsent(s)

\* Server::switchScreen: the primary may refuse to be left.
SwitchScreen(dst) ==
  /\ spent.twists < MaxTwists
  /\ dst # server.active
  /\ \E st \in Refreshed :
       /\ \/ Commit(Entered(st, dst))
          \/ server.active = Primary /\ Commit(st)
       /\ history' = [history EXCEPT !.source = st.source,
                        !.orderly = @ /\ ~Underway(dst)]
  /\ UNCHANGED <<client, up, events>>

-----------------------------------------------------------------------------
(* The clients.                                                             *)

\* The message or transfer a client sends: what is written follows what is not.
ClientSends(c, record, messages, copy) ==
  LET q == Queued(record.outbox, copy, record.seq)
  IN /\ client' = [client EXCEPT ![c] =
                      [record EXCEPT !.outbox = q.left, !.sent = TRUE, !.data = copy]]
     /\ up' = [up EXCEPT ![c] = @ \o messages \o q.out]

\* Client::sendClipboard: what was sent already is not sent again; a read that fails
\* leaves it pending, one that comes back empty is sent as it is.
SendClipboard(c, record, messages) ==
  \E r \in Reads(clip[c], spent, 0) :
    /\ spent' = r.spent
    /\ IF r.got = NotRead \/ (record.sent /\ r.got = record.data)
       THEN /\ client' = [client EXCEPT ![c] = record]
            /\ up' = [up EXCEPT ![c] = @ \o messages]
       ELSE ClientSends(c, record, messages, r.got)
    /\ history' = [history EXCEPT !.orderly = @ /\ (r.got = 0 => clip[c] = 0)]

\* Client::handleClipboardGrabbed, for the next notice of the screen
HandleLocalGrab(c) ==
  /\ client[c].told > 0
  /\ SendClipboard(c, [client[c] EXCEPT !.told = @ - 1, !.own = TRUE, !.sent = FALSE],
                   <<[type |-> "grab", seq |-> client[c].seq]>>)
  /\ UNCHANGED <<clip, proxy, server, down, events>>

Disowned(c) == [client EXCEPT ![c].own = FALSE, ![c].sent = FALSE]

\* ServerProxy: the next message from the server
ComputerReceives(c) ==
  LET m == Head(down[c])
  IN /\ down[c] # <<>>
     /\ down' = [down EXCEPT ![c] = Tail(@)]
     /\ UNCHANGED <<server, proxy, events>>
     /\ \/ /\ m.type = "enter"
           /\ client' = [client EXCEPT ![c].seq = m.seq]
           /\ UNCHANGED <<clip, up, history, spent>>
        \/ /\ m.type = "leave"
           /\ IF client[c].own
              THEN SendClipboard(c, client[c], <<>>)
              ELSE UNCHANGED <<client, up, history, spent>>
           /\ UNCHANGED clip
        \/ /\ m.type \in {"grab", "data"}
           /\ clip' = [clip EXCEPT ![c] = IF m.type = "grab" THEN 0 ELSE m.copy]
           /\ client' = Disowned(c)
           /\ UNCHANGED <<up, history, spent>>

\* BarrierClient: a phone ignores grabs, leaves and clipboards without text.
PhoneReceives(h) ==
  LET m == Head(down[h])
  IN /\ down[h] # <<>>
     /\ down' = [down EXCEPT ![h] = Tail(@)]
     /\ client' = IF m.type = "enter"
                  THEN [client EXCEPT ![h].seq = Max({@, m.seq})] ELSE client
     /\ clip' = IF m.type = "data" /\ m.copy # 0
                THEN [clip EXCEPT ![h] = m.copy] ELSE clip
     /\ UNCHANGED <<server, proxy, up, events, history, spent>>

\* the pump timer of a client
ClientPumps(c) ==
  /\ client[c].outbox # <<>>
  /\ LET q == Pumped(client[c].outbox)
     IN /\ client' = [client EXCEPT ![c].outbox = q.left]
        /\ up' = [up EXCEPT ![c] = @ \o q.out]
  /\ UNCHANGED <<clip, server, proxy, down, events, history, spent>>

-----------------------------------------------------------------------------
(* The users.                                                               *)

\* No clipboard that is on its way can meet a copy made at s now.
AloneAt(s) ==
  /\ \A t \in Screens \ {s} : ~Underway(t)
  /\ s # Primary => /\ proxy[s].outbox = <<>>
                    /\ \A i \in DOMAIN down[s] : down[s][i].type \notin {"grab", "data"}

\* A copy on s changes its clipboard, and s is to tell.
CopyOn(s) ==
  LET copy == spent.copies + 1
  IN /\ spent.copies < MaxTexts
     /\ spent' = [spent EXCEPT !.copies = copy]
     /\ clip' = [clip EXCEPT ![s] = copy]
     /\ history' = [history EXCEPT !.from = s, !.copy = copy, !.orderly = AloneAt(s),
                                   !.refused = @ \ {s}]

\* XWindowsScreen::sendClipboardEvent
PrimaryTells ==
  events' = Append(events, [type |-> "grabbed", from |-> Primary,
                            seq |-> server.screenSeq])

\* The other clipboard is grabbed on the primary, with this one or by itself: its
\* retries take the timer over.
OtherGrabbed ==
  /\ server.retry > 0
  /\ server' = [server EXCEPT !.retry = 0]
  /\ spent' = [spent EXCEPT !.fails = @ + server.retry]
  /\ UNCHANGED <<clip, proxy, client, up, down, events, history>>

PrimaryCopies ==
  CopyOn(Primary) /\ PrimaryTells /\ UNCHANGED <<server, proxy, client, up, down>>

\* A clipboard manager takes over the same content, or the monitor sees it again.
PrimaryEchoes ==
  /\ spent.twists < MaxTwists
  /\ spent' = [spent EXCEPT !.twists = @ + 1]
  /\ history' = [history EXCEPT !.orderly = @ /\ AloneAt(Primary)]
  /\ PrimaryTells
  /\ UNCHANGED <<clip, server, proxy, client, up, down>>

ComputerCopies(c) ==
  /\ CopyOn(c)
  /\ client' = [client EXCEPT ![c].told = @ + 1]
  /\ UNCHANGED <<server, proxy, up, down, events>>

\* BarrierClient.sendClipboardText, nextClipboardSeq: grab and text in one go
PhoneCopies(h) ==
  LET seq == client[h].seq + 1
  IN /\ CopyOn(h)
     /\ client' = [client EXCEPT ![h].seq = seq]
     /\ up' = [up EXCEPT ![h] = @ \o <<[type |-> "grab", seq |-> seq],
                                       [type |-> "data", copy |-> spent.copies + 1,
                                        seq |-> seq]>>]
     /\ UNCHANGED <<server, proxy, down, events>>

-----------------------------------------------------------------------------
Users ==
  \/ PrimaryCopies \/ PrimaryEchoes \/ OtherGrabbed
  \/ \E c \in Computers : ComputerCopies(c)
  \/ \E h \in Phones : PhoneCopies(h)
  \/ \E s \in Screens : SwitchScreen(s)

System ==
  \/ \E c \in Clients : ServerReceives(c) \/ ServerPumps(c)
  \/ \E h \in Phones : PhoneReceives(h)
  \/ \E c \in Computers : ComputerReceives(c) \/ ClientPumps(c) \/ HandleLocalGrab(c)
  \/ DispatchEvent \/ RetryFires

SharingNext == Users \/ System

\* Some timer fires or some message is handled while there are any; nobody has to
\* copy or to switch.
SharingSpec == SharingInit /\ [][SharingNext]_sharingVars

FairSpec == SharingSpec /\ WF_sharingVars(System)

-----------------------------------------------------------------------------
(* Properties.                                                              *)

Quiet ==
  /\ events = <<>> /\ server.retry = 0
  /\ \A c \in Clients :
       /\ up[c] = <<>> /\ down[c] = <<>>
       /\ proxy[c].outbox = <<>> /\ client[c].outbox = <<>> /\ client[c].told = 0

\* A client whose clipboard could not be read sends it when it is left next.
NothingUnsent == \A c \in Clients : ~Unsent(c)

\* The primary's copy was not found: of its first reading and the retries, each failed
\* or was called off when the other clipboard took the timer
\* (Server::schedulePrimaryClipboardRetry).
Unfound == spent.fails > Retries /\ server.data # clip[Primary]

\* Once all is quiet, every screen shows what the server published last, except
\* the screen it came from and one whose own later copy was refused as too old:
\* Server::onClipboardChanged pushes to every client, also when copies crossed.  The
\* primary may have been read as empty since, and shows that when it is entered, or
\* have a copy that was not found.
OthersFollowOwner ==
  Quiet /\ server.data > 0 =>
    \A s \in Screens \ ({history.source} \cup history.refused) :
      \/ clip[s] = server.data
      \/ s = Primary /\ (Unfound \/ server.cache # server.data)

\* Once all is quiet, every screen shows the last copy, whatever grabs and echoes
\* of older copies, retries and switches came after it; unless it crossed another
\* copy, the server took it for too old (Server::handleClipboardGrabbed), or no
\* reading of it found it.
LastCopyWins ==
  /\ Quiet /\ NothingUnsent /\ ~Unfound
  /\ history.orderly /\ history.from \notin history.refused
  => \A s \in Screens : clip[s] = history.copy

\* Copies come to rest: no two screens hand each other the clipboard for ever, and
\* the retries end (Server::onClipboardChanged skips what is unchanged).
ComesToRest == []<>Quiet
=============================================================================
