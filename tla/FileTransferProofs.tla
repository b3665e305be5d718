------------------------- MODULE FileTransferProofs -------------------------
(***************************************************************************)
(* Proofs about FileTransfer, for any number of clients, transfers, files, *)
(* chunks and broken connections: type correctness; that the receive       *)
(* session is of a connected client, but for what a session that was taken *)
(* over began; and that transfers are delivered as FileDelivery promises.  *)
(*                                                                         *)
(* The parts of the invariant are predicates on values, so that one lemma  *)
(* speaks of them before and after a step: o stands for offers, r for      *)
(* recv, done for delivered, and w, s and l for the wire, the send session *)
(* and the link of one client.                                             *)
(***************************************************************************)
EXTENDS FileTransfer, SequenceTheorems, TLAPS

-----------------------------------------------------------------------------
(* The parts of the inductive invariant.                                   *)

Transfers == 1 .. MaxTransfers
Offers == Seq([from : Clients, sizes : Manifests])
Told == [Transfers -> {"nothing", "ok", "error"}]
Fates == [Transfers -> {"unseen", "receiving", "dropped", "delivered"}]
Links == {"up", "cut", "down"}
Announced == Seq(Announcements)

\* A sender that is at work sends a transfer of its own, and is at one of its files,
\* or past the last.
SenderAt(o, c, s) ==
    s.stage # "idle" =>
        /\ s.id \in 1 .. Len(o)
        /\ o[s.id].from = c
        /\ s.index \in 1 .. (Len(o[s.id].sizes) + 1)
        /\ s.sent = 0 \/ (s.index <= Len(o[s.id].sizes) /\ s.sent < o[s.id].sizes[s.index])
        /\ s.started <=> s.sent > 0
        /\ s.stage = "preparing" => s.index = 1 /\ s.sent = 0

\* What waits to be read: besides what the pump may write, one list per transfer.
Waiting(n, s) == IF s.stage = "preparing" THEN n - 1 ELSE n

WireFits(n, w, s) == Len(w) <= WireLimit + 2 + Waiting(n, s)

TypeInv ==
    /\ TypeOK
    /\ \A c \in Clients : SenderAt(offers, c, send[c])
    /\ \A c \in Clients : WireFits(Len(offers), wire[c], send[c])
    /\ recv.active => recv.id \in Transfers

\* Where one is in a transfer: the file, the chunks of it that are done, and
\* whether its header is.
At(id, file, chunks, open) == [id |-> id, file |-> file, chunks |-> chunks, open |-> open]

\* Where a message begins and where it ends.
Before(o, m) ==
    CASE m.kind = "start" -> At(m.id, m.file, 0, FALSE)
      [] m.kind = "chunk" -> At(m.id, m.part[2], m.part[3] - 1, TRUE)
      [] m.kind = "end"   -> At(m.id, m.file, o[m.id].sizes[m.file], TRUE)

After(m) ==
    CASE m.kind = "drag"  -> At(m.id, 1, 0, FALSE)
      [] m.kind = "start" -> At(m.id, m.file, 0, TRUE)
      [] m.kind = "chunk" -> At(m.id, m.part[2], m.part[3], TRUE)
      [] m.kind = "end"   -> At(m.id, m.file + 1, 0, FALSE)

SenderPlace(s) == At(s.id, s.index, s.sent, s.started)
ReceiverPlace(r) == At(r.id, Len(r.files) + 1, Len(r.data), r.open)

\* A message of one of c's transfers that says what the transfer says.
Genuine(o, c, m) ==
    /\ m.id \in 1 .. Len(o)
    /\ o[m.id].from = c
    /\ m.kind = "drag" => m.count = Len(o[m.id].sizes)
    /\ m.kind \in {"start", "end"} => m.file \in 1 .. Len(o[m.id].sizes)
    /\ m.kind = "start" => m.size = o[m.id].sizes[m.file]
    /\ m.kind = "chunk" => /\ m.part[1] = m.id
                           /\ m.part[2] \in 1 .. Len(o[m.id].sizes)
                           /\ m.part[3] \in 1 .. o[m.id].sizes[m.part[2]]

\* The messages on a wire w of c: each but a list goes on where the one before
\* ended, and a list is of a later transfer.
Chained(o, c, w) ==
    /\ \A i \in 1 .. Len(w) : Genuine(o, c, w[i])
    /\ \A i, j \in 1 .. Len(w) :
          j = i + 1 /\ w[j].kind # "drag" => Before(o, w[j]) = After(w[i])
    /\ \A i, j \in 1 .. Len(w) : i < j => w[i].id <= w[j].id
    /\ \A i, j \in 1 .. Len(w) : i < j /\ w[j].kind = "drag" => w[i].id < w[j].id

\* The receiver receives from the session of c that is current (old = FALSE) or from the
\* one that was taken over (TRUE), and in the second case nothing else has come between.
From(r, c, old) == r.active /\ r.source = c /\ r.stale = old
Goes(r, c, old) == From(r, c, old) /\ ~r.mixed

\* A transfer x that was begun, by a session that was taken over if late, comes before the
\* transfer id of the other or the same kind of session: those of an old session only
\* come in order among themselves.
Precedes(x, late, old, id) == x # id /\ ((old => late) => x < id)

\* The transfers of c that the receiver has begun come before id: those delivered and the
\* one that is being received.
BegunBefore(o, r, done, c, old, id) ==
    /\ \A d \in 1 .. Len(done) :
          o[done[d].id].from = c => Precedes(done[d].id, done[d].late, old, id)
    /\ r.active /\ r.source = c => Precedes(r.id, r.stale, old, id)

\* The wire goes on where the receiver is, if it receives from that session of c.
Receiving(o, r, done, c, old, w) ==
    /\ Goes(r, c, old) /\ w # <<>> /\ w[1].kind # "drag" => Before(o, w[1]) = ReceiverPlace(r)
    /\ \A i \in 1 .. Len(w) : w[i].kind = "drag" => BegunBefore(o, r, done, c, old, w[i].id)

Carries(o, r, done, c, old, w) == Chained(o, c, w) /\ Receiving(o, r, done, c, old, w)

\* The place to which the wire of the current session leads.
Leads(r, c, w, place) ==
    /\ w # <<>> => After(w[Len(w)]) = place
    /\ w = <<>> /\ Goes(r, c, FALSE) => ReceiverPlace(r) = place

\* That is where the sender is.  A transfer that is prepared is a later one.
Sending(o, r, done, c, w, s, l) ==
    /\ s.stage = "sending" /\ l = "up" => Leads(r, c, w, SenderPlace(s))
    /\ s.stage = "preparing" =>
           /\ \A i \in 1 .. Len(w) : w[i].id < s.id
           /\ BegunBefore(o, r, done, c, FALSE, s.id)
    /\ l = "down" => s.stage = "idle"

\* The transfers on a wire come before id.
Above(v, id) == \A i \in 1 .. Len(v) : v[i].id < id

\* The transfers on v come before those on w.
Behind(v, w) == \A j \in 1 .. Len(w) : Above(v, w[j].id)

\* What is on the wire v of the session that was taken over is older than what the
\* current one has: what is on its wire, received from it or being sent.
Apart(r, c, v, w, s) ==
    /\ Behind(v, w)
    /\ From(r, c, FALSE) => Above(v, r.id)
    /\ s.stage # "idle" => Above(v, s.id)

ClientInv(o, r, done, c, v, w, s, l) ==
    /\ Carries(o, r, done, c, FALSE, w) /\ Sending(o, r, done, c, w, s, l)
    /\ Carries(o, r, done, c, TRUE, v) /\ Apart(r, c, v, w, s)

\* The files of transfer id of o.
ContentOf(o, id) ==
    [f \in DOMAIN o[id].sizes |-> [p \in 1 .. o[id].sizes[f] |-> <<id, f, p>>]]

\* What was received so far is what the transfer says, unless it is mixed; S are the
\* connected clients, T those of which a session was taken over.
Received(o, r, done, S, T) ==
    r.active =>
        /\ r.id \in 1 .. Len(o)
        /\ o[r.id].from = r.source
        /\ ~r.stale => r.source \in S
        /\ r.stale \/ r.mixed => r.source \in T
        /\ r.count = Len(o[r.id].sizes)
        /\ Len(r.files) < r.count
        /\ ~r.mixed =>
              /\ \A f \in 1 .. Len(r.files) : r.files[f] = ContentOf(o, r.id)[f]
              /\ r.open => r.size = o[r.id].sizes[Len(r.files) + 1]
              /\ \A p \in 1 .. Len(r.data) : r.data[p] = <<r.id, Len(r.files) + 1, p>>
        /\ \A d \in 1 .. Len(done) :
              o[done[d].id].from = r.source => Precedes(done[d].id, done[d].late, r.stale, r.id)

DeliveredInv(o, done) == \A d \in 1 .. Len(done) : done[d].id \in 1 .. Len(o)

\* Only a session that was taken over has old input.
OldInput ==
    /\ closing \subseteq overtaken
    /\ \A c \in Clients : c \notin closing => oldWire[c] = <<>>

TransferInv ==
    /\ TypeInv
    /\ \A c \in Clients :
          ClientInv(offers, recv, delivered, c, oldWire[c], wire[c], send[c], link[c])
    /\ Received(offers, recv, delivered, session, overtaken)
    /\ DeliveredInv(offers, delivered)
    /\ OldInput

-----------------------------------------------------------------------------
(* Types.                                                                  *)

\* TypeOK in the names above.
LEMMA TypeParts ==
    TypeOK <=>
        /\ offers \in Offers /\ Len(offers) <= MaxTransfers
        /\ told \in Told
        /\ fate \in Fates
        /\ send \in [Clients -> Sends]
        /\ link \in [Clients -> Links] /\ cuts \in 0 .. MaxCuts
        /\ session \subseteq Clients /\ closing \subseteq Clients /\ overtaken \subseteq Clients
        /\ wire \in [Clients -> Seq(Messages)] /\ oldWire \in [Clients -> Seq(Messages)]
        /\ \A c \in Clients : Len(wire[c]) <= WireLimit + 2 + MaxTransfers
        /\ recv \in Receipts
        /\ delivered \in Announced
BY DEF TypeOK, Offers, Told, Fates, Links, Announced, Transfers

\* A message is told by its kind.
LEMMA MessageParts ==
    ASSUME NEW m \in Messages
    PROVE  /\ m.kind \in {"drag", "start", "chunk", "end"}
           /\ m.id \in Transfers
           /\ m.kind = "drag" => m.count \in Nat
           /\ m.kind = "start" => m.size \in Nat /\ m.file \in Nat
           /\ m.kind = "chunk" => m.part \in Parts
           /\ m.kind = "end" => m.file \in Nat
BY DEF Messages, Transfers

\* What a sender writes are messages.
LEMMA MessageTypes ==
    ASSUME NEW i \in Transfers
    PROVE  /\ \A n \in Nat : [kind |-> "drag", id |-> i, count |-> n] \in Messages
           /\ \A f, n \in Nat : [kind |-> "start", id |-> i, file |-> f, size |-> n] \in Messages
           /\ \A p \in Parts : [kind |-> "chunk", id |-> i, part |-> p] \in Messages
           /\ \A f \in Nat : [kind |-> "end", id |-> i, file |-> f] \in Messages
<1> HIDE DEF Parts
<1> QED BY DEF Messages, Transfers

LEMMA ConstantTypes ==
    /\ MaxTransfers \in Nat /\ MaxCuts \in Nat /\ WireLimit \in Nat /\ WireLimit > 0
    /\ NoClient \notin Clients
    /\ Ready \in Sends
    /\ Inactive \in Receipts
<1>1. /\ MaxTransfers \in Nat /\ MaxCuts \in Nat /\ WireLimit \in Nat /\ WireLimit > 0
      /\ NoClient \notin Clients
      BY TransferAssumption
<1>2. Ready \in Sends
      BY <1>1 DEF Ready, Sends
<1>3. <<>> \in Seq(Parts) /\ <<>> \in Seq(Seq(Parts))
      OBVIOUS
<1>4. Inactive \in Receipts
      BY <1>1, <1>3 DEF Inactive, Receipts
<1> QED BY <1>1, <1>2, <1>4

\* A transfer that is offered is a client's, and has files.
LEMMA OfferParts ==
    ASSUME NEW o \in Offers, NEW i \in 1 .. Len(o)
    PROVE  /\ o[i].from \in Clients
           /\ o[i].sizes \in Manifests
           /\ o[i].sizes \in Seq(Nat)
           /\ Len(o[i].sizes) \in Nat /\ Len(o[i].sizes) > 0
           /\ DOMAIN o[i].sizes = 1 .. Len(o[i].sizes)
           /\ \A f \in 1 .. Len(o[i].sizes) : o[i].sizes[f] \in Nat
<1>1. o[i].from \in Clients /\ o[i].sizes \in Manifests
      <2> DEFINE T == [from : Clients, sizes : Manifests]
      <2>1. o \in Seq(T)
            BY DEF Offers
      <2> HIDE DEF T
      <2>2. o[i] \in T
            BY <2>1
      <2> QED BY <2>2 DEF T
<1> DEFINE sizes == o[i].sizes
<1> HIDE DEF sizes
<1>2. sizes \in Seq(Nat) /\ sizes # <<>>
      BY <1>1, TransferAssumption DEF sizes
<1>3. Len(sizes) \in Nat /\ Len(sizes) > 0 /\ DOMAIN sizes = 1 .. Len(sizes)
      BY <1>2
<1>4. \A f \in 1 .. Len(sizes) : sizes[f] \in Nat
      BY <1>2, ElementOfSeq
<1> QED BY <1>1, <1>2, <1>3, <1>4 DEF sizes

-----------------------------------------------------------------------------
(* Type correctness.                                                       *)

\* What a step of one client, or of the receiver, has to show: how much may wait grows
\* only with the list of a transfer.
LEMMA TypeFrame ==
    ASSUME TypeInv, NEW c \in Clients, NEW s \in Sends, NEW w \in Seq(Messages),
           offers' = offers,
           told' \in Told, fate' \in Fates,
           send' = [send EXCEPT ![c] = s], SenderAt(offers, c, s),
           link' \in [Clients -> Links], cuts' \in 0 .. MaxCuts,
           session' \subseteq Clients, closing' \subseteq Clients, overtaken' \subseteq Clients,
           wire' = [wire EXCEPT ![c] = w], WireFits(Len(offers), w, s),
           oldWire' \in [Clients -> Seq(Messages)],
           recv' \in Receipts, recv'.active => recv'.id \in Transfers,
           delivered' \in Announced
    PROVE  TypeInv'
<1>1. /\ offers \in Offers /\ Len(offers) <= MaxTransfers /\ Len(offers) \in Nat
      /\ send \in [Clients -> Sends] /\ wire \in [Clients -> Seq(Messages)]
      /\ \A d \in Clients : SenderAt(offers, d, send[d])
      /\ \A d \in Clients : WireFits(Len(offers), wire[d], send[d])
      BY TypeParts DEF TypeInv, Offers
<1>2. send' \in [Clients -> Sends] /\ wire' \in [Clients -> Seq(Messages)]
      BY <1>1
<1>3. ASSUME NEW d \in Clients
      PROVE  SenderAt(offers, d, send'[d]) /\ WireFits(Len(offers), wire'[d], send'[d])
      <2>1. CASE d = c
            BY <1>1, <2>1
      <2>2. CASE d # c
            BY <1>1, <2>2
      <2> QED BY <2>1, <2>2
<1>4. ASSUME NEW d \in Clients
      PROVE  Len(wire'[d]) <= WireLimit + 2 + MaxTransfers
      <2>1. Waiting(Len(offers), send'[d]) <= Len(offers)
            /\ Waiting(Len(offers), send'[d]) \in Int
            BY <1>1 DEF Waiting
      <2>2. Len(wire'[d]) <= WireLimit + 2 + Waiting(Len(offers), send'[d])
            BY <1>3 DEF WireFits
      <2>3. Len(wire'[d]) \in Nat
            BY <1>2
      <2> QED BY <1>1, <2>1, <2>2, <2>3, ConstantTypes
<1>5. TypeOK'
      BY <1>1, <1>2, <1>4 DEF TypeOK, Offers, Told, Fates, Links, Announced, Transfers
<1> QED BY <1>3, <1>5 DEF TypeInv

\* What the lemmas need of TypeInv.
LEMMA TypeFacts ==
    ASSUME TypeInv, NEW c \in Clients
    PROVE  /\ offers \in Offers /\ Len(offers) \in Nat /\ Len(offers) <= MaxTransfers
           /\ told \in Told /\ fate \in Fates
           /\ send \in [Clients -> Sends] /\ send[c] \in Sends
           /\ link \in [Clients -> Links] /\ cuts \in 0 .. MaxCuts
           /\ session \subseteq Clients /\ closing \subseteq Clients /\ overtaken \subseteq Clients
           /\ wire \in [Clients -> Seq(Messages)] /\ wire[c] \in Seq(Messages)
           /\ wire = [wire EXCEPT ![c] = wire[c]] /\ send = [send EXCEPT ![c] = send[c]]
           /\ oldWire \in [Clients -> Seq(Messages)]
           /\ recv \in Receipts /\ (recv.active => recv.id \in Transfers)
           /\ delivered \in Announced
           /\ SenderAt(offers, c, send[c]) /\ WireFits(Len(offers), wire[c], send[c])
           /\ send[c].stage # "idle" => send[c].id \in Transfers
<1>1. /\ offers \in Offers /\ Len(offers) \in Nat /\ Len(offers) <= MaxTransfers
      /\ told \in Told /\ fate \in Fates
      /\ send \in [Clients -> Sends]
      /\ link \in [Clients -> Links] /\ cuts \in 0 .. MaxCuts
      /\ session \subseteq Clients /\ closing \subseteq Clients /\ overtaken \subseteq Clients
      /\ wire \in [Clients -> Seq(Messages)]
      /\ oldWire \in [Clients -> Seq(Messages)]
      /\ recv \in Receipts /\ (recv.active => recv.id \in Transfers)
      /\ delivered \in Announced
      /\ SenderAt(offers, c, send[c]) /\ WireFits(Len(offers), wire[c], send[c])
      BY TypeParts DEF TypeInv, Offers
<1>2. send[c].stage # "idle" => send[c].id \in Transfers
      BY <1>1, ConstantTypes DEF SenderAt, Transfers
<1> QED BY <1>1, <1>2

\* What is prepared may be added to the wire as one more list.
LEMMA FitsMore ==
    ASSUME NEW n \in Nat, NEW w \in Seq(Messages), NEW s, NEW t, WireFits(n, w, s)
    PROVE  /\ t.stage # "preparing" \/ s.stage = "preparing" => WireFits(n, w, t)
           /\ s.stage = "preparing" /\ t.stage # "preparing" =>
                 \A m \in Messages : WireFits(n, Append(w, m), t)
           /\ \A v \in Seq(Messages) : Len(v) <= Len(w) => WireFits(n, v, s)
           /\ \A v \in Seq(Messages) :
                 t.stage # "preparing" /\ Len(v) <= WireLimit + 2 => WireFits(n, v, t)
<1>1. /\ Len(w) \in Nat /\ \A m \in Messages : Len(Append(w, m)) = Len(w) + 1
      /\ \A v \in Seq(Messages) : Len(v) \in Nat
      OBVIOUS
<1> QED BY <1>1, ConstantTypes DEF WireFits, Waiting

\* Short sequences put together.
LEMMA ShortSequences ==
    ASSUME NEW a \in Messages, NEW b \in Messages, NEW d \in Messages
    PROVE  /\ <<a>> \o <<b>> = <<a, b>> /\ <<a, b>> \o <<d>> = <<a, b, d>>
           /\ <<a>> \o <<>> = <<a>> /\ <<>> \o <<a>> = <<a>> /\ <<a, b>> \o <<>> = <<a, b>>
<1>1. /\ <<a>> \in Seq(Messages) /\ <<b>> \in Seq(Messages) /\ <<d>> \in Seq(Messages)
      /\ <<a, b>> \in Seq(Messages) /\ <<a, b, d>> \in Seq(Messages)
      OBVIOUS
<1>2. <<a>> \o <<b>> = <<a, b>>
      <2> DEFINE u == <<a>> \o <<b>>
                 v == <<a, b>>
      <2>1. u \in Seq(Messages) /\ Len(u) = 2 /\ \A i \in 1 .. 2 : u[i] = IF i <= 1 THEN a ELSE b
            BY <1>1, ConcatProperties
      <2>2. v \in Seq(Messages) /\ Len(v) = 2 /\ \A i \in 1 .. 2 : v[i] = IF i <= 1 THEN a ELSE b
            BY <1>1
      <2> HIDE DEF u, v
      <2>3. u = v
            BY <2>1, <2>2, SeqEqual
      <2> QED BY <2>3 DEF u, v
<1>3. <<a, b>> \o <<d>> = <<a, b, d>>
      <2> DEFINE u == <<a, b>> \o <<d>>
                 v == <<a, b, d>>
      <2>1. u \in Seq(Messages) /\ Len(u) = 3
            /\ \A i \in 1 .. 3 : u[i] = IF i <= 2 THEN <<a, b>>[i] ELSE d
            BY <1>1, ConcatProperties
      <2>2. v \in Seq(Messages) /\ Len(v) = 3
            /\ \A i \in 1 .. 3 : v[i] = IF i <= 2 THEN <<a, b>>[i] ELSE d
            BY <1>1
      <2> HIDE DEF u, v
      <2>3. u = v
            BY <2>1, <2>2, SeqEqual
      <2> QED BY <2>3 DEF u, v
<1>4. <<a>> \o <<>> = <<a>> /\ <<>> \o <<a>> = <<a>> /\ <<a, b>> \o <<>> = <<a, b>>
      BY <1>1, ConcatEmptySeq
<1> QED BY <1>2, <1>3, <1>4

\* A send session that has changed.
LEMMA SendsStage ==
    ASSUME NEW s \in Sends, NEW i \in 0 .. MaxTransfers
    PROVE  LET t == [s EXCEPT !.stage = "preparing", !.id = i, !.timer = TRUE]
               u == [s EXCEPT !.stage = "sending"]
           IN /\ t \in Sends /\ t.stage = "preparing" /\ t.id = i /\ t.index = s.index
              /\ t.sent = s.sent /\ t.started = s.started
              /\ u \in Sends /\ u.stage = "sending" /\ u.id = s.id /\ u.index = s.index
              /\ u.sent = s.sent /\ u.started = s.started
BY DEF Sends

\* The turns of the pump.
Header(o, s) == [kind |-> "start", id |-> s.id, file |-> s.index,
                 size |-> o[s.id].sizes[s.index]]
Chunk(s) == [kind |-> "chunk", id |-> s.id, part |-> <<s.id, s.index, s.sent + 1>>]
End(s) == [kind |-> "end", id |-> s.id, file |-> s.index]

\* A turn writes the header of a file that is not started, a chunk of one that has
\* some left, and the end after the last: one to three messages.
LEMMA TurnCases ==
    ASSUME TypeInv, NEW c \in Clients, NEW s, s = send[c],
           s.stage = "sending", s.index <= Len(SizesOf(s.id))
    PROVE  LET size == offers[s.id].sizes[s.index]
               h == Header(offers, s)
               k == Chunk(s)
               e == End(s)
           IN /\ size \in Nat /\ s.id \in 1 .. Len(offers) /\ s.index \in 1 .. Len(offers[s.id].sizes)
              /\ h \in Messages /\ k \in Messages /\ e \in Messages
              /\ ~s.started => s.sent = 0 /\ h = Head(TurnMessages(s))
              /\ \/ ~s.started /\ size = 0 /\ TurnMessages(s) = <<h, e>>
                 \/ ~s.started /\ size = 1 /\ TurnMessages(s) = <<h, k, e>>
                 \/ ~s.started /\ size > 1 /\ TurnMessages(s) = <<h, k>>
                 \/ s.started /\ s.sent + 1 = size /\ TurnMessages(s) = <<k, e>>
                 \/ s.started /\ s.sent + 1 < size /\ TurnMessages(s) = <<k>>
<1> DEFINE size == offers[s.id].sizes[s.index]
           h == Header(offers, s)
           k == Chunk(s)
           e == End(s)
<1>1. s \in Sends /\ SenderAt(offers, c, s) /\ offers \in Offers /\ Len(offers) <= MaxTransfers
      /\ Len(offers) \in Nat
      BY TypeFacts
<1>2. /\ s.id \in 1 .. Len(offers) /\ s.id \in Transfers
      /\ s.index \in Nat /\ s.index >= 1 /\ s.sent \in Nat /\ s.started \in BOOLEAN
      /\ s.sent = 0 \/ s.sent < size
      /\ s.started <=> s.sent > 0
      BY <1>1, ConstantTypes DEF SenderAt, Sends, Transfers, SizesOf
<1>3. s.index \in 1 .. Len(offers[s.id].sizes) /\ size \in Nat
      BY <1>1, <1>2, OfferParts, SMTT(30) DEF SizesOf
<1>4. <<s.id, s.index, s.sent + 1>> \in Parts
      BY <1>2 DEF Parts
<1>5. h \in Messages /\ k \in Messages /\ e \in Messages
      BY <1>2, <1>3, <1>4, MessageTypes DEF Header, Chunk, End
<1>6. TurnMessages(s) = (IF s.started THEN <<>> ELSE <<h>>)
                        \o (IF s.sent < size THEN <<k>> ELSE <<>>)
                        \o (IF s.sent + 1 >= size THEN <<e>> ELSE <<>>)
      BY DEF TurnMessages, SizesOf, Header, Chunk, End
<1> HIDE DEF size, h, k, e
<1>7. <<>> \o <<k>> = <<k>> /\ <<h>> \o <<>> = <<h>> /\ <<h>> \o <<k>> = <<h, k>>
      /\ <<h>> \o <<e>> = <<h, e>> /\ <<h, k>> \o <<e>> = <<h, k, e>> /\ <<h, k>> \o <<>> = <<h, k>>
      /\ <<k>> \o <<e>> = <<k, e>> /\ <<k>> \o <<>> = <<k>>
      BY <1>5, ShortSequences
<1>8. Head(<<h, e>>) = h /\ Head(<<h, k, e>>) = h /\ Head(<<h, k>>) = h
      BY <1>5
<1>9. CASE ~s.started
      <2>1. s.sent = 0
            BY <1>2, <1>9
      <2>2. CASE size = 0
            <3>1. TurnMessages(s) = <<h>> \o <<>> \o <<e>>
                  BY <1>6, <1>9, <2>1, <2>2
            <3> QED BY <1>2, <1>3, <1>5, <1>7, <1>8, <1>9, <2>1, <2>2, <3>1 DEF size, h, k, e
      <2>3. CASE size = 1
            <3>1. TurnMessages(s) = <<h>> \o <<k>> \o <<e>>
                  BY <1>6, <1>9, <2>1, <2>3
            <3> QED BY <1>2, <1>3, <1>5, <1>7, <1>8, <1>9, <2>1, <2>3, <3>1 DEF size, h, k, e
      <2>4. CASE size > 1
            <3>1. TurnMessages(s) = <<h>> \o <<k>> \o <<>>
                  BY <1>3, <1>6, <1>9, <2>1, <2>4
            <3> QED BY <1>2, <1>3, <1>5, <1>7, <1>8, <1>9, <2>1, <2>4, <3>1 DEF size, h, k, e
      <2>5. size = 0 \/ size = 1 \/ size > 1
            BY <1>3
      <2> QED BY <2>2, <2>3, <2>4, <2>5, Zenon
<1>10. CASE s.started
      <2>1. s.sent > 0 /\ s.sent < size
            BY <1>2, <1>3, <1>10
      <2>2. CASE s.sent + 1 = size
            <3>1. TurnMessages(s) = <<>> \o <<k>> \o <<e>>
                  BY <1>2, <1>3, <1>6, <1>10, <2>1, <2>2
            <3> QED BY <1>2, <1>3, <1>5, <1>7, <1>10, <2>1, <2>2, <3>1 DEF size, h, k, e
      <2>3. CASE s.sent + 1 < size
            <3>1. ~(s.sent + 1 >= size)
                  BY <1>2, <1>3, <2>3
            <3>2. TurnMessages(s) = <<>> \o <<k>> \o <<>>
                  BY <1>6, <1>10, <2>1, <3>1
            <3> QED BY <1>2, <1>3, <1>5, <1>7, <1>10, <2>1, <2>3, <3>2 DEF size, h, k, e
      <2>4. s.sent + 1 = size \/ s.sent + 1 < size
            BY <1>2, <1>3, <2>1
      <2> QED BY <2>2, <2>3, <2>4, Zenon
<1> QED BY <1>2, <1>9, <1>10

\* What a turn leaves of the session.
LEMMA AfterTurnIs ==
    ASSUME NEW s \in Sends
    PROVE  /\ AfterTurn(s) \in Sends /\ AfterTurn(s).stage = s.stage /\ AfterTurn(s).id = s.id
           /\ s.sent + 1 >= offers[s.id].sizes[s.index] =>
                 /\ AfterTurn(s).index = s.index + 1 /\ AfterTurn(s).sent = 0
                 /\ AfterTurn(s).started = FALSE
           /\ ~(s.sent + 1 >= offers[s.id].sizes[s.index]) =>
                 /\ AfterTurn(s).index = s.index /\ AfterTurn(s).sent = s.sent + 1
                 /\ AfterTurn(s).started = TRUE
<1>1. PICK i \in Nat : i = s.index + 1
      BY DEF Sends
<1>2. PICK n \in Nat : n = s.sent + 1
      BY DEF Sends
<1> DEFINE t == [s EXCEPT !.index = i, !.sent = 0, !.started = FALSE]
           u == [s EXCEPT !.sent = n, !.started = TRUE]
<1>3. AfterTurn(s) = IF s.sent + 1 >= offers[s.id].sizes[s.index] THEN t ELSE u
      BY <1>1, <1>2 DEF AfterTurn, SizesOf
<1>4. /\ t \in Sends /\ t.stage = s.stage /\ t.id = s.id /\ t.index = i
      /\ t.sent = 0 /\ t.started = FALSE
      BY DEF Sends
<1>5. /\ u \in Sends /\ u.stage = s.stage /\ u.id = s.id /\ u.index = s.index
      /\ u.sent = n /\ u.started = TRUE
      BY DEF Sends
<1> HIDE DEF t, u
<1> QED BY <1>1, <1>2, <1>3, <1>4, <1>5

LEMMA AfterTurnTypes ==
    ASSUME TypeInv, NEW c \in Clients, NEW s, s = send[c],
           s.stage = "sending", s.index <= Len(SizesOf(s.id))
    PROVE  /\ AfterTurn(s) \in Sends /\ SenderAt(offers, c, AfterTurn(s))
           /\ AfterTurn(s).stage = "sending"
<1>1. s \in Sends /\ SenderAt(offers, c, s)
      BY TypeFacts
<1>2. s.index \in Nat /\ s.sent \in Nat
      BY <1>1 DEF Sends
<1>3. /\ s.id \in 1 .. Len(offers) /\ s.index \in 1 .. Len(offers[s.id].sizes)
      /\ offers[s.id].sizes[s.index] \in Nat
      BY TurnCases
<1>4. offers[s.id].from = c /\ Len(offers[s.id].sizes) \in Nat
      <2>1. offers \in Offers
            BY TypeFacts
      <2> QED BY <1>1, <1>3, <2>1, OfferParts DEF SenderAt
<1>5. AfterTurn(s) \in Sends /\ AfterTurn(s).stage = "sending" /\ AfterTurn(s).id = s.id
      BY <1>1, AfterTurnIs
<1>6. CASE s.sent + 1 >= offers[s.id].sizes[s.index]
      <2>1. /\ AfterTurn(s).index = s.index + 1 /\ AfterTurn(s).sent = 0
            /\ AfterTurn(s).started = FALSE
            BY <1>1, <1>6, AfterTurnIs
      <2> QED BY <1>2, <1>3, <1>4, <1>5, <2>1, SMTT(30) DEF SenderAt
<1>7. CASE ~(s.sent + 1 >= offers[s.id].sizes[s.index])
      <2>1. /\ AfterTurn(s).index = s.index /\ AfterTurn(s).sent = s.sent + 1
            /\ AfterTurn(s).started = TRUE
            BY <1>1, <1>7, AfterTurnIs
      <2>2. s.sent + 1 > 0 /\ s.sent + 1 < offers[s.id].sizes[s.index]
            BY <1>2, <1>3, <1>7, SMTT(30)
      <2> QED BY <1>2, <1>3, <1>4, <1>5, <2>1, <2>2 DEF SenderAt
<1> QED BY <1>6, <1>7

LEMMA StartPathsTypes ==
    ASSUME TypeInv, NEW c \in Clients, NEW sizes \in Manifests, StartPaths(c, sizes)
    PROVE  TypeInv'
<1> DEFINE s == [Ready EXCEPT !.stage = "preparing", !.id = Len(offers) + 1, !.timer = TRUE]
           offer == [from |-> c, sizes |-> sizes]
<1>1. /\ offers \in Offers /\ Len(offers) \in Nat /\ Len(offers) <= MaxTransfers
      /\ send \in [Clients -> Sends] /\ wire \in [Clients -> Seq(Messages)]
      /\ \A d \in Clients : SenderAt(offers, d, send[d])
      /\ \A d \in Clients : WireFits(Len(offers), wire[d], send[d])
      BY TypeParts DEF TypeInv, Offers
<1>2. /\ offers' = Append(offers, offer)
      /\ send' = [send EXCEPT ![c] = s]
      /\ send[c].stage = "idle" /\ Len(offers) < MaxTransfers
      /\ UNCHANGED <<told, link, cuts, session, closing, overtaken, wire, oldWire, recv, fate,
                      delivered>>
      BY DEF StartPaths, linkVars, receiverVars
<1>3. s \in Sends
      <2>1. Len(offers) + 1 \in 0 .. MaxTransfers
            BY <1>1, <1>2, ConstantTypes
      <2> QED BY <2>1, ConstantTypes, SendsStage
<1>4. /\ offers' \in Offers /\ Len(offers') = Len(offers) + 1 /\ Len(offers') <= MaxTransfers
      /\ offers'[Len(offers) + 1] = offer
      /\ \A i \in 1 .. Len(offers) : offers'[i] = offers[i]
      <2>1. offer \in [from : Clients, sizes : Manifests]
            OBVIOUS
      <2> DEFINE T == [from : Clients, sizes : Manifests]
      <2> HIDE DEF offer, T
      <2>2. offers \in Seq(T) /\ offer \in T
            BY <1>1, <2>1 DEF Offers, T
      <2>3. /\ offers' \in Seq(T) /\ Len(offers') = Len(offers) + 1
            /\ offers'[Len(offers) + 1] = offer
            /\ \A i \in 1 .. Len(offers) : offers'[i] = offers[i]
            BY <1>2, <2>2
      <2> QED BY <1>1, <1>2, <2>3, ConstantTypes DEF Offers, T
<1>5. sizes \in Seq(Nat) /\ Len(sizes) \in Nat /\ Len(sizes) > 0
      <2>1. sizes \in Seq(Nat) /\ sizes # <<>>
            BY TransferAssumption
      <2> QED BY <2>1
<1>6. SenderAt(offers', c, s)
      <2>1. offer.from = c /\ offer.sizes = sizes
            OBVIOUS
      <2>2. s.id = Len(offers) + 1 /\ s.index = 1 /\ s.sent = 0 /\ ~s.started
            BY DEF Ready
      <2> HIDE DEF offer, s
      <2> QED BY <1>1, <1>4, <1>5, <2>1, <2>2 DEF SenderAt
<1> HIDE DEF s, offer
<1>7. send' \in [Clients -> Sends]
      BY <1>1, <1>2, <1>3
<1>8. ASSUME NEW d \in Clients
      PROVE  SenderAt(offers', d, send'[d]) /\ WireFits(Len(offers'), wire[d], send'[d])
      <2>1. Len(wire[d]) \in Nat
            BY <1>1
      <2>2. CASE d = c
            <3>1. send'[c] = s /\ s.stage = "preparing"
                  BY <1>1, <1>2 DEF s, Ready
            <3> QED BY <1>1, <1>2, <1>4, <1>6, <2>1, <2>2, <3>1, SMTT(30) DEF WireFits, Waiting
      <2>3. CASE d # c
            <3>1. send'[d] = send[d]
                  BY <1>1, <1>2, <2>3
            <3>2. SenderAt(offers', d, send[d])
                  BY <1>1, <1>4, SMTT(30) DEF SenderAt
            <3>3. WireFits(Len(offers'), wire[d], send[d])
                  <4>1. Waiting(Len(offers'), send[d]) = Waiting(Len(offers), send[d]) + 1
                        /\ Waiting(Len(offers), send[d]) \in Int
                        BY <1>1, <1>4 DEF Waiting
                  <4>2. Len(wire[d]) <= WireLimit + 2 + Waiting(Len(offers), send[d])
                        BY <1>1 DEF WireFits
                  <4> QED BY <2>1, <4>1, <4>2, ConstantTypes DEF WireFits
            <3> QED BY <3>1, <3>2, <3>3
      <2> QED BY <2>2, <2>3
<1>9. TypeOK'
      BY <1>2, <1>4, <1>7 DEF TypeInv, TypeOK, Offers
<1>10. recv'.active => recv'.id \in Transfers
      BY <1>2 DEF TypeInv
<1>11. wire' = wire
      BY <1>2
<1> QED BY <1>8, <1>9, <1>10, <1>11 DEF TypeInv

LEMMA WriteIs ==
    ASSUME TypeInv, NEW c \in Clients, NEW messages \in Seq(Messages), Write(c, messages)
    PROVE  LET w == IF link[c] = "up" THEN wire[c] \o messages ELSE wire[c]
           IN wire' = [wire EXCEPT ![c] = w] /\ w \in Seq(Messages)
<1>1. wire[c] \in Seq(Messages) /\ wire = [wire EXCEPT ![c] = wire[c]]
      BY TypeFacts
<1>2. wire[c] \o messages \in Seq(Messages)
      BY <1>1, ConcatProperties
<1> QED BY <1>1, <1>2 DEF Write

LEMMA FinishIs ==
    ASSUME TypeInv, NEW c \in Clients, send[c].stage # "idle",
           NEW outcome \in {"ok", "error"}, Finish(c, outcome)
    PROVE  /\ send' = [send EXCEPT ![c] = Ready] /\ Ready \in Sends /\ Ready.stage = "idle"
           /\ SenderAt(offers, c, Ready)
           /\ told' \in Told
<1>1. told \in Told /\ send[c].id \in Transfers
      BY TypeFacts
<1>2. told' \in Told
      BY <1>1 DEF Finish, Told
<1> QED BY <1>2, ConstantTypes DEF Finish, Ready, SenderAt

\* What a step of the sender has to show.
LEMMA SenderFrame ==
    ASSUME TypeInv, NEW c \in Clients, NEW s \in Sends, NEW w \in Seq(Messages),
           send' = [send EXCEPT ![c] = s], SenderAt(offers, c, s),
           wire' = [wire EXCEPT ![c] = w], WireFits(Len(offers), w, s),
           told' \in Told, UNCHANGED <<offers, linkVars, oldWire, receiverVars>>
    PROVE  TypeInv'
<1>1. /\ offers' = offers
      /\ fate' \in Fates /\ link' \in [Clients -> Links]
      /\ cuts' \in 0 .. MaxCuts /\ session' \subseteq Clients /\ closing' \subseteq Clients
      /\ overtaken' \subseteq Clients
      /\ oldWire' \in [Clients -> Seq(Messages)]
      /\ recv' \in Receipts /\ (recv'.active => recv'.id \in Transfers)
      /\ delivered' \in Announced
      BY TypeFacts DEF linkVars, receiverVars
<1> QED BY <1>1, TypeFrame

LEMMA PreparedTypes ==
    ASSUME TypeInv, NEW c \in Clients, Prepared(c)
    PROVE  TypeInv'
<1> DEFINE id == send[c].id
           drag == [kind |-> "drag", id |-> id, count |-> Len(SizesOf(id))]
           n == Len(offers)
<1>1. /\ n \in Nat /\ send[c] \in Sends /\ wire[c] \in Seq(Messages) /\ told \in Told
      /\ SenderAt(offers, c, send[c]) /\ WireFits(n, wire[c], send[c])
      /\ send[c].stage = "preparing" /\ id \in Transfers
      BY TypeFacts DEF Prepared
<1>2. UNCHANGED <<offers, linkVars, oldWire, receiverVars>>
      BY DEF Prepared
<1>3. CASE Write(c, <<drag>>) /\ send' = [send EXCEPT ![c].stage = "sending"] /\ UNCHANGED told
      <2> DEFINE t == [send[c] EXCEPT !.stage = "sending"]
                 w == IF link[c] = "up" THEN wire[c] \o <<drag>> ELSE wire[c]
      <2>1. drag \in Messages
            <3>1. offers \in Offers /\ id \in 1 .. Len(offers)
                  BY <1>1, TypeFacts DEF SenderAt
            <3>2. Len(SizesOf(id)) \in Nat
                  BY <3>1, OfferParts DEF SizesOf
            <3> QED BY <1>1, <3>2, MessageTypes
      <2> HIDE DEF drag
      <2>2. <<drag>> \in Seq(Messages)
            BY <2>1
      <2>3. wire' = [wire EXCEPT ![c] = w] /\ w \in Seq(Messages)
            BY <1>3, <2>2, WriteIs
      <2>4. /\ t \in Sends /\ t.stage = "sending" /\ t.id = id /\ t.index = send[c].index
            /\ t.sent = send[c].sent /\ t.started = send[c].started
            BY <1>1, SendsStage DEF Sends
      <2>5. send' = [send EXCEPT ![c] = t]
            BY <1>3, TypeFacts
      <2> HIDE DEF t
      <2>6. SenderAt(offers, c, t)
            BY <1>1, <2>4 DEF SenderAt
      <2>7. WireFits(n, w, t)
            <3>1. wire[c] \o <<drag>> = Append(wire[c], drag)
                  BY <1>1, <2>1
            <3>2. WireFits(n, Append(wire[c], drag), t) /\ WireFits(n, wire[c], t)
                  BY <1>1, <2>1, <2>4, FitsMore
            <3> QED BY <3>1, <3>2
      <2> HIDE DEF w, n
      <2> QED BY <1>1, <1>2, <1>3, <2>3, <2>4, <2>5, <2>6, <2>7, SenderFrame DEF n
<1>4. CASE Finish(c, "error") /\ UNCHANGED wire
      <2>1. /\ send' = [send EXCEPT ![c] = Ready] /\ Ready \in Sends /\ Ready.stage = "idle"
            /\ SenderAt(offers, c, Ready)
            /\ told' \in Told
            BY <1>1, <1>4, FinishIs
      <2>2. wire' = [wire EXCEPT ![c] = wire[c]] /\ WireFits(n, wire[c], Ready)
            BY <1>1, <1>4, <2>1, FitsMore, TypeFacts
      <2> QED BY <1>1, <1>2, <2>1, <2>2, SenderFrame
<1> QED BY <1>3, <1>4 DEF Prepared

LEMMA PumpTypes ==
    ASSUME TypeInv, NEW c \in Clients, Pump(c) \/ ReadFailure(c)
    PROVE  TypeInv'
<1> DEFINE s == send[c]
           n == Len(offers)
<1>1. /\ n \in Nat /\ s \in Sends /\ wire[c] \in Seq(Messages) /\ told \in Told
      /\ SenderAt(offers, c, s) /\ WireFits(n, wire[c], s)
      BY TypeFacts
<1>2. UNCHANGED <<offers, linkVars, oldWire, receiverVars>>
      BY DEF Pump, ReadFailure
<1>3. s.stage = "sending" /\ (link[c] = "up" => Len(wire[c]) < WireLimit)
      BY DEF Pump, ReadFailure
<1>4. ASSUME NEW outcome \in {"ok", "error"}, Finish(c, outcome)
      PROVE  /\ send' = [send EXCEPT ![c] = Ready] /\ Ready \in Sends /\ Ready.stage = "idle"
             /\ SenderAt(offers, c, Ready)
             /\ told' \in Told
      BY <1>3, <1>4, FinishIs
<1>5. ASSUME Write(c, TurnMessages(s)), s.index <= Len(SizesOf(s.id))
      PROVE  \E w \in Seq(Messages) :
                wire' = [wire EXCEPT ![c] = w] /\ (w = wire[c] \/ Len(w) <= WireLimit + 2)
      <2> DEFINE turn == TurnMessages(s)
      <2>1. turn \in Seq(Messages) /\ Len(turn) <= 3
            <3> DEFINE h == Header(offers, s)
                       k == Chunk(s)
                       e == End(s)
            <3>1. h \in Messages /\ k \in Messages /\ e \in Messages
                  BY <1>3, <1>5, TurnCases
            <3>2. \/ turn = <<h, e>> \/ turn = <<h, k, e>> \/ turn = <<h, k>>
                  \/ turn = <<k, e>> \/ turn = <<k>>
                  BY <1>3, <1>5, TurnCases
            <3> HIDE DEF h, k, e, turn
            <3>3. \A a, b, d \in Messages :
                     /\ <<a>> \in Seq(Messages) /\ Len(<<a>>) <= 3
                     /\ <<a, b>> \in Seq(Messages) /\ Len(<<a, b>>) <= 3
                     /\ <<a, b, d>> \in Seq(Messages) /\ Len(<<a, b, d>>) <= 3
                  OBVIOUS
            <3> QED BY <3>1, <3>2, <3>3
      <2> DEFINE w == IF link[c] = "up" THEN wire[c] \o turn ELSE wire[c]
      <2>2. wire' = [wire EXCEPT ![c] = w] /\ w \in Seq(Messages)
            BY <1>5, <2>1, WriteIs
      <2>3. w = wire[c] \/ Len(w) <= WireLimit + 2
            <3>1. CASE link[c] = "up"
                  <4>1. Len(w) = Len(wire[c]) + Len(turn)
                        BY <1>1, <2>1, <3>1, ConcatProperties
                  <4>2. Len(wire[c]) \in Nat /\ Len(turn) \in Nat
                        BY <1>1, <2>1
                  <4>3. Len(wire[c]) < WireLimit
                        BY <1>3, <3>1
                  <4> HIDE DEF w, turn
                  <4> QED BY <2>1, <4>1, <4>2, <4>3, ConstantTypes
            <3> QED BY <3>1
      <2> HIDE DEF w
      <2> QED BY <2>2, <2>3
<1>6. CASE Finish(c, "ok") /\ UNCHANGED wire
      <2>1. wire' = [wire EXCEPT ![c] = wire[c]] /\ WireFits(n, wire[c], Ready)
            BY <1>1, <1>4, <1>6, FitsMore, TypeFacts
      <2> QED BY <1>1, <1>2, <1>4, <1>6, <2>1, SenderFrame
<1>7. CASE /\ s.index <= Len(SizesOf(s.id)) /\ Write(c, TurnMessages(s))
           /\ send' = [send EXCEPT ![c] = AfterTurn(s)]
           /\ UNCHANGED told
      <2>1. PICK w \in Seq(Messages) :
               wire' = [wire EXCEPT ![c] = w] /\ (w = wire[c] \/ Len(w) <= WireLimit + 2)
            BY <1>5, <1>7
      <2> DEFINE t == AfterTurn(s)
      <2>2. t \in Sends /\ SenderAt(offers, c, t) /\ t.stage = "sending"
            BY <1>3, <1>7, AfterTurnTypes
      <2>3. send' = [send EXCEPT ![c] = t]
            BY <1>7
      <2> HIDE DEF t
      <2>4. WireFits(n, w, t)
            BY <1>1, <1>3, <2>1, <2>2, FitsMore
      <2> QED BY <1>1, <1>2, <1>7, <2>1, <2>2, <2>3, <2>4, SenderFrame
<1>8. CASE Finish(c, "error") /\ UNCHANGED wire
      <2>1. wire' = [wire EXCEPT ![c] = wire[c]] /\ WireFits(n, wire[c], Ready)
            BY <1>1, <1>4, <1>8, FitsMore, TypeFacts
      <2> QED BY <1>1, <1>2, <1>4, <1>8, <2>1, SenderFrame
<1>9. CASE /\ Finish(c, "error") /\ s.index <= Len(SizesOf(s.id))
           /\ ~s.started /\ Write(c, <<Head(TurnMessages(s))>>)
      <2> DEFINE h == Header(offers, s)
                 w == IF link[c] = "up" THEN wire[c] \o <<h>> ELSE wire[c]
      <2>1. h \in Messages /\ Write(c, <<h>>)
            <3>1. h \in Messages /\ h = Head(TurnMessages(s))
                  BY <1>3, <1>9, TurnCases
            <3> QED BY <1>9, <3>1
      <2> HIDE DEF h
      <2>2. <<h>> \in Seq(Messages)
            BY <2>1
      <2>3. wire' = [wire EXCEPT ![c] = w] /\ w \in Seq(Messages)
            BY <2>1, <2>2, WriteIs
      <2>4. w = wire[c] \/ Len(w) <= WireLimit + 2
            <3>1. CASE link[c] = "up"
                  <4>1. Len(w) = Len(wire[c]) + 1
                        BY <1>1, <2>1, <2>2, <3>1
                  <4>2. Len(wire[c]) \in Nat
                        BY <1>1
                  <4> QED BY <1>3, <3>1, <4>1, <4>2, ConstantTypes
            <3> QED BY <3>1
      <2> HIDE DEF w
      <2>5. WireFits(n, w, Ready)
            BY <1>1, <1>4, <1>9, <2>3, <2>4, FitsMore
      <2> QED BY <1>1, <1>2, <1>4, <1>9, <2>3, <2>5, SenderFrame
<1> QED BY <1>6, <1>7, <1>8, <1>9 DEF Pump, ReadFailure

LEMMA OtherSenderTypes ==
    ASSUME TypeInv, NEW c \in Clients, WaitForDrain(c) \/ CancelSend(c)
    PROVE  TypeInv'
<1>1. /\ Len(offers) \in Nat /\ send[c] \in Sends /\ wire[c] \in Seq(Messages) /\ told \in Told
      /\ SenderAt(offers, c, send[c]) /\ WireFits(Len(offers), wire[c], send[c])
      /\ wire = [wire EXCEPT ![c] = wire[c]] /\ send \in [Clients -> Sends]
      BY TypeFacts
<1>2. CASE WaitForDrain(c)
      <2>1. send' = [send EXCEPT ![c] = send[c]]
            <3>1. send[c].timer = TRUE /\ send' = [send EXCEPT ![c].timer = TRUE]
                  BY <1>1, <1>2 DEF WaitForDrain, Sends
            <3>2. [send[c] EXCEPT !.timer = TRUE] = send[c]
                  BY <1>1, <3>1 DEF Sends
            <3> QED BY <1>1, <3>1, <3>2
      <2> QED BY <1>1, <1>2, <2>1, SenderFrame DEF WaitForDrain
<1>3. CASE CancelSend(c)
      <2>1. /\ send' = [send EXCEPT ![c] = Ready] /\ Ready \in Sends /\ Ready.stage = "idle"
            /\ SenderAt(offers, c, Ready)
            /\ told' \in Told
            BY <1>3, FinishIs DEF CancelSend
      <2>2. WireFits(Len(offers), wire[c], Ready)
            BY <1>1, <2>1, FitsMore
      <2> QED BY <1>1, <1>3, <2>1, <2>2, SenderFrame DEF CancelSend
<1> QED BY <1>2, <1>3

\* What a step of the receiver or of a connection has to show: no sender is touched.
LEMMA ReceiverFrame ==
    ASSUME TypeInv, NEW c \in Clients, NEW w \in Seq(Messages),
           UNCHANGED senderVars,
           wire' = [wire EXCEPT ![c] = w], Len(w) <= Len(wire[c]),
           link' \in [Clients -> Links], cuts' \in 0 .. MaxCuts,
           session' \subseteq Clients, closing' \subseteq Clients, overtaken' \subseteq Clients,
           oldWire' \in [Clients -> Seq(Messages)],
           recv' \in Receipts, recv'.active => recv'.id \in Transfers,
           fate' \in Fates, delivered' \in Announced
    PROVE  TypeInv'
<1>1. /\ Len(offers) \in Nat /\ send[c] \in Sends /\ wire[c] \in Seq(Messages)
      /\ SenderAt(offers, c, send[c]) /\ WireFits(Len(offers), wire[c], send[c])
      /\ send = [send EXCEPT ![c] = send[c]] /\ told \in Told
      BY TypeFacts
<1>2. offers' = offers /\ told' = told /\ send' = send
      BY DEF senderVars
<1>3. WireFits(Len(offers), w, send[c])
      BY <1>1, FitsMore
<1> QED BY <1>1, <1>2, <1>3, TypeFrame

\* The receiver, as it is abandoned.
LEMMA AbandonTypes ==
    ASSUME TypeInv
    PROVE  /\ Abandoned \in Fates
           /\ Abandon => /\ recv' \in Receipts /\ ~recv'.active
                         /\ fate' \in Fates /\ delivered' \in Announced
<1>1. fate \in Fates /\ recv \in Receipts /\ (recv.active => recv.id \in Transfers)
      /\ delivered \in Announced
      BY TypeParts DEF TypeInv
<1>2. Abandoned \in Fates
      BY <1>1 DEF Abandoned, Fates
<1>3. Reset \in Receipts /\ ~Reset.active
      <2>1. recv.source \in Clients \cup {NoClient}
            BY <1>1 DEF Receipts
      <2>2. <<>> \in Seq(Parts) /\ <<>> \in Seq(Seq(Parts))
            OBVIOUS
      <2> QED BY <2>1, <2>2, ConstantTypes DEF Reset, Inactive, Receipts
<1> QED BY <1>1, <1>2, <1>3 DEF Abandon

LEMMA TakeChunkTypes ==
    ASSUME TypeInv, NEW m \in Messages, NEW mixed \in BOOLEAN, recv.active,
           TakeChunk(m, mixed)
    PROVE  /\ recv' \in Receipts /\ (recv'.active => recv'.id \in Transfers)
           /\ fate' \in Fates /\ delivered' \in Announced
<1> DEFINE files == Append(recv.files, recv.data)
           T == Seq(Parts)
           F == Seq(T)
<1>1. fate \in Fates /\ recv \in Receipts /\ recv.id \in Transfers
      /\ delivered \in Announced
      BY TypeParts DEF TypeInv
<1>2. Receipts = [active : BOOLEAN, source : Clients \cup {NoClient}, id : 0 .. MaxTransfers,
                  stale : BOOLEAN, mixed : BOOLEAN, count : Nat, files : F, open : BOOLEAN,
                  size : Nat, data : T]
      BY DEF Receipts
<1>3. recv.files \in F /\ recv.data \in T
      BY <1>1, <1>2
<1>4. /\ <<>> \in T
      /\ files \in F
      /\ m.kind = "chunk" => Append(recv.data, m.part) \in T
      /\ m.kind = "start" => m.size \in Nat
      BY <1>3, MessageParts
<1> HIDE DEF T, F
<1>5. CASE /\ m.kind = "start"
           /\ recv' = [recv EXCEPT !.open = TRUE, !.size = m.size, !.data = <<>>,
                                    !.mixed = mixed]
           /\ UNCHANGED <<fate, delivered>>
      <2>1. recv' \in Receipts /\ recv'.id = recv.id
            BY <1>1, <1>2, <1>4, <1>5
      <2> QED BY <1>1, <1>5, <2>1
<1>6. CASE /\ m.kind = "chunk"
           /\ recv' = [recv EXCEPT !.data = Append(@, m.part), !.mixed = mixed]
           /\ UNCHANGED <<fate, delivered>>
      <2>1. recv' \in Receipts /\ recv'.id = recv.id
            BY <1>1, <1>2, <1>4, <1>6
      <2> QED BY <1>1, <1>6, <2>1
<1>7. CASE /\ recv' = [recv EXCEPT !.files = files, !.open = FALSE, !.size = 0, !.data = <<>>,
                                    !.mixed = mixed]
           /\ UNCHANGED <<fate, delivered>>
      <2> HIDE DEF files
      <2>1. recv' \in Receipts /\ recv'.id = recv.id
            BY <1>1, <1>2, <1>4, <1>7
      <2> QED BY <1>1, <1>7, <2>1
<1>8. CASE /\ delivered' = Append(delivered, [id |-> recv.id, late |-> recv.stale,
                                              mixed |-> mixed, files |-> files])
           /\ fate' = [fate EXCEPT ![recv.id] = "delivered"]
           /\ recv' = Reset
      <2> HIDE DEF files
      <2>1. [id |-> recv.id, late |-> recv.stale, mixed |-> mixed, files |-> files]
               \in Announcements
            <3>1. Announcements = [id : Transfers, late : BOOLEAN, mixed : BOOLEAN, files : F]
                  BY DEF Announcements, Transfers, F, T
            <3>2. recv.stale \in BOOLEAN
                  BY <1>1, <1>2
            <3> QED BY <1>1, <1>4, <3>1, <3>2
      <2>4. delivered' \in Announced
            BY <1>1, <1>8, <2>1, AppendProperties DEF Announced
      <2>5. fate' \in Fates
            BY <1>1, <1>8 DEF Fates
      <2>6. recv' \in Receipts /\ ~recv'.active
            <3>1. recv.source \in Clients \cup {NoClient}
                  BY <1>1, <1>2
            <3>2. <<>> \in F
                  BY DEF F
            <3> QED BY <1>2, <1>4, <1>8, <3>1, <3>2, ConstantTypes DEF Reset, Inactive
      <2> QED BY <2>4, <2>5, <2>6
<1> QED BY <1>5, <1>6, <1>7, <1>8 DEF TakeChunk

\* The receiver, after any message.
LEMMA ParseMessageTypes ==
    ASSUME TypeInv, NEW c \in Clients, NEW m \in Messages, NEW stale \in BOOLEAN,
           ParseMessage(c, m, stale)
    PROVE  /\ recv' \in Receipts /\ (recv'.active => recv'.id \in Transfers)
           /\ fate' \in Fates /\ delivered' \in Announced
<1>1. fate \in Fates /\ recv \in Receipts /\ (recv.active => recv.id \in Transfers)
      /\ delivered \in Announced /\ m.id \in Transfers
      BY TypeParts, MessageParts DEF TypeInv
<1>2. CASE UNCHANGED receiverVars
      BY <1>1, <1>2 DEF receiverVars
<1>3. CASE Abandon
      BY <1>3, AbandonTypes
<1>4. CASE recv.active /\ \E mixed \in BOOLEAN : TakeChunk(m, mixed)
      BY <1>4, TakeChunkTypes
<1>5. CASE /\ m.kind = "drag"
           /\ recv' = [Inactive EXCEPT !.active = TRUE, !.source = c, !.id = m.id,
                                       !.stale = stale, !.count = m.count]
           /\ fate' = [Abandoned EXCEPT ![m.id] = "receiving"]
           /\ UNCHANGED delivered
      <2>1. m.id \in 0 .. MaxTransfers /\ m.count \in Nat
            BY <1>1, <1>5, MessageParts, ConstantTypes DEF Transfers
      <2>2. <<>> \in Seq(Parts) /\ <<>> \in Seq(Seq(Parts))
            OBVIOUS
      <2>3. recv' \in Receipts /\ recv'.id = m.id
            BY <1>5, <2>1, <2>2 DEF Inactive, Receipts
      <2>4. fate' \in Fates
            BY <1>5, AbandonTypes DEF Fates
      <2> QED BY <1>1, <1>5, <2>3, <2>4
<1>6. CASE /\ recv' = [Inactive EXCEPT !.source = c]
           /\ fate' = [Abandoned EXCEPT ![m.id] = "dropped"]
           /\ UNCHANGED delivered
      <2>1. recv' \in Receipts /\ ~recv'.active
            BY <1>6, ConstantTypes DEF Inactive, Receipts
      <2>2. fate' \in Fates
            BY <1>6, AbandonTypes DEF Fates
      <2> QED BY <1>1, <1>6, <2>1, <2>2
<1>7. CASE m.kind = "drag"
      BY <1>2, <1>5, <1>6, <1>7 DEF ParseMessage, DragInfo
<1>8. CASE m.kind # "drag"
      <2>1. (recv.mixed \/ stale # recv.stale) \in BOOLEAN
            OBVIOUS
      <2> QED BY <1>2, <1>3, <1>4, <1>8, <2>1 DEF ParseMessage, FileChunk
<1> QED BY <1>7, <1>8

LEMMA ReadTypes ==
    ASSUME TypeInv, NEW c \in Clients, Read(c) \/ ReadOld(c)
    PROVE  TypeInv'
<1>1. /\ wire \in [Clients -> Seq(Messages)] /\ wire[c] \in Seq(Messages)
      /\ oldWire \in [Clients -> Seq(Messages)]
      /\ link \in [Clients -> Links] /\ cuts \in 0 .. MaxCuts
      /\ session \subseteq Clients /\ closing \subseteq Clients /\ overtaken \subseteq Clients
      /\ wire = [wire EXCEPT ![c] = wire[c]]
      BY TypeFacts
<1>2. CASE Read(c)
      <2>1. Head(wire[c]) \in Messages /\ Tail(wire[c]) \in Seq(Messages)
            /\ Len(Tail(wire[c])) <= Len(wire[c])
            BY <1>1, <1>2 DEF Read
      <2>2. /\ recv' \in Receipts /\ (recv'.active => recv'.id \in Transfers)
            /\ fate' \in Fates /\ delivered' \in Announced
            <3>1. ParseMessage(c, Head(wire[c]), FALSE)
                  BY <1>2 DEF Read
            <3> QED BY <2>1, <3>1, ParseMessageTypes
      <2>3. /\ wire' = [wire EXCEPT ![c] = Tail(wire[c])]
            /\ UNCHANGED <<senderVars, link, cuts, session, closing, overtaken, oldWire>>
            BY <1>2 DEF Read, linkVars
      <2> QED BY <1>1, <2>1, <2>2, <2>3, ReceiverFrame
<1>3. CASE ReadOld(c)
      <2>1. Head(oldWire[c]) \in Messages /\ oldWire' \in [Clients -> Seq(Messages)]
            BY <1>1, <1>3 DEF ReadOld
      <2>2. /\ recv' \in Receipts /\ (recv'.active => recv'.id \in Transfers)
            /\ fate' \in Fates /\ delivered' \in Announced
            <3>1. ParseMessage(c, Head(oldWire[c]), TRUE)
                  BY <1>3 DEF ReadOld
            <3> QED BY <2>1, <3>1, ParseMessageTypes
      <2>3. UNCHANGED <<senderVars, link, cuts, session, closing, overtaken, wire>>
            BY <1>3 DEF ReadOld, linkVars
      <2>4. Len(wire[c]) <= Len(wire[c])
            BY <1>1
      <2> QED BY <1>1, <2>1, <2>2, <2>3, <2>4, ReceiverFrame
<1> QED BY <1>2, <1>3

\* A client whose connection is gone is dropped.
LEMMA DropSourceTypes ==
    ASSUME TypeInv, NEW c \in Clients, DropSource(c) \/ UNCHANGED receiverVars \/ Abandon
    PROVE  /\ recv' \in Receipts /\ (recv'.active => recv'.id \in Transfers)
           /\ fate' \in Fates /\ delivered' \in Announced
<1>1. fate \in Fates /\ recv \in Receipts /\ (recv.active => recv.id \in Transfers)
      /\ delivered \in Announced
      BY TypeFacts
<1>2. CASE UNCHANGED receiverVars
      BY <1>1, <1>2 DEF receiverVars
<1>3. CASE Abandon
      BY <1>3, AbandonTypes
<1> QED BY <1>2, <1>3 DEF DropSource

LEMMA ConnectionTypes ==
    ASSUME TypeInv, NEW c \in Clients, Connection(c)
    PROVE  TypeInv'
<1>1. /\ offers \in Offers /\ Len(offers) \in Nat
      /\ wire \in [Clients -> Seq(Messages)] /\ wire[c] \in Seq(Messages)
      /\ oldWire \in [Clients -> Seq(Messages)]
      /\ link \in [Clients -> Links] /\ cuts \in 0 .. MaxCuts
      /\ session \subseteq Clients /\ closing \subseteq Clients /\ overtaken \subseteq Clients
      /\ wire = [wire EXCEPT ![c] = wire[c]] /\ send = [send EXCEPT ![c] = send[c]]
      /\ send[c] \in Sends /\ SenderAt(offers, c, send[c]) /\ told \in Told
      /\ WireFits(Len(offers), wire[c], send[c])
      BY TypeFacts
<1>2. /\ <<>> \in Seq(Messages) /\ Len(<<>>) <= Len(wire[c]) /\ Len(wire[c]) <= Len(wire[c])
      BY <1>1
<1>3. CASE Cut(c)
      <2>1. PICK n \in 0 .. Len(wire[c]) : wire' = [wire EXCEPT ![c] = SubSeq(wire[c], 1, n)]
            BY <1>3 DEF Cut
      <2> DEFINE w == SubSeq(wire[c], 1, n)
      <2>2. w \in Seq(Messages) /\ Len(w) <= Len(wire[c])
            BY <1>1
      <2>3. link' \in [Clients -> Links] /\ cuts' \in 0 .. MaxCuts
            BY <1>1, <1>3, ConstantTypes DEF Cut, Links
      <2>4. UNCHANGED <<senderVars, session, closing, overtaken, oldWire, receiverVars>>
            BY <1>3 DEF Cut
      <2>5. /\ recv' \in Receipts /\ (recv'.active => recv'.id \in Transfers)
            /\ fate' \in Fates /\ delivered' \in Announced
            BY <2>4, DropSourceTypes
      <2> HIDE DEF w
      <2>6. wire' = [wire EXCEPT ![c] = w]
            BY <2>1 DEF w
      <2> QED BY <1>1, <2>2, <2>3, <2>4, <2>5, <2>6, ReceiverFrame
<1>4. CASE ClientNotices(c)
      <2>1. link' \in [Clients -> Links]
            BY <1>1, <1>4 DEF ClientNotices, Links
      <2>2. UNCHANGED <<offers, cuts, session, closing, overtaken, wire, oldWire, receiverVars>>
            BY <1>4 DEF ClientNotices
      <2>3. /\ recv' \in Receipts /\ (recv'.active => recv'.id \in Transfers)
            /\ fate' \in Fates /\ delivered' \in Announced
            BY <2>2, DropSourceTypes
      <2>4. \E s \in Sends : /\ send' = [send EXCEPT ![c] = s] /\ SenderAt(offers, c, s)
                             /\ WireFits(Len(offers), wire[c], s)
                             /\ told' \in Told
            <3>1. CASE send[c].stage = "idle"
                  BY <1>1, <1>4, <3>1 DEF ClientNotices
            <3>2. CASE send[c].stage # "idle"
                  <4>1. /\ send' = [send EXCEPT ![c] = Ready] /\ Ready \in Sends
                        /\ Ready.stage = "idle" /\ SenderAt(offers, c, Ready)
                        /\ told' \in Told
                        BY <1>4, <3>2, FinishIs DEF ClientNotices
                  <4>2. WireFits(Len(offers), wire[c], Ready)
                        BY <1>1, <4>1, FitsMore
                  <4> QED BY <4>1, <4>2
            <3> QED BY <3>1, <3>2
      <2>5. PICK s \in Sends : /\ send' = [send EXCEPT ![c] = s] /\ SenderAt(offers, c, s)
                               /\ WireFits(Len(offers), wire[c], s)
                               /\ told' \in Told
            BY <2>4
      <2>6. /\ offers' = offers /\ cuts' = cuts /\ session' = session /\ closing' = closing /\ overtaken' = overtaken
            /\ wire' = [wire EXCEPT ![c] = wire[c]] /\ oldWire' = oldWire
            BY <1>1, <2>2
      <2> QED BY <1>1, <2>1, <2>3, <2>5, <2>6, TypeFrame
<1>5. CASE ServerNotices(c)
      <2>1. /\ wire' = [wire EXCEPT ![c] = <<>>]
            /\ session' \subseteq Clients
            /\ UNCHANGED <<senderVars, link, cuts, closing, overtaken, oldWire>>
            BY <1>1, <1>5 DEF ServerNotices
      <2>2. /\ recv' \in Receipts /\ (recv'.active => recv'.id \in Transfers)
            /\ fate' \in Fates /\ delivered' \in Announced
            BY <1>5, DropSourceTypes DEF ServerNotices
      <2> QED BY <1>1, <1>2, <2>1, <2>2, ReceiverFrame
<1>6. CASE Reconnect(c)
      <2>1. /\ wire' = [wire EXCEPT ![c] = <<>>]
            /\ session' \subseteq Clients /\ closing' \subseteq Clients
            /\ overtaken' \subseteq Clients
            /\ UNCHANGED <<senderVars, cuts>>
            BY <1>1, <1>6 DEF Reconnect
      <2>2. link' \in [Clients -> Links]
            BY <1>1, <1>6 DEF Reconnect, Links
      <2>3. oldWire' \in [Clients -> Seq(Messages)]
            BY <1>1, <1>6 DEF Reconnect
      <2>4. /\ recv' \in Receipts /\ (recv'.active => recv'.id \in Transfers)
            /\ fate' \in Fates /\ delivered' \in Announced
            BY <1>6, DropSourceTypes DEF Reconnect
      <2> QED BY <1>1, <1>2, <2>1, <2>2, <2>3, <2>4, ReceiverFrame
<1>7. CASE OldSessionGone(c) \/ OldSessionTimeout(c)
      <2>1. /\ closing' \subseteq Clients
            /\ oldWire' \in [Clients -> Seq(Messages)]
            /\ UNCHANGED <<senderVars, link, cuts, session, overtaken, wire>>
            BY <1>1, <1>2, <1>7 DEF OldSessionGone, OldSessionTimeout
      <2>2. /\ recv' \in Receipts /\ (recv'.active => recv'.id \in Transfers)
            /\ fate' \in Fates /\ delivered' \in Announced
            BY <1>7, DropSourceTypes DEF OldSessionGone, OldSessionTimeout
      <2> QED BY <1>1, <1>2, <2>1, <2>2, ReceiverFrame
<1> QED BY <1>3, <1>4, <1>5, <1>6, <1>7 DEF Connection

LEMMA InitTypes == Init => TypeInv
<1> SUFFICES ASSUME Init PROVE TypeInv
    OBVIOUS
<1>1. /\ <<>> \in Offers /\ <<>> \in Announced /\ <<>> \in Seq(Messages) /\ Len(<<>>) = 0
      BY DEF Offers, Announced
<1>2. TypeOK
      BY <1>1, ConstantTypes DEF Init, TypeOK, Offers, Announced, Transfers
<1>3. \A c \in Clients : SenderAt(offers, c, send[c])
      BY DEF Init, Ready, SenderAt
<1>4. \A c \in Clients : WireFits(Len(offers), wire[c], send[c])
      <2>1. ASSUME NEW c \in Clients PROVE wire[c] = <<>> /\ send[c].stage = "idle"
            BY DEF Init, Ready
      <2>2. Len(offers) = 0
            BY <1>1 DEF Init
      <2> QED BY <1>1, <2>1, <2>2, ConstantTypes DEF WireFits, Waiting
<1>5. ~recv.active
      BY DEF Init, Inactive
<1> QED BY <1>2, <1>3, <1>4, <1>5 DEF TypeInv

LEMMA TypeStep == TypeInv /\ [Next]_vars => TypeInv'
<1> SUFFICES ASSUME TypeInv, [Next]_vars PROVE TypeInv'
    OBVIOUS
<1>1. CASE \E c \in Clients : Sender(c)
      BY <1>1, StartPathsTypes, PreparedTypes, PumpTypes, OtherSenderTypes DEF Sender
<1>2. CASE \E c \in Clients : Read(c) \/ ReadOld(c)
      BY <1>2, ReadTypes
<1>3. CASE \E c \in Clients : Connection(c)
      BY <1>3, ConnectionTypes
<1>4. CASE CancelReceive
      <2>1. /\ recv' \in Receipts /\ (recv'.active => recv'.id \in Transfers)
            /\ fate' \in Fates /\ delivered' \in Announced
            BY <1>4, AbandonTypes DEF CancelReceive
      <2>2. /\ offers' = offers /\ told' = told /\ send' = send /\ link' = link /\ cuts' = cuts
            /\ session' = session /\ closing' = closing /\ overtaken' = overtaken /\ wire' = wire /\ oldWire' = oldWire
            BY <1>4 DEF CancelReceive, senderVars, linkVars
      <2>3. TypeOK'
            BY <2>1, <2>2 DEF TypeInv, TypeOK, Fates, Announced, Transfers
      <2> QED BY <2>1, <2>2, <2>3 DEF TypeInv
<1>5. CASE UNCHANGED vars
      <2>1. TypeOK'
            BY <1>5 DEF vars, TypeInv, TypeOK
      <2> QED BY <1>5, <2>1 DEF vars, TypeInv
<1> QED BY <1>1, <1>2, <1>3, <1>4, <1>5 DEF Next

\* Type correctness, which includes that what is queued for a connection stays
\* bounded, for any number of clients and transfers of files of any size.
THEOREM TransferTypeCorrect == Spec => []TypeOK
<1>1. TypeInv => TypeOK
      BY DEF TypeInv
<1> QED BY <1>1, InitTypes, TypeStep, PTL DEF Spec

-----------------------------------------------------------------------------
(* Wires.                                                                  *)

\* A message begins and ends in its own transfer.
LEMMA OwnPlaces ==
    ASSUME NEW m \in Messages, NEW o
    PROVE  /\ m.kind # "drag" => Before(o, m).id = m.id
           /\ After(m).id = m.id
<1>1. m.kind \in {"drag", "start", "chunk", "end"}
      BY MessageParts
<1> QED BY <1>1 DEF Before, After, At

\* A sequence that is one longer.
LEMMA OneMore ==
    ASSUME NEW done \in Announced, NEW x, NEW done2, done2 = Append(done, x)
    PROVE  /\ Len(done) \in Nat /\ Len(done2) = Len(done) + 1
           /\ done2[Len(done) + 1] = x
           /\ \A i \in 1 .. Len(done) : done2[i] = done[i]
           /\ \A i \in 1 .. Len(done2) : i \in 1 .. Len(done) \/ i = Len(done) + 1
<1>1. /\ Len(done) \in Nat /\ Len(done2) = Len(done) + 1
      /\ done2[Len(done) + 1] = x
      /\ \A i \in 1 .. Len(done) : done2[i] = done[i]
      BY DEF Announced
<1>2. \A i \in 1 .. Len(done2) : i \in 1 .. Len(done) \/ i = Len(done) + 1
      BY <1>1
<1> QED BY <1>1, <1>2

\* The messages of a wire, with one more.
LEMMA Added ==
    ASSUME NEW w \in Seq(Messages), NEW m \in Messages
    PROVE  LET v == Append(w, m)
           IN /\ v \in Seq(Messages) /\ v # <<>> /\ v[Len(v)] = m
              /\ Len(w) \in Nat /\ Len(v) = Len(w) + 1 /\ v[Len(w) + 1] = m
              /\ \A i \in 1 .. Len(w) : v[i] = w[i] /\ w[i] \in Messages
              /\ \A i \in 1 .. Len(v) : i \in 1 .. Len(w) \/ i = Len(w) + 1
              /\ w # <<>> => Len(w) \in 1 .. Len(w) /\ v[1] = w[1]
              /\ w = <<>> => Len(w) = 0
<1> DEFINE v == Append(w, m)
<1>1. /\ v \in Seq(Messages) /\ v # <<>>
      /\ Len(w) \in Nat /\ Len(v) = Len(w) + 1 /\ v[Len(w) + 1] = m
      /\ \A i \in 1 .. Len(w) : v[i] = w[i] /\ w[i] \in Messages
      BY AppendProperties
<1>2. /\ w # <<>> => Len(w) > 0
      /\ w = <<>> => Len(w) = 0
      BY <1>1
<1> HIDE DEF v
<1>3. \A i \in 1 .. Len(v) : i \in 1 .. Len(w) \/ i = Len(w) + 1
      BY <1>1
<1>4. w # <<>> => Len(w) \in 1 .. Len(w) /\ v[1] = w[1]
      BY <1>1, <1>2
<1>5. v[Len(v)] = m
      BY <1>1
<1> QED BY <1>1, <1>2, <1>3, <1>4, <1>5 DEF v

\* A message that is written goes on where the wire leads.
LEMMA AddMessage ==
    ASSUME NEW o, NEW r, NEW done, NEW c, NEW w \in Seq(Messages), NEW m \in Messages,
           Carries(o, r, done, c, FALSE, w), Genuine(o, c, m),
           \/ m.kind # "drag" /\ Leads(r, c, w, Before(o, m))
           \/ /\ m.kind = "drag" /\ BegunBefore(o, r, done, c, FALSE, m.id)
              /\ \A i \in 1 .. Len(w) : w[i].id < m.id
    PROVE  /\ Append(w, m) \in Seq(Messages)
           /\ Carries(o, r, done, c, FALSE, Append(w, m))
           /\ Leads(r, c, Append(w, m), After(m))
<1> DEFINE v == Append(w, m)
<1>1. /\ v \in Seq(Messages) /\ v # <<>> /\ v[Len(v)] = m
      /\ Len(w) \in Nat /\ Len(v) = Len(w) + 1 /\ v[Len(w) + 1] = m
      /\ \A i \in 1 .. Len(w) : v[i] = w[i] /\ w[i] \in Messages
      /\ \A i \in 1 .. Len(v) : i \in 1 .. Len(w) \/ i = Len(w) + 1
      /\ w # <<>> => Len(w) \in 1 .. Len(w) /\ v[1] = w[1]
      /\ w = <<>> => Len(w) = 0
      BY Added
<1> HIDE DEF v
<1>2. \A x \in Messages : x.id \in Nat
      BY MessageParts, ConstantTypes DEF Transfers
<1>3. ASSUME NEW i \in 1 .. Len(w)
      PROVE  w[i].id <= m.id /\ (m.kind = "drag" => w[i].id < m.id)
      <2>1. CASE m.kind = "drag"
            BY <1>1, <1>2, <2>1
      <2>2. CASE m.kind # "drag"
            <3>1. w # <<>> /\ Len(w) \in 1 .. Len(w)
                  BY <1>1
            <3>2. After(w[Len(w)]) = Before(o, m)
                  BY <2>2, <3>1 DEF Leads
            <3>3. w[Len(w)].id = m.id
                  BY <1>1, <2>2, <3>1, <3>2, OwnPlaces
            <3>4. i < Len(w) \/ i = Len(w)
                  BY <1>1
            <3>5. i < Len(w) => w[i].id <= w[Len(w)].id
                  BY <3>1 DEF Carries, Chained
            <3> QED BY <1>1, <1>2, <2>2, <3>1, <3>3, <3>4, <3>5
      <2> QED BY <2>1, <2>2
<1>4. Chained(o, c, v)
      <2>1. \A i \in 1 .. Len(v) : Genuine(o, c, v[i])
            BY <1>1 DEF Carries, Chained
      <2>2. ASSUME NEW i \in 1 .. Len(v), NEW j \in 1 .. Len(v), j = i + 1, v[j].kind # "drag"
            PROVE  Before(o, v[j]) = After(v[i])
            <3>1. i \in 1 .. Len(w)
                  BY <1>1, <2>2
            <3>2. CASE j \in 1 .. Len(w)
                  BY <1>1, <2>2, <3>1, <3>2 DEF Carries, Chained
            <3>3. CASE j = Len(w) + 1
                  <4>1. i = Len(w) /\ w # <<>> /\ v[j] = m /\ v[i] = w[Len(w)]
                        BY <1>1, <2>2, <3>1, <3>3
                  <4> QED BY <2>2, <4>1 DEF Leads
            <3> QED BY <1>1, <3>2, <3>3
      <2>3. ASSUME NEW i \in 1 .. Len(v), NEW j \in 1 .. Len(v), i < j
            PROVE  v[i].id <= v[j].id /\ (v[j].kind = "drag" => v[i].id < v[j].id)
            <3>1. i \in 1 .. Len(w)
                  BY <1>1, <2>3
            <3>2. CASE j \in 1 .. Len(w)
                  BY <1>1, <2>3, <3>1, <3>2 DEF Carries, Chained
            <3>3. CASE j = Len(w) + 1
                  BY <1>1, <1>3, <3>1, <3>3
            <3> QED BY <1>1, <3>2, <3>3
      <2> QED BY <2>1, <2>2, <2>3 DEF Chained
<1>5. Receiving(o, r, done, c, FALSE, v)
      <2>1. ASSUME Goes(r, c, FALSE), v[1].kind # "drag" PROVE Before(o, v[1]) = ReceiverPlace(r)
            <3>1. CASE w = <<>>
                  <4>1. v[1] = m
                        BY <1>1, <3>1
                  <4> QED BY <2>1, <3>1, <4>1 DEF Leads
            <3>2. CASE w # <<>>
                  BY <1>1, <2>1, <3>2 DEF Carries, Receiving
            <3> QED BY <3>1, <3>2
      <2>2. ASSUME NEW i \in 1 .. Len(v), v[i].kind = "drag"
            PROVE  BegunBefore(o, r, done, c, FALSE, v[i].id)
            BY <1>1, <2>2 DEF Carries, Receiving
      <2> QED BY <2>1, <2>2 DEF Receiving
<1>6. Leads(r, c, v, After(m))
      BY <1>1 DEF Leads
<1> QED BY <1>1, <1>4, <1>5, <1>6 DEF Carries, v

\* It is of a later transfer than those before it on another wire.
LEMMA AddBehind ==
    ASSUME NEW v, NEW w \in Seq(Messages), NEW m \in Messages, Behind(v, w), Above(v, m.id)
    PROVE  Behind(v, Append(w, m))
<1> DEFINE u == Append(w, m)
<1>1. /\ Len(w) \in Nat /\ u[Len(w) + 1] = m
      /\ \A i \in 1 .. Len(w) : u[i] = w[i]
      /\ \A i \in 1 .. Len(u) : i \in 1 .. Len(w) \/ i = Len(w) + 1
      BY Added
<1> HIDE DEF u
<1>2. Behind(v, u)
      BY <1>1 DEF Behind
<1> QED BY <1>2 DEF u

\* What is left of a wire that is cut.
LEMMA CutWire ==
    ASSUME NEW o, NEW r, NEW done, NEW c, NEW old, NEW w \in Seq(Messages), NEW n \in 0 .. Len(w),
           Carries(o, r, done, c, old, w)
    PROVE  LET v == SubSeq(w, 1, n)
           IN /\ Carries(o, r, done, c, old, v)
              /\ \A i \in 1 .. Len(v) : i \in 1 .. Len(w) /\ v[i] = w[i]
<1> DEFINE v == SubSeq(w, 1, n)
<1>1. /\ Len(w) \in Nat /\ Len(v) = n /\ n <= Len(w) /\ v \in Seq(Messages)
      /\ \A i \in 1 .. n : v[i] = w[i] /\ i \in 1 .. Len(w)
      OBVIOUS
<1> HIDE DEF v
<1>2. Chained(o, c, v)
      BY <1>1 DEF Carries, Chained
<1>3. Receiving(o, r, done, c, old, v)
      <2>1. v # <<>> => 1 \in 1 .. n /\ w # <<>>
            BY <1>1
      <2> QED BY <1>1, <2>1 DEF Carries, Receiving
<1> QED BY <1>1, <1>2, <1>3 DEF Carries, v

\* A wire without messages.
LEMMA EmptyWire ==
    ASSUME NEW o, NEW r, NEW done, NEW c, NEW old
    PROVE  /\ Carries(o, r, done, c, old, <<>>)
           /\ Len(<<>>) = 0
<1>1. Len(<<>>) = 0
      OBVIOUS
<1> DEFINE w == <<>>
<1>2. w = <<>> /\ Len(w) = 0
      BY <1>1
<1> HIDE DEF w
<1>3. Carries(o, r, done, c, old, w)
      BY <1>2 DEF Carries, Chained, Receiving
<1> QED BY <1>1, <1>3 DEF w

\* What is announced once r is complete; T are the clients of which a session was taken
\* over.
Announces(o, r, done, done2, T) ==
    \E x \in Announcements :
        /\ done2 = Append(done, x)
        /\ x.id = r.id /\ x.late = r.stale
        /\ x.mixed => r.source \in T
        /\ ~x.mixed => x.files = ContentOf(o, r.id)

\* What the receiver makes of a message of c: it gives up, or leaves it, or begins with a
\* list, or goes on with what it had begun, and is at the message's end unless other
\* messages have come between.  What it announces is what it had begun.
Progress(o, c, old, m, r, done, r2, done2, T) ==
    /\ \/ ~r2.active
       \/ r2 = r /\ r.source # c
       \/ /\ r2.source = c /\ r2.id = m.id /\ r2.stale = old
          /\ ReceiverPlace(r2) = After(m)
       \/ /\ r.active /\ r.source = c
          /\ r2.source = c /\ r2.id = r.id /\ r2.stale = r.stale
          /\ ~r2.mixed => r.stale = old /\ ReceiverPlace(r2) = After(m)
    /\ \/ done2 = done
       \/ r.active /\ r.source = c /\ Announces(o, r, done, done2, T)

\* What was begun before a transfer still is, if the message read is of one before it.
LEMMA ReadBegun ==
    ASSUME NEW o, NEW c, NEW old, NEW m, NEW r, NEW done \in Announced, NEW r2, NEW done2, NEW T,
           Progress(o, c, old, m, r, done, r2, done2, T),
           NEW k, NEW id, BegunBefore(o, r, done, c, k, id), Precedes(m.id, old, k, id)
    PROVE  BegunBefore(o, r2, done2, c, k, id)
<1>1. ASSUME NEW d \in 1 .. Len(done2), o[done2[d].id].from = c
      PROVE  Precedes(done2[d].id, done2[d].late, k, id)
      <2>1. CASE done2 = done
            BY <1>1, <2>1 DEF BegunBefore
      <2>2. CASE r.active /\ r.source = c /\ Announces(o, r, done, done2, T)
            <3>1. PICK x : done2 = Append(done, x) /\ x.id = r.id /\ x.late = r.stale
                  BY <2>2 DEF Announces
            <3>2. CASE d \in 1 .. Len(done)
                  BY <1>1, <3>1, <3>2, OneMore DEF BegunBefore
            <3>3. CASE d = Len(done) + 1
                  <4>1. done2[d] = x
                        BY <3>1, <3>3, OneMore
                  <4> QED BY <2>2, <3>1, <4>1 DEF BegunBefore
            <3> QED BY <3>1, <3>2, <3>3, OneMore
      <2> QED BY <2>1, <2>2 DEF Progress
<1>2. ASSUME r2.active, r2.source = c PROVE Precedes(r2.id, r2.stale, k, id)
      BY <1>2 DEF Progress, BegunBefore
<1> QED BY <1>1, <1>2 DEF BegunBefore

\* The first message of a wire and the others.
LEMMA HeadAndTail ==
    ASSUME NEW w \in Seq(Messages), w # <<>>
    PROVE  /\ Head(w) = w[1] /\ Head(w) \in Messages /\ 1 \in 1 .. Len(w)
           /\ Tail(w) \in Seq(Messages)
           /\ \A i \in 1 .. Len(Tail(w)) : Tail(w)[i] = w[i + 1] /\ i + 1 \in 1 .. Len(w)
OBVIOUS

\* A message that is read leaves the rest of its wire going on where the receiver is.
LEMMA ReadCarries ==
    ASSUME NEW o, NEW c, NEW old \in BOOLEAN, NEW r, NEW done \in Announced, NEW r2, NEW done2,
           NEW T, NEW w \in Seq(Messages), w # <<>>, Carries(o, r, done, c, old, w),
           Progress(o, c, old, Head(w), r, done, r2, done2, T)
    PROVE  /\ Carries(o, r2, done2, c, old, Tail(w))
           /\ ~old => \A place : Leads(r, c, w, place) => Leads(r2, c, Tail(w), place)
<1> DEFINE v == Tail(w)
           m == Head(w)
<1>1. /\ Len(w) \in Nat /\ Len(w) >= 1 /\ Len(v) = Len(w) - 1 /\ m = w[1] /\ m \in Messages
      /\ \A i \in 1 .. Len(v) : v[i] = w[i + 1] /\ i + 1 \in 1 .. Len(w)
      /\ v \in Seq(Messages)
      /\ 1 \in 1 .. Len(w)
      OBVIOUS
<1>3. \A x \in Messages : x.id \in Nat
      BY MessageParts, ConstantTypes DEF Transfers
<1> HIDE DEF v, m
<1>4. Chained(o, c, v)
      <2>1. \A i \in 1 .. Len(v) : Genuine(o, c, v[i])
            BY <1>1 DEF Carries, Chained
      <2>2. ASSUME NEW i \in 1 .. Len(v), NEW j \in 1 .. Len(v), j = i + 1, v[j].kind # "drag"
            PROVE  Before(o, v[j]) = After(v[i])
            <3>1. j + 1 = (i + 1) + 1
                  BY <2>2
            <3> QED BY <1>1, <2>2, <3>1 DEF Carries, Chained
      <2>3. ASSUME NEW i \in 1 .. Len(v), NEW j \in 1 .. Len(v), i < j
            PROVE  v[i].id <= v[j].id /\ (v[j].kind = "drag" => v[i].id < v[j].id)
            <3>1. i + 1 < j + 1
                  BY <2>3
            <3> QED BY <1>1, <3>1 DEF Carries, Chained
      <2> QED BY <2>1, <2>2, <2>3 DEF Chained
<1>5. Goes(r2, c, old) => ReceiverPlace(r2) = After(m)
      BY DEF Progress, Goes, From, m
<1>6. Receiving(o, r2, done2, c, old, v)
      <2>1. ASSUME Goes(r2, c, old), v # <<>>, v[1].kind # "drag"
            PROVE  Before(o, v[1]) = ReceiverPlace(r2)
            <3>1. 1 \in 1 .. Len(v) /\ 2 \in 1 .. Len(w) /\ v[1] = w[2]
                  BY <1>1, <2>1
            <3>2. Before(o, w[2]) = After(w[1])
                  <4>1. 2 = 1 + 1
                        OBVIOUS
                  <4> QED BY <1>1, <2>1, <3>1, <4>1 DEF Carries, Chained
            <3> QED BY <1>1, <1>5, <2>1, <3>1, <3>2
      <2>2. ASSUME NEW i \in 1 .. Len(v), v[i].kind = "drag"
            PROVE  BegunBefore(o, r2, done2, c, old, v[i].id)
            <3>1. BegunBefore(o, r, done, c, old, v[i].id)
                  BY <1>1, <2>2 DEF Carries, Receiving
            <3>2. 1 < i + 1
                  BY <1>1
            <3>3. m.id < v[i].id /\ m.id \in Nat /\ v[i].id \in Nat
                  <4>1. v[i] \in Messages /\ i + 1 \in 1 .. Len(w) /\ v[i] = w[i + 1]
                        BY <1>1, ElementOfSeq
                  <4>2. w[1].id < w[i + 1].id
                        BY <1>1, <2>2, <3>2, <4>1 DEF Carries, Chained
                  <4> QED BY <1>1, <1>3, <4>1, <4>2
            <3>4. Precedes(m.id, old, old, v[i].id)
                  BY <3>3 DEF Precedes
            <3> QED BY <3>1, <3>4, ReadBegun DEF m
      <2> QED BY <2>1, <2>2 DEF Receiving
<1>7. ASSUME ~old, NEW place, Leads(r, c, w, place)
      PROVE  Leads(r2, c, v, place)
      <2>1. CASE v # <<>>
            <3>1. Len(v) \in 1 .. Len(v) /\ Len(v) + 1 = Len(w)
                  BY <1>1, <2>1
            <3>2. v[Len(v)] = w[Len(w)]
                  BY <1>1, <3>1
            <3> QED BY <1>7, <2>1, <3>2 DEF Leads
      <2>2. CASE v = <<>>
            <3>1. Len(w) = 1
                  BY <1>1, <2>2
            <3>2. After(m) = place
                  BY <1>1, <1>7, <3>1 DEF Leads
            <3>3. Goes(r2, c, FALSE) => ReceiverPlace(r2) = After(m)
                  BY <1>5, <1>7
            <3> QED BY <2>2, <3>2, <3>3 DEF Leads
      <2> QED BY <2>1, <2>2
<1> QED BY <1>1, <1>4, <1>6, <1>7 DEF Carries, v, m

\* It leaves the other wire of the client as it was: the receiver does not go on with that.
LEMMA OtherCarries ==
    ASSUME NEW o, NEW c, NEW old \in BOOLEAN, NEW m, NEW r, NEW done \in Announced, NEW r2,
           NEW done2, NEW T, Progress(o, c, old, m, r, done, r2, done2, T),
           NEW k \in BOOLEAN, k # old, NEW v, Carries(o, r, done, c, k, v),
           \A i \in 1 .. Len(v) : Precedes(m.id, old, k, v[i].id)
    PROVE  /\ Carries(o, r2, done2, c, k, v)
           /\ ~k => \A place : Leads(r, c, v, place) => Leads(r2, c, v, place)
<1>1. ~Goes(r2, c, k)
      BY DEF Progress, Goes, From
<1>2. \A i \in 1 .. Len(v) : v[i].kind = "drag" => BegunBefore(o, r2, done2, c, k, v[i].id)
      <2> SUFFICES ASSUME NEW i \in 1 .. Len(v), v[i].kind = "drag"
                   PROVE  BegunBefore(o, r2, done2, c, k, v[i].id)
          OBVIOUS
      <2>1. BegunBefore(o, r, done, c, k, v[i].id)
            BY DEF Carries, Receiving
      <2>2. Precedes(m.id, old, k, v[i].id)
            OBVIOUS
      <2> QED BY <2>1, <2>2, ReadBegun
<1>3. Carries(o, r2, done2, c, k, v)
      BY <1>1, <1>2 DEF Carries, Receiving
<1>4. ~k => \A place : Leads(r, c, v, place) => Leads(r2, c, v, place)
      BY <1>1 DEF Leads
<1> QED BY <1>3, <1>4

\* The current session has read a message.
LEMMA ReadWire ==
    ASSUME NEW o, NEW r, NEW r2, NEW done \in Announced, NEW done2, NEW T, NEW c,
           NEW v \in Seq(Messages), NEW w \in Seq(Messages), NEW s, NEW l, w # <<>>,
           s.stage # "idle" => s.id \in Nat,
           ClientInv(o, r, done, c, v, w, s, l),
           Progress(o, c, FALSE, Head(w), r, done, r2, done2, T)
    PROVE  ClientInv(o, r2, done2, c, v, Tail(w), s, l)
<1> DEFINE m == Head(w)
           u == Tail(w)
<1>1. /\ Carries(o, r, done, c, FALSE, w) /\ Carries(o, r, done, c, TRUE, v)
      /\ Sending(o, r, done, c, w, s, l) /\ Apart(r, c, v, w, s)
      BY DEF ClientInv
<1>2. /\ Carries(o, r2, done2, c, FALSE, u)
      /\ \A place : Leads(r, c, w, place) => Leads(r2, c, u, place)
      /\ m = w[1] /\ m \in Messages /\ 1 \in 1 .. Len(w)
      /\ \A i \in 1 .. Len(u) : u[i] = w[i + 1] /\ i + 1 \in 1 .. Len(w)
      <2> DEFINE F == FALSE
      <2>1. /\ Carries(o, r, done, c, F, w) /\ F \in BOOLEAN /\ ~F
            /\ Progress(o, c, F, Head(w), r, done, r2, done2, T)
            BY <1>1
      <2> HIDE DEF F
      <2>2. /\ Carries(o, r2, done2, c, F, Tail(w))
            /\ \A place : Leads(r, c, w, place) => Leads(r2, c, Tail(w), place)
            BY <2>1, ReadCarries
      <2> QED BY <2>2, HeadAndTail DEF F
<1>3. \A x \in Messages : x.id \in Nat
      BY MessageParts, ConstantTypes DEF Transfers
<1>4. Progress(o, c, FALSE, m, r, done, r2, done2, T)
      OBVIOUS
<1> HIDE DEF m, u
<1>5. \A i \in 1 .. Len(v) : v[i] \in Messages /\ v[i].id < m.id
      BY <1>1, <1>2, ElementOfSeq DEF Apart, Behind, Above
<1>6. Carries(o, r2, done2, c, TRUE, v)
      <2>1. \A i \in 1 .. Len(v) : Precedes(m.id, FALSE, TRUE, v[i].id)
            BY <1>2, <1>3, <1>5 DEF Precedes
      <2> QED BY <1>1, <1>4, <2>1, OtherCarries
<1>7. Sending(o, r2, done2, c, u, s, l)
      <2>1. ASSUME s.stage = "preparing"
            PROVE  (\A i \in 1 .. Len(u) : u[i].id < s.id) /\ BegunBefore(o, r2, done2, c, FALSE, s.id)
            <3>1. (\A i \in 1 .. Len(w) : w[i].id < s.id) /\ BegunBefore(o, r, done, c, FALSE, s.id)
                  BY <1>1, <2>1 DEF Sending
            <3>2. Precedes(m.id, FALSE, FALSE, s.id)
                  <4>1. m.id < s.id /\ m.id \in Nat /\ s.id \in Nat
                        BY <1>2, <1>3, <2>1, <3>1
                  <4> QED BY <4>1 DEF Precedes
            <3> QED BY <1>2, <1>4, <3>1, <3>2, ReadBegun
      <2> QED BY <1>1, <1>2, <2>1 DEF Sending
<1>8. Apart(r2, c, v, u, s)
      <2>1. Behind(v, u)
            BY <1>1, <1>2 DEF Apart, Behind
      <2>2. From(r2, c, FALSE) => Above(v, r2.id)
            <3>1. Above(v, m.id)
                  BY <1>5 DEF Above
            <3> QED BY <1>1, <1>4, <3>1 DEF From, Progress, Apart
      <2> QED BY <1>1, <2>1, <2>2 DEF Apart
<1> QED BY <1>2, <1>6, <1>7, <1>8 DEF ClientInv, u

\* The session that was taken over has.
LEMMA ReadOldWire ==
    ASSUME NEW o, NEW r, NEW r2, NEW done \in Announced, NEW done2, NEW T, NEW c,
           NEW v \in Seq(Messages), NEW w \in Seq(Messages), NEW s, NEW l, v # <<>>,
           s.stage # "idle" => s.id \in Nat,
           ClientInv(o, r, done, c, v, w, s, l),
           Progress(o, c, TRUE, Head(v), r, done, r2, done2, T)
    PROVE  ClientInv(o, r2, done2, c, Tail(v), w, s, l)
<1> DEFINE m == Head(v)
           u == Tail(v)
<1>1. /\ Carries(o, r, done, c, FALSE, w) /\ Carries(o, r, done, c, TRUE, v)
      /\ Sending(o, r, done, c, w, s, l) /\ Apart(r, c, v, w, s)
      BY DEF ClientInv
<1>2. /\ Carries(o, r2, done2, c, TRUE, u)
      /\ m = v[1] /\ m \in Messages /\ 1 \in 1 .. Len(v)
      /\ \A i \in 1 .. Len(u) : u[i] = v[i + 1] /\ i + 1 \in 1 .. Len(v)
      <2> DEFINE F == TRUE
      <2>1. /\ Carries(o, r, done, c, F, v) /\ F \in BOOLEAN
            /\ Progress(o, c, F, Head(v), r, done, r2, done2, T)
            BY <1>1
      <2> HIDE DEF F
      <2>2. Carries(o, r2, done2, c, F, Tail(v))
            BY <2>1, ReadCarries
      <2> QED BY <2>2, HeadAndTail DEF F
<1>3. \A x \in Messages : x.id \in Nat
      BY MessageParts, ConstantTypes DEF Transfers
<1>4. Progress(o, c, TRUE, m, r, done, r2, done2, T)
      OBVIOUS
<1> HIDE DEF m, u
<1>5. \A id : Above(v, id) => m.id < id /\ Above(u, id)
      BY <1>2 DEF Above
<1>6. /\ Carries(o, r2, done2, c, FALSE, w)
      /\ \A place : Leads(r, c, w, place) => Leads(r2, c, w, place)
      <2>1. ASSUME NEW i \in 1 .. Len(w) PROVE Precedes(m.id, TRUE, FALSE, w[i].id)
            <3>1. m.id < w[i].id
                  BY <1>1, <1>5 DEF Apart, Behind
            <3>2. m.id \in Nat /\ w[i].id \in Nat
                  BY <1>2, <1>3, ElementOfSeq
            <3> QED BY <3>1, <3>2 DEF Precedes
      <2> QED BY <1>1, <1>4, <2>1, OtherCarries
<1>7. Sending(o, r2, done2, c, w, s, l)
      <2>1. ASSUME s.stage = "preparing"
            PROVE  BegunBefore(o, r2, done2, c, FALSE, s.id)
            <3>1. BegunBefore(o, r, done, c, FALSE, s.id) /\ Above(v, s.id) /\ s.id \in Nat
                  BY <1>1, <2>1 DEF Sending, Apart
            <3>2. Precedes(m.id, TRUE, FALSE, s.id)
                  <4>1. m.id < s.id /\ m.id \in Nat
                        BY <1>2, <1>3, <1>5, <3>1
                  <4> QED BY <3>1, <4>1 DEF Precedes
            <3> QED BY <1>4, <3>1, <3>2, ReadBegun
      <2> QED BY <1>1, <1>6, <2>1 DEF Sending
<1>8. Apart(r2, c, u, w, s)
      <2>1. From(r2, c, FALSE) => Above(u, r2.id)
            <3>1. From(r2, c, FALSE) => From(r, c, FALSE) /\ r2.id = r.id
                  BY <1>4 DEF From, Progress
            <3> QED BY <1>1, <1>5, <3>1 DEF Apart
      <2>2. Behind(u, w)
            BY <1>1, <1>5 DEF Apart, Behind
      <2> QED BY <1>1, <1>5, <2>1, <2>2 DEF Apart
<1> QED BY <1>2, <1>6, <1>7, <1>8 DEF ClientInv, u

\* What the receiver does without a client leaves the client's wires as they are.
LEMMA OtherWire ==
    ASSUME NEW o, NEW r, NEW r2, NEW done \in Announced, NEW done2, NEW c, NEW v, NEW w, NEW s,
           NEW l, ClientInv(o, r, done, c, v, w, s, l),
           r2.active /\ r2.source = c => r2 = r,
           \/ done2 = done
           \/ \E x : done2 = Append(done, x) /\ o[x.id].from # c
    PROVE  ClientInv(o, r2, done2, c, v, w, s, l)
<1>1. ASSUME NEW old, NEW id, BegunBefore(o, r, done, c, old, id)
      PROVE  BegunBefore(o, r2, done2, c, old, id)
      <2>1. ASSUME NEW d \in 1 .. Len(done2), o[done2[d].id].from = c
            PROVE  Precedes(done2[d].id, done2[d].late, old, id)
            <3>1. CASE done2 = done
                  BY <1>1, <2>1, <3>1 DEF BegunBefore
            <3>2. CASE \E x : done2 = Append(done, x) /\ o[x.id].from # c
                  <4>1. PICK x : done2 = Append(done, x) /\ o[x.id].from # c
                        BY <3>2
                  <4>2. /\ done2[Len(done) + 1] = x
                        /\ \A i \in 1 .. Len(done) : done2[i] = done[i]
                        /\ \A i \in 1 .. Len(done2) : i \in 1 .. Len(done) \/ i = Len(done) + 1
                        BY <4>1, OneMore
                  <4>3. CASE d \in 1 .. Len(done)
                        BY <1>1, <2>1, <4>2, <4>3 DEF BegunBefore
                  <4>4. CASE d = Len(done) + 1
                        BY <2>1, <4>1, <4>2, <4>4
                  <4> QED BY <4>2, <4>3, <4>4
            <3> QED BY <3>1, <3>2
      <2> QED BY <1>1, <2>1 DEF BegunBefore
<1>2. \A old : From(r2, c, old) => r2 = r
      BY DEF From
<1>3. \A old : Goes(r2, c, old) => r2 = r
      BY <1>2 DEF Goes
<1>4. Carries(o, r2, done2, c, FALSE, w) /\ Carries(o, r2, done2, c, TRUE, v)
      BY <1>1, <1>3 DEF ClientInv, Carries, Receiving
<1>5. Sending(o, r2, done2, c, w, s, l)
      BY <1>1, <1>3 DEF ClientInv, Sending, Leads
<1>6. Apart(r2, c, v, w, s)
      BY <1>2 DEF ClientInv, Apart
<1> QED BY <1>4, <1>5, <1>6 DEF ClientInv

\* A new offer changes nothing for the transfers before it.
LEMMA OfferWire ==
    ASSUME NEW o, NEW o2, Len(o) \in Nat, Len(o2) = Len(o) + 1,
           \A i \in 1 .. Len(o) : o2[i] = o[i],
           NEW r, NEW done, NEW c, NEW v \in Seq(Messages), NEW w \in Seq(Messages), NEW s, NEW l,
           ClientInv(o, r, done, c, v, w, s, l), DeliveredInv(o, done)
    PROVE  ClientInv(o2, r, done, c, v, w, s, l)
<1>2. ASSUME NEW m \in Messages, Genuine(o, c, m)
      PROVE  Genuine(o2, c, m) /\ (m.kind # "drag" => Before(o2, m) = Before(o, m))
      <2>1. m.id \in 1 .. Len(o) /\ o2[m.id] = o[m.id] /\ m.id \in 1 .. Len(o2)
            BY <1>2 DEF Genuine
      <2>2. Genuine(o2, c, m)
            BY <1>2, <2>1 DEF Genuine
      <2>3. m.kind # "drag" => Before(o2, m) = Before(o, m)
            BY <2>1, MessageParts DEF Before
      <2> QED BY <2>2, <2>3
<1>4. ASSUME NEW old, NEW id, BegunBefore(o, r, done, c, old, id)
      PROVE  BegunBefore(o2, r, done, c, old, id)
      BY <1>4 DEF BegunBefore, DeliveredInv
<1>5. ASSUME NEW old, NEW x \in Seq(Messages), Carries(o, r, done, c, old, x)
      PROVE  Carries(o2, r, done, c, old, x)
      <2>1. \A i \in 1 .. Len(x) : x[i] \in Messages /\ Genuine(o, c, x[i])
            BY <1>5, ElementOfSeq DEF Carries, Chained
      <2>2. Chained(o2, c, x)
            BY <1>2, <1>5, <2>1 DEF Carries, Chained
      <2>3. x # <<>> => 1 \in 1 .. Len(x)
            OBVIOUS
      <2>4. Receiving(o2, r, done, c, old, x)
            BY <1>2, <1>4, <1>5, <2>1, <2>3 DEF Carries, Receiving
      <2> QED BY <2>2, <2>4 DEF Carries
<1>6. Sending(o2, r, done, c, w, s, l)
      BY <1>4 DEF ClientInv, Sending
<1> QED BY <1>5, <1>6 DEF ClientInv

-----------------------------------------------------------------------------
(* The receiver.                                                           *)

\* The chunks of a file, the files of a transfer.
LEMMA WholeFile ==
    ASSUME NEW o \in Offers, NEW i \in 1 .. Len(o), NEW f \in 1 .. Len(o[i].sizes),
           NEW data \in Seq(Parts), Len(data) = o[i].sizes[f],
           \A p \in 1 .. Len(data) : data[p] = <<i, f, p>>
    PROVE  data = ContentOf(o, i)[f]
<1>1. f \in DOMAIN o[i].sizes
      BY OfferParts
<1>2. ContentOf(o, i)[f] = [p \in 1 .. o[i].sizes[f] |-> <<i, f, p>>]
      BY <1>1 DEF ContentOf
<1> DEFINE n == Len(data)
           b(p) == <<i, f, p>>
<1>3. data = [p \in 1 .. n |-> data[p]]
      <2>1. data \in [1 .. n -> Parts]
            BY LenProperties
      <2> HIDE DEF n
      <2> QED BY <2>1
<1>4. [p \in 1 .. n |-> data[p]] = [p \in 1 .. n |-> b(p)]
      <2>1. \A p \in 1 .. n : data[p] = b(p)
            OBVIOUS
      <2> HIDE DEF n, b
      <2> QED BY <2>1
<1> QED BY <1>2, <1>3, <1>4

LEMMA WholeTransfer ==
    ASSUME NEW o \in Offers, NEW i \in 1 .. Len(o),
           NEW files \in Seq(Seq(Parts)), Len(files) = Len(o[i].sizes),
           \A f \in 1 .. Len(files) : files[f] = ContentOf(o, i)[f]
    PROVE  files = ContentOf(o, i)
<1> DEFINE n == Len(files)
           T == Seq(Parts)
           b == ContentOf(o, i)
<1>1. files \in [1 .. n -> T]
      BY LenProperties
<1>2. b = [f \in 1 .. n |-> b[f]]
      <2>1. DOMAIN o[i].sizes = 1 .. n
            BY OfferParts
      <2> QED BY <2>1 DEF ContentOf
<1>3. \A f \in 1 .. n : files[f] = b[f]
      OBVIOUS
<1> HIDE DEF n, T, b
<1>4. files = [f \in 1 .. n |-> b[f]]
      BY <1>1, <1>3
<1> QED BY <1>2, <1>4 DEF b

\* A receiver that was abandoned.
LEMMA Abandoning ==
    ASSUME NEW c, NEW old, NEW m, Abandon
    PROVE  /\ ~recv'.active /\ delivered' = delivered
           /\ Received(offers, recv', delivered', session, overtaken)
           /\ Progress(offers, c, old, m, recv, delivered, recv', delivered', overtaken)
<1>1. ~recv'.active /\ delivered' = delivered
      BY DEF Abandon, Reset, Inactive
<1> QED BY <1>1 DEF Received, Progress

\* What a message of c has to fit to be read.
Fits(c, old, m) ==
    /\ Genuine(offers, c, m)
    /\ Goes(recv, c, old) /\ m.kind # "drag" => Before(offers, m) = ReceiverPlace(recv)
    /\ m.kind = "drag" => BegunBefore(offers, recv, delivered, c, old, m.id)

\* The receiver takes a message of the source it has begun with.
LEMMA TakingIs ==
    ASSUME TypeInv, recv.active, NEW m \in Messages, m.kind # "drag", NEW mixed \in BOOLEAN,
           TakeChunk(m, mixed),
           NEW files, files = Append(recv.files, recv.data)
    PROVE  /\ recv.files \in Seq(Seq(Parts)) /\ recv.data \in Seq(Parts)
           /\ recv'.active => /\ recv'.source = recv.source /\ recv'.id = recv.id
                              /\ recv'.stale = recv.stale /\ recv'.mixed = mixed
                              /\ recv'.count = recv.count /\ delivered' = delivered
           /\ m.kind = "start" => /\ recv'.active /\ recv'.files = recv.files
                                  /\ recv'.open = TRUE /\ recv'.size = m.size
                                  /\ recv'.data = <<>>
           /\ m.kind = "chunk" => /\ recv'.active /\ recv'.files = recv.files
                                  /\ recv'.open = recv.open /\ recv'.size = recv.size
                                  /\ recv'.data = Append(recv.data, m.part)
           /\ m.kind = "end" =>
                 \/ /\ Len(files) < recv.count /\ recv'.active /\ recv'.files = files
                    /\ recv'.open = FALSE /\ recv'.data = <<>>
                 \/ /\ Len(files) = recv.count /\ ~recv'.active
                    /\ delivered' = Append(delivered, [id |-> recv.id, late |-> recv.stale,
                                                       mixed |-> mixed, files |-> files])
<1>1. recv \in Receipts /\ recv.files \in Seq(Seq(Parts)) /\ recv.data \in Seq(Parts)
      BY TypeParts DEF TypeInv, Receipts
<1>2. CASE m.kind = "start"
      <2>1. /\ recv' = [recv EXCEPT !.open = TRUE, !.size = m.size, !.data = <<>>, !.mixed = mixed]
            /\ delivered' = delivered
            BY <1>2 DEF TakeChunk
      <2> QED BY <1>1, <1>2, <2>1 DEF Receipts
<1>3. CASE m.kind = "chunk"
      <2>1. /\ recv' = [recv EXCEPT !.data = Append(recv.data, m.part), !.mixed = mixed]
            /\ delivered' = delivered
            BY <1>3 DEF TakeChunk
      <2> QED BY <1>1, <1>3, <2>1 DEF Receipts
<1>4. CASE m.kind = "end"
      <2>1. CASE /\ Len(files) < recv.count /\ delivered' = delivered
                 /\ recv' = [recv EXCEPT !.files = files, !.open = FALSE, !.size = 0,
                                         !.data = <<>>, !.mixed = mixed]
            BY <1>1, <1>4, <2>1 DEF Receipts
      <2>2. CASE /\ Len(files) = recv.count /\ recv' = Reset
                 /\ delivered' = Append(delivered, [id |-> recv.id, late |-> recv.stale,
                                                    mixed |-> mixed, files |-> files])
            BY <1>1, <1>4, <2>2 DEF Reset, Inactive
      <2> QED BY <1>4, <2>1, <2>2 DEF TakeChunk
<1>5. m.kind \in {"start", "chunk", "end"}
      BY MessageParts
<1> QED BY <1>1, <1>2, <1>3, <1>4, <1>5

\* With messages of both sessions.
LEMMA TakingMixed ==
    ASSUME TypeInv, Received(offers, recv, delivered, session, overtaken),
           NEW c \in Clients, NEW old \in BOOLEAN, NEW m \in Messages, m.kind # "drag",
           recv.active, recv.source = c, old => c \in overtaken,
           NEW mixed, mixed = TRUE, recv.mixed \/ old # recv.stale,
           TakeChunk(m, mixed)
    PROVE  /\ Received(offers, recv', delivered', session, overtaken)
           /\ Progress(offers, c, old, m, recv, delivered, recv', delivered', overtaken)
<1> DEFINE files == Append(recv.files, recv.data)
<1>1. /\ recv.id \in 1 .. Len(offers) /\ offers[recv.id].from = c
      /\ ~recv.stale => c \in session
      /\ recv.stale \/ recv.mixed => c \in overtaken
      /\ recv.count = Len(offers[recv.id].sizes) /\ Len(recv.files) < recv.count
      /\ \A d \in 1 .. Len(delivered) : offers[delivered[d].id].from = c =>
            Precedes(delivered[d].id, delivered[d].late, recv.stale, recv.id)
      BY DEF Received
<1>2. c \in overtaken
      <2>1. recv.stale \in BOOLEAN
            BY TypeParts DEF TypeInv, Receipts
      <2> QED BY <1>1, <2>1
<1>3. /\ recv'.active => /\ recv'.source = recv.source /\ recv'.id = recv.id
                         /\ recv'.stale = recv.stale /\ recv'.mixed = mixed
                         /\ recv'.count = recv.count /\ delivered' = delivered
      /\ m.kind \in {"start", "chunk"} => recv'.active /\ recv'.files = recv.files
      /\ m.kind = "end" =>
            \/ Len(files) < recv.count /\ recv'.active /\ recv'.files = files
            \/ /\ ~recv'.active
               /\ delivered' = Append(delivered, [id |-> recv.id, late |-> recv.stale,
                                                  mixed |-> mixed, files |-> files])
      BY TakingIs
<1>4. files \in Seq(Seq(Parts))
      BY TakingIs, AppendProperties
<1> HIDE DEF files
<1>5. CASE recv'.active
      <2>1. Len(recv'.files) < recv'.count
            BY <1>1, <1>3, <1>5, MessageParts
      <2>2. Received(offers, recv', delivered', session, overtaken)
            BY <1>1, <1>2, <1>3, <1>5, <2>1 DEF Received
      <2> QED BY <1>3, <1>5, <2>2 DEF Progress
<1>6. CASE ~recv'.active
      <2> DEFINE x == [id |-> recv.id, late |-> recv.stale, mixed |-> mixed, files |-> files]
      <2>1. delivered' = Append(delivered, x)
            BY <1>3, <1>6, MessageParts
      <2>2. x \in Announcements
            BY <1>4, TypeParts DEF TypeInv, Receipts, Announcements, Transfers
      <2>3. x.id = recv.id /\ x.late = recv.stale /\ x.mixed = TRUE
            OBVIOUS
      <2> HIDE DEF x
      <2>4. Announces(offers, recv, delivered, delivered', overtaken)
            BY <1>2, <2>1, <2>2, <2>3 DEF Announces
      <2> QED BY <1>6, <2>4 DEF Progress, Received
<1> QED BY <1>5, <1>6

\* The next message of the session it began with.
LEMMA Taking ==
    ASSUME TypeInv, Received(offers, recv, delivered, session, overtaken),
           NEW c \in Clients, NEW old \in BOOLEAN, NEW m \in Messages, Fits(c, old, m),
           m.kind # "drag", recv.active, recv.source = c, recv.stale = old, ~recv.mixed,
           Acceptable(m), NEW mixed, mixed = FALSE, TakeChunk(m, mixed)
    PROVE  /\ Received(offers, recv', delivered', session, overtaken)
           /\ Progress(offers, c, old, m, recv, delivered, recv', delivered', overtaken)
<1> DEFINE id == recv.id
           sizes == offers[id].sizes
           f == Len(recv.files) + 1
           files == Append(recv.files, recv.data)
<1>1. /\ id \in 1 .. Len(offers) /\ offers[id].from = c
      /\ ~recv.stale => c \in session
      /\ recv.stale => c \in overtaken
      /\ recv.count = Len(sizes) /\ Len(recv.files) < recv.count
      /\ \A g \in 1 .. Len(recv.files) : recv.files[g] = ContentOf(offers, id)[g]
      /\ recv.open => recv.size = sizes[f]
      /\ \A p \in 1 .. Len(recv.data) : recv.data[p] = <<id, f, p>>
      /\ \A d \in 1 .. Len(delivered) : offers[delivered[d].id].from = c =>
            Precedes(delivered[d].id, delivered[d].late, recv.stale, id)
      BY DEF Received
<1>2. /\ offers \in Offers /\ recv \in Receipts /\ recv.files \in Seq(Seq(Parts))
      /\ recv.data \in Seq(Parts)
      BY TypeFacts DEF Receipts
<1>3. /\ Len(recv.files) \in Nat /\ Len(recv.data) \in Nat /\ f \in Nat
      /\ files \in Seq(Seq(Parts)) /\ Len(files) = f /\ files[f] = recv.data
      /\ \A g \in 1 .. Len(recv.files) : files[g] = recv.files[g]
      BY <1>2, AppendProperties
<1>4. Len(sizes) \in Nat /\ f \in 1 .. Len(sizes)
      BY <1>1, <1>2, <1>3, OfferParts, SMTT(30)
<1>5. Before(offers, m) = At(id, f, Len(recv.data), recv.open)
      BY DEF Fits, Goes, From, ReceiverPlace
<1>6. m.id = id
      <2>1. At(id, f, Len(recv.data), recv.open).id = id
            BY DEF At
      <2> QED BY <1>5, <2>1, OwnPlaces
<1>10. /\ recv'.active => /\ recv'.source = recv.source /\ recv'.id = recv.id
                          /\ recv'.stale = recv.stale /\ recv'.mixed = mixed
                          /\ recv'.count = recv.count /\ delivered' = delivered
       /\ m.kind = "start" => /\ recv'.active /\ recv'.files = recv.files
                              /\ recv'.open = TRUE /\ recv'.size = m.size
                              /\ recv'.data = <<>>
       /\ m.kind = "chunk" => /\ recv'.active /\ recv'.files = recv.files
                              /\ recv'.open = recv.open /\ recv'.size = recv.size
                              /\ recv'.data = Append(recv.data, m.part)
       /\ m.kind = "end" =>
             \/ /\ Len(files) < recv.count /\ recv'.active /\ recv'.files = files
                /\ recv'.open = FALSE /\ recv'.data = <<>>
             \/ /\ Len(files) = recv.count /\ ~recv'.active
                /\ delivered' = Append(delivered, [id |-> recv.id, late |-> recv.stale,
                                                   mixed |-> mixed, files |-> files])
      BY TakingIs
<1> HIDE DEF files
\* What is left to show of a receiver that goes on.
<1>11. ASSUME recv'.active, Len(recv'.files) < recv.count,
              \A g \in 1 .. Len(recv'.files) : recv'.files[g] = ContentOf(offers, id)[g],
              recv'.open => recv'.size = sizes[Len(recv'.files) + 1],
              \A p \in 1 .. Len(recv'.data) : recv'.data[p] = <<id, Len(recv'.files) + 1, p>>,
              ReceiverPlace(recv') = After(m)
       PROVE  /\ Received(offers, recv', delivered', session, overtaken)
              /\ Progress(offers, c, old, m, recv, delivered, recv', delivered', overtaken)
      <2>1. /\ recv'.source = c /\ recv'.id = id /\ recv'.stale = recv.stale
            /\ recv'.mixed = FALSE /\ recv'.count = recv.count /\ delivered' = delivered
            BY <1>10, <1>11
      <2>2. Received(offers, recv', delivered', session, overtaken)
            BY <1>1, <1>11, <2>1 DEF Received
      <2> QED BY <1>11, <2>1, <2>2 DEF Progress
<1>7. CASE m.kind = "start"
      <2>1. m.file = f
            <3>1. At(m.id, m.file, 0, FALSE).file = At(id, f, Len(recv.data), recv.open).file
                  BY <1>5, <1>7 DEF Before
            <3> QED BY <3>1 DEF At
      <2>2. m.size = sizes[f]
            BY <1>6, <1>7, <2>1 DEF Fits, Genuine
      <2>3. /\ recv'.active /\ recv'.id = id
            /\ recv'.files = recv.files /\ recv'.open = TRUE /\ recv'.size = m.size
            /\ recv'.data = <<>>
            BY <1>7, <1>10
      <2>4. Len(recv'.data) = 0
            BY <2>3
      <2>6. ReceiverPlace(recv') = After(m)
            <3>1. ReceiverPlace(recv') = At(id, f, 0, TRUE)
                  BY <2>3, <2>4 DEF ReceiverPlace
            <3>2. After(m) = At(id, f, 0, TRUE)
                  BY <1>6, <1>7, <2>1 DEF After
            <3> QED BY <3>1, <3>2
      <2> QED BY <1>1, <1>11, <2>2, <2>3, <2>4, <2>6
<1>8. CASE m.kind = "chunk"
      <2>1. m.part[2] = f /\ m.part[3] - 1 = Len(recv.data)
            <3>1. At(m.id, m.part[2], m.part[3] - 1, TRUE) = At(id, f, Len(recv.data), recv.open)
                  BY <1>5, <1>8 DEF Before
            <3> DEFINE a == m.part[3] - 1
            <3> HIDE DEF a
            <3>2. At(m.id, m.part[2], a, TRUE) = At(id, f, Len(recv.data), recv.open)
                  BY <3>1 DEF a
            <3>3. m.part[2] = f /\ a = Len(recv.data)
                  BY <3>2 DEF At
            <3> QED BY <3>3 DEF a
      <2>2. m.part = <<id, f, Len(recv.data) + 1>> /\ m.part \in Parts
            <3>1. m.part \in Parts /\ m.part[1] = id
                  BY <1>6, <1>8, MessageParts DEF Fits, Genuine
            <3>2. m.part = <<m.part[1], m.part[2], m.part[3]>> /\ m.part[3] \in Nat
                  BY <3>1 DEF Parts
            <3>3. m.part[3] = Len(recv.data) + 1
                  <4>1. PICK k \in Nat : k = m.part[3]
                        BY <3>2
                  <4>2. k - 1 = Len(recv.data)
                        BY <2>1, <4>1
                  <4>3. k = Len(recv.data) + 1
                        BY <4>2
                  <4> QED BY <4>1, <4>3
            <3> QED BY <2>1, <3>1, <3>2, <3>3
      <2>3. /\ recv'.active /\ recv'.id = id
            /\ recv'.files = recv.files /\ recv'.open = recv.open /\ recv'.size = recv.size
            /\ recv'.data = Append(recv.data, m.part)
            BY <1>8, <1>10
      <2>4. /\ Len(recv'.data) = Len(recv.data) + 1 /\ recv'.data[Len(recv.data) + 1] = m.part
            /\ \A p \in 1 .. Len(recv.data) : recv'.data[p] = recv.data[p]
            BY <1>2, <2>2, <2>3, AppendProperties
      <2>5. \A p \in 1 .. Len(recv'.data) : recv'.data[p] = <<id, f, p>>
            <3> SUFFICES ASSUME NEW p \in 1 .. (Len(recv.data) + 1)
                         PROVE  recv'.data[p] = <<id, f, p>>
                BY <2>4
            <3>1. p \in 1 .. Len(recv.data) \/ p = Len(recv.data) + 1
                  BY <1>3
            <3> QED BY <1>1, <2>2, <2>4, <3>1
      <2>7. ReceiverPlace(recv') = After(m)
            <3>1. recv.open = TRUE
                  BY <1>2, <1>8 DEF Acceptable, Receipts
            <3>2. m.part[3] = Len(recv'.data)
                  BY <2>2, <2>4
            <3> QED BY <1>6, <1>8, <2>1, <2>3, <3>1, <3>2 DEF ReceiverPlace, After
      <2> QED BY <1>1, <1>11, <2>3, <2>5, <2>7
<1>9. CASE m.kind = "end"
      <2>1. m.file = f
            <3>1. At(m.id, m.file, offers[m.id].sizes[m.file], TRUE).file
                     = At(id, f, Len(recv.data), recv.open).file
                  BY <1>5, <1>9 DEF Before
            <3> QED BY <3>1 DEF At
      <2>2. recv.open /\ Len(recv.data) = sizes[f]
            BY <1>1, <1>9 DEF Acceptable
      <2>3. recv.data = ContentOf(offers, id)[f]
            BY <1>1, <1>2, <1>4, <2>2, WholeFile
      <2>4. \A g \in 1 .. f : files[g] = ContentOf(offers, id)[g]
            <3> SUFFICES ASSUME NEW g \in 1 .. f PROVE files[g] = ContentOf(offers, id)[g]
                OBVIOUS
            <3>1. g \in 1 .. Len(recv.files) \/ g = f
                  BY <1>3
            <3> QED BY <1>1, <1>3, <2>3, <3>1
      <2>5. CASE recv'.active
            <3>1. /\ Len(files) < recv.count /\ recv'.id = id
                  /\ recv'.files = files /\ recv'.open = FALSE /\ recv'.data = <<>>
                  BY <1>9, <1>10, <2>5
            <3>2. Len(recv'.data) = 0 /\ Len(recv'.files) = f
                  BY <1>3, <3>1
            <3>4. ReceiverPlace(recv') = After(m)
                  <4>1. ReceiverPlace(recv') = At(id, f + 1, 0, FALSE)
                        BY <1>3, <3>1, <3>2 DEF ReceiverPlace
                  <4>2. After(m) = At(id, f + 1, 0, FALSE)
                        BY <1>6, <1>9, <2>1 DEF After
                  <4> QED BY <4>1, <4>2
            <3>5. /\ \A g \in 1 .. Len(recv'.files) : recv'.files[g] = ContentOf(offers, id)[g]
                  /\ Len(recv'.files) < recv.count
                  BY <2>4, <3>1, <3>2
            <3>6. \A p \in 1 .. Len(recv'.data) : recv'.data[p] = <<id, Len(recv'.files) + 1, p>>
                  BY <3>2
            <3> QED BY <1>11, <2>5, <3>1, <3>4, <3>5, <3>6
      <2>6. CASE ~recv'.active
            <3> DEFINE x == [id |-> recv.id, late |-> recv.stale, mixed |-> mixed, files |-> files]
            <3>1. delivered' = Append(delivered, x) /\ Len(files) = recv.count
                  BY <1>9, <1>10, <2>6
            <3>2. files = ContentOf(offers, id)
                  <4>1. /\ files \in Seq(Seq(Parts)) /\ Len(files) = Len(sizes) /\ Len(files) = f
                        /\ \A g \in 1 .. Len(files) : files[g] = ContentOf(offers, id)[g]
                        BY <1>1, <1>3, <2>4, <3>1
                  <4> HIDE DEF id, f
                  <4> QED BY <1>1, <1>2, <4>1, WholeTransfer
            <3>3. x \in Announcements
                  BY <1>3, TypeParts DEF TypeInv, Receipts, Announcements, Transfers
            <3>4. x.id = recv.id /\ x.late = recv.stale /\ x.mixed = FALSE /\ x.files = files
                  OBVIOUS
            <3> HIDE DEF x
            <3>5. Announces(offers, recv, delivered, delivered', overtaken)
                  BY <3>1, <3>2, <3>3, <3>4 DEF Announces
            <3> QED BY <2>6, <3>5 DEF Progress, Received
      <2> QED BY <2>5, <2>6
<1> QED BY <1>7, <1>8, <1>9, MessageParts

\* The receiver begins with the list of another transfer.
LEMMA Beginning ==
    ASSUME TypeInv, Received(offers, recv, delivered, session, overtaken),
           NEW c \in Clients, NEW old \in BOOLEAN, NEW m \in Messages, Fits(c, old, m),
           m.kind = "drag", ~old => c \in session, old => c \in overtaken,
           recv' = [Inactive EXCEPT !.active = TRUE, !.source = c, !.id = m.id,
                                    !.stale = old, !.count = m.count],
           delivered' = delivered
    PROVE  /\ Received(offers, recv', delivered', session, overtaken)
           /\ Progress(offers, c, old, m, recv, delivered, recv', delivered', overtaken)
<1>1. /\ recv'.active /\ recv'.source = c /\ recv'.id = m.id /\ recv'.count = m.count
      /\ recv'.files = <<>> /\ recv'.data = <<>> /\ recv'.open = FALSE
      /\ recv'.stale = old /\ recv'.mixed = FALSE
      BY DEF Inactive
<1>2. Len(recv'.files) = 0 /\ Len(recv'.data) = 0
      BY <1>1
<1>3. /\ m.id \in 1 .. Len(offers) /\ offers[m.id].from = c
      /\ m.count = Len(offers[m.id].sizes)
      /\ \A d \in 1 .. Len(delivered) : offers[delivered[d].id].from = c =>
            Precedes(delivered[d].id, delivered[d].late, old, m.id)
      BY DEF Fits, Genuine, BegunBefore
<1>4. Len(offers[m.id].sizes) > 0
      <2>1. offers \in Offers
            BY TypeParts DEF TypeInv
      <2> QED BY <1>3, <2>1, OfferParts
<1>5. Received(offers, recv', delivered', session, overtaken)
      BY <1>1, <1>2, <1>3, <1>4 DEF Received
<1>6. ReceiverPlace(recv') = After(m)
      <2>1. ReceiverPlace(recv') = At(m.id, 1, 0, FALSE)
            <3>1. Len(recv'.files) + 1 = 1
                  BY <1>2
            <3> QED BY <1>1, <1>2, <3>1 DEF ReceiverPlace
      <2>2. After(m) = At(m.id, 1, 0, FALSE)
            BY DEF After
      <2> QED BY <2>1, <2>2
<1> QED BY <1>1, <1>5, <1>6 DEF Progress

LEMMA Parsing ==
    ASSUME TypeInv, Received(offers, recv, delivered, session, overtaken),
           NEW c \in Clients, NEW old \in BOOLEAN, NEW m \in Messages, Fits(c, old, m),
           ~old => c \in session, old => c \in overtaken,
           ParseMessage(c, m, old)
    PROVE  /\ Received(offers, recv', delivered', session, overtaken)
           /\ Progress(offers, c, old, m, recv, delivered, recv', delivered', overtaken)
<1>2. CASE UNCHANGED receiverVars /\ (~recv.active \/ recv.source # c)
      BY <1>2 DEF receiverVars, Progress
<1>3. CASE Abandon
      BY <1>3, Abandoning
<1>4. CASE m.kind = "drag"
      <2>1. CASE recv' = [Inactive EXCEPT !.source = c] /\ delivered' = delivered
            <3>1. ~recv'.active
                  BY <2>1 DEF Inactive
            <3> QED BY <2>1, <3>1 DEF Received, Progress
      <2>2. CASE recv.active /\ recv.source # c /\ UNCHANGED receiverVars
            BY <1>2, <2>2
      <2>3. CASE /\ recv' = [Inactive EXCEPT !.active = TRUE, !.source = c, !.id = m.id,
                                             !.stale = old, !.count = m.count]
                 /\ delivered' = delivered
            BY <1>4, <2>3, Beginning
      <2> QED BY <1>4, <2>1, <2>2, <2>3 DEF ParseMessage, DragInfo
<1>5. CASE m.kind # "drag"
      <2>1. CASE ~recv.active \/ recv.source # c
            BY <1>2, <1>5, <2>1 DEF ParseMessage, FileChunk
      <2>2. CASE recv.active /\ recv.source = c
            <3> DEFINE mixed == recv.mixed \/ old # recv.stale
            <3>1. ASSUME Acceptable(m), TakeChunk(m, mixed)
                  PROVE  /\ Received(offers, recv', delivered', session, overtaken)
                         /\ Progress(offers, c, old, m, recv, delivered, recv', delivered',
                                     overtaken)
                  <4>1. CASE mixed
                        <5>1. mixed = TRUE /\ (recv.mixed \/ old # recv.stale)
                              BY <4>1
                        <5> HIDE DEF mixed
                        <5> QED BY <1>5, <2>2, <3>1, <5>1, TakingMixed
                  <4>2. CASE ~mixed
                        <5>1. mixed = FALSE /\ ~recv.mixed /\ recv.stale = old
                              BY <4>2
                        <5> HIDE DEF mixed
                        <5> QED BY <1>5, <2>2, <3>1, <5>1, Taking
                  <4> QED BY <4>1, <4>2
            <3> QED BY <1>3, <1>5, <2>2, <3>1 DEF ParseMessage, FileChunk
      <2> QED BY <2>1, <2>2
<1> QED BY <1>4, <1>5


-----------------------------------------------------------------------------
(* The steps.                                                              *)

\* What a step of one client, or of the receiver with it, has to show.
LEMMA InvFrame ==
    ASSUME TransferInv, TypeInv', NEW c \in Clients, offers' = offers,
           \A d \in Clients \ {c} :
              /\ send'[d] = send[d] /\ wire'[d] = wire[d] /\ link'[d] = link[d]
              /\ oldWire'[d] = oldWire[d]
              /\ recv'.active /\ recv'.source = d => recv' = recv,
           \/ delivered' = delivered
           \/ \E x : /\ delivered' = Append(delivered, x)
                     /\ x.id \in 1 .. Len(offers) /\ offers[x.id].from = c,
           OldInput',
           Received(offers, recv', delivered', session', overtaken'),
           ClientInv(offers, recv', delivered', c, oldWire'[c], wire'[c], send'[c], link'[c])
    PROVE  TransferInv'
<1>1. delivered \in Announced
      BY TypeParts DEF TransferInv, TypeInv
<1>2. ASSUME NEW d \in Clients
      PROVE  ClientInv(offers, recv', delivered', d, oldWire'[d], wire'[d], send'[d], link'[d])
      <2>1. CASE d = c
            BY <2>1
      <2>2. CASE d # c
            <3>1. d \in Clients \ {c}
                  BY <2>2
            <3>2. ClientInv(offers, recv, delivered, d, oldWire[d], wire[d], send[d], link[d])
                  BY DEF TransferInv
            <3>3. /\ recv'.active /\ recv'.source = d => recv' = recv
                  /\ \/ delivered' = delivered
                     \/ \E x : delivered' = Append(delivered, x) /\ offers[x.id].from # d
                  BY <2>2, <3>1
            <3>4. ClientInv(offers, recv', delivered', d, oldWire[d], wire[d], send[d], link[d])
                  BY <1>1, <3>2, <3>3, OtherWire
            <3> QED BY <3>1, <3>4
      <2> QED BY <2>1, <2>2
<1>3. DeliveredInv(offers, delivered')
      <2>1. CASE delivered' = delivered
            BY <2>1 DEF TransferInv
      <2>2. CASE \E x : delivered' = Append(delivered, x) /\ x.id \in 1 .. Len(offers)
            <3>1. PICK x : delivered' = Append(delivered, x) /\ x.id \in 1 .. Len(offers)
                  BY <2>2
            <3>2. /\ Len(delivered) \in Nat /\ Len(delivered') = Len(delivered) + 1
                  /\ delivered'[Len(delivered) + 1] = x
                  /\ \A i \in 1 .. Len(delivered) : delivered'[i] = delivered[i]
                  BY <1>1, <3>1 DEF Announced
            <3> SUFFICES ASSUME NEW d \in 1 .. (Len(delivered) + 1)
                         PROVE  delivered'[d].id \in 1 .. Len(offers)
                BY <3>2 DEF DeliveredInv
            <3>3. d \in 1 .. Len(delivered) \/ d = Len(delivered) + 1
                  BY <3>2
            <3> QED BY <3>1, <3>2, <3>3 DEF TransferInv, DeliveredInv
      <2> QED BY <2>1, <2>2
<1>4. \A d \in Clients :
         ClientInv(offers', recv', delivered', d, oldWire'[d], wire'[d], send'[d], link'[d])
      BY <1>2
<1>5. Received(offers', recv', delivered', session', overtaken')
      /\ DeliveredInv(offers', delivered')
      BY <1>3
<1> QED BY <1>4, <1>5 DEF TransferInv

\* The same of a step that leaves the receiver alone.
LEMMA SenderInvFrame ==
    ASSUME TransferInv, TypeInv', NEW c \in Clients, NEW s, NEW w, NEW l,
           offers' = offers, UNCHANGED <<session, closing, overtaken, oldWire, receiverVars>>,
           send' = [send EXCEPT ![c] = s], wire' = [wire EXCEPT ![c] = w],
           link' = [link EXCEPT ![c] = l],
           ClientInv(offers, recv, delivered, c, oldWire[c], w, s, l)
    PROVE  TransferInv'
<1>1. send \in [Clients -> Sends] /\ wire \in [Clients -> Seq(Messages)]
      /\ link \in [Clients -> Links]
      BY TypeParts DEF TransferInv, TypeInv
<1>2. send'[c] = s /\ wire'[c] = w /\ link'[c] = l
      BY <1>1
<1>3. \A d \in Clients \ {c} :
         send'[d] = send[d] /\ wire'[d] = wire[d] /\ link'[d] = link[d]
      BY <1>1
<1>4. /\ recv' = recv /\ delivered' = delivered /\ session' = session /\ oldWire' = oldWire
      /\ closing' = closing /\ overtaken' = overtaken
      BY DEF receiverVars
<1>5. Received(offers, recv', delivered', session', overtaken') /\ OldInput'
      BY <1>4 DEF TransferInv, OldInput
<1>6. ClientInv(offers, recv', delivered', c, oldWire'[c], wire'[c], send'[c], link'[c])
      BY <1>2, <1>4
<1> QED BY <1>3, <1>4, <1>5, <1>6, InvFrame

\* A sender that is idle asks nothing of its wire.
LEMMA IdleSender ==
    ASSUME NEW o, NEW r, NEW done, NEW c, NEW v, NEW w, NEW s, NEW l,
           Carries(o, r, done, c, FALSE, w), Carries(o, r, done, c, TRUE, v), Behind(v, w),
           From(r, c, FALSE) => Above(v, r.id), s.stage = "idle"
    PROVE  ClientInv(o, r, done, c, v, w, s, l)
BY DEF ClientInv, Sending, Apart

\* A wire without messages is before every other and behind every other.
LEMMA EmptyApart ==
    ASSUME NEW r, NEW c, NEW v, NEW w, NEW s
    PROVE  /\ Apart(r, c, <<>>, w, s) /\ Behind(v, <<>>) /\ Behind(<<>>, w)
           /\ Apart(r, c, v, w, s) => Apart(r, c, v, <<>>, s)
<1>1. Len(<<>>) = 0
      OBVIOUS
<1>2. \A id : Above(<<>>, id)
      BY <1>1 DEF Above
<1>3. Behind(v, <<>>) /\ Behind(<<>>, w)
      BY <1>1, <1>2 DEF Behind
<1> QED BY <1>2, <1>3 DEF Apart

\* What the lemmas need of TransferInv.
LEMMA InvFacts ==
    ASSUME TransferInv, NEW c \in Clients
    PROVE  /\ TypeInv
           /\ ClientInv(offers, recv, delivered, c, oldWire[c], wire[c], send[c], link[c])
           /\ Carries(offers, recv, delivered, c, FALSE, wire[c])
           /\ Carries(offers, recv, delivered, c, TRUE, oldWire[c])
           /\ wire[c] \in Seq(Messages) /\ oldWire[c] \in Seq(Messages)
           /\ send[c].stage = "preparing" =>
                 /\ \A i \in 1 .. Len(wire[c]) : wire[c][i].id < send[c].id
                 /\ BegunBefore(offers, recv, delivered, c, FALSE, send[c].id)
           /\ link[c] = "down" => send[c].stage = "idle"
           /\ send[c].stage = "sending" /\ link[c] = "up" =>
                 Leads(recv, c, wire[c], SenderPlace(send[c]))
           /\ Behind(oldWire[c], wire[c])
           /\ From(recv, c, FALSE) => Above(oldWire[c], recv.id)
           /\ send[c].stage # "idle" => Above(oldWire[c], send[c].id) /\ send[c].id \in Nat
<1>1. /\ TypeInv
      /\ ClientInv(offers, recv, delivered, c, oldWire[c], wire[c], send[c], link[c])
      BY DEF TransferInv
<1>2. wire[c] \in Seq(Messages) /\ oldWire[c] \in Seq(Messages) /\ send[c] \in Sends
      BY <1>1, TypeFacts
<1>3. send[c].id \in Nat
      BY <1>2, ConstantTypes DEF Sends
<1> QED BY <1>1, <1>2, <1>3 DEF ClientInv, Sending, Apart

\* What a turn of the pump writes goes on where the sender was, up to where it is.
LEMMA TurnWire ==
    ASSUME TransferInv, NEW c \in Clients, NEW s, s = send[c],
           s.stage = "sending", s.index <= Len(SizesOf(s.id)), link[c] = "up"
    PROVE  LET w == wire[c] \o TurnMessages(s)
           IN /\ Carries(offers, recv, delivered, c, FALSE, w) /\ Behind(oldWire[c], w)
              /\ Leads(recv, c, w, SenderPlace(AfterTurn(s)))
<1> DEFINE size == offers[s.id].sizes[s.index]
           h == Header(offers, s)
           k == Chunk(s)
           e == End(s)
           turn == TurnMessages(s)
           next == SenderPlace(AfterTurn(s))
           w == wire[c]
           Good(v, place) == /\ v \in Seq(Messages)
                             /\ Carries(offers, recv, delivered, c, FALSE, v)
                             /\ Behind(oldWire[c], v)
                             /\ Leads(recv, c, v, place)
<1>1. TypeInv /\ w \in Seq(Messages) /\ Good(w, SenderPlace(s)) /\ Above(oldWire[c], s.id)
      BY InvFacts
<1>2. /\ size \in Nat /\ s.id \in 1 .. Len(offers) /\ s.index \in 1 .. Len(offers[s.id].sizes)
      /\ h \in Messages /\ k \in Messages /\ e \in Messages
      /\ ~s.started => s.sent = 0
      /\ \/ ~s.started /\ size = 0 /\ turn = <<h, e>>
         \/ ~s.started /\ size = 1 /\ turn = <<h, k, e>>
         \/ ~s.started /\ size > 1 /\ turn = <<h, k>>
         \/ s.started /\ s.sent + 1 = size /\ turn = <<k, e>>
         \/ s.started /\ s.sent + 1 < size /\ turn = <<k>>
      BY <1>1, TurnCases
<1>3. s \in Sends /\ offers[s.id].from = c /\ s.sent \in Nat
      BY <1>1, TypeFacts DEF SenderAt, Sends
<1>4. s.started \in BOOLEAN /\ s.index \in Nat
      BY <1>3 DEF Sends
<1>5. /\ h.kind = "start" /\ k.kind = "chunk" /\ e.kind = "end"
      /\ h.id = s.id /\ k.id = s.id /\ e.id = s.id
      BY DEF Header, Chunk, End
<1>6. Genuine(offers, c, h) /\ Genuine(offers, c, e)
      BY <1>2, <1>3 DEF Genuine, Header, End
<1>7. s.sent < size => Genuine(offers, c, k)
      <2>1. s.sent < size => s.sent + 1 \in 1 .. size
            <3>1. size \in Nat /\ s.sent \in Nat
                  BY <1>2, <1>3
            <3> HIDE DEF size
            <3> QED BY <3>1
      <2> QED BY <1>2, <1>3, <2>1 DEF Genuine, Chunk
<1>8. ~s.started => Before(offers, h) = SenderPlace(s)
      <2>1. Before(offers, h) = At(s.id, s.index, 0, FALSE)
            BY DEF Before, Header
      <2>2. ~s.started => SenderPlace(s) = At(s.id, s.index, 0, FALSE)
            BY <1>2, <1>4 DEF SenderPlace
      <2> QED BY <2>1, <2>2
<1>9. Before(offers, k) = At(s.id, s.index, s.sent, TRUE)
      <2>1. /\ k.kind = "chunk" /\ k.id = s.id
            /\ k.part[2] = s.index /\ k.part[3] = s.sent + 1
            BY DEF Chunk
      <2> HIDE DEF k
      <2>2. Before(offers, k) = At(k.id, k.part[2], k.part[3] - 1, TRUE)
            BY <2>1 DEF Before
      <2>3. k.part[3] - 1 = s.sent
            BY <1>3, <2>1
      <2> QED BY <2>1, <2>2, <2>3
<1>10. s.started => Before(offers, k) = SenderPlace(s)
      BY <1>4, <1>9 DEF SenderPlace
<1>11. /\ After(h) = At(s.id, s.index, 0, TRUE)
       /\ After(k) = At(s.id, s.index, s.sent + 1, TRUE)
       /\ After(e) = At(s.id, s.index + 1, 0, FALSE)
       /\ Before(offers, e) = At(s.id, s.index, size, TRUE)
      BY DEF After, Before, Header, Chunk, End
<1>12. s.sent + 1 >= size => next = After(e)
      <2>1. ASSUME s.sent + 1 >= size
            PROVE  /\ AfterTurn(s).id = s.id /\ AfterTurn(s).index = s.index + 1
                   /\ AfterTurn(s).sent = 0 /\ AfterTurn(s).started = FALSE
            BY <1>3, <2>1, AfterTurnIs
      <2> QED BY <1>11, <2>1 DEF SenderPlace
<1>13. ~(s.sent + 1 >= size) => next = After(k)
      <2>1. ASSUME ~(s.sent + 1 >= size)
            PROVE  /\ AfterTurn(s).id = s.id /\ AfterTurn(s).index = s.index
                   /\ AfterTurn(s).sent = s.sent + 1 /\ AfterTurn(s).started = TRUE
            BY <1>3, <2>1, AfterTurnIs
      <2> QED BY <1>11, <2>1 DEF SenderPlace
<1> HIDE DEF h, k, e, turn, next, w, size
<1>14. ASSUME NEW v, NEW m \in Messages, Genuine(offers, c, m), m.kind # "drag",
              m.id = s.id, Good(v, Before(offers, m))
       PROVE  Good(Append(v, m), After(m))
      BY <1>1, <1>14, AddMessage, AddBehind
<1> HIDE DEF Good
<1>15. /\ \A a \in Messages : w \o <<a>> = Append(w, a)
       /\ \A a, b \in Messages : w \o <<a, b>> = Append(Append(w, a), b)
       /\ \A a, b, d \in Messages : w \o <<a, b, d>> = Append(Append(Append(w, a), b), d)
      BY <1>1
<1>16. Good(w \o turn, next)
      <2>1. CASE ~s.started /\ size = 0 /\ turn = <<h, e>>
            <3>1. Good(Append(w, h), After(h))
                  BY <1>1, <1>2, <1>5, <1>6, <1>8, <1>14, <2>1
            <3>2. Good(Append(Append(w, h), e), After(e))
                  BY <1>2, <1>5, <1>6, <1>11, <1>14, <2>1, <3>1
            <3>3. s.sent + 1 >= size
                  BY <1>3, <2>1
            <3> QED BY <1>2, <1>12, <1>15, <2>1, <3>2, <3>3
      <2>2. CASE /\ ~s.started /\ size >= 1
                 /\ \/ turn = <<h, k, e>> /\ size = 1
                    \/ turn = <<h, k>> /\ size > 1
            <3>1. Good(Append(w, h), After(h))
                  BY <1>1, <1>2, <1>5, <1>6, <1>8, <1>14, <2>2
            <3>2. After(h) = Before(offers, k) /\ s.sent < size
                  <4>1. s.sent = 0
                        BY <1>2, <2>2
                  <4>2. s.sent < size
                        BY <1>2, <2>2, <4>1
                  <4> QED BY <1>9, <1>11, <4>1, <4>2
            <3>3. Good(Append(Append(w, h), k), After(k))
                  BY <1>2, <1>5, <1>7, <1>14, <3>1, <3>2
            <3>4. CASE turn = <<h, k, e>> /\ size = 1
                  <4>1. After(k) = Before(offers, e) /\ s.sent + 1 >= size
                        <5>1. s.sent = 0
                              BY <1>2, <2>2
                        <5>2. s.sent + 1 = size
                              BY <3>4, <5>1
                        <5>3. s.sent + 1 >= size
                              BY <3>4, <5>1
                        <5>4. After(k) = Before(offers, e)
                              BY <1>11, <5>2
                        <5> QED BY <5>3, <5>4
                  <4>2. Good(Append(Append(Append(w, h), k), e), After(e))
                        BY <1>2, <1>5, <1>6, <1>14, <3>3, <4>1
                  <4> QED BY <1>2, <1>12, <1>15, <3>4, <4>1, <4>2
            <3>5. CASE turn = <<h, k>> /\ size > 1
                  <4>1. ~(s.sent + 1 >= size)
                        BY <1>2, <2>2, <3>5
                  <4> QED BY <1>2, <1>13, <1>15, <3>3, <3>5, <4>1
            <3> QED BY <2>2, <3>4, <3>5
      <2>3. CASE s.started /\ s.sent + 1 = size /\ turn = <<k, e>>
            <3>1. s.sent < size /\ s.sent + 1 >= size /\ After(k) = Before(offers, e)
                  <4>1. s.sent < size /\ s.sent + 1 >= size
                        BY <1>2, <1>3, <2>3
                  <4> QED BY <1>11, <2>3, <4>1
            <3>2. Good(Append(w, k), After(k))
                  BY <1>1, <1>2, <1>5, <1>7, <1>10, <1>14, <2>3, <3>1
            <3>3. Good(Append(Append(w, k), e), After(e))
                  BY <1>2, <1>5, <1>6, <1>14, <3>1, <3>2
            <3> QED BY <1>2, <1>12, <1>15, <2>3, <3>1, <3>3
      <2>4. CASE s.started /\ s.sent + 1 < size /\ turn = <<k>>
            <3>1. s.sent < size /\ ~(s.sent + 1 >= size)
                  BY <1>2, <1>3, <2>4
            <3>2. Good(Append(w, k), After(k))
                  BY <1>1, <1>2, <1>5, <1>7, <1>10, <1>14, <2>4, <3>1
            <3> QED BY <1>2, <1>13, <1>15, <2>4, <3>1, <3>2
      <2>5. (size = 1 => size >= 1) /\ (size > 1 => size >= 1)
            BY <1>2
      <2> QED BY <1>2, <2>1, <2>2, <2>3, <2>4, <2>5
<1> QED BY <1>16 DEF Good, turn, next, w

LEMMA StartPathsInv ==
    ASSUME TransferInv, TypeInv', NEW c \in Clients, NEW sizes \in Manifests,
           StartPaths(c, sizes)
    PROVE  TransferInv'
<1> DEFINE s == [Ready EXCEPT !.stage = "preparing", !.id = Len(offers) + 1, !.timer = TRUE]
<1>1. /\ offers \in Offers /\ Len(offers) \in Nat /\ send \in [Clients -> Sends]
      /\ wire \in [Clients -> Seq(Messages)] /\ oldWire \in [Clients -> Seq(Messages)]
      /\ delivered \in Announced
      BY TypeParts DEF TransferInv, TypeInv, Offers
<1>2. /\ send' = [send EXCEPT ![c] = s] /\ link[c] # "down"
      /\ offers' = Append(offers, [from |-> c, sizes |-> sizes])
      /\ wire' = wire /\ link' = link /\ recv' = recv /\ delivered' = delivered
      /\ session' = session /\ oldWire' = oldWire /\ closing' = closing
      /\ overtaken' = overtaken
      BY DEF StartPaths, linkVars, receiverVars
<1>3. /\ Len(offers') = Len(offers) + 1
      /\ \A i \in 1 .. Len(offers) : offers'[i] = offers[i]
      <2> DEFINE T == [from : Clients, sizes : Manifests]
      <2>1. offers \in Seq(T)
            BY <1>1 DEF Offers
      <2> HIDE DEF T
      <2> QED BY <1>2, <2>1
<1>4. \A d \in Clients :
         ClientInv(offers', recv, delivered, d, oldWire[d], wire[d], send[d], link[d])
      BY <1>1, <1>3, OfferWire DEF TransferInv
<1>5. s.stage = "preparing" /\ s.id = Len(offers) + 1
      BY ConstantTypes DEF Ready
<1> HIDE DEF s
<1>6. ClientInv(offers', recv, delivered, c, oldWire[c], wire[c], s, link[c])
      <2>1. Above(wire[c], s.id) /\ Above(oldWire[c], s.id)
            <3>1. /\ \A i \in 1 .. Len(wire[c]) : wire[c][i].id \in 1 .. Len(offers)
                  /\ \A i \in 1 .. Len(oldWire[c]) : oldWire[c][i].id \in 1 .. Len(offers)
                  BY DEF TransferInv, ClientInv, Carries, Chained, Genuine
            <3> QED BY <1>1, <1>5, <3>1 DEF Above
      <2>2. BegunBefore(offers', recv, delivered, c, FALSE, s.id)
            <3>1. ASSUME NEW id \in 1 .. Len(offers), NEW late
                  PROVE  Precedes(id, late, FALSE, s.id)
                  BY <1>1, <1>5 DEF Precedes
            <3>2. \A d \in 1 .. Len(delivered) : delivered[d].id \in 1 .. Len(offers)
                  BY DEF TransferInv, DeliveredInv
            <3>3. recv.active => recv.id \in 1 .. Len(offers)
                  BY DEF TransferInv, Received
            <3> QED BY <3>1, <3>2, <3>3 DEF BegunBefore
      <2>3. Sending(offers', recv, delivered, c, wire[c], s, link[c])
            BY <1>2, <1>5, <2>1, <2>2 DEF Sending, Above
      <2> QED BY <1>4, <2>1, <2>3 DEF ClientInv, Apart
<1>7. \A d \in Clients :
         ClientInv(offers', recv', delivered', d, oldWire'[d], wire'[d], send'[d], link'[d])
      <2> SUFFICES ASSUME NEW d \in Clients
                   PROVE  ClientInv(offers', recv, delivered, d, oldWire[d], wire[d], send'[d],
                                    link[d])
          BY <1>2
      <2>1. CASE d = c
            BY <1>1, <1>2, <1>6, <2>1
      <2>2. CASE d # c
            <3>1. send'[d] = send[d]
                  BY <1>1, <1>2, <2>2
            <3> QED BY <1>4, <3>1
      <2> QED BY <2>1, <2>2
<1>8. DeliveredInv(offers', delivered')
      BY <1>1, <1>2, <1>3 DEF TransferInv, DeliveredInv
<1>9. Received(offers', recv', delivered', session', overtaken')
      <2> SUFFICES ASSUME recv.active PROVE Received(offers', recv, delivered, session, overtaken)
          BY <1>2 DEF Received
      <2>1. recv.id \in 1 .. Len(offers) /\ Received(offers, recv, delivered, session, overtaken)
            BY DEF TransferInv, Received
      <2>2. offers'[recv.id] = offers[recv.id] /\ recv.id \in 1 .. Len(offers')
            BY <1>1, <1>3, <2>1
      <2>3. ContentOf(offers', recv.id) = ContentOf(offers, recv.id)
            BY <2>2 DEF ContentOf
      <2>4. \A d \in 1 .. Len(delivered) : offers'[delivered[d].id] = offers[delivered[d].id]
            BY <1>3 DEF TransferInv, DeliveredInv
      <2> QED BY <2>1, <2>2, <2>3, <2>4 DEF Received
<1>10. OldInput'
      BY <1>2 DEF TransferInv, OldInput
<1> QED BY <1>7, <1>8, <1>9, <1>10 DEF TransferInv

\* The unchanged link and wire of a client, as updates.
LEMMA SameUpdate ==
    ASSUME TransferInv, NEW c \in Clients
    PROVE  /\ wire = [wire EXCEPT ![c] = wire[c]]
           /\ link = [link EXCEPT ![c] = link[c]]
           /\ send = [send EXCEPT ![c] = send[c]]
BY TypeParts DEF TransferInv, TypeInv

\* A send that ends, whatever was written of it.
LEMMA FinishInv ==
    ASSUME TransferInv, TypeInv', NEW c \in Clients, NEW w, NEW outcome,
           Finish(c, outcome), wire' = [wire EXCEPT ![c] = w],
           Carries(offers, recv, delivered, c, FALSE, w), Behind(oldWire[c], w),
           UNCHANGED <<offers, linkVars, oldWire, receiverVars>>
    PROVE  TransferInv'
<1>1. send' = [send EXCEPT ![c] = Ready] /\ Ready.stage = "idle"
      BY DEF Finish, Ready
<1>2. ClientInv(offers, recv, delivered, c, oldWire[c], w, Ready, link[c])
      <2>1. /\ Carries(offers, recv, delivered, c, TRUE, oldWire[c])
            /\ From(recv, c, FALSE) => Above(oldWire[c], recv.id)
            BY InvFacts
      <2> QED BY <1>1, <2>1, IdleSender
<1>3. link' = [link EXCEPT ![c] = link[c]] /\ offers' = offers
      /\ UNCHANGED <<session, closing, overtaken, oldWire, receiverVars>>
      BY SameUpdate DEF linkVars
<1> HIDE DEF Ready
<1> QED BY <1>1, <1>2, <1>3, SenderInvFrame

LEMMA PreparedInv ==
    ASSUME TransferInv, TypeInv', NEW c \in Clients, Prepared(c)
    PROVE  TransferInv'
<1> DEFINE id == send[c].id
           drag == [kind |-> "drag", id |-> id, count |-> Len(SizesOf(id))]
           t == [send[c] EXCEPT !.stage = "sending"]
           w == IF link[c] = "up" THEN wire[c] \o <<drag>> ELSE wire[c]
<1>1. /\ TypeInv /\ send[c] \in Sends /\ wire[c] \in Seq(Messages) /\ offers \in Offers
      /\ SenderAt(offers, c, send[c])
      /\ send[c].stage = "preparing" /\ id \in Transfers
      BY InvFacts, TypeFacts DEF Prepared
<1>2. UNCHANGED <<offers, linkVars, oldWire, receiverVars>>
      BY DEF Prepared
<1>3. CASE Write(c, <<drag>>) /\ send' = [send EXCEPT ![c].stage = "sending"]
      <2>1. id \in 1 .. Len(offers) /\ offers[id].from = c
            BY <1>1 DEF SenderAt
      <2>2. drag \in Messages
            <3>1. Len(SizesOf(id)) \in Nat
                  BY <1>1, <2>1, OfferParts DEF SizesOf
            <3> QED BY <1>1, <3>1, MessageTypes
      <2>3. Genuine(offers, c, drag)
            BY <2>1 DEF Genuine, SizesOf
      <2>4. drag.kind = "drag" /\ drag.id = id
            OBVIOUS
      <2> HIDE DEF drag
      <2>5. /\ \A i \in 1 .. Len(wire[c]) : wire[c][i].id < id
            /\ BegunBefore(offers, recv, delivered, c, FALSE, id)
            /\ Carries(offers, recv, delivered, c, FALSE, wire[c])
            /\ Carries(offers, recv, delivered, c, TRUE, oldWire[c])
            /\ Behind(oldWire[c], wire[c]) /\ Above(oldWire[c], id)
            /\ From(recv, c, FALSE) => Above(oldWire[c], recv.id)
            /\ link[c] # "down"
            BY <1>1, InvFacts
      <2>6. /\ Carries(offers, recv, delivered, c, FALSE, Append(wire[c], drag))
            /\ Leads(recv, c, Append(wire[c], drag), After(drag))
            /\ Behind(oldWire[c], Append(wire[c], drag))
            BY <1>1, <2>2, <2>3, <2>4, <2>5, AddMessage, AddBehind
      <2>7. /\ t.stage = "sending" /\ t.id = id /\ t.index = 1 /\ t.sent = 0
            /\ t.started = FALSE
            <3>1. send[c].index = 1 /\ send[c].sent = 0 /\ send[c].started = FALSE
                  BY <1>1 DEF SenderAt, Sends
            <3> QED BY <1>1, <3>1 DEF Sends
      <2>8. After(drag) = SenderPlace(t)
            BY <2>4, <2>7 DEF After, SenderPlace
      <2>9. wire[c] \o <<drag>> = Append(wire[c], drag)
            BY <1>1, <2>2
      <2>10. send' = [send EXCEPT ![c] = t]
            BY <1>3, TypeFacts, InvFacts
      <2>11. wire' = [wire EXCEPT ![c] = w]
            <3>1. <<drag>> \in Seq(Messages)
                  BY <2>2
            <3> QED BY <1>1, <1>3, <3>1, WriteIs
      <2> HIDE DEF t
      <2>12. ClientInv(offers, recv, delivered, c, oldWire[c], w, t, link[c])
            <3>1. Apart(recv, c, oldWire[c], w, t)
                  BY <2>5, <2>6, <2>7, <2>9 DEF Apart
            <3>2. /\ Carries(offers, recv, delivered, c, FALSE, w)
                  /\ Sending(offers, recv, delivered, c, w, t, link[c])
                  BY <2>5, <2>6, <2>7, <2>8, <2>9 DEF Sending
            <3> QED BY <2>5, <3>1, <3>2 DEF ClientInv
      <2>13. link' = [link EXCEPT ![c] = link[c]] /\ offers' = offers
             /\ UNCHANGED <<session, closing, overtaken, oldWire, receiverVars>>
            BY <1>2, SameUpdate DEF linkVars
      <2> HIDE DEF w
      <2> QED BY <2>10, <2>11, <2>12, <2>13, SenderInvFrame
<1>4. CASE Finish(c, "error") /\ UNCHANGED wire
      BY <1>2, <1>4, FinishInv, InvFacts, SameUpdate
<1> QED BY <1>3, <1>4 DEF Prepared

LEMMA PumpInv ==
    ASSUME TransferInv, TypeInv', NEW c \in Clients, Pump(c) \/ ReadFailure(c)
    PROVE  TransferInv'
<1> DEFINE s == send[c]
           w == IF link[c] = "up" THEN wire[c] \o TurnMessages(s) ELSE wire[c]
           t == AfterTurn(s)
<1>1. /\ TypeInv /\ s \in Sends /\ wire[c] \in Seq(Messages) /\ s.stage = "sending"
      /\ Carries(offers, recv, delivered, c, FALSE, wire[c])
      /\ Carries(offers, recv, delivered, c, TRUE, oldWire[c])
      /\ Behind(oldWire[c], wire[c]) /\ Above(oldWire[c], s.id)
      /\ From(recv, c, FALSE) => Above(oldWire[c], recv.id)
      /\ link[c] # "down"
      BY InvFacts, TypeFacts DEF Pump, ReadFailure
<1>2. UNCHANGED <<offers, linkVars, oldWire, receiverVars>>
      BY DEF Pump, ReadFailure
<1>3. CASE \E outcome : Finish(c, outcome) /\ UNCHANGED wire
      BY <1>1, <1>2, <1>3, FinishInv, SameUpdate
<1>4. CASE /\ s.index <= Len(SizesOf(s.id)) /\ Write(c, TurnMessages(s))
           /\ send' = [send EXCEPT ![c] = AfterTurn(s)]
      <2>1. t.stage = "sending" /\ t.id = s.id
            BY <1>1, AfterTurnIs
      <2>2. wire' = [wire EXCEPT ![c] = w]
            BY <1>4, SameUpdate DEF Write
      <2>3. send' = [send EXCEPT ![c] = t]
            BY <1>4
      <2> HIDE DEF t
      <2>4. ClientInv(offers, recv, delivered, c, oldWire[c], w, t, link[c])
            <3>1. /\ Carries(offers, recv, delivered, c, FALSE, w) /\ Behind(oldWire[c], w)
                  /\ link[c] = "up" => Leads(recv, c, w, SenderPlace(t))
                  <4>1. CASE link[c] = "up"
                        BY <1>1, <1>4, <4>1, TurnWire DEF t
                  <4>2. CASE link[c] # "up"
                        BY <1>1, <4>2
                  <4> QED BY <4>1, <4>2
            <3> HIDE DEF w
            <3>2. Sending(offers, recv, delivered, c, w, t, link[c])
                  BY <1>1, <2>1, <3>1 DEF Sending
            <3>3. Apart(recv, c, oldWire[c], w, t)
                  BY <1>1, <2>1, <3>1 DEF Apart
            <3> QED BY <1>1, <3>1, <3>2, <3>3 DEF ClientInv
      <2>5. link' = [link EXCEPT ![c] = link[c]] /\ offers' = offers
            /\ UNCHANGED <<session, closing, overtaken, oldWire, receiverVars>>
            BY <1>2, SameUpdate DEF linkVars
      <2> HIDE DEF w
      <2> QED BY <2>2, <2>3, <2>4, <2>5, SenderInvFrame
<1>5. CASE /\ Finish(c, "error") /\ s.index <= Len(SizesOf(s.id))
           /\ ~s.started /\ Write(c, <<Head(TurnMessages(s))>>)
      <2> DEFINE h == Header(offers, s)
                 v == IF link[c] = "up" THEN wire[c] \o <<h>> ELSE wire[c]
      <2>1. /\ h \in Messages /\ h = Head(TurnMessages(s)) /\ s.sent = 0
            /\ s.id \in 1 .. Len(offers) /\ s.index \in 1 .. Len(offers[s.id].sizes)
            BY <1>1, <1>5, TurnCases
      <2>2. offers[s.id].from = c
            BY <1>1, TypeFacts DEF SenderAt
      <2>3. Genuine(offers, c, h) /\ h.kind # "drag"
            BY <2>1, <2>2 DEF Genuine, Header
      <2>4. Before(offers, h) = SenderPlace(s)
            <3>1. Before(offers, h) = At(s.id, s.index, 0, FALSE)
                  BY DEF Before, Header
            <3>2. s.started = FALSE
                  BY <1>1, <1>5 DEF Sends
            <3> QED BY <2>1, <3>1, <3>2 DEF SenderPlace
      <2> HIDE DEF h
      <2>5. wire' = [wire EXCEPT ![c] = v]
            BY <1>5, <2>1, SameUpdate DEF Write
      <2>6. Carries(offers, recv, delivered, c, FALSE, v) /\ Behind(oldWire[c], v)
            <3>1. CASE link[c] = "up"
                  <4>1. Leads(recv, c, wire[c], Before(offers, h))
                        BY <1>1, <2>4, <3>1, InvFacts
                  <4>2. h.id = s.id
                        BY DEF h, Header
                  <4>3. /\ Carries(offers, recv, delivered, c, FALSE, Append(wire[c], h))
                        /\ Behind(oldWire[c], Append(wire[c], h))
                        BY <1>1, <2>1, <2>3, <4>1, <4>2, AddMessage, AddBehind
                  <4>4. wire[c] \o <<h>> = Append(wire[c], h)
                        BY <1>1, <2>1
                  <4> QED BY <3>1, <4>3, <4>4
            <3> QED BY <1>1, <3>1
      <2> HIDE DEF v
      <2> QED BY <1>2, <1>5, <2>5, <2>6, FinishInv
<1> QED BY <1>3, <1>4, <1>5 DEF Pump, ReadFailure

LEMMA OtherSenderInv ==
    ASSUME TransferInv, TypeInv', NEW c \in Clients, WaitForDrain(c) \/ CancelSend(c)
    PROVE  TransferInv'
<1>1. /\ TypeInv /\ send \in [Clients -> Sends] /\ send[c] \in Sends
      /\ Carries(offers, recv, delivered, c, FALSE, wire[c]) /\ Behind(oldWire[c], wire[c])
      /\ ClientInv(offers, recv, delivered, c, oldWire[c], wire[c], send[c], link[c])
      BY InvFacts, TypeFacts
<1>2. CASE CancelSend(c)
      BY <1>1, <1>2, FinishInv, SameUpdate DEF CancelSend
<1>3. CASE WaitForDrain(c)
      <2>1. send' = [send EXCEPT ![c] = send[c]]
            <3>1. send[c].timer = TRUE /\ send' = [send EXCEPT ![c].timer = TRUE]
                  BY <1>1, <1>3 DEF WaitForDrain, Sends
            <3>2. [send[c] EXCEPT !.timer = TRUE] = send[c]
                  BY <1>1, <3>1 DEF Sends
            <3> QED BY <1>1, <3>1, <3>2
      <2>2. /\ wire' = [wire EXCEPT ![c] = wire[c]] /\ link' = [link EXCEPT ![c] = link[c]]
            /\ offers' = offers /\ UNCHANGED <<session, closing, overtaken, oldWire, receiverVars>>
            BY <1>3, SameUpdate DEF WaitForDrain, linkVars
      <2> QED BY <1>1, <2>1, <2>2, SenderInvFrame
<1> QED BY <1>2, <1>3

\* The next message of a wire fits, and the receiver makes progress with it.
LEMMA Reading ==
    ASSUME TransferInv, NEW c \in Clients, NEW old \in BOOLEAN, NEW w \in Seq(Messages), w # <<>>,
           Carries(offers, recv, delivered, c, old, w),
           ~old => c \in session, old => c \in overtaken, ParseMessage(c, Head(w), old)
    PROVE  /\ Head(w) \in Messages /\ Fits(c, old, Head(w))
           /\ Received(offers, recv', delivered', session, overtaken)
           /\ Progress(offers, c, old, Head(w), recv, delivered, recv', delivered', overtaken)
<1> DEFINE m == Head(w)
<1>1. m = w[1] /\ m \in Messages /\ 1 \in 1 .. Len(w)
      BY HeadAndTail
<1>2. TypeInv /\ Received(offers, recv, delivered, session, overtaken) /\ ParseMessage(c, m, old)
      BY DEF TransferInv
<1> HIDE DEF m
<1>3. Fits(c, old, m)
      <2>1. Chained(offers, c, w) /\ Receiving(offers, recv, delivered, c, old, w)
            BY DEF Carries
      <2> QED BY <1>1, <2>1 DEF Fits, Chained, Receiving
<1>4. /\ Received(offers, recv', delivered', session, overtaken)
      /\ Progress(offers, c, old, m, recv, delivered, recv', delivered', overtaken)
      BY <1>1, <1>2, <1>3, Parsing
<1> QED BY <1>1, <1>3, <1>4 DEF m

\* What a session reads, and what it makes of it.
LEMMA ReadIs ==
    ASSUME TransferInv, NEW c \in Clients, Read(c)
    PROVE  /\ wire[c] # <<>> /\ wire' = [wire EXCEPT ![c] = Tail(wire[c])]
           /\ offers' = offers /\ send' = send /\ link' = link /\ session' = session
           /\ oldWire' = oldWire /\ closing' = closing /\ overtaken' = overtaken
           /\ Received(offers, recv', delivered', session, overtaken)
           /\ Progress(offers, c, FALSE, Head(wire[c]), recv, delivered, recv', delivered',
                       overtaken)
<1> DEFINE F == FALSE
<1>1. /\ F \in BOOLEAN /\ wire[c] \in Seq(Messages) /\ wire[c] # <<>>
      /\ Carries(offers, recv, delivered, c, F, wire[c])
      /\ ~F => c \in session
      /\ F => c \in overtaken
      /\ ParseMessage(c, Head(wire[c]), F)
      BY InvFacts DEF Read
<1> HIDE DEF F
<1>2. /\ Received(offers, recv', delivered', session, overtaken)
      /\ Progress(offers, c, F, Head(wire[c]), recv, delivered, recv', delivered', overtaken)
      BY <1>1, Reading
<1> QED BY <1>2 DEF F, Read, senderVars, linkVars

LEMMA ReadOldIs ==
    ASSUME TransferInv, NEW c \in Clients, ReadOld(c)
    PROVE  /\ oldWire[c] # <<>> /\ oldWire' = [oldWire EXCEPT ![c] = Tail(oldWire[c])]
           /\ offers' = offers /\ send' = send /\ link' = link /\ session' = session
           /\ wire' = wire /\ closing' = closing /\ overtaken' = overtaken
           /\ c \in closing
           /\ Received(offers, recv', delivered', session, overtaken)
           /\ Progress(offers, c, TRUE, Head(oldWire[c]), recv, delivered, recv', delivered',
                       overtaken)
<1> DEFINE F == TRUE
<1>1. /\ F \in BOOLEAN /\ oldWire[c] \in Seq(Messages) /\ oldWire[c] # <<>>
      /\ Carries(offers, recv, delivered, c, F, oldWire[c])
      /\ ~F => c \in session
      /\ F => c \in overtaken
      /\ ParseMessage(c, Head(oldWire[c]), F)
      BY InvFacts DEF ReadOld, TransferInv, OldInput
<1> HIDE DEF F
<1>2. /\ Received(offers, recv', delivered', session, overtaken)
      /\ Progress(offers, c, F, Head(oldWire[c]), recv, delivered, recv', delivered', overtaken)
      BY <1>1, Reading
<1> QED BY <1>2 DEF F, ReadOld, senderVars, linkVars

\* What progress with a message of c means to the others.
LEMMA ProgressOthers ==
    ASSUME TransferInv, NEW c \in Clients, NEW old, NEW m,
           Progress(offers, c, old, m, recv, delivered, recv', delivered', overtaken)
    PROVE  /\ \A d \in Clients \ {c} : recv'.active /\ recv'.source = d => recv' = recv
           /\ \/ delivered' = delivered
              \/ \E x : /\ delivered' = Append(delivered, x)
                        /\ x.id \in 1 .. Len(offers) /\ offers[x.id].from = c
<1>1. \A d \in Clients \ {c} : recv'.active /\ recv'.source = d => recv' = recv
      BY DEF Progress
<1>2. ASSUME delivered' # delivered
      PROVE  \E x : /\ delivered' = Append(delivered, x)
                    /\ x.id \in 1 .. Len(offers) /\ offers[x.id].from = c
      <2>1. recv.active /\ recv.source = c
            BY <1>2 DEF Progress
      <2>2. recv.id \in 1 .. Len(offers) /\ offers[recv.id].from = c
            BY <2>1 DEF TransferInv, Received
      <2>3. \E x : delivered' = Append(delivered, x) /\ x.id = recv.id
            BY <1>2 DEF Progress, Announces
      <2> QED BY <2>2, <2>3
<1> QED BY <1>1, <1>2

LEMMA ReadInv ==
    ASSUME TransferInv, TypeInv', NEW c \in Clients, Read(c)
    PROVE  TransferInv'
<1> DEFINE m == Head(wire[c])
<1>1. /\ wire \in [Clients -> Seq(Messages)]
      /\ wire[c] \in Seq(Messages) /\ oldWire[c] \in Seq(Messages)
      /\ ClientInv(offers, recv, delivered, c, oldWire[c], wire[c], send[c], link[c])
      /\ send[c].stage # "idle" => send[c].id \in Nat
      /\ delivered \in Announced
      BY InvFacts, TypeFacts
<1>2. /\ wire[c] # <<>> /\ wire' = [wire EXCEPT ![c] = Tail(wire[c])]
      /\ offers' = offers /\ send' = send /\ link' = link /\ session' = session
      /\ oldWire' = oldWire /\ closing' = closing /\ overtaken' = overtaken
      /\ Received(offers, recv', delivered', session, overtaken)
      /\ Progress(offers, c, FALSE, Head(wire[c]), recv, delivered, recv', delivered', overtaken)
      BY ReadIs
<1>3. ClientInv(offers, recv', delivered', c, oldWire[c], Tail(wire[c]), send[c], link[c])
      BY <1>1, <1>2, ReadWire
<1>4. wire'[c] = Tail(wire[c]) /\ \A d \in Clients \ {c} : wire'[d] = wire[d]
      BY <1>1, <1>2
<1>5. /\ \A d \in Clients \ {c} : recv'.active /\ recv'.source = d => recv' = recv
      /\ \/ delivered' = delivered
         \/ \E x : /\ delivered' = Append(delivered, x)
                   /\ x.id \in 1 .. Len(offers) /\ offers[x.id].from = c
      BY <1>2, ProgressOthers
<1>6. ClientInv(offers, recv', delivered', c, oldWire'[c], wire'[c], send'[c], link'[c])
      BY <1>2, <1>3, <1>4
<1>7. OldInput' /\ Received(offers, recv', delivered', session', overtaken')
      BY <1>2 DEF TransferInv, OldInput
<1> QED BY <1>2, <1>4, <1>5, <1>6, <1>7, InvFrame

LEMMA ReadOldInv ==
    ASSUME TransferInv, TypeInv', NEW c \in Clients, ReadOld(c)
    PROVE  TransferInv'
<1>1. /\ oldWire \in [Clients -> Seq(Messages)]
      /\ wire[c] \in Seq(Messages) /\ oldWire[c] \in Seq(Messages)
      /\ ClientInv(offers, recv, delivered, c, oldWire[c], wire[c], send[c], link[c])
      /\ send[c].stage # "idle" => send[c].id \in Nat
      /\ delivered \in Announced
      BY InvFacts, TypeFacts
<1>2. /\ oldWire[c] # <<>> /\ oldWire' = [oldWire EXCEPT ![c] = Tail(oldWire[c])]
      /\ offers' = offers /\ send' = send /\ link' = link /\ session' = session
      /\ wire' = wire /\ closing' = closing /\ overtaken' = overtaken
      /\ c \in closing
      /\ Received(offers, recv', delivered', session, overtaken)
      /\ Progress(offers, c, TRUE, Head(oldWire[c]), recv, delivered, recv', delivered',
                  overtaken)
      BY ReadOldIs
<1>3. ClientInv(offers, recv', delivered', c, Tail(oldWire[c]), wire[c], send[c], link[c])
      BY <1>1, <1>2, ReadOldWire
<1>4. oldWire'[c] = Tail(oldWire[c]) /\ \A d \in Clients \ {c} : oldWire'[d] = oldWire[d]
      BY <1>1, <1>2
<1>5. /\ \A d \in Clients \ {c} : recv'.active /\ recv'.source = d => recv' = recv
      /\ \/ delivered' = delivered
         \/ \E x : /\ delivered' = Append(delivered, x)
                   /\ x.id \in 1 .. Len(offers) /\ offers[x.id].from = c
      BY <1>2, ProgressOthers
<1>6. ClientInv(offers, recv', delivered', c, oldWire'[c], wire'[c], send'[c], link'[c])
      BY <1>2, <1>3, <1>4
<1>7. OldInput' /\ Received(offers, recv', delivered', session', overtaken')
      BY <1>2, <1>4 DEF TransferInv, OldInput
<1> QED BY <1>2, <1>4, <1>5, <1>6, <1>7, InvFrame

\* What a step of a connection has to show: the receiver is dropped if it received from a
\* client that is no longer connected.
LEMMA ConnectionInvFrame ==
    ASSUME TransferInv, TypeInv', NEW c \in Clients,
           UNCHANGED <<offers, delivered>>,
           \A d \in Clients \ {c} : /\ send'[d] = send[d] /\ wire'[d] = wire[d]
                                    /\ link'[d] = link[d] /\ oldWire'[d] = oldWire[d],
           OldInput', overtaken \subseteq overtaken', session \subseteq session' \cup {c},
           ~recv'.active \/ (recv' = recv /\ (recv.source # c \/ session \subseteq session')),
           ClientInv(offers, recv', delivered', c, oldWire'[c], wire'[c], send'[c], link'[c])
    PROVE  TransferInv'
<1>1. delivered' = delivered /\ offers' = offers
      OBVIOUS
<1>2. Received(offers, recv', delivered', session', overtaken')
      <2>1. CASE ~recv'.active
            BY <2>1 DEF Received
      <2>2. CASE recv' = recv /\ (recv.source # c \/ session \subseteq session')
            BY <1>1, <2>2 DEF TransferInv, Received
      <2> QED BY <2>1, <2>2
<1> QED BY <1>1, <1>2, InvFrame

\* A receiver that is dropped or not asks no more of a client.
LEMMA DroppedClient ==
    ASSUME NEW o, NEW r, NEW r2, NEW done \in Announced, NEW done2, NEW c, NEW v, NEW w, NEW s,
           NEW l, ClientInv(o, r, done, c, v, w, s, l), done2 = done, ~r2.active \/ r2 = r
    PROVE  ClientInv(o, r2, done2, c, v, w, s, l)
BY OtherWire

\* Dropping what comes from a client.
LEMMA DropIs ==
    ASSUME NEW c \in Clients
    PROVE  /\ DropSource(c) => /\ delivered' = delivered
                               /\ ~recv'.active \/ (recv' = recv /\ recv.source # c)
           /\ Abandon => delivered' = delivered /\ ~recv'.active
           /\ UNCHANGED receiverVars => delivered' = delivered /\ recv' = recv
BY DEF DropSource, Abandon, Reset, Inactive, receiverVars

\* What a session had on its wire is old once another has taken over.
LEMMA TakenOver ==
    ASSUME NEW o, NEW r, NEW r2, NEW done, NEW c, NEW w \in Seq(Messages), NEW s, NEW l,
           Carries(o, r, done, c, FALSE, w), ~(r2.active /\ r2.source = c), s.stage = "idle"
    PROVE  ClientInv(o, r2, done, c, w, <<>>, s, l)
<1>1. ASSUME NEW id, BegunBefore(o, r, done, c, FALSE, id)
      PROVE  BegunBefore(o, r2, done, c, TRUE, id)
      BY <1>1 DEF BegunBefore, Precedes
<1>2. ~From(r2, c, TRUE) /\ ~From(r2, c, FALSE)
      BY DEF From
<1>3. Carries(o, r2, done, c, TRUE, w)
      BY <1>1, <1>2 DEF Carries, Receiving, Goes
<1>4. Carries(o, r2, done, c, FALSE, <<>>) /\ Behind(w, <<>>)
      BY EmptyWire, EmptyApart
<1> DEFINE u == <<>>
<1> HIDE DEF u
<1>5. Carries(o, r2, done, c, FALSE, u) /\ Behind(w, u)
      BY <1>4 DEF u
<1>6. ClientInv(o, r2, done, c, w, u, s, l)
      BY <1>2, <1>3, <1>5, IdleSender
<1> QED BY <1>6 DEF u

LEMMA ConnectionInv ==
    ASSUME TransferInv, TypeInv', NEW c \in Clients, Connection(c)
    PROVE  TransferInv'
<1> DEFINE v == oldWire[c]
           w == wire[c]
           s == send[c]
           l == link[c]
           none == <<>>
<1>1. /\ TypeInv /\ wire \in [Clients -> Seq(Messages)] /\ w \in Seq(Messages)
      /\ link \in [Clients -> Links] /\ send \in [Clients -> Sends]
      /\ oldWire \in [Clients -> Seq(Messages)] /\ delivered \in Announced
      /\ ClientInv(offers, recv, delivered, c, v, w, s, l)
      /\ l = "down" => s.stage = "idle"
      BY InvFacts, TypeFacts
<1>2. /\ Carries(offers, recv, delivered, c, FALSE, w)
      /\ Sending(offers, recv, delivered, c, w, s, l)
      /\ Carries(offers, recv, delivered, c, TRUE, v) /\ Apart(recv, c, v, w, s)
      BY <1>1 DEF ClientInv
<1>3. /\ \A old : Carries(offers, recv, delivered, c, old, none)
      /\ Len(none) = 0 /\ none = <<>>
      /\ Apart(recv, c, none, w, s) /\ Apart(recv, c, none, none, s) /\ Apart(recv, c, v, none, s)
      /\ OldInput
      BY <1>2, EmptyWire, EmptyApart DEF TransferInv
<1> HIDE DEF none
<1>4. CASE Cut(c)
      <2>1. /\ link' = [link EXCEPT ![c] = "cut"] /\ link[c] = "up"
            /\ offers' = offers /\ send' = send /\ session' = session /\ oldWire' = oldWire
            /\ closing' = closing /\ overtaken' = overtaken
            /\ recv' = recv /\ delivered' = delivered
            BY <1>4 DEF Cut, senderVars, receiverVars
      <2>2. PICK n \in 0 .. Len(wire[c]) : wire' = [wire EXCEPT ![c] = SubSeq(wire[c], 1, n)]
            BY <1>4 DEF Cut
      <2> DEFINE u == SubSeq(wire[c], 1, n)
      <2>3. /\ Carries(offers, recv, delivered, c, FALSE, u)
            /\ \A i \in 1 .. Len(u) : i \in 1 .. Len(wire[c]) /\ u[i] = wire[c][i]
            BY <1>1, <1>2, CutWire
      <2>4. wire' = [wire EXCEPT ![c] = u]
            BY <2>2
      <2> HIDE DEF u
      <2>5. wire'[c] = u /\ link'[c] = "cut" /\ oldWire'[c] = v /\ send'[c] = s
            BY <1>1, <2>1, <2>4
      <2>6. Sending(offers, recv, delivered, c, u, s, "cut")
            BY <1>2, <2>1, <2>3 DEF Sending
      <2>7. Apart(recv, c, v, u, s)
            BY <1>2, <2>3 DEF Apart, Behind
      <2>8. ClientInv(offers, recv', delivered', c, oldWire'[c], wire'[c], send'[c], link'[c])
            BY <1>2, <2>1, <2>3, <2>5, <2>6, <2>7 DEF ClientInv
      <2>9. \A d \in Clients \ {c} : wire'[d] = wire[d] /\ link'[d] = link[d]
            BY <1>1, <2>1, <2>4
      <2>10. OldInput'
            BY <1>3, <2>1 DEF OldInput
      <2> QED BY <2>1, <2>8, <2>9, <2>10, ConnectionInvFrame
<1>5. CASE ClientNotices(c)
      <2>1. /\ link' = [link EXCEPT ![c] = "down"] /\ offers' = offers /\ wire' = wire
            /\ session' = session /\ oldWire' = oldWire
            /\ closing' = closing /\ overtaken' = overtaken
            /\ recv' = recv /\ delivered' = delivered
            BY <1>5 DEF ClientNotices, receiverVars
      <2>2. send'[c].stage = "idle" /\ \A d \in Clients \ {c} : send'[d] = send[d]
            <3>1. CASE send[c].stage = "idle"
                  BY <1>5, <3>1 DEF ClientNotices
            <3>2. CASE send[c].stage # "idle"
                  <4>1. send' = [send EXCEPT ![c] = Ready] /\ Ready.stage = "idle"
                        BY <1>5, <3>2 DEF ClientNotices, Finish, Ready
                  <4> HIDE DEF Ready
                  <4> QED BY <1>1, <4>1
            <3> QED BY <3>1, <3>2
      <2>3. ClientInv(offers, recv, delivered, c, v, w, send'[c], link'[c])
            BY <1>2, <2>2, IdleSender DEF Apart
      <2>4. \A d \in Clients \ {c} : link'[d] = link[d]
            BY <1>1, <2>1
      <2>5. OldInput'
            BY <1>3, <2>1 DEF OldInput
      <2> QED BY <2>1, <2>2, <2>3, <2>4, <2>5, ConnectionInvFrame
<1>6. CASE ServerNotices(c)
      <2>1. /\ wire' = [wire EXCEPT ![c] = none] /\ session' = session \ {c} /\ l # "up"
            /\ offers' = offers /\ send' = send /\ link' = link /\ oldWire' = oldWire
            /\ closing' = closing /\ overtaken' = overtaken
            /\ DropSource(c)
            BY <1>6 DEF ServerNotices, senderVars, none
      <2>2. wire'[c] = none /\ \A d \in Clients \ {c} : wire'[d] = wire[d]
            BY <1>1, <2>1
      <2>3. Sending(offers, recv, delivered, c, none, s, l)
            <3>1. \A i \in 1 .. Len(none) : FALSE
                  BY <1>3
            <3> QED BY <1>2, <2>1, <3>1 DEF Sending
      <2>4. ClientInv(offers, recv, delivered, c, v, none, s, l)
            BY <1>2, <1>3, <2>3 DEF ClientInv
      <2>5. delivered' = delivered /\ (~recv'.active \/ (recv' = recv /\ recv.source # c))
            BY <2>1, DropIs
      <2>6. ClientInv(offers, recv', delivered', c, v, none, s, l)
            BY <1>1, <2>4, <2>5, DroppedClient
      <2>7. OldInput'
            BY <1>3, <2>1 DEF OldInput
      <2>8. session \subseteq session' \cup {c}
            BY <2>1
      <2> QED BY <2>1, <2>2, <2>5, <2>6, <2>7, <2>8, ConnectionInvFrame
<1>7. CASE Reconnect(c)
      <2>1. /\ wire' = [wire EXCEPT ![c] = none] /\ session' = session \cup {c}
            /\ l = "down" /\ link' = [link EXCEPT ![c] = "up"] /\ c \notin closing
            /\ offers' = offers /\ send' = send
            BY <1>7 DEF Reconnect, senderVars, none
      <2>2. wire'[c] = none /\ link'[c] = "up" /\ s.stage = "idle"
            /\ \A d \in Clients \ {c} : wire'[d] = wire[d] /\ link'[d] = link[d]
            BY <1>1, <2>1
      <2>3. CASE c \in session
            <3>1. /\ closing' = closing \cup {c} /\ overtaken' = overtaken \cup {c}
                  /\ oldWire' = [oldWire EXCEPT ![c] = w] /\ DropSource(c)
                  BY <1>7, <2>3 DEF Reconnect
            <3>2. oldWire'[c] = w /\ \A d \in Clients \ {c} : oldWire'[d] = oldWire[d]
                  BY <1>1, <3>1
            <3>3. delivered' = delivered /\ (~recv'.active \/ (recv' = recv /\ recv.source # c))
                  BY <3>1, DropIs
            <3>4. OldInput'
                  BY <1>1, <1>3, <3>1, <3>2 DEF OldInput
            <3>5. ClientInv(offers, recv', delivered, c, w, none, s, "up")
                  BY <1>1, <1>2, <2>2, <3>3, TakenOver DEF none
            <3>6. session \subseteq session' /\ overtaken \subseteq overtaken'
                  BY <2>1, <3>1
            <3> QED BY <2>1, <2>2, <3>2, <3>3, <3>4, <3>5, <3>6, ConnectionInvFrame
      <2>4. CASE c \notin session
            <3>1. /\ closing' = closing /\ overtaken' = overtaken /\ oldWire' = oldWire
                  /\ recv' = recv /\ delivered' = delivered
                  BY <1>7, <2>4 DEF Reconnect, receiverVars
            <3>2. OldInput'
                  BY <1>3, <3>1 DEF OldInput
            <3>3. ClientInv(offers, recv, delivered, c, v, none, s, "up")
                  <4>1. Behind(v, none) /\ (From(recv, c, FALSE) => Above(v, recv.id))
                        BY <1>3 DEF Apart
                  <4> QED BY <1>2, <1>3, <2>2, <4>1, IdleSender
            <3> QED BY <2>1, <2>2, <3>1, <3>2, <3>3, ConnectionInvFrame
      <2> QED BY <2>3, <2>4
<1>8. CASE OldSessionGone(c) \/ OldSessionTimeout(c)
      <2>1. /\ oldWire' = [oldWire EXCEPT ![c] = none] /\ closing' = closing \ {c}
            /\ wire' = wire /\ session' = session /\ link' = link /\ overtaken' = overtaken
            /\ offers' = offers /\ send' = send
            /\ DropSource(c) \/ UNCHANGED receiverVars
            BY <1>8 DEF OldSessionGone, OldSessionTimeout, senderVars, none
      <2>2. oldWire'[c] = none /\ \A d \in Clients \ {c} : oldWire'[d] = oldWire[d]
            BY <1>1, <2>1
      <2>3. OldInput'
            BY <1>3, <2>1, <2>2 DEF OldInput
      <2>4. delivered' = delivered /\ (~recv'.active \/ recv' = recv)
            BY <2>1, DropIs
      <2>5. ClientInv(offers, recv, delivered, c, none, w, s, l)
            BY <1>2, <1>3 DEF ClientInv
      <2>6. ClientInv(offers, recv', delivered', c, none, w, s, l)
            BY <1>1, <2>4, <2>5, DroppedClient
      <2> QED BY <2>1, <2>2, <2>3, <2>4, <2>6, ConnectionInvFrame
<1> QED BY <1>4, <1>5, <1>6, <1>7, <1>8 DEF Connection

LEMMA CancelReceiveInv ==
    ASSUME TransferInv, TypeInv', CancelReceive
    PROVE  TransferInv'
<1>1. /\ offers' = offers /\ send' = send /\ link' = link /\ session' = session
      /\ wire' = wire /\ oldWire' = oldWire /\ delivered' = delivered /\ ~recv'.active
      /\ closing' = closing /\ overtaken' = overtaken
      BY DEF CancelReceive, Abandon, Reset, Inactive, senderVars, linkVars
<1>2. delivered \in Announced
      BY TypeParts DEF TransferInv, TypeInv
<1>3. ASSUME NEW c \in Clients
      PROVE  ClientInv(offers, recv', delivered, c, oldWire[c], wire[c], send[c], link[c])
      <2>1. ClientInv(offers, recv, delivered, c, oldWire[c], wire[c], send[c], link[c])
            BY DEF TransferInv
      <2> QED BY <1>1, <1>2, <2>1, DroppedClient
<1>4. Received(offers, recv', delivered, session, overtaken)
      BY <1>1 DEF Received
<1> QED BY <1>1, <1>3, <1>4 DEF TransferInv, OldInput

LEMMA InitInv == Init => TransferInv
<1> SUFFICES ASSUME Init PROVE TransferInv
    OBVIOUS
<1>1. TypeInv
      BY InitTypes
<1>2. Len(delivered) = 0 /\ ~recv.active /\ closing = {}
      /\ \A c \in Clients : oldWire[c] = <<>> /\ wire[c] = <<>> /\ send[c].stage = "idle"
      BY DEF Init, Inactive, Ready
<1>3. ASSUME NEW c \in Clients
      PROVE  ClientInv(offers, recv, delivered, c, oldWire[c], wire[c], send[c], link[c])
      <2> DEFINE none == <<>>
      <2>1. /\ \A old : Carries(offers, recv, delivered, c, old, none)
            /\ Behind(none, none)
            BY EmptyWire, EmptyApart
      <2>2. wire[c] = none /\ oldWire[c] = none
            BY <1>2
      <2> HIDE DEF none
      <2>3. ~From(recv, c, FALSE)
            BY <1>2 DEF From
      <2> QED BY <1>2, <2>1, <2>2, <2>3, IdleSender
<1>4. /\ DeliveredInv(offers, delivered)
      /\ Received(offers, recv, delivered, session, overtaken)
      /\ OldInput
      BY <1>2 DEF DeliveredInv, Received, OldInput
<1> QED BY <1>1, <1>3, <1>4 DEF TransferInv

LEMMA InvStep == TransferInv /\ [Next]_vars => TransferInv'
<1> SUFFICES ASSUME TransferInv, [Next]_vars PROVE TransferInv'
    OBVIOUS
<1>1. TypeInv'
      BY TypeStep DEF TransferInv
<1>2. CASE \E c \in Clients : Sender(c)
      BY <1>1, <1>2, StartPathsInv, PreparedInv, PumpInv, OtherSenderInv DEF Sender
<1>3. CASE \E c \in Clients : Read(c) \/ ReadOld(c)
      BY <1>1, <1>3, ReadInv, ReadOldInv
<1>4. CASE \E c \in Clients : Connection(c)
      BY <1>1, <1>4, ConnectionInv
<1>5. CASE CancelReceive
      BY <1>1, <1>5, CancelReceiveInv
<1>6. CASE UNCHANGED vars
      <2>1. /\ offers' = offers /\ recv' = recv /\ delivered' = delivered /\ wire' = wire
            /\ send' = send /\ link' = link /\ session' = session /\ oldWire' = oldWire
            /\ closing' = closing /\ overtaken' = overtaken
            BY <1>6 DEF vars
      <2> QED BY <1>1, <2>1 DEF TransferInv, OldInput
<1> QED BY <1>2, <1>3, <1>4, <1>5, <1>6 DEF Next

-----------------------------------------------------------------------------
(* The refinement.                                                         *)

LEMMA ContentIs ==
    ASSUME NEW id
    PROVE  Delivery!Content(id) = ContentOf(offers, id)
BY DEF Delivery!Content, ContentOf

\* What is promised of the transfers announced.
Promises(done) == [i \in DOMAIN done |-> Promised(done[i])]

\* One more announcement is one more promise.
LEMMA PromisedMore ==
    ASSUME NEW done \in Announced, NEW x \in Announcements
    PROVE  Promises(Append(done, x)) = Append(Promises(done), Promised(x))
<1> DEFINE more == Append(done, x)
<1>1. /\ Len(done) \in Nat /\ DOMAIN done = 1 .. Len(done)
      /\ DOMAIN more = 1 .. (Len(done) + 1) /\ more[Len(done) + 1] = x
      /\ \A i \in 1 .. Len(done) : more[i] = done[i]
      BY DEF Announced
<1> DEFINE p == Promises(done)
           all == Promises(more)
           last == Promised(x)
           S == {last} \cup {Promised(done[i]) : i \in 1 .. Len(done)}
<1>2. /\ p \in [1 .. Len(done) -> S] /\ \A i \in 1 .. Len(done) : p[i] = Promised(done[i])
      BY <1>1 DEF Promises
<1>3. /\ all \in [1 .. (Len(done) + 1) -> S] /\ last \in S
      /\ \A i \in 1 .. (Len(done) + 1) : all[i] = Promised(more[i])
      <2>1. DOMAIN all = 1 .. (Len(done) + 1)
            BY <1>1 DEF Promises
      <2>2. \A i \in 1 .. (Len(done) + 1) : all[i] = Promised(more[i])
            BY <1>1 DEF Promises
      <2>3. \A i \in 1 .. (Len(done) + 1) : i \in 1 .. Len(done) \/ i = Len(done) + 1
            BY <1>1
      <2>4. all = [i \in 1 .. (Len(done) + 1) |-> Promised(more[i])]
            BY <1>1 DEF Promises
      <2> HIDE DEF all, more
      <2>5. \A i \in 1 .. (Len(done) + 1) : Promised(more[i]) \in S
            BY <1>1, <2>3
      <2> HIDE DEF S, last
      <2>6. all \in [1 .. (Len(done) + 1) -> S]
            BY <2>4, <2>5
      <2>7. last \in S
            BY DEF S
      <2> QED BY <2>2, <2>6, <2>7
<1> HIDE DEF p, all, more, last, S
<1>4. /\ p \in Seq(S) /\ Len(p) = Len(done) /\ all \in Seq(S) /\ Len(all) = Len(done) + 1
      BY <1>1, <1>2, <1>3
<1>5. /\ Append(p, last) \in Seq(S) /\ Len(Append(p, last)) = Len(done) + 1
      /\ Append(p, last)[Len(done) + 1] = last
      /\ \A i \in 1 .. Len(done) : Append(p, last)[i] = p[i]
      BY <1>3, <1>4, AppendProperties
<1>6. ASSUME NEW i \in 1 .. Len(all) PROVE all[i] = Append(p, last)[i]
      <2>1. i \in 1 .. Len(done) \/ i = Len(done) + 1
            BY <1>1, <1>4
      <2>2. Len(done) + 1 \in 1 .. (Len(done) + 1)
            BY <1>1
      <2>3. i \in 1 .. (Len(done) + 1)
            BY <1>4
      <2> QED BY <1>1, <1>2, <1>3, <1>5, <2>1, <2>2, <2>3 DEF last
<1>7. all = Append(p, last)
      BY <1>4, <1>5, <1>6, SeqEqual
<1> QED BY <1>7 DEF all, p, last, more

\* What the receiver announces is delivered as promised.
LEMMA Announcing ==
    ASSUME TransferInv, recv.active, offers' = offers, overtaken' = overtaken,
           Announces(offers, recv, delivered, delivered', overtaken)
    PROVE  Delivery!Next
<1>1. PICK x \in Announcements :
         /\ delivered' = Append(delivered, x)
         /\ x.id = recv.id /\ x.late = recv.stale
         /\ x.mixed => recv.source \in overtaken
         /\ ~x.mixed => x.files = ContentOf(offers, recv.id)
      BY DEF Announces
<1>2. /\ delivered \in Announced /\ DOMAIN delivered = 1 .. Len(delivered)
      /\ DOMAIN offers = 1 .. Len(offers)
      BY TypeParts DEF TransferInv, TypeInv, Announced, Offers
<1>3. /\ recv.id \in 1 .. Len(offers) /\ offers[recv.id].from = recv.source
      /\ recv.stale => recv.source \in overtaken
      /\ \A d \in 1 .. Len(delivered) :
            offers[delivered[d].id].from = recv.source =>
               Precedes(delivered[d].id, delivered[d].late, recv.stale, recv.id)
      BY DEF TransferInv, Received
<1>4. x.late \in BOOLEAN /\ x.mixed \in BOOLEAN
      BY DEF Announcements
<1>5. Promised(x) = [id |-> x.id, late |-> x.late, mixed |-> x.mixed,
                     files |-> IF x.mixed THEN <<>> ELSE ContentOf(offers, x.id)]
      <2> HIDE DEF ContentOf
      <2>1. x = [id |-> x.id, late |-> x.late, mixed |-> x.mixed, files |-> x.files]
            BY DEF Announcements
      <2> QED BY <1>1, <2>1 DEF Promised, Announcements
<1>6. Promises(delivered') = Append(Promises(delivered), Promised(x))
      BY <1>1, <1>2, PromisedMore
<1>7. \A d \in 1 .. Len(delivered) :
         /\ Promises(delivered)[d].id = delivered[d].id
         /\ Promises(delivered)[d].late = delivered[d].late
      <2> SUFFICES ASSUME NEW d \in 1 .. Len(delivered)
                   PROVE  /\ Promises(delivered)[d].id = delivered[d].id
                          /\ Promises(delivered)[d].late = delivered[d].late
          OBVIOUS
      <2>1. delivered[d] \in Announcements
            BY <1>2, ElementOfSeq DEF Announced
      <2>2. Promises(delivered)[d] = Promised(delivered[d])
            BY <1>2 DEF Promises
      <2> QED BY <2>1, <2>2 DEF Promised, Announcements
<1> DEFINE p == Promises(delivered)
           id == x.id
           late == x.late
           mixed == x.mixed
<1>8. DOMAIN p = 1 .. Len(delivered)
      BY <1>2 DEF Promises
<1> HIDE DEF p, id, late, mixed
<1>9. /\ late \/ mixed => offers[id].from \in overtaken
      /\ \A d \in DOMAIN p :
            /\ p[d].id # id
            /\ offers[p[d].id].from = offers[id].from /\ (late => p[d].late) => p[d].id < id
      <2>1. id = recv.id /\ late = recv.stale
            BY <1>1 DEF id, late
      <2>2. late \/ mixed => offers[id].from \in overtaken
            BY <1>1, <1>3, <2>1 DEF mixed
      <2>3. ASSUME NEW d \in 1 .. Len(delivered)
            PROVE  /\ p[d].id # id
                   /\ offers[p[d].id].from = offers[id].from /\ (late => p[d].late)
                        => p[d].id < id
            BY <1>3, <1>7, <2>1 DEF Precedes, p
      <2> QED BY <1>8, <2>2, <2>3
<1>10. Promises(delivered') = Append(p, [id |-> id, late |-> late, mixed |-> mixed,
                                         files |-> IF mixed THEN <<>> ELSE Delivery!Content(id)])
      BY <1>5, <1>6, ContentIs DEF p, id, late, mixed
<1>11. Delivery!Deliver(id, late, mixed)
      BY <1>9, <1>10 DEF Delivery!Deliver, Promises, p
<1>12. id \in DOMAIN offers /\ late \in BOOLEAN /\ mixed \in BOOLEAN
      BY <1>1, <1>2, <1>3, <1>4 DEF id, late, mixed
<1> QED BY <1>11, <1>12 DEF Delivery!Next

\* A message that is read delivers the transfer that is being received, or nothing.
LEMMA ReadDelivers ==
    ASSUME TransferInv, NEW c \in Clients, Read(c) \/ ReadOld(c)
    PROVE  Delivery!Next \/ UNCHANGED <<offers, overtaken, delivered>>
<1>1. /\ offers' = offers /\ overtaken' = overtaken
      /\ \/ delivered' = delivered
         \/ recv.active /\ Announces(offers, recv, delivered, delivered', overtaken)
      BY ReadIs, ReadOldIs DEF Progress
<1> QED BY <1>1, Announcing

\* Every step delivers or offers a transfer, or takes a session over, or does nothing that
\* FileDelivery speaks of.
LEMMA DeliveryStep ==
    TransferInv /\ [Next]_vars
      => [Delivery!Next]_<<offers, overtaken, Promises(delivered)>>
<1> SUFFICES ASSUME TransferInv, [Next]_vars
             PROVE  Delivery!Next \/ UNCHANGED <<offers, overtaken, delivered>>
    BY DEF Promises
<1>1. ASSUME NEW c \in Clients, Sender(c)
      PROVE  Delivery!Next \/ UNCHANGED <<offers, overtaken, delivered>>
      <2>1. CASE \E sizes \in Manifests : StartPaths(c, sizes)
            <3>1. PICK sizes \in Manifests : StartPaths(c, sizes)
                  BY <2>1
            <3>2. Delivery!Offer(c, sizes)
                  BY <3>1 DEF StartPaths, linkVars, receiverVars, Delivery!Offer
            <3> QED BY <3>2 DEF Delivery!Next
      <2>2. CASE Prepared(c) \/ WaitForDrain(c) \/ Pump(c) \/ ReadFailure(c) \/ CancelSend(c)
            BY <2>2 DEF Prepared, WaitForDrain, Pump, ReadFailure, CancelSend, linkVars,
                        receiverVars
      <2> QED BY <1>1, <2>1, <2>2 DEF Sender
<1>2. ASSUME NEW c \in Clients, Connection(c)
      PROVE  Delivery!Next \/ UNCHANGED <<offers, overtaken, delivered>>
      <2>1. offers' = offers /\ delivered' = delivered
            BY <1>2, DropIs DEF Connection, Cut, ClientNotices, ServerNotices, Reconnect,
                                OldSessionGone, OldSessionTimeout, senderVars, receiverVars
      <2>2. overtaken' = overtaken \/ overtaken' = overtaken \cup {c}
            BY <1>2 DEF Connection, Cut, ClientNotices, ServerNotices, Reconnect,
                        OldSessionGone, OldSessionTimeout
      <2> QED BY <2>1, <2>2 DEF Delivery!Next, Delivery!TakeOver
<1>3. CASE CancelReceive
      BY <1>3 DEF CancelReceive, Abandon, senderVars, linkVars
<1>4. CASE UNCHANGED vars
      BY <1>4 DEF vars
<1> QED BY <1>1, <1>2, <1>3, <1>4, ReadDelivers DEF Next

\* The receive session is of a connected client, unless a session that was taken over
\* began it, whatever clients do and however connections come and go.
THEOREM SourceStaysConnected == Spec => []SourceIsConnected
<1>1. TransferInv => SourceIsConnected
      BY DEF TransferInv, Received, SourceIsConnected
<1> QED BY <1>1, InitInv, InvStep, PTL DEF Spec

\* And what is announced as received is exactly what one client sent in one transfer, once
\* and in order, but for what a session that was taken over may do to the transfers of its
\* own client: FileTransfer implements FileDelivery.
THEOREM TransferDelivers == Spec => DeliversWhole
<1>1. Init => Delivery!Init
      BY DEF Init, Delivery!Init
<1>2. TransferInv /\ [Next]_vars
        => [Delivery!Next]_<<offers, overtaken, [i \in DOMAIN delivered |-> Promised(delivered[i])]>>
      BY DeliveryStep DEF Promises
<1> QED BY <1>1, <1>2, InitInv, InvStep, PTL DEF Spec, DeliversWhole, Delivery!Spec
=============================================================================
