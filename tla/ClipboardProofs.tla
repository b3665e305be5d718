-------------------------- MODULE ClipboardProofs --------------------------
(***************************************************************************)
(* The two halves of the clipboard, for all bounds.                        *)
(*                                                                         *)
(* Files (FilePaste): its types, that a peer serves what it sends, that a  *)
(* paste gets the files of its offer and that it does not wait in vain.    *)
(* Text (ClipboardSharing): its types, that the other screens follow the   *)
(* one that owns the clipboard, and that the last copy wins.               *)
(***************************************************************************)
EXTENDS FilePaste, ClipboardSharing, SiftingProofs, SequenceTheorems, TLAPS

(***************************************************************************)
(* Files.                                                                  *)
(***************************************************************************)

-----------------------------------------------------------------------------
(* Messages.                                                               *)

\* A connection has two ends.
LEMMA TwoPeers == \A p \in Peers : Other(p) \in Peers
BY DEF Peers, Other

\* The bounds are numbers, and no offer is numbered 0.
LEMMA Numbers == 0 \in Ids /\ Ids \subseteq Nat /\ Plain \in Ids
BY PasteAssumption DEF Ids, Plain

\* A control message is a message.
LEMMA ControlType ==
    ASSUME NEW id \in Ids, NEW op \in {"request", "cancel", "begin", "error", "drag", "end"}
    PROVE  Control(op, id) \in Messages
BY DEF Control, Messages

\* What sendFinished() writes are messages.
LEMMA ErrorsType ==
    ASSUME TypeOK, NEW p \in Peers
    PROVE  ErrorsOf(p) \in Seq(Messages)
<1>1. sendingId[p] \in Ids
      BY DEF TypeOK
<1>2. Control("error", sendingId[p]) \in Messages
      BY <1>1, ControlType
<1> QED BY <1>2 DEF ErrorsOf

\* Writing messages leaves messages on the way.
LEMMA WriteType ==
    ASSUME TypeOK, NEW p \in Peers, NEW messages \in Seq(Messages), Write(p, messages)
    PROVE  wire' \in [Peers -> Seq(Messages)]
<1>1. Other(p) \in Peers
      BY TwoPeers
<1>2. wire[Other(p)] \o messages \in Seq(Messages)
      BY <1>1 DEF TypeOK
<1> QED BY <1>1, <1>2 DEF Write, TypeOK

\* So does reading the first one and writing answers.
LEMMA AnswerType ==
    ASSUME TypeOK, NEW p \in Peers, NEW messages \in Seq(Messages), wire[p] # <<>>,
           Answer(p, messages)
    PROVE  wire' \in [Peers -> Seq(Messages)]
<1>1. Other(p) \in Peers
      BY TwoPeers
<1>2. wire \in [Peers -> Seq(Messages)]
      BY DEF TypeOK
<1>3. Tail(wire[p]) \in Seq(Messages)
      BY <1>2
<1>5. wire[Other(p)] \o messages \in Seq(Messages)
      BY <1>1, <1>2
<1> DEFINE S == Seq(Messages)
           rest == Tail(wire[p])
           more == wire[Other(p)] \o messages
<1>6. wire' = [wire EXCEPT ![p] = rest, ![Other(p)] = more]
      BY DEF Answer
<1>7. wire \in [Peers -> S] /\ rest \in S /\ more \in S
      BY <1>2, <1>3, <1>5
<1> HIDE DEF S, rest, more
<1>8. wire' \in [Peers -> S]
      BY <1>1, <1>6, <1>7
<1> QED BY <1>8 DEF S

\* The first message on the way is a message with an offer's number.
LEMMA HeadType ==
    ASSUME TypeOK, NEW p \in Peers, wire[p] # <<>>
    PROVE  Head(wire[p]) \in Messages /\ Head(wire[p]).id \in Ids
<1>1. Head(wire[p]) \in Messages
      BY DEF TypeOK
<1> QED BY <1>1 DEF Messages

-----------------------------------------------------------------------------
(* Types.                                                                  *)

\* The values that the variables start with have their types.
LEMMA NothingType == NoSend \in Sends /\ NoPull \in Pulls /\ NoReceive \in Receives
BY Numbers DEF NoSend, NoPull, NoReceive, Sends, Pulls, Receives

\* failed() leaves a pull whose success implies that it is done.
LEMMA FailedType ==
    ASSUME NEW pl \in Pulls, pl.success => pl.done
    PROVE  Failed(pl) \in Pulls /\ (Failed(pl).success => Failed(pl).done)
BY DEF Failed, Pulls

\* The peers start with every variable of its type.  (ClipboardFiles::ClipboardFiles.)
THEOREM PasteTypeInit == Init => TypeOK
<1> SUFFICES ASSUME Init PROVE TypeOK
    OBVIOUS
<1>1. used \in Uses
      BY PasteAssumption DEF Init, Uses
<1>2. <<>> \in Seq(Messages)
      OBVIOUS
<1>3. ~NoPull.success
      BY DEF NoPull
<1> QED BY <1>1, <1>2, <1>3, Numbers, NothingType DEF Init, TypeOK

\* Dispatching a message keeps the types.  (handle, fileOfferReceived,
\* dragInfoReceived, fileChunkReceived.)
LEMMA DispatchType ==
    ASSUME TypeOK, NEW p \in Peers, Dispatch(p)
    PROVE  TypeOK'
<1> DEFINE m == Head(wire[p])
<1>1. m \in Messages /\ m.id \in Ids /\ wire[p] # <<>>
      BY HeadType DEF Dispatch
<1>2. pull \in [Peers -> Pulls] /\ pull[p] \in Pulls /\ (pull[p].success => pull[p].done)
      BY DEF TypeOK, Pulls
<1>3. <<>> \in Seq(Messages) /\ 0 \in Ids /\ Plain \in Ids
      BY Numbers
<1>4. Failed(pull[p]) \in Pulls /\ (Failed(pull[p]).success => Failed(pull[p]).done)
      BY <1>2, FailedType
<1>5. NoReceive \in Receives /\ NoSend \in Sends /\ NoPull \in Pulls
      BY NothingType
<1>6. CASE HandleOffer(p, m)
      <2>1. wire' \in [Peers -> Seq(Messages)]
            BY <1>1, <1>3, <1>6, AnswerType DEF HandleOffer
      <2>2. m.files \in BOOLEAN
            BY <1>1, <1>6 DEF HandleOffer, Messages
      <2>3. [NoPull EXCEPT !.id = m.id] \in Pulls /\ ~[NoPull EXCEPT !.id = m.id].success
            BY <1>1, <1>3 DEF NoPull, Pulls
      <2>4. pull' \in [Peers -> Pulls] /\ \A q \in Peers : pull'[q].success => pull'[q].done
            BY <1>2, <1>5, <1>6, <2>2, <2>3 DEF HandleOffer, NoPull, TypeOK
      <2>5. recv' \in [Peers -> Receives]
            BY <1>5, <1>6 DEF HandleOffer, TypeOK
      <2> QED BY <1>3, <1>6, <2>1, <2>4, <2>5
              DEF HandleOffer, TypeOK, sendVars, resultVars
<1>7. CASE HandleRequest(p, m)
      <2>1. /\ Control("begin", m.id) \in Messages
            /\ Control("error", m.id) \in Messages
            BY <1>1, ControlType
      <2>2. wire' \in [Peers -> Seq(Messages)]
            <3>1. /\ <<Control("error", m.id)>> \in Seq(Messages)
                  /\ <<Control("begin", m.id), Control("error", m.id)>> \in Seq(Messages)
                  /\ <<Control("begin", m.id)>> \in Seq(Messages)
                  BY <2>1
            <3> QED BY <1>1, <1>7, <3>1, AnswerType DEF HandleRequest
      <2>3. /\ sendingId' \in [Peers -> Ids]
            /\ send' \in [Peers -> Sends]
            <3>1. [stage |-> "preparing", what |-> m.id] \in Sends
                  BY <1>1 DEF Sends
            <3> QED BY <1>1, <1>7, <3>1 DEF HandleRequest, TypeOK, sendVars
      <2> QED BY <1>7, <2>2, <2>3 DEF HandleRequest, TypeOK, resultVars
<1>8. CASE HandleCancel(p, m)
      <2>1. wire' \in [Peers -> Seq(Messages)]
            BY <1>1, <1>3, <1>8, AnswerType, ErrorsType DEF HandleCancel
      <2>2. /\ sendingId' \in [Peers -> Ids]
            /\ send' \in [Peers -> Sends]
            BY <1>3, <1>5, <1>8 DEF HandleCancel, TypeOK, sendVars
      <2> QED BY <1>8, <2>1, <2>2 DEF HandleCancel, TypeOK, resultVars
<1>9. CASE HandleAnswer(p, m)
      <2>1. wire' \in [Peers -> Seq(Messages)]
            BY <1>1, <1>3, <1>9, AnswerType DEF HandleAnswer
      <2>2. recv' \in [Peers -> Receives]
            BY <1>5, <1>9 DEF HandleAnswer, TypeOK
      <2>3. PICK after \in Pulls : /\ after.success => after.done
                                   /\ pull' = [pull EXCEPT ![p] = after]
            <3>1. /\ [pull[p] EXCEPT !.started = TRUE] \in Pulls
                  /\ [pull[p] EXCEPT !.started = TRUE].success
                        => [pull[p] EXCEPT !.started = TRUE].done
                  BY <1>2 DEF Pulls
            <3> QED BY <1>2, <1>4, <1>9, <3>1 DEF HandleAnswer
      <2>4. pull' \in [Peers -> Pulls] /\ \A q \in Peers : pull'[q].success => pull'[q].done
            BY <1>2, <2>3 DEF TypeOK
      <2> QED BY <1>9, <2>1, <2>2, <2>4 DEF HandleAnswer, TypeOK, sendVars, resultVars
<1>10. CASE DragInfo(p, m)
      <2>1. wire' \in [Peers -> Seq(Messages)]
            BY <1>1, <1>3, <1>10, AnswerType DEF DragInfo
      <2>2. IsWaiting(pull[p]) \in BOOLEAN
            BY DEF IsWaiting
      <2>3. recv' \in [Peers -> Receives]
            <3>1. [active |-> TRUE, what |-> m.id, private |-> IsWaiting(pull[p])] \in Receives
                  BY <1>1, <2>2 DEF Receives
            <3> QED BY <1>5, <1>10, <3>1 DEF DragInfo, TypeOK
      <2>4. pull' = pull \/ pull' = [pull EXCEPT ![p] = Failed(pull[p])]
            BY <1>10 DEF DragInfo
      <2>5. pull' \in [Peers -> Pulls] /\ \A q \in Peers : pull'[q].success => pull'[q].done
            BY <1>2, <1>4, <2>4 DEF TypeOK
      <2> QED BY <1>10, <2>1, <2>3, <2>5
              DEF DragInfo, TypeOK, sendVars, resultVars
<1>11. CASE LastChunk(p, m)
      <2>1. wire' \in [Peers -> Seq(Messages)]
            BY <1>1, <1>3, <1>11, AnswerType DEF LastChunk
      <2>2. recv' \in [Peers -> Receives]
            BY <1>5, <1>11 DEF LastChunk, TypeOK
      <2>3. announced' \subseteq [what : Ids, private : BOOLEAN]
            <3>1. recv[p].private \in BOOLEAN
                  BY DEF TypeOK, Receives
            <3> QED BY <1>1, <1>11, <3>1 DEF LastChunk, TypeOK
      <2>4. pull' \in [Peers -> Pulls] /\ \A q \in Peers : pull'[q].success => pull'[q].done
            <3>1. CASE pull' = pull
                  BY <3>1 DEF TypeOK, Pulls
            <3>2. CASE pull' = [pull EXCEPT ![p].got = m.id, ![p].success = TRUE,
                                            ![p].done = TRUE]
                  <4> DEFINE pl == [pull[p] EXCEPT !.got = m.id, !.success = TRUE,
                                                   !.done = TRUE]
                  <4>1. pl \in Pulls /\ pl.done
                        BY <1>1, <1>2 DEF Pulls
                  <4>2. pull' = [pull EXCEPT ![p] = pl]
                        BY <1>2, <3>2
                  <4> HIDE DEF pl
                  <4> QED BY <1>2, <4>1, <4>2 DEF TypeOK
            <3> QED BY <1>11, <3>1, <3>2 DEF LastChunk
      <2> QED BY <1>11, <2>1, <2>2, <2>3, <2>4 DEF LastChunk, TypeOK, sendVars
<1> QED BY <1>6, <1>7, <1>8, <1>9, <1>10, <1>11 DEF Dispatch

\* Every step keeps the types.
THEOREM PasteTypeStep == TypeOK /\ [Next]_vars => TypeOK'
<1> SUFFICES ASSUME TypeOK, [Next]_vars PROVE TypeOK'
    OBVIOUS
<1>1. CASE UNCHANGED vars
      BY <1>1 DEF TypeOK, vars, sendVars, resultVars
<1>2. ASSUME NEW p \in Peers, Dispatch(p) PROVE TypeOK'
      BY <1>2, DispatchType
<1>3. ASSUME NEW p \in Peers, NEW files \in BOOLEAN, Announce(p, files) PROVE TypeOK'
      <2> DEFINE id == used.copies + 1
      <2>1. id \in Ids /\ 0 \in Ids /\ Plain \in Ids /\ id \in 0 .. MaxCopies
            BY <1>3, Numbers, PasteAssumption DEF Announce, TypeOK, Ids, Uses
      <2>2. [op |-> "offer", id |-> id, files |-> files] \in Messages
            BY <2>1 DEF Messages
      <2>3. wire' \in [Peers -> Seq(Messages)]
            <3>1. <<[op |-> "offer", id |-> id, files |-> files]>> \in Seq(Messages)
                  BY <2>2
            <3> QED BY <1>3, <3>1, WriteType DEF Announce
      <2>4. used' \in Uses
            BY <1>3, <2>1 DEF Announce, TypeOK, Uses
      <2>5. local' \in [Peers -> Ids]
            BY <1>3, <2>1 DEF Announce, TypeOK
      <2> QED BY <1>3, <2>3, <2>4, <2>5, NothingType
              DEF Announce, TypeOK, NoPull, sendVars, resultVars
<1>4. ASSUME NEW p \in Peers, PasteBegins(p) PROVE TypeOK'
      <2>1. Control("request", pull[p].id) \in Messages
            BY ControlType DEF TypeOK, Pulls
      <2>2. wire' \in [Peers -> Seq(Messages)]
            <3>1. <<Control("request", pull[p].id)>> \in Seq(Messages)
                  BY <2>1
            <3> QED BY <1>4, <3>1, WriteType DEF PasteBegins
      <2>3. used' \in Uses
            <3>1. used \in Uses /\ used.pastes < MaxPastes
                     /\ used' = [used EXCEPT !.pastes = @ + 1]
                  BY <1>4 DEF PasteBegins, TypeOK
            <3> QED BY <3>1, PasteAssumption DEF Uses
      <2>4. pull' \in [Peers -> Pulls] /\ \A q \in Peers : pull'[q].success => pull'[q].done
            <3> DEFINE pl == [pull[p] EXCEPT !.waiting = TRUE, !.done = FALSE, !.started = FALSE]
            <3>1. pull \in [Peers -> Pulls] /\ pull[p] \in Pulls
                  BY DEF TypeOK
            <3>2. pl \in Pulls /\ pl.success = pull[p].success /\ ~pl.done
                  BY <3>1 DEF Pulls
            <3>3. pull' = [pull EXCEPT ![p] = pl]
                  BY <1>4, <3>1 DEF PasteBegins
            <3>4. ~pull[p].success
                  BY <1>4 DEF PasteBegins, TypeOK
            <3> HIDE DEF pl
            <3> QED BY <3>1, <3>2, <3>3, <3>4 DEF TypeOK
      <2> QED BY <1>4, <2>2, <2>3, <2>4 DEF PasteBegins, TypeOK, sendVars, resultVars
<1>5. ASSUME NEW p \in Peers, PasteReturns(p) PROVE TypeOK'
      <2>1. Control("cancel", pull[p].id) \in Messages
            BY ControlType DEF TypeOK, Pulls
      <2>2. wire' \in [Peers -> Seq(Messages)]
            <3>1. <<Control("cancel", pull[p].id)>> \in Seq(Messages)
                  BY <2>1
            <3>2. wire' = wire \/ Write(p, <<Control("cancel", pull[p].id)>>)
                  BY <1>5 DEF PasteReturns
            <3> QED BY <3>1, <3>2, WriteType DEF TypeOK
      <2>3. recv' \in [Peers -> Receives]
            BY <1>5, NothingType DEF PasteReturns, TypeOK
      <2>4. pasted' \subseteq [id : Ids, got : Ids]
            BY <1>5 DEF PasteReturns, TypeOK, Pulls
      <2>5. pull' \in [Peers -> Pulls] /\ \A q \in Peers : pull'[q].success => pull'[q].done
            <3> DEFINE pl == [pull[p] EXCEPT !.waiting = FALSE]
            <3>1. pull \in [Peers -> Pulls] /\ pull[p] \in Pulls
                  BY DEF TypeOK
            <3>2. pl \in Pulls /\ pl.success = pull[p].success /\ pl.done = pull[p].done
                  BY <3>1 DEF Pulls
            <3>3. pull' = [pull EXCEPT ![p] = pl]
                  BY <1>5, <3>1 DEF PasteReturns
            <3> HIDE DEF pl
            <3> QED BY <3>1, <3>2, <3>3 DEF TypeOK
      <2> QED BY <1>5, <2>2, <2>3, <2>4, <2>5 DEF PasteReturns, TypeOK, sendVars
<1>6. ASSUME NEW p \in Peers, PasteTimesOut(p) PROVE TypeOK'
      <2> DEFINE pl == [pull[p] EXCEPT !.done = TRUE]
      <2>1. pull \in [Peers -> Pulls] /\ pull[p] \in Pulls
            BY DEF TypeOK
      <2>2. pl \in Pulls /\ pl.done
            BY <2>1 DEF Pulls
      <2>3. pull' = [pull EXCEPT ![p] = pl]
            BY <1>6, <2>1 DEF PasteTimesOut
      <2> HIDE DEF pl
      <2>4. pull' \in [Peers -> Pulls] /\ \A q \in Peers : pull'[q].success => pull'[q].done
            BY <2>1, <2>2, <2>3 DEF TypeOK
      <2> QED BY <1>6, <2>4 DEF PasteTimesOut, TypeOK, sendVars, resultVars
<1>7. ASSUME NEW p \in Peers, SendPlain(p) PROVE TypeOK'
      <2>1. used' \in Uses
            <3>1. used \in Uses /\ used.plain < MaxPlain
                     /\ used' = [used EXCEPT !.plain = @ + 1]
                  BY <1>7 DEF SendPlain, TypeOK
            <3> QED BY <3>1, PasteAssumption DEF Uses
      <2>2. [stage |-> "preparing", what |-> Plain] \in Sends
            BY Numbers DEF Sends
      <2>3. send' \in [Peers -> Sends]
            BY <1>7, <2>2 DEF SendPlain, TypeOK
      <2> QED BY <1>7, <2>1, <2>3 DEF SendPlain, TypeOK, resultVars
<1>8. ASSUME NEW p \in Peers, Pump(p) PROVE TypeOK'
      <2>1. send[p].what \in Ids
            BY DEF TypeOK, Sends
      <2>2. /\ [op |-> "drag", id |-> send[p].what] \in Messages
            /\ [op |-> "end", id |-> send[p].what] \in Messages
            BY <2>1 DEF Messages
      <2>3. wire' \in [Peers -> Seq(Messages)]
            <3>1. /\ <<[op |-> "drag", id |-> send[p].what]>> \in Seq(Messages)
                  /\ <<[op |-> "end", id |-> send[p].what]>> \in Seq(Messages)
                  BY <2>2
            <3> QED BY <1>8, <3>1, ErrorsType, WriteType DEF Pump, SendEnds
      <2>4. /\ sendingId' \in [Peers -> Ids]
            /\ send' \in [Peers -> Sends]
            <3>1. [send[p] EXCEPT !.stage = "sending"] \in Sends
                  BY DEF TypeOK, Sends
            <3>2. \/ /\ send' = [send EXCEPT ![p] = [send[p] EXCEPT !.stage = "sending"]]
                     /\ UNCHANGED sendingId
                  \/ /\ send' = [send EXCEPT ![p] = NoSend]
                     /\ sendingId' = [sendingId EXCEPT ![p] = 0]
                  BY <1>8 DEF Pump, SendEnds, TypeOK
            <3> QED BY <3>1, <3>2, Numbers, NothingType DEF TypeOK
      <2> QED BY <1>8, <2>3, <2>4 DEF Pump, TypeOK, resultVars
<1>9. ASSUME NEW p \in Peers, CancelTransfer(p) PROVE TypeOK'
      <2> DEFINE cancel == IF pull[p].waiting /\ ~pull[p].done
                           THEN <<Control("cancel", pull[p].id)>> ELSE <<>>
      <2>1. Control("cancel", pull[p].id) \in Messages
            BY ControlType DEF TypeOK, Pulls
      <2>2. cancel \o ErrorsOf(p) \in Seq(Messages)
            BY <2>1, ErrorsType
      <2>3. wire' \in [Peers -> Seq(Messages)]
            BY <1>9, <2>2, WriteType DEF CancelTransfer, SendEnds
      <2>4. /\ sendingId' \in [Peers -> Ids]
            /\ send' \in [Peers -> Sends]
            BY <1>9, Numbers, NothingType DEF CancelTransfer, SendEnds, TypeOK
      <2>5. /\ pull' \in [Peers -> Pulls]
            /\ \A q \in Peers : pull'[q].success => pull'[q].done
            <3>1. pull \in [Peers -> Pulls] /\ pull[p] \in Pulls /\ (pull[p].success => pull[p].done)
                  BY DEF TypeOK
            <3>2. Failed(pull[p]) \in Pulls /\ (Failed(pull[p]).success => Failed(pull[p]).done)
                  BY <3>1, FailedType
            <3> QED BY <1>9, <3>1, <3>2 DEF CancelTransfer, TypeOK
      <2>6. used' \in Uses
            <3>1. used \in Uses /\ used.cancels < MaxCancels
                     /\ used' = [used EXCEPT !.cancels = @ + 1]
                  BY <1>9 DEF CancelTransfer, TypeOK
            <3> QED BY <3>1, PasteAssumption DEF Uses
      <2>7. recv' \in [Peers -> Receives]
            BY <1>9, NothingType DEF CancelTransfer, TypeOK
      <2> QED BY <1>9, <2>3, <2>4, <2>5, <2>6, <2>7 DEF CancelTransfer, TypeOK, resultVars
<1>10. ASSUME NEW p \in Peers, ChunkFails(p) PROVE TypeOK'
      <2>1. pull \in [Peers -> Pulls] /\ pull[p] \in Pulls /\ (pull[p].success => pull[p].done)
            BY DEF TypeOK, Pulls
      <2>2. Failed(pull[p]) \in Pulls /\ (Failed(pull[p]).success => Failed(pull[p]).done)
            BY <2>1, FailedType
      <2>3. recv' \in [Peers -> Receives]
            BY <1>10, NothingType DEF ChunkFails, TypeOK
      <2> QED BY <1>10, <2>1, <2>2, <2>3
              DEF ChunkFails, TypeOK, sendVars, resultVars
<1> QED BY <1>1, <1>2, <1>3, <1>4, <1>5, <1>6, <1>7, <1>8, <1>9, <1>10 DEF Next

\* Every variable keeps its type, whatever is copied, pasted, sent and
\* cancelled at both ends.
THEOREM PasteTypeCorrect == Spec => []TypeOK
<1> QED BY PasteTypeInit, PasteTypeStep, PTL DEF Spec

-----------------------------------------------------------------------------
(* A peer serves what it sends.                                            *)

\* Every step leaves a peer serving what it sends.
THEOREM ServesStep == TypeOK /\ ServesWhatItSends /\ [Next]_vars => ServesWhatItSends'
<1> SUFFICES ASSUME TypeOK, ServesWhatItSends, [Next]_vars PROVE ServesWhatItSends'
    OBVIOUS
<1>1. CASE UNCHANGED sendVars
      BY <1>1 DEF ServesWhatItSends, sendVars
<1>2. ASSUME NEW p \in Peers,
             \/ UNCHANGED sendVars
             \/ /\ sendingId' = [sendingId EXCEPT ![p] = 0]
                /\ send' = [send EXCEPT ![p] = NoSend]
      PROVE  ServesWhatItSends'
      <2>1. CASE UNCHANGED sendVars
            BY <1>1, <2>1
      <2>2. CASE /\ sendingId' = [sendingId EXCEPT ![p] = 0]
                 /\ send' = [send EXCEPT ![p] = NoSend]
            <3>1. sendingId'[p] = 0 /\ send'[p].stage = "idle"
                  BY <2>2 DEF TypeOK, NoSend
            <3>2. \A q \in Peers \ {p} : sendingId'[q] = sendingId[q] /\ send'[q] = send[q]
                  BY <2>2 DEF TypeOK
            <3> QED BY <3>1, <3>2 DEF ServesWhatItSends
      <2> QED BY <1>2, <2>1, <2>2
<1>3. ASSUME NEW p \in Peers, Dispatch(p) PROVE ServesWhatItSends'
      <2> DEFINE m == Head(wire[p])
      <2>1. CASE HandleRequest(p, m)
            <3>1. CASE UNCHANGED sendVars
                  BY <1>1, <3>1
            <3>2. CASE /\ sendingId' = [sendingId EXCEPT ![p] = m.id]
                       /\ send' = [send EXCEPT ![p] = [stage |-> "preparing", what |-> m.id]]
                  BY <3>2 DEF ServesWhatItSends, TypeOK
            <3> QED BY <2>1, <3>1, <3>2 DEF HandleRequest
      <2>2. CASE HandleCancel(p, m)
            BY <1>2, <2>2 DEF HandleCancel
      <2>3. CASE HandleOffer(p, m) \/ HandleAnswer(p, m) \/ DragInfo(p, m) \/ LastChunk(p, m)
            BY <1>1, <2>3 DEF HandleOffer, HandleAnswer, DragInfo, LastChunk
      <2> QED BY <1>3, <2>1, <2>2, <2>3 DEF Dispatch
<1>4. ASSUME NEW p \in Peers, SendPlain(p) PROVE ServesWhatItSends'
      BY <1>4 DEF SendPlain, ServesWhatItSends, TypeOK, Plain
<1>5. ASSUME NEW p \in Peers, Pump(p) PROVE ServesWhatItSends'
      <2>1. CASE /\ send[p].stage = "preparing"
                 /\ send' = [send EXCEPT ![p].stage = "sending"]
                 /\ UNCHANGED sendingId
            BY <2>1 DEF ServesWhatItSends, TypeOK
      <2> QED BY <1>2, <1>5, <2>1 DEF Pump, SendEnds
<1>6. ASSUME NEW p \in Peers, CancelTransfer(p) PROVE ServesWhatItSends'
      BY <1>2, <1>6 DEF CancelTransfer, SendEnds
<1>7. ASSUME NEW p \in Peers,
             \/ \E files \in BOOLEAN : Announce(p, files)
             \/ PasteBegins(p) \/ PasteReturns(p) \/ PasteTimesOut(p) \/ ChunkFails(p)
      PROVE  ServesWhatItSends'
      BY <1>1, <1>7
         DEF Announce, PasteBegins, PasteReturns, PasteTimesOut, ChunkFails, sendVars
<1>8. CASE UNCHANGED vars
      BY <1>1, <1>8 DEF vars, sendVars
<1> QED BY <1>3, <1>4, <1>5, <1>6, <1>7, <1>8 DEF Next

\* The request a peer remembers is always the one whose files it is sending,
\* for any number of copies, pastes, transfers and cancellations: a peer
\* never refuses a paste for a request that is over.  (sendFinished.)
THEOREM ServesAlways == Spec => []ServesWhatItSends
<1>1. Init => ServesWhatItSends
      BY DEF Init, ServesWhatItSends, NoSend
<1> QED BY <1>1, PasteTypeCorrect, ServesStep, PTL DEF Spec

-----------------------------------------------------------------------------
(* A paste gets its offer, and is answered.  Answers and transfers do not   *)
(* say which request they belong to; what tells them apart is their order   *)
(* on the connection.  After a "begin" for an offer, and while a begun      *)
(* paste waits, the first transfer that ends is one of that offer, and is   *)
(* taken, or an "error" for the offer comes before.                         *)

\* m is on its way.
Has(s, m) == \E i \in DOMAIN s : s[i] = m

\* What is decided by the messages after the first k of s, and by the sender,
\* which serves the given request and is at the given stage: no transfer ends
\* before one of the offer, which has been prepared for since, does.
\* active: the receiver is in a transfer before those messages.
Settled(s, k, id, active, serving, stage) ==
    \/ \E i \in DOMAIN s :
         /\ i > k /\ \A j \in DOMAIN s : k < j /\ j < i => s[j].op # "end"
         /\ \/ s[i] = Control("error", id)
            \/ /\ s[i] = Control("end", id)
               /\ active \/ \E j \in DOMAIN s : k < j /\ j < i /\ s[j].op = "drag"
    \/ /\ serving = id /\ \A j \in DOMAIN s : j > k => s[j].op # "end"
       /\ \/ stage = "preparing" \/ active
          \/ \E j \in DOMAIN s : j > k /\ s[j].op = "drag"

BeginsSettled(s, serving, stage) ==
    \A k \in DOMAIN s :
      s[k].op = "begin" =>
        s[k].id # 0 /\ Settled(s, k, s[k].id, FALSE, serving, stage)

RequestsNamed(s) == \A k \in DOMAIN s : s[k].op = "request" => s[k].id # 0

PullFits(s, pl, active, serving, stage) ==
    /\ pl.waiting => pl.id # 0
    /\ pl.success => pl.got = pl.id
    /\ IsWaiting(pl) => Settled(s, 0, pl.id, active, serving, stage)

\* The request of a paste that waits is on its way, or has been begun or refused.
RequestStands(s, back, pl) ==
    pl.waiting /\ ~pl.done =>
      \/ pl.started \/ Has(back, Control("request", pl.id))
      \/ Has(s, Control("error", pl.id)) \/ Has(s, Control("begin", pl.id))

\* One end that receives s and has sent back, and the sends of the other end.
EndFits(s, back, pl, active, serving, stage) ==
    /\ BeginsSettled(s, serving, stage)
    /\ RequestsNamed(s)
    /\ PullFits(s, pl, active, serving, stage)
    /\ RequestStands(s, back, pl)

EndsFit == \A p \in Peers :
    EndFits(wire[p], wire[Other(p)], pull[p], recv[p].active,
            sendingId[Other(p)], send[Other(p)].stage)

NoneIn(ops, ms) == \A i \in DOMAIN ms : ms[i].op \notin ops

\* What a sender may write when its request and stage change.
SendMoves(ms, serving, stage, serving2, stage2) ==
    \/ /\ NoneIn({"begin", "end"}, ms) /\ serving2 = serving
       /\ stage2 = stage \/ \E i \in DOMAIN ms : ms[i].op = "drag"
    \/ /\ NoneIn({"begin", "end"}, ms)
       /\ serving = 0 \/ Has(ms, Control("error", serving))
    \/ stage = "sending" /\ ms = <<Control("end", serving)>>
    \/ /\ serving = 0 /\ serving2 # 0 /\ stage2 = "preparing"
       /\ ms = <<Control("begin", serving2)>>
    \/ /\ serving2 = serving /\ stage2 = stage
       /\ \E id \in Ids \ {0} : ms = <<Control("begin", id), Control("error", id)>>

\* Requests that have been read are answered.
Answered(back, back2, ms) ==
    \A id \in Ids : Has(back, Control("request", id)) =>
      \/ Has(back2, Control("request", id))
      \/ Has(ms, Control("error", id)) \/ Has(ms, Control("begin", id))

\* The messages of two sequences that follow each other.
LEMMA Concatenated ==
    ASSUME NEW s \in Seq(Messages), NEW ms \in Seq(Messages)
    PROVE  /\ DOMAIN s \subseteq DOMAIN (s \o ms)
           /\ \A i \in DOMAIN s : (s \o ms)[i] = s[i]
           /\ \A i \in DOMAIN ms : Len(s) + i \in DOMAIN (s \o ms)
                                   /\ (s \o ms)[Len(s) + i] = ms[i]
           /\ \A i \in DOMAIN (s \o ms) : i \notin DOMAIN s =>
                i - Len(s) \in DOMAIN ms /\ (s \o ms)[i] = ms[i - Len(s)]
OBVIOUS

\* Control messages are told apart by what they say.
LEMMA ControlOp ==
    \A op, id : Control(op, id).op = op /\ Control(op, id).id = id
BY DEF Control

\* What is settled stays so whatever the sender does.
LEMMA SettledMoves ==
    ASSUME NEW s \in Seq(Messages), NEW ms \in Seq(Messages),
           NEW k \in Nat, k <= Len(s), NEW id, NEW active \in BOOLEAN,
           NEW serving, NEW stage, NEW serving2, NEW stage2,
           Settled(s, k, id, active, serving, stage), id # 0,
           SendMoves(ms, serving, stage, serving2, stage2)
    PROVE  Settled(s \o ms, k, id, active, serving2, stage2)
<1> DEFINE t == s \o ms
<1>1. /\ DOMAIN s \subseteq DOMAIN t
      /\ \A i \in DOMAIN s : t[i] = s[i]
      /\ \A i \in DOMAIN ms : Len(s) + i \in DOMAIN t /\ t[Len(s) + i] = ms[i]
      /\ \A i \in DOMAIN t : i \notin DOMAIN s =>
           i - Len(s) \in DOMAIN ms /\ t[i] = ms[i - Len(s)]
      BY Concatenated
<1>2. DOMAIN s = 1 .. Len(s) /\ DOMAIN ms = 1 .. Len(ms) /\ DOMAIN t \subseteq Nat
      /\ Len(s) \in Nat /\ Len(ms) \in Nat
      OBVIOUS
<1> HIDE DEF t
<1>3. CASE \E i \in DOMAIN s :
             /\ i > k /\ \A j \in DOMAIN s : k < j /\ j < i => s[j].op # "end"
             /\ \/ s[i] = Control("error", id)
                \/ /\ s[i] = Control("end", id)
                   /\ active \/ \E j \in DOMAIN s : k < j /\ j < i /\ s[j].op = "drag"
      <2>1. PICK i \in DOMAIN s :
             /\ i > k /\ \A j \in DOMAIN s : k < j /\ j < i => s[j].op # "end"
             /\ \/ s[i] = Control("error", id)
                \/ /\ s[i] = Control("end", id)
                   /\ active \/ \E j \in DOMAIN s : k < j /\ j < i /\ s[j].op = "drag"
            BY <1>3
      <2>2. i \in DOMAIN t /\ i > k /\ t[i] = s[i]
            BY <1>1, <2>1
      <2>3. \A j \in DOMAIN t : j < i => j \in DOMAIN s
            BY <1>2, SMTT(30)
      <2>4. \A j \in DOMAIN t : k < j /\ j < i => t[j].op # "end"
            BY <1>1, <2>1, <2>3
      <2>5. (\E j \in DOMAIN s : k < j /\ j < i /\ s[j].op = "drag")
              => \E j \in DOMAIN t : k < j /\ j < i /\ t[j].op = "drag"
            BY <1>1
      <2> QED BY <2>1, <2>2, <2>4, <2>5 DEF Settled, t
<1>4. CASE /\ serving = id /\ \A j \in DOMAIN s : j > k => s[j].op # "end"
           /\ \/ stage = "preparing" \/ active
              \/ \E j \in DOMAIN s : j > k /\ s[j].op = "drag"
      <2>1. (\E j \in DOMAIN s : j > k /\ s[j].op = "drag")
              => \E j \in DOMAIN s : k < j /\ t[j].op = "drag" /\ j \in DOMAIN t
            BY <1>1, <1>2
      <2>2. ASSUME NoneIn({"begin", "end"}, ms) PROVE \A j \in DOMAIN t : j > k => t[j].op # "end"
            BY <1>1, <1>4, <2>2 DEF NoneIn
      <2>3. CASE /\ NoneIn({"begin", "end"}, ms) /\ serving2 = serving
                 /\ stage2 = stage \/ \E i \in DOMAIN ms : ms[i].op = "drag"
            <3>1. (\E i \in DOMAIN ms : ms[i].op = "drag")
                    => \E j \in DOMAIN t : j > k /\ t[j].op = "drag"
                  <4> SUFFICES ASSUME NEW i \in DOMAIN ms, ms[i].op = "drag"
                               PROVE  \E j \in DOMAIN t : j > k /\ t[j].op = "drag"
                      OBVIOUS
                  <4>1. Len(s) + i \in DOMAIN t /\ t[Len(s) + i].op = "drag"
                        BY <1>1
                  <4>2. Len(s) + i > k
                        BY <1>2
                  <4> QED BY <4>1, <4>2
            <3>2. \/ stage2 = "preparing" \/ active
                  \/ \E j \in DOMAIN t : j > k /\ t[j].op = "drag"
                  BY <1>4, <2>1, <2>3, <3>1
            <3> QED BY <1>4, <2>2, <2>3, <3>2 DEF Settled, t
      <2>4. CASE NoneIn({"begin", "end"}, ms) /\ Has(ms, Control("error", id))
            <3>1. PICK i \in DOMAIN ms : ms[i] = Control("error", id)
                  BY <2>4 DEF Has
            <3>2. Len(s) + i \in DOMAIN t /\ t[Len(s) + i] = Control("error", id)
                  BY <1>1, <3>1
            <3>3. Len(s) + i > k
                  BY <1>2
            <3> QED BY <2>2, <2>4, <3>2, <3>3 DEF Settled, t
      <2>5. CASE stage = "sending" /\ ms = <<Control("end", id)>>
            <3>1. 1 \in DOMAIN ms /\ ms[1] = Control("end", id)
                  BY <2>5
            <3>2. Len(s) + 1 \in DOMAIN t /\ t[Len(s) + 1] = Control("end", id)
                  BY <1>1, <3>1
            <3>3. \A j \in DOMAIN t : k < j /\ j < Len(s) + 1 => j \in DOMAIN s
                  BY <1>2
            <3>4. \A j \in DOMAIN t : k < j /\ j < Len(s) + 1 => t[j].op # "end"
                  BY <1>1, <1>4, <3>3
            <3>5. \/ active
                  \/ \E j \in DOMAIN t : k < j /\ j < Len(s) + 1 /\ t[j].op = "drag"
                  <4>1. \A j \in DOMAIN s : j < Len(s) + 1
                        BY <1>2
                  <4> QED BY <1>4, <2>1, <2>5, <4>1
            <3>6. Len(s) + 1 > k
                  BY <1>2
            <3> QED BY <3>2, <3>4, <3>5, <3>6 DEF Settled, t
      <2>6. CASE /\ serving2 = serving /\ stage2 = stage
                 /\ \E y \in Ids \ {0} : ms = <<Control("begin", y), Control("error", y)>>
            <3>1. \A j \in DOMAIN ms : ms[j].op # "end"
                  <4>1. PICK y \in Ids \ {0} :
                             ms = <<Control("begin", y), Control("error", y)>>
                        BY <2>6
                  <4>2. \A j \in DOMAIN ms : j = 1 \/ j = 2
                        BY <4>1
                  <4>3. ms[1].op = "begin" /\ ms[2].op = "error"
                        BY <4>1, ControlOp
                  <4> QED BY <4>2, <4>3
            <3>2. \A j \in DOMAIN t : j > k => t[j].op # "end"
                  BY <1>1, <1>4, <3>1
            <3>3. \/ stage2 = "preparing" \/ active
                  \/ \E j \in DOMAIN t : j > k /\ t[j].op = "drag"
                  BY <1>4, <2>1, <2>6
            <3> QED BY <1>4, <2>6, <3>2, <3>3 DEF Settled, t
      <2> QED BY <1>4, <2>3, <2>4, <2>5, <2>6 DEF SendMoves
<1> QED BY <1>3, <1>4 DEF Settled

\* Every begin stays settled, and a new one is.
LEMMA BeginsMove ==
    ASSUME NEW s \in Seq(Messages), NEW ms \in Seq(Messages),
           NEW serving, NEW stage, NEW serving2, NEW stage2,
           BeginsSettled(s, serving, stage),
           SendMoves(ms, serving, stage, serving2, stage2)
    PROVE  BeginsSettled(s \o ms, serving2, stage2)
<1> DEFINE t == s \o ms
<1>1. /\ DOMAIN s \subseteq DOMAIN t
      /\ \A i \in DOMAIN s : t[i] = s[i]
      /\ \A i \in DOMAIN ms : Len(s) + i \in DOMAIN t /\ t[Len(s) + i] = ms[i]
      /\ \A i \in DOMAIN t : i \notin DOMAIN s =>
           i - Len(s) \in DOMAIN ms /\ t[i] = ms[i - Len(s)]
      BY Concatenated
<1>2. /\ DOMAIN s = 1 .. Len(s) /\ DOMAIN ms = 1 .. Len(ms) /\ DOMAIN t \subseteq Nat
      /\ Len(s) \in Nat /\ Len(ms) \in Nat
      OBVIOUS
<1>3. ASSUME NEW k \in DOMAIN s, t[k].op = "begin"
      PROVE  t[k].id # 0 /\ Settled(t, k, t[k].id, FALSE, serving2, stage2)
      <2>1. t[k] = s[k] /\ k \in Nat /\ k <= Len(s)
            BY <1>1, <1>2
      <2>2. s[k].id # 0 /\ Settled(s, k, s[k].id, FALSE, serving, stage)
            BY <1>3, <2>1 DEF BeginsSettled
      <2> QED BY <2>1, <2>2, SettledMoves
<1> HIDE DEF t
<1>4. ASSUME NEW k \in DOMAIN t, k \notin DOMAIN s, t[k].op = "begin"
      PROVE  t[k].id # 0 /\ Settled(t, k, t[k].id, FALSE, serving2, stage2)
      <2>1. k - Len(s) \in DOMAIN ms /\ t[k] = ms[k - Len(s)] /\ k \in Nat
            BY <1>1, <1>2, <1>4
      <2>2. CASE NoneIn({"begin", "end"}, ms)
            BY <1>4, <2>1, <2>2 DEF NoneIn
      <2>3. CASE ms = <<Control("end", serving)>>
            <3>1. k - Len(s) = 1
                  BY <2>1, <2>3
            <3>2. ms[1].op = "end"
                  BY <2>3, ControlOp
            <3> QED BY <1>4, <2>1, <3>1, <3>2
      <2>4. CASE /\ serving2 # 0 /\ stage2 = "preparing"
                 /\ ms = <<Control("begin", serving2)>>
            <3>1. k - Len(s) = 1 /\ Len(ms) = 1
                  BY <2>1, <2>4
            <3>2. t[k].id = serving2
                  BY <2>1, <2>4, <3>1, ControlOp
            <3>3. \A j \in DOMAIN t : ~(j > k)
                  BY <1>1, <1>2, <3>1
            <3> QED BY <2>4, <3>2, <3>3 DEF Settled
      <2>5. CASE \E id \in Ids \ {0} : ms = <<Control("begin", id), Control("error", id)>>
            <3>1. PICK id \in Ids \ {0} :
                       ms = <<Control("begin", id), Control("error", id)>>
                  BY <2>5
            <3>2. k - Len(s) \in {1, 2} /\ 2 \in DOMAIN ms
                  BY <2>1, <3>1
            <3>3. ms[1].op = "begin" /\ ms[1].id = id /\ ms[2].op = "error"
                  BY <3>1, ControlOp
            <3>4. k - Len(s) = 1
                  <4>1. ms[k - Len(s)].op = "begin"
                        BY <1>4, <2>1
                  <4>2. "begin" # "error"
                        OBVIOUS
                  <4> QED BY <3>2, <3>3, <4>1, <4>2
            <3>5. Len(s) + 2 \in DOMAIN t /\ t[Len(s) + 2] = Control("error", id)
                  BY <1>1, <3>1, <3>2
            <3>6. Len(s) + 2 > k /\ \A j \in DOMAIN t : ~(k < j /\ j < Len(s) + 2)
                  BY <1>2, <2>1, <3>4
            <3>7. t[k].id = id /\ id # 0
                  BY <2>1, <3>3, <3>4
            <3> QED BY <3>5, <3>6, <3>7 DEF Settled
      <2> QED BY <2>2, <2>3, <2>4, <2>5 DEF SendMoves
<1> QED BY <1>1, <1>3, <1>4 DEF BeginsSettled, t

\* What one end writes, and the requests it reads, keep the other end fitting.
LEMMA SentFits ==
    ASSUME NEW s \in Seq(Messages), NEW back \in Seq(Messages), NEW pl \in Pulls,
           NEW active \in BOOLEAN, NEW serving, NEW stage,
           EndFits(s, back, pl, active, serving, stage),
           NEW ms \in Seq(Messages), NEW back2 \in Seq(Messages),
           NEW serving2, NEW stage2,
           SendMoves(ms, serving, stage, serving2, stage2),
           RequestsNamed(ms), Answered(back, back2, ms)
    PROVE  EndFits(s \o ms, back2, pl, active, serving2, stage2)
<1>1. BeginsSettled(s \o ms, serving2, stage2)
      BY BeginsMove DEF EndFits
<1>2. /\ DOMAIN s \subseteq DOMAIN (s \o ms)
      /\ \A i \in DOMAIN s : (s \o ms)[i] = s[i]
      /\ \A i \in DOMAIN ms : Len(s) + i \in DOMAIN (s \o ms)
                              /\ (s \o ms)[Len(s) + i] = ms[i]
      /\ \A i \in DOMAIN (s \o ms) : i \notin DOMAIN s =>
           i - Len(s) \in DOMAIN ms /\ (s \o ms)[i] = ms[i - Len(s)]
      BY Concatenated
<1>3. RequestsNamed(s \o ms)
      BY <1>2 DEF EndFits, RequestsNamed
<1>4. PullFits(s \o ms, pl, active, serving2, stage2)
      <2>1. ASSUME IsWaiting(pl) PROVE Settled(s \o ms, 0, pl.id, active, serving2, stage2)
            <3>1. Settled(s, 0, pl.id, active, serving, stage) /\ pl.id # 0
                  BY <2>1 DEF EndFits, PullFits, IsWaiting
            <3>2. 0 \in Nat /\ 0 <= Len(s)
                  OBVIOUS
            <3> QED BY <3>1, <3>2, SettledMoves
      <2> QED BY <2>1 DEF EndFits, PullFits
<1>5. RequestStands(s \o ms, back2, pl)
      <2>1. \A m : Has(s, m) \/ Has(ms, m) => Has(s \o ms, m)
            BY <1>2 DEF Has
      <2>2. pl.id \in Ids
            BY DEF Pulls
      <2>3. RequestStands(s, back, pl)
            BY DEF EndFits
      <2> QED BY <2>1, <2>2, <2>3 DEF RequestStands, Answered
<1> QED BY <1>1, <1>3, <1>4, <1>5 DEF EndFits

\* What follows the first message.
LEMMA Rest ==
    ASSUME NEW s \in Seq(Messages), s # <<>>
    PROVE  /\ Tail(s) \in Seq(Messages)
           /\ \A i \in DOMAIN Tail(s) : i + 1 \in DOMAIN s /\ Tail(s)[i] = s[i + 1]
           /\ \A i \in DOMAIN s : i # 1 => i - 1 \in DOMAIN Tail(s) /\ Tail(s)[i - 1] = s[i]
           /\ 1 \in DOMAIN s /\ s[1] = Head(s)
           /\ DOMAIN Tail(s) \subseteq Nat \ {0} /\ DOMAIN s \subseteq Nat \ {0}
OBVIOUS

\* Messages stay on the way when others follow; the first one read may go.
LEMMA HasMore ==
    ASSUME NEW s \in Seq(Messages), NEW ms \in Seq(Messages), NEW m
    PROVE  Has(s, m) \/ Has(ms, m) => Has(s \o ms, m)
<1> DEFINE t == s \o ms
<1>1. /\ DOMAIN s \subseteq DOMAIN t
      /\ \A i \in DOMAIN s : t[i] = s[i]
      /\ \A i \in DOMAIN ms : Len(s) + i \in DOMAIN t /\ t[Len(s) + i] = ms[i]
      BY Concatenated
<1> HIDE DEF t
<1>2. Has(s, m) \/ Has(ms, m) => Has(t, m)
      BY <1>1 DEF Has
<1> QED BY <1>2 DEF t

\* What the rest of a queue has, the queue has.
LEMMA HasRest ==
    ASSUME NEW s \in Seq(Messages), s # <<>>, NEW m, Has(s, m), m # Head(s)
    PROVE  Has(Tail(s), m)
<1> DEFINE t == Tail(s)
<1>1. /\ \A i \in DOMAIN s : i # 1 => i - 1 \in DOMAIN t /\ t[i - 1] = s[i]
      /\ s[1] = Head(s)
      BY Rest
<1> HIDE DEF t
<1>2. Has(t, m)
      BY <1>1 DEF Has
<1> QED BY <1>2 DEF t

\* What is settled by the messages after the first is settled when it is read.
LEMMA SettledRest ==
    ASSUME NEW s \in Seq(Messages), s # <<>>, NEW k \in Nat, NEW k2 \in Nat,
           k = k2 + 1 \/ (k2 = 0 /\ k = 0),
           NEW id, NEW active \in BOOLEAN, NEW active2 \in BOOLEAN,
           NEW serving, NEW stage, Settled(s, k, id, active, serving, stage),
           k = 0 => Head(s) # Control("error", id) /\ Head(s).op # "end",
           active => active2, k = 0 /\ Head(s).op = "drag" => active2
    PROVE  Settled(Tail(s), k2, id, active2, serving, stage)
<1> DEFINE t == Tail(s)
<1>1. /\ \A i \in DOMAIN t : i + 1 \in DOMAIN s /\ t[i] = s[i + 1]
      /\ \A i \in DOMAIN s : i # 1 => i - 1 \in DOMAIN t /\ t[i - 1] = s[i]
      /\ 1 \in DOMAIN s /\ s[1] = Head(s)
      /\ DOMAIN t \subseteq Nat \ {0} /\ DOMAIN s \subseteq Nat \ {0}
      BY Rest
<1>2. Control("end", id).op = "end"
      BY ControlOp
<1> HIDE DEF t
<1>3. \A j \in DOMAIN t : j + 1 \in DOMAIN s /\ (j > k2 => j + 1 > k)
      BY <1>1
<1>4. \A j \in DOMAIN s : j > k /\ j # 1 => j - 1 \in DOMAIN t /\ t[j - 1] = s[j] /\ j - 1 > k2
      <2>1. ASSUME NEW j \in DOMAIN s, j > k, j # 1 PROVE j - 1 > k2
            <3>1. j \in Nat \ {0}
                  BY <1>1
            <3> QED BY <2>1, <3>1
      <2> QED BY <1>1, <2>1
<1>5. CASE \E i \in DOMAIN s :
             /\ i > k /\ \A j \in DOMAIN s : k < j /\ j < i => s[j].op # "end"
             /\ \/ s[i] = Control("error", id)
                \/ /\ s[i] = Control("end", id)
                   /\ active \/ \E j \in DOMAIN s : k < j /\ j < i /\ s[j].op = "drag"
      <2>1. PICK i \in DOMAIN s :
             /\ i > k /\ \A j \in DOMAIN s : k < j /\ j < i => s[j].op # "end"
             /\ \/ s[i] = Control("error", id)
                \/ /\ s[i] = Control("end", id)
                   /\ active \/ \E j \in DOMAIN s : k < j /\ j < i /\ s[j].op = "drag"
            BY <1>5
      <2>2. i # 1
            BY <1>1, <1>2, <2>1
      <2>3. i - 1 \in DOMAIN t /\ t[i - 1] = s[i] /\ i - 1 > k2
            BY <1>4, <2>1, <2>2
      <2>4. \A j \in DOMAIN t : k2 < j /\ j < i - 1 => t[j].op # "end"
            <3> SUFFICES ASSUME NEW j \in DOMAIN t, k2 < j, j < i - 1
                         PROVE  t[j].op # "end"
                OBVIOUS
            <3>1. j + 1 \in DOMAIN s /\ k < j + 1 /\ j + 1 < i
                  BY <1>1, <1>3
            <3> QED BY <1>1, <2>1, <3>1
      <2>5. (\E j \in DOMAIN s : k < j /\ j < i /\ s[j].op = "drag")
              => active2 \/ \E j \in DOMAIN t : k2 < j /\ j < i - 1 /\ t[j].op = "drag"
            <3> SUFFICES ASSUME NEW j \in DOMAIN s, k < j, j < i, s[j].op = "drag", ~active2
                         PROVE  \E h \in DOMAIN t : k2 < h /\ h < i - 1 /\ t[h].op = "drag"
                OBVIOUS
            <3>1. j # 1
                  BY <1>1
            <3>2. j - 1 \in DOMAIN t /\ t[j - 1] = s[j] /\ j - 1 > k2
                  BY <1>4, <3>1
            <3>3. j - 1 < i - 1
                  BY <1>1
            <3> QED BY <3>2, <3>3
      <2> QED BY <2>1, <2>3, <2>4, <2>5 DEF Settled, t
<1>6. CASE /\ serving = id /\ \A j \in DOMAIN s : j > k => s[j].op # "end"
           /\ \/ stage = "preparing" \/ active
              \/ \E j \in DOMAIN s : j > k /\ s[j].op = "drag"
      <2>1. \A j \in DOMAIN t : j > k2 => t[j].op # "end"
            BY <1>1, <1>3, <1>6
      <2>2. (\E j \in DOMAIN s : j > k /\ s[j].op = "drag")
              => active2 \/ \E j \in DOMAIN t : j > k2 /\ t[j].op = "drag"
            <3> SUFFICES ASSUME NEW j \in DOMAIN s, j > k, s[j].op = "drag", ~active2
                         PROVE  \E h \in DOMAIN t : h > k2 /\ t[h].op = "drag"
                OBVIOUS
            <3>1. j # 1
                  BY <1>1
            <3>2. j - 1 \in DOMAIN t /\ t[j - 1] = s[j] /\ j - 1 > k2
                  BY <1>4, <3>1
            <3> QED BY <3>2
      <2> QED BY <1>6, <2>1, <2>2 DEF Settled, t
<1> QED BY <1>5, <1>6 DEF Settled

\* The invariant of what follows the first message, which is no answer to the
\* paste and does not end it, when it is read.
LEMMA RestFits ==
    ASSUME NEW s \in Seq(Messages), s # <<>>, NEW back, NEW pl \in Pulls,
           NEW active \in BOOLEAN, NEW active2 \in BOOLEAN, NEW serving, NEW stage,
           EndFits(s, back, pl, active, serving, stage),
           pl.waiting => /\ Head(s) # Control("error", pl.id)
                         /\ Head(s) # Control("begin", pl.id),
           IsWaiting(pl) => /\ Head(s).op # "end"
                            /\ (active \/ Head(s).op = "drag") => active2
    PROVE  EndFits(Tail(s), back, pl, active2, serving, stage)
<1>1. /\ \A i \in DOMAIN Tail(s) : i + 1 \in DOMAIN s /\ Tail(s)[i] = s[i + 1]
      /\ \A i \in DOMAIN s : i # 1 => i - 1 \in DOMAIN Tail(s) /\ Tail(s)[i - 1] = s[i]
      /\ s[1] = Head(s)
      /\ DOMAIN Tail(s) \subseteq Nat \ {0}
      BY Rest
<1>2. BeginsSettled(Tail(s), serving, stage)
      <2>1. ASSUME NEW k \in DOMAIN Tail(s), Tail(s)[k].op = "begin"
            PROVE  Tail(s)[k].id # 0
                   /\ Settled(Tail(s), k, Tail(s)[k].id, FALSE, serving, stage)
            <3>1. k + 1 \in DOMAIN s /\ Tail(s)[k] = s[k + 1] /\ k \in Nat /\ k + 1 \in Nat
                  /\ k + 1 # 0
                  BY <1>1
            <3>2. s[k + 1].id # 0 /\ Settled(s, k + 1, s[k + 1].id, FALSE, serving, stage)
                  BY <2>1, <3>1 DEF EndFits, BeginsSettled
            <3>3. Settled(Tail(s), k, s[k + 1].id, FALSE, serving, stage)
                  BY <3>1, <3>2, SettledRest
            <3> QED BY <3>1, <3>2, <3>3
      <2> QED BY <2>1 DEF BeginsSettled
<1>3. RequestsNamed(Tail(s))
      BY <1>1 DEF EndFits, RequestsNamed
<1>4. PullFits(Tail(s), pl, active2, serving, stage)
      <2>1. ASSUME IsWaiting(pl) PROVE Settled(Tail(s), 0, pl.id, active2, serving, stage)
            <3>1. Settled(s, 0, pl.id, active, serving, stage) /\ pl.waiting
                  BY <2>1 DEF EndFits, PullFits, IsWaiting
            <3>2. 0 \in Nat
                  OBVIOUS
            <3> QED BY <2>1, <3>1, <3>2, SettledRest
      <2> QED BY <2>1 DEF EndFits, PullFits
<1>5. RequestStands(Tail(s), back, pl)
      <2>1. \A m : Has(s, m) /\ m # Head(s) => Has(Tail(s), m)
            BY <1>1 DEF Has
      <2> QED BY <2>1 DEF EndFits, RequestStands
<1> QED BY <1>2, <1>3, <1>4, <1>5 DEF EndFits

\* A paste that does not wait for a transfer that was begun fits, if it is over
\* or has its request on the way ...
LEMMA PullSettled ==
    ASSUME NEW s, NEW back, NEW pl, NEW active, NEW serving, NEW stage,
           EndFits(s, back, pl, active, serving, stage),
           NEW back2, NEW pl2, NEW active2,
           ~IsWaiting(pl2), pl2.waiting => pl2.id # 0, pl2.success => pl2.got = pl2.id,
           pl2.waiting => pl2.done \/ Has(back2, Control("request", pl2.id))
    PROVE  EndFits(s, back2, pl2, active2, serving, stage)
BY DEF EndFits, PullFits, RequestStands

\* ... also when the first message has been read.
LEMMA PullSettledRest ==
    ASSUME NEW s \in Seq(Messages), s # <<>>, NEW back, NEW pl, NEW active,
           NEW serving, NEW stage, EndFits(s, back, pl, active, serving, stage),
           NEW pl2, NEW active2,
           ~IsWaiting(pl2), pl2.waiting => pl2.id # 0, pl2.success => pl2.got = pl2.id,
           pl2.waiting => pl2.done
    PROVE  EndFits(Tail(s), back, pl2, active2, serving, stage)
<1> DEFINE quiet == NoPull
<1>1. quiet \in Pulls /\ ~quiet.waiting /\ ~quiet.success /\ ~IsWaiting(quiet)
      BY NothingType DEF NoPull, IsWaiting
<1>2. EndFits(s, back, quiet, FALSE, serving, stage)
      BY <1>1 DEF EndFits, PullFits, RequestStands
<1> HIDE DEF quiet
<1>3. FALSE \in BOOLEAN
      OBVIOUS
<1>4. EndFits(Tail(s), back, quiet, FALSE, serving, stage)
      BY <1>1, <1>2, <1>3, RestFits
<1> QED BY <1>4, PullSettled

\* failed() ends a paste that waits, and leaves the others alone.
LEMMA FailedFits ==
    ASSUME NEW pl \in Pulls, pl.waiting => pl.id # 0, pl.success => pl.got = pl.id
    PROVE  LET after == Failed(pl)
           IN /\ after \in Pulls /\ ~IsWaiting(after)
              /\ after.waiting => after.id # 0 /\ after.done
              /\ after.success => after.got = after.id
BY DEF Failed, Pulls, IsWaiting

\* The messages on the way and the members keep their types.
LEMMA TypedEnds ==
    ASSUME TypeOK, NEW p \in Peers
    PROVE  /\ wire[p] \in Seq(Messages) /\ pull[p] \in Pulls
           /\ recv[p].active \in BOOLEAN /\ recv[p] \in Receives
           /\ sendingId[p] \in Ids /\ send[p] \in Sends
           /\ DOMAIN wire = Peers /\ DOMAIN pull = Peers /\ DOMAIN recv = Peers
           /\ DOMAIN send = Peers /\ DOMAIN sendingId = Peers
BY DEF TypeOK, Receives

\* A step of one end, in two halves: what it makes of its own paste, and what
\* the other end is sent.
LEMMA HalvesFit ==
    ASSUME TypeOK, EndsFit, NEW p \in Peers,
           NEW s2 \in Seq(Messages), NEW ms \in Seq(Messages),
           wire' = [wire EXCEPT ![p] = s2, ![Other(p)] = @ \o ms],
           EndFits(s2, wire[Other(p)] \o ms, pull'[p], recv'[p].active,
                   sendingId[Other(p)], send[Other(p)].stage),
           \A q \in Peers \ {p} :
             /\ pull'[q] = pull[q] /\ recv'[q] = recv[q]
             /\ sendingId'[q] = sendingId[q] /\ send'[q] = send[q],
           SendMoves(ms, sendingId[p], send[p].stage, sendingId'[p], send'[p].stage),
           RequestsNamed(ms), Answered(wire[p], s2, ms)
    PROVE  EndsFit'
<1> DEFINE q == Other(p)
<1>1. q \in Peers /\ q # p /\ Other(q) = p /\ \A r \in Peers : r = p \/ r = q
      BY PasteAssumption DEF Peers, Other
<1> HIDE DEF q
<1>2. wire'[p] = s2 /\ wire'[q] = wire[q] \o ms
      <2>1. DOMAIN wire = Peers
            BY TypedEnds
      <2> QED BY <1>1, <2>1 DEF q
<1>3. EndFits(wire'[p], wire'[q], pull'[p], recv'[p].active, sendingId'[q], send'[q].stage)
      BY <1>1, <1>2 DEF q
<1>4. EndFits(wire'[q], wire'[p], pull'[q], recv'[q].active, sendingId'[p], send'[p].stage)
      <2>1. EndFits(wire[q], wire[p], pull[q], recv[q].active, sendingId[p], send[p].stage)
            BY <1>1 DEF EndsFit
      <2>2. /\ wire[q] \in Seq(Messages) /\ wire[p] \in Seq(Messages) /\ pull[q] \in Pulls
            /\ recv[q].active \in BOOLEAN
            BY <1>1, TypedEnds
      <2>3. EndFits(wire[q] \o ms, s2, pull[q], recv[q].active, sendingId'[p], send'[p].stage)
            BY <2>1, <2>2, SentFits
      <2> QED BY <1>1, <1>2, <2>3
<1>5. ASSUME NEW r \in Peers
      PROVE  EndFits(wire'[r], wire'[Other(r)], pull'[r], recv'[r].active,
                     sendingId'[Other(r)], send'[Other(r)].stage)
      BY <1>1, <1>3, <1>4 DEF q
<1> QED BY <1>5 DEF EndsFit

\* A step that writes ms and reads nothing.
LEMMA WritesFit ==
    ASSUME TypeOK, EndsFit, NEW p \in Peers, NEW ms \in Seq(Messages), Write(p, ms),
           RequestsNamed(ms),
           pull'[p] \in Pulls, recv'[p].active \in BOOLEAN,
           \/ pull'[p] = pull[p] /\ recv'[p].active = recv[p].active
           \/ /\ ~IsWaiting(pull'[p]) /\ (pull'[p].waiting => pull'[p].id # 0)
              /\ pull'[p].success => pull'[p].got = pull'[p].id
              /\ pull'[p].waiting =>
                   pull'[p].done \/ Has(ms, Control("request", pull'[p].id)),
           \A q \in Peers \ {p} :
             /\ pull'[q] = pull[q] /\ recv'[q] = recv[q]
             /\ sendingId'[q] = sendingId[q] /\ send'[q] = send[q],
           SendMoves(ms, sendingId[p], send[p].stage, sendingId'[p], send'[p].stage)
    PROVE  EndsFit'
<1> DEFINE q == Other(p)
           back == wire[q]
           s == wire[p]
<1>1. q \in Peers /\ q # p
      BY PasteAssumption DEF Peers, Other
<1>2. /\ s \in Seq(Messages) /\ back \in Seq(Messages) /\ pull[p] \in Pulls
      /\ recv[p].active \in BOOLEAN /\ DOMAIN wire = Peers
      BY <1>1, TypedEnds
<1>3. wire' = [wire EXCEPT ![p] = s, ![q] = @ \o ms]
      <2>1. wire' = [wire EXCEPT ![q] = back \o ms]
            BY DEF Write
      <2> QED BY <1>1, <1>2, <2>1
<1>4. EndFits(s, back, pull[p], recv[p].active, sendingId[q], send[q].stage)
      BY DEF EndsFit
<1>5. \A m : Has(back, m) \/ Has(ms, m) => Has(back \o ms, m)
      BY <1>2, HasMore
<1>6. EndFits(s, back \o ms, pull'[p], recv'[p].active, sendingId[q], send[q].stage)
      <2>1. CASE pull'[p] = pull[p] /\ recv'[p].active = recv[p].active
            BY <1>4, <1>5, <2>1 DEF EndFits, RequestStands
      <2>2. CASE /\ ~IsWaiting(pull'[p]) /\ (pull'[p].waiting => pull'[p].id # 0)
                 /\ pull'[p].success => pull'[p].got = pull'[p].id
                 /\ pull'[p].waiting =>
                      pull'[p].done \/ Has(ms, Control("request", pull'[p].id))
            <3> DEFINE pl2 == pull'[p]
                       active2 == recv'[p].active
                       serving == sendingId[q]
                       stage == send[q].stage
                       back2 == back \o ms
                       pl == pull[p]
                       active == recv[p].active
            <3>1. /\ ~IsWaiting(pl2) /\ (pl2.waiting => pl2.id # 0)
                  /\ pl2.success => pl2.got = pl2.id
                  /\ pl2.waiting => pl2.done \/ Has(back2, Control("request", pl2.id))
                  BY <1>5, <2>2
            <3>3. EndFits(s, back, pl, active, serving, stage)
                  BY <1>4
            <3> HIDE DEF pl2, active2, serving, stage, back2, s, back, pl, active
            <3>4. EndFits(s, back2, pl2, active2, serving, stage)
                  BY <3>1, <3>3, PullSettled
            <3> QED BY <3>4 DEF pl2, active2, serving, stage, back2
      <2> QED BY <2>1, <2>2
<1>7. Answered(wire[p], s, ms)
      BY DEF Answered
<1> QED BY <1>2, <1>3, <1>6, <1>7, HalvesFit

\* A step that reads the first message and writes ms.
LEMMA AnswersFit ==
    ASSUME TypeOK, EndsFit, NEW p \in Peers, wire[p] # <<>>,
           NEW ms \in Seq(Messages), Answer(p, ms), RequestsNamed(ms),
           pull'[p] \in Pulls, recv'[p].active \in BOOLEAN,
           EndFits(Tail(wire[p]), wire[Other(p)], pull'[p], recv'[p].active,
                   sendingId[Other(p)], send[Other(p)].stage),
           Head(wire[p]).op = "request" =>
             \/ Has(ms, Control("error", Head(wire[p]).id))
             \/ Has(ms, Control("begin", Head(wire[p]).id)),
           \A q \in Peers \ {p} :
             /\ pull'[q] = pull[q] /\ recv'[q] = recv[q]
             /\ sendingId'[q] = sendingId[q] /\ send'[q] = send[q],
           SendMoves(ms, sendingId[p], send[p].stage, sendingId'[p], send'[p].stage)
    PROVE  EndsFit'
<1> DEFINE q == Other(p)
           back == wire[q]
           s == wire[p]
<1>1. q \in Peers
      BY TwoPeers
<1>2. s \in Seq(Messages) /\ back \in Seq(Messages)
      BY <1>1, TypedEnds
<1>3. Tail(s) \in Seq(Messages)
      BY <1>2
<1>4. \A m : Has(back, m) => Has(back \o ms, m)
      BY <1>2, HasMore
<1>5. EndFits(Tail(s), back \o ms, pull'[p], recv'[p].active, sendingId[q], send[q].stage)
      BY <1>4 DEF EndFits, RequestStands
<1>6. Answered(s, Tail(s), ms)
      <2>1. \A m : Has(s, m) /\ m # Head(s) => Has(Tail(s), m)
            BY <1>2, HasRest
      <2> QED BY <2>1, ControlOp DEF Answered
<1>7. wire' = [wire EXCEPT ![p] = Tail(s), ![Other(p)] = @ \o ms]
      BY DEF Answer
<1> QED BY <1>3, <1>5, <1>6, <1>7, HalvesFit

\* Who says nothing changes nothing.
LEMMA SilenceMoves ==
    /\ <<>> \in Seq(Messages) /\ RequestsNamed(<<>>)
    /\ \A serving, stage : SendMoves(<<>>, serving, stage, serving, stage)
BY DEF RequestsNamed, SendMoves, NoneIn

\* sendFinished(false) ends the request that is served.
LEMMA ErrorsMove ==
    ASSUME TypeOK, NEW p \in Peers
    PROVE  /\ ErrorsOf(p) \in Seq(Messages) /\ RequestsNamed(ErrorsOf(p))
           /\ \A stage, serving2, stage2 :
                SendMoves(ErrorsOf(p), sendingId[p], stage, serving2, stage2)
<1> DEFINE e == Control("error", sendingId[p])
<1>1. CASE sendingId[p] = 0
      <2>1. ErrorsOf(p) = <<>>
            BY <1>1 DEF ErrorsOf
      <2>2. NoneIn({"begin", "end"}, <<>>)
            BY DEF NoneIn
      <2> QED BY <1>1, <2>1, <2>2, SilenceMoves DEF SendMoves
<1>2. CASE sendingId[p] # 0
      <2>1. ErrorsOf(p) = <<e>>
            BY <1>2 DEF ErrorsOf
      <2>2. e.op = "error"
            BY ControlOp
      <2> HIDE DEF e
      <2>3. NoneIn({"begin", "end"}, <<e>>) /\ RequestsNamed(<<e>>) /\ Has(<<e>>, e)
            BY <2>2 DEF NoneIn, RequestsNamed, Has
      <2> QED BY <2>1, <2>3, ErrorsType DEF SendMoves, e
<1> QED BY <1>1, <1>2

\* When the first message is the end of a transfer, a paste that waits takes it,
\* and it is of the paste's offer.
LEMMA FirstEnd ==
    ASSUME NEW s \in Seq(Messages), s # <<>>, Head(s).op = "end",
           NEW id, NEW active \in BOOLEAN, NEW serving, NEW stage,
           Settled(s, 0, id, active, serving, stage)
    PROVE  active /\ Head(s).id = id
<1>1. 1 \in DOMAIN s /\ s[1] = Head(s) /\ DOMAIN s \subseteq Nat \ {0}
      BY Rest
<1>2. PICK i \in DOMAIN s :
        /\ i > 0 /\ \A j \in DOMAIN s : 0 < j /\ j < i => s[j].op # "end"
        /\ \/ s[i] = Control("error", id)
           \/ /\ s[i] = Control("end", id)
              /\ active \/ \E j \in DOMAIN s : 0 < j /\ j < i /\ s[j].op = "drag"
      BY <1>1 DEF Settled
<1>3. i = 1
      <2>1. ~(1 < i)
            BY <1>1, <1>2
      <2> QED BY <1>1, <2>1
<1>4. s[1] = Control("end", id)
      BY <1>1, <1>2, <1>3, ControlOp
<1>5. ~ \E j \in DOMAIN s : 0 < j /\ j < i /\ s[j].op = "drag"
      BY <1>1, <1>3
<1> QED BY <1>1, <1>2, <1>3, <1>4, <1>5, ControlOp

\* Reading an answer.  (handle of begin and error.)
LEMMA AnswerFits ==
    ASSUME TypeOK, TypeOK', EndsFit, NEW p \in Peers, wire[p] # <<>>, ~Returning(p),
           HandleAnswer(p, Head(wire[p]))
    PROVE  EndFits(Tail(wire[p]), wire[Other(p)], pull'[p], recv'[p].active,
                   sendingId[Other(p)], send[Other(p)].stage)
<1> DEFINE s == wire[p]
           m == Head(s)
           pl == pull[p]
           pl2 == pull'[p]
           active == recv[p].active
           active2 == recv'[p].active
           back == wire[Other(p)]
           serving == sendingId[Other(p)]
           stage == send[Other(p)].stage
           mine == pl.waiting /\ m.id = pl.id
           after == IF ~mine THEN pl
                    ELSE IF m.op = "begin" THEN [pl EXCEPT !.started = TRUE]
                    ELSE Failed(pl)
<1>1. /\ s \in Seq(Messages) /\ s # <<>> /\ pl \in Pulls /\ pl2 \in Pulls
      /\ active \in BOOLEAN /\ active2 \in BOOLEAN /\ back \in Seq(Messages)
      BY TwoPeers DEF TypeOK, Receives
<1>2. EndFits(s, back, pl, active, serving, stage)
      BY DEF EndsFit
<1>3. pl2 = after /\ m.op \in {"begin", "error"}
      BY DEF HandleAnswer, TypeOK
<1>4. ~(pl.waiting /\ pl.done)
      BY DEF Returning
<1>5. ~(IsWaiting(pl) /\ ~IsWaiting(after)) => active2 = active
      BY DEF HandleAnswer
<1>6. (pl.waiting => pl.id # 0) /\ (pl.success => pl.got = pl.id)
      BY <1>2 DEF EndFits, PullFits
<1>7. m.op = Head(s).op
      OBVIOUS
<1>8. CASE ~mine
      <2>1. pl2 = pl /\ active2 = active
            BY <1>3, <1>5, <1>8
      <2>2. pl.waiting => /\ Head(s) # Control("error", pl.id)
                          /\ Head(s) # Control("begin", pl.id)
            BY <1>8, ControlOp
      <2>3. Head(s).op # "end" /\ Head(s).op # "drag"
            BY <1>3
      <2> HIDE DEF s, pl, pl2, active, active2, back, serving, stage, m, mine, after
      <2>4. EndFits(Tail(s), back, pl, active, serving, stage)
            BY <1>1, <1>2, <2>2, <2>3, RestFits
      <2> QED BY <2>1, <2>4 DEF s, pl2, active2, back, serving, stage
<1>9. CASE mine /\ m.op = "begin"
      <2>1. pl2 = [pl EXCEPT !.started = TRUE]
            BY <1>3, <1>9
      <2>2. /\ pl2.waiting /\ pl2.started /\ pl2.id = pl.id /\ ~pl2.done
            /\ pl2.success = pl.success /\ pl2.got = pl.got
            BY <1>1, <1>4, <1>9, <2>1 DEF Pulls
      <2>3. IsWaiting(pl2)
            BY <2>2 DEF IsWaiting
      <2>4. active2 = active
            BY <1>3, <1>5, <2>3
      <2>5. m.id = pl.id /\ m.op = "begin" /\ pl.waiting
            BY <1>9
      <2>6. 1 \in DOMAIN s /\ s[1] = m
            BY <1>1
      <2> HIDE DEF s, pl, pl2, active, active2, back, serving, stage, m, mine, after
      <2>7. Settled(s, 1, pl.id, FALSE, serving, stage)
            BY <1>2, <2>5, <2>6 DEF EndFits, BeginsSettled
      <2>8. 1 \in Nat /\ 0 \in Nat /\ 1 = 0 + 1 /\ 1 # 0 /\ FALSE \in BOOLEAN
            OBVIOUS
      <2>9. Settled(Tail(s), 0, pl.id, active, serving, stage)
            BY <1>1, <2>7, <2>8, SettledRest
      <2>10. ~IsWaiting(NoPull) /\ ~NoPull.waiting /\ ~NoPull.success
            BY DEF NoPull, IsWaiting
      <2>11. EndFits(Tail(s), back, NoPull, FALSE, serving, stage)
            BY <1>1, <1>2, <2>10, PullSettledRest
      <2>12. EndFits(Tail(s), back, pl2, active2, serving, stage)
            BY <1>6, <2>2, <2>4, <2>5, <2>9, <2>11 DEF EndFits, PullFits, RequestStands
      <2> QED BY <2>12 DEF s, pl2, active2, back, serving, stage
<1>10. CASE mine /\ m.op # "begin"
      <2>1. pl2 = Failed(pl)
            BY <1>3, <1>10
      <2> HIDE DEF s, pl, pl2, active, active2, back, serving, stage, m, mine, after
      <2>2. /\ ~IsWaiting(pl2) /\ (pl2.waiting => pl2.id # 0 /\ pl2.done)
            /\ pl2.success => pl2.got = pl2.id
            BY <1>1, <1>6, <2>1, FailedFits
      <2>3. EndFits(Tail(s), back, pl2, active2, serving, stage)
            BY <1>1, <1>2, <2>2, PullSettledRest
      <2> QED BY <2>3 DEF s, pl2, active2, back, serving, stage
<1> QED BY <1>8, <1>9, <1>10

\* Reading what tells of a transfer.  (dragInfoReceived, fileChunkReceived.)
LEMMA TransferFits ==
    ASSUME TypeOK, TypeOK', EndsFit, NEW p \in Peers, wire[p] # <<>>,
           DragInfo(p, Head(wire[p])) \/ LastChunk(p, Head(wire[p]))
    PROVE  EndFits(Tail(wire[p]), wire[Other(p)], pull'[p], recv'[p].active,
                   sendingId[Other(p)], send[Other(p)].stage)
<1> DEFINE s == wire[p]
           m == Head(s)
           pl == pull[p]
           pl2 == pull'[p]
           active == recv[p].active
           active2 == recv'[p].active
           back == wire[Other(p)]
           serving == sendingId[Other(p)]
           stage == send[Other(p)].stage
           goal == EndFits(Tail(s), back, pl2, active2, serving, stage)
<1>1. /\ s \in Seq(Messages) /\ s # <<>> /\ pl \in Pulls /\ pl2 \in Pulls
      /\ active \in BOOLEAN /\ active2 \in BOOLEAN /\ back \in Seq(Messages)
      BY TwoPeers DEF TypeOK, Receives
<1>2. EndFits(s, back, pl, active, serving, stage)
      BY DEF EndsFit
<1>3. (pl.waiting => pl.id # 0) /\ (pl.success => pl.got = pl.id)
      BY <1>2 DEF EndFits, PullFits
<1>4. \A id : Control("error", id).op = "error" /\ Control("begin", id).op = "begin"
      BY ControlOp
<1>5. ASSUME pl2 = Failed(pl) PROVE goal
      <2> HIDE DEF s, pl, pl2, active, active2, back, serving, stage, m
      <2>1. /\ ~IsWaiting(pl2) /\ (pl2.waiting => pl2.id # 0 /\ pl2.done)
            /\ pl2.success => pl2.got = pl2.id
            BY <1>1, <1>3, <1>5, FailedFits
      <2> QED BY <1>1, <1>2, <2>1, PullSettledRest
<1>6. ASSUME m.op = "drag", pl2 = pl, active2 PROVE goal
      <2>1. Head(s).op = "drag"
            BY <1>6
      <2> HIDE DEF s, pl, pl2, active, active2, back, serving, stage, m
      <2>2. EndFits(Tail(s), back, pl, active2, serving, stage)
            BY <1>1, <1>2, <1>4, <1>6, <2>1, RestFits
      <2> QED BY <1>6, <2>2
<1>7. ASSUME m.op = "end", pl2 = pl, ~IsWaiting(pl) PROVE goal
      <2>1. Head(s).op = "end"
            BY <1>7
      <2> HIDE DEF s, pl, pl2, active, active2, back, serving, stage, m
      <2>2. EndFits(Tail(s), back, pl, active2, serving, stage)
            BY <1>1, <1>2, <1>4, <1>7, <2>1, RestFits
      <2> QED BY <1>7, <2>2
<1>8. ASSUME m.op = "end", IsWaiting(pl) PROVE active /\ m.id = pl.id
      <2>1. Head(s).op = "end" /\ m.id = Head(s).id
            BY <1>8
      <2> HIDE DEF s, pl, pl2, active, active2, back, serving, stage, m
      <2>2. Settled(s, 0, pl.id, active, serving, stage)
            BY <1>2, <1>8 DEF EndFits, PullFits
      <2> QED BY <1>1, <2>1, <2>2, FirstEnd
<1>9. ASSUME m.op = "end", IsWaiting(pl),
             pl2 = [pl EXCEPT !.got = m.id, !.success = TRUE, !.done = TRUE]
      PROVE  goal
      <2>1. m.id = pl.id
            BY <1>8, <1>9
      <2>2. pl2.got = m.id /\ pl2.done /\ pl2.id = pl.id /\ pl2.waiting = pl.waiting
            BY <1>1, <1>9 DEF Pulls
      <2> HIDE DEF s, pl, pl2, active, active2, back, serving, stage, m
      <2>3. ~IsWaiting(pl2) /\ pl2.got = pl2.id /\ (pl2.waiting => pl2.id # 0)
            BY <1>3, <2>1, <2>2 DEF IsWaiting
      <2> QED BY <1>1, <1>2, <2>2, <2>3, PullSettledRest
<1>10. CASE DragInfo(p, m)
      <2>1. CASE /\ recv' = [recv EXCEPT ![p] = [active |-> TRUE, what |-> m.id,
                                                 private |-> IsWaiting(pull[p])]]
                 /\ UNCHANGED pull
            <3>1. active2 /\ pl2 = pl /\ m.op = "drag"
                  BY <1>10, <2>1 DEF DragInfo, TypeOK
            <3> QED BY <1>6, <3>1
      <2>2. CASE pull' = [pull EXCEPT ![p] = Failed(@)]
            <3>1. pl2 = Failed(pl)
                  BY <2>2 DEF TypeOK
            <3> QED BY <1>5, <3>1
      <2> QED BY <1>10, <2>1, <2>2 DEF DragInfo
<1>11. CASE LastChunk(p, m)
      <2>1. m.op = "end"
            BY <1>11 DEF LastChunk
      <2>2. CASE ~active /\ UNCHANGED pull
            <3>1. ~IsWaiting(pl) /\ pl2 = pl
                  BY <1>8, <2>1, <2>2
            <3> QED BY <1>7, <2>1, <3>1
      <2>3. CASE /\ IsWaiting(pull[p])
                 /\ pull' = [pull EXCEPT ![p].got = m.id, ![p].success = TRUE,
                                         ![p].done = TRUE]
            <3>1. pl2 = [pl EXCEPT !.got = m.id, !.success = TRUE, !.done = TRUE]
                  BY <2>3 DEF TypeOK
            <3> QED BY <1>9, <2>1, <2>3, <3>1
      <2>4. CASE ~IsWaiting(pull[p]) /\ UNCHANGED pull
            <3>1. ~IsWaiting(pl) /\ pl2 = pl
                  BY <2>4
            <3> QED BY <1>7, <2>1, <3>1
      <2> QED BY <1>11, <2>2, <2>3, <2>4 DEF LastChunk
<1> QED BY <1>10, <1>11

\* Dispatching a message keeps both ends fitting.
LEMMA DispatchFits ==
    ASSUME TypeOK, TypeOK', EndsFit, NEW p \in Peers, Dispatch(p)
    PROVE  EndsFit'
<1> DEFINE s == wire[p]
           m == Head(s)
           q == Other(p)
           back == wire[q]
<1>1. /\ s \in Seq(Messages) /\ wire[p] # <<>> /\ ~Returning(p)
      /\ m \in Messages /\ m.id \in Ids
      BY HeadType DEF Dispatch, TypeOK
<1>2. /\ pull[p] \in Pulls /\ pull'[p] \in Pulls
      /\ recv[p].active \in BOOLEAN /\ recv'[p].active \in BOOLEAN
      BY DEF TypeOK, Receives
<1>3. EndFits(s, back, pull[p], recv[p].active, sendingId[q], send[q].stage)
      BY DEF EndsFit
<1>4. \A id : /\ Control("error", id).op = "error" /\ Control("begin", id).op = "begin"
              /\ Control("error", id).id = id /\ Control("begin", id).id = id
      BY ControlOp
<1>5. CASE HandleOffer(p, m)
      <2>1. /\ ~pull'[p].waiting /\ ~pull'[p].success /\ Answer(p, <<>>)
            /\ UNCHANGED sendVars /\ m.op = "offer"
            BY <1>5 DEF HandleOffer, NoPull, TypeOK
      <2>2. ~IsWaiting(pull'[p])
            BY <2>1 DEF IsWaiting
      <2>3. EndFits(Tail(s), back, pull'[p], recv'[p].active, sendingId[q], send[q].stage)
            BY <1>1, <1>3, <2>1, <2>2, PullSettledRest
      <2>4. \A r \in Peers \ {p} : pull'[r] = pull[r] /\ recv'[r] = recv[r]
            BY <1>5 DEF HandleOffer, TypeOK
      <2> QED BY <1>1, <1>2, <2>1, <2>3, <2>4, SilenceMoves, AnswersFit DEF sendVars
<1>6. CASE HandleRequest(p, m)
      <2>1. m.op = "request" /\ pull' = pull /\ recv' = recv
            BY <1>6 DEF HandleRequest
      <2>2. m.id # 0
            <3>1. 1 \in DOMAIN s /\ s[1] = m
                  BY <1>1
            <3> QED BY <1>3, <2>1, <3>1 DEF EndFits, RequestsNamed
      <2>3. EndFits(Tail(s), back, pull'[p], recv'[p].active, sendingId[q], send[q].stage)
            BY <1>1, <1>2, <1>3, <1>4, <2>1, RestFits
      <2> DEFINE e == Control("error", m.id)
                 b == Control("begin", m.id)
      <2>4. e \in Messages /\ b \in Messages /\ e.op = "error" /\ b.op = "begin"
            BY <1>1, <1>4, ControlType
      <2>5. ASSUME Answer(p, <<e>>), UNCHANGED sendVars PROVE EndsFit'
            <3> HIDE DEF e
            <3>1. NoneIn({"begin", "end"}, <<e>>) /\ RequestsNamed(<<e>>)
                  /\ Has(<<e>>, e) /\ <<e>> \in Seq(Messages)
                  BY <2>4 DEF NoneIn, RequestsNamed, Has
            <3>2. SendMoves(<<e>>, sendingId[p], send[p].stage, sendingId'[p], send'[p].stage)
                  BY <2>5, <3>1 DEF SendMoves, sendVars
            <3> QED BY <1>1, <1>2, <2>1, <2>3, <2>5, <3>1, <3>2, AnswersFit DEF e, sendVars
      <2>6. ASSUME Answer(p, <<b, e>>), UNCHANGED sendVars PROVE EndsFit'
            <3>1. SendMoves(<<b, e>>, sendingId[p], send[p].stage, sendingId'[p], send'[p].stage)
                  BY <1>1, <2>2, <2>6 DEF SendMoves, sendVars
            <3> HIDE DEF e, b
            <3>2. RequestsNamed(<<b, e>>) /\ Has(<<b, e>>, e) /\ <<b, e>> \in Seq(Messages)
                  BY <2>4 DEF RequestsNamed, Has
            <3> QED BY <1>1, <1>2, <2>1, <2>3, <2>6, <3>1, <3>2, AnswersFit DEF e, sendVars
      <2>7. ASSUME Answer(p, <<b>>), sendingId[p] = 0,
                   sendingId' = [sendingId EXCEPT ![p] = m.id],
                   send' = [send EXCEPT ![p] = [stage |-> "preparing", what |-> m.id]]
            PROVE  EndsFit'
            <3>1. sendingId'[p] = m.id /\ send'[p].stage = "preparing"
                  BY <2>7 DEF TypeOK
            <3>2. SendMoves(<<b>>, sendingId[p], send[p].stage, sendingId'[p], send'[p].stage)
                  BY <2>2, <2>7, <3>1 DEF SendMoves
            <3>3. \A r \in Peers \ {p} : sendingId'[r] = sendingId[r] /\ send'[r] = send[r]
                  BY <2>7 DEF TypeOK
            <3> HIDE DEF b
            <3>4. RequestsNamed(<<b>>) /\ Has(<<b>>, b) /\ <<b>> \in Seq(Messages)
                  BY <2>4 DEF RequestsNamed, Has
            <3> QED BY <1>1, <1>2, <2>1, <2>3, <2>7, <3>2, <3>3, <3>4, AnswersFit DEF b
      <2> QED BY <1>6, <2>5, <2>6, <2>7 DEF HandleRequest
<1>7. CASE HandleCancel(p, m)
      <2>1. m.op = "cancel" /\ pull' = pull /\ recv' = recv
            BY <1>7 DEF HandleCancel
      <2>2. EndFits(Tail(s), back, pull'[p], recv'[p].active, sendingId[q], send[q].stage)
            BY <1>1, <1>2, <1>3, <1>4, <2>1, RestFits
      <2>3. CASE m.id = sendingId[p]
            <3>1. /\ Answer(p, ErrorsOf(p))
                  /\ \A r \in Peers \ {p} : sendingId'[r] = sendingId[r] /\ send'[r] = send[r]
                  BY <1>7, <2>3 DEF HandleCancel, TypeOK
            <3>2. /\ ErrorsOf(p) \in Seq(Messages) /\ RequestsNamed(ErrorsOf(p))
                  /\ SendMoves(ErrorsOf(p), sendingId[p], send[p].stage,
                               sendingId'[p], send'[p].stage)
                  BY ErrorsMove
            <3> QED BY <1>1, <1>2, <2>1, <2>2, <3>1, <3>2, AnswersFit
      <2>4. CASE m.id # sendingId[p]
            <3>1. Answer(p, <<>>) /\ UNCHANGED sendVars
                  BY <1>7, <2>4 DEF HandleCancel
            <3> QED BY <1>1, <1>2, <2>1, <2>2, <3>1, SilenceMoves, AnswersFit DEF sendVars
      <2> QED BY <2>3, <2>4
<1>8. CASE HandleAnswer(p, m) \/ DragInfo(p, m) \/ LastChunk(p, m)
      <2>1. EndFits(Tail(s), back, pull'[p], recv'[p].active, sendingId[q], send[q].stage)
            BY <1>1, <1>8, AnswerFits, TransferFits
      <2>2. Answer(p, <<>>) /\ UNCHANGED sendVars /\ m.op # "request"
            BY <1>8 DEF HandleAnswer, DragInfo, LastChunk, sendVars
      <2>3. \A r \in Peers \ {p} : pull'[r] = pull[r] /\ recv'[r] = recv[r]
            BY <1>8 DEF HandleAnswer, DragInfo, LastChunk, TypeOK
      <2> QED BY <1>1, <1>2, <2>1, <2>2, <2>3, SilenceMoves, AnswersFit DEF sendVars
<1> QED BY <1>5, <1>6, <1>7, <1>8 DEF Dispatch

\* Every step keeps both ends fitting.
LEMMA FitsStep == TypeOK /\ TypeOK' /\ ServesWhatItSends /\ EndsFit /\ [Next]_vars => EndsFit'
<1> SUFFICES ASSUME TypeOK, TypeOK', ServesWhatItSends, EndsFit, [Next]_vars PROVE EndsFit'
    OBVIOUS
<1>1. CASE UNCHANGED vars
      BY <1>1 DEF EndsFit, vars, sendVars, resultVars
<1>2. ASSUME NEW p \in Peers, Dispatch(p) PROVE EndsFit'
      BY <1>2, DispatchFits
<1>3. ASSUME NEW p \in Peers
      PROVE  /\ pull[p] \in Pulls /\ pull'[p] \in Pulls /\ pull[p].id \in Ids
             /\ recv[p].active \in BOOLEAN /\ recv'[p].active \in BOOLEAN
             /\ (pull[p].waiting => pull[p].id # 0)
             /\ (pull[p].success => pull[p].got = pull[p].id /\ pull[p].done)
      BY DEF TypeOK, Pulls, Receives, EndsFit, EndFits, PullFits
<1>4. ASSUME NEW p \in Peers, NEW files \in BOOLEAN, Announce(p, files) PROVE EndsFit'
      <2> DEFINE o == [op |-> "offer", id |-> used.copies + 1, files |-> files]
      <2>1. used.copies + 1 \in Ids
            BY <1>4 DEF Announce, TypeOK, Uses, Ids
      <2>2. o \in Messages /\ o.op = "offer"
            BY <2>1 DEF Messages
      <2>3. /\ Write(p, <<o>>) /\ UNCHANGED sendVars /\ recv' = recv
            /\ \A r \in Peers \ {p} : pull'[r] = pull[r]
            /\ ~pull'[p].waiting /\ ~pull'[p].success
            BY <1>4 DEF Announce, NoPull, TypeOK
      <2> HIDE DEF o
      <2>4. <<o>> \in Seq(Messages) /\ RequestsNamed(<<o>>) /\ NoneIn({"begin", "end"}, <<o>>)
            BY <2>2 DEF RequestsNamed, NoneIn
      <2>5. SendMoves(<<o>>, sendingId[p], send[p].stage, sendingId'[p], send'[p].stage)
            BY <2>3, <2>4 DEF SendMoves, sendVars
      <2>6. ~IsWaiting(pull'[p])
            BY <2>3 DEF IsWaiting
      <2> QED BY <1>3, <2>3, <2>4, <2>5, <2>6, WritesFit DEF sendVars
<1>5. ASSUME NEW p \in Peers, PasteBegins(p) PROVE EndsFit'
      <2> DEFINE r == Control("request", pull[p].id)
      <2>1. r \in Messages /\ r.op = "request" /\ r.id = pull[p].id
            BY <1>3, ControlType, ControlOp
      <2>2. /\ Write(p, <<r>>) /\ UNCHANGED sendVars /\ recv' = recv /\ pull[p].id # 0
            /\ ~pull[p].success
            BY <1>3, <1>5 DEF PasteBegins
      <2>3. /\ \A o \in Peers \ {p} : pull'[o] = pull[o]
            /\ ~pull'[p].started /\ pull'[p].id = pull[p].id
            /\ pull'[p].success = pull[p].success
            BY <1>5 DEF PasteBegins, TypeOK, Pulls
      <2> HIDE DEF r
      <2>4. /\ <<r>> \in Seq(Messages) /\ RequestsNamed(<<r>>) /\ Has(<<r>>, r)
            /\ NoneIn({"begin", "end"}, <<r>>)
            BY <2>1, <2>2 DEF RequestsNamed, NoneIn, Has
      <2>5. SendMoves(<<r>>, sendingId[p], send[p].stage, sendingId'[p], send'[p].stage)
            BY <2>2, <2>4 DEF SendMoves, sendVars
      <2>6. ~IsWaiting(pull'[p]) /\ Has(<<r>>, Control("request", pull'[p].id))
            BY <2>3, <2>4 DEF IsWaiting, r
      <2> QED BY <1>3, <2>2, <2>3, <2>4, <2>5, <2>6, WritesFit DEF sendVars
<1>6. ASSUME NEW p \in Peers, Write(p, <<>>), UNCHANGED sendVars, recv' = recv,
             \A o \in Peers \ {p} : pull'[o] = pull[o],
             /\ ~IsWaiting(pull'[p]) /\ (pull'[p].waiting => pull'[p].id # 0 /\ pull'[p].done)
             /\ pull'[p].success => pull'[p].got = pull'[p].id
      PROVE  EndsFit'
      BY <1>3, <1>6, SilenceMoves, WritesFit DEF sendVars
<1>7. ASSUME NEW p \in Peers, UNCHANGED wire PROVE Write(p, <<>>)
      <2>1. wire[Other(p)] \in Seq(Messages) /\ wire \in [Peers -> Seq(Messages)]
            BY TwoPeers DEF TypeOK
      <2>2. wire[Other(p)] \o <<>> = wire[Other(p)]
            BY <2>1
      <2>3. wire = [wire EXCEPT ![Other(p)] = wire[Other(p)]]
            BY <2>1
      <2> QED BY <1>7, <2>2, <2>3 DEF Write
<1>8. ASSUME NEW p \in Peers, PasteReturns(p) PROVE EndsFit'
      <2>1. /\ ~pull'[p].waiting /\ pull'[p].success = pull[p].success
            /\ pull'[p].got = pull[p].got /\ pull'[p].id = pull[p].id
            /\ \A o \in Peers \ {p} : pull'[o] = pull[o]
            BY <1>8 DEF PasteReturns, TypeOK, Pulls
      <2>2. ~IsWaiting(pull'[p])
            BY <2>1 DEF IsWaiting
      <2>3. UNCHANGED sendVars
            BY <1>8 DEF PasteReturns
      <2>4. CASE recv' = recv /\ wire' = wire
            BY <1>3, <1>6, <1>7, <2>1, <2>2, <2>3, <2>4
      <2>5. CASE /\ recv' = [recv EXCEPT ![p] = NoReceive]
                 /\ Write(p, <<Control("cancel", pull[p].id)>>)
            <3> DEFINE c == Control("cancel", pull[p].id)
            <3>1. c \in Messages /\ c.op = "cancel"
                  BY <1>3, ControlType, ControlOp
            <3>2. \A o \in Peers \ {p} : recv'[o] = recv[o]
                  BY <2>5 DEF TypeOK
            <3> HIDE DEF c
            <3>3. /\ <<c>> \in Seq(Messages) /\ RequestsNamed(<<c>>)
                  /\ NoneIn({"begin", "end"}, <<c>>)
                  BY <3>1 DEF RequestsNamed, NoneIn
            <3>4. SendMoves(<<c>>, sendingId[p], send[p].stage, sendingId'[p], send'[p].stage)
                  BY <2>3, <3>3 DEF SendMoves, sendVars
            <3>5. Write(p, <<c>>)
                  BY <2>5 DEF c
            <3> QED BY <1>3, <2>1, <2>2, <2>3, <3>2, <3>3, <3>4, <3>5, WritesFit DEF sendVars
      <2> QED BY <1>8, <2>4, <2>5 DEF PasteReturns
<1>9. ASSUME NEW p \in Peers, PasteTimesOut(p) PROVE EndsFit'
      <2>1. /\ pull'[p].done /\ pull'[p].success = pull[p].success
            /\ pull'[p].got = pull[p].got /\ pull'[p].id = pull[p].id
            /\ pull'[p].waiting = pull[p].waiting
            /\ \A o \in Peers \ {p} : pull'[o] = pull[o]
            <3> DEFINE pl == pull[p]
            <3>1. pl \in Pulls
                  BY <1>3
            <3>2. pull'[p] = [pl EXCEPT !.done = TRUE] /\ \A o \in Peers \ {p} : pull'[o] = pull[o]
                  BY <1>9 DEF PasteTimesOut, TypeOK
            <3> HIDE DEF pl
            <3>3. /\ pull'[p].done /\ pull'[p].success = pl.success
                  /\ pull'[p].got = pl.got /\ pull'[p].id = pl.id
                  /\ pull'[p].waiting = pl.waiting
                  BY <3>1, <3>2 DEF Pulls
            <3> QED BY <3>2, <3>3 DEF pl
      <2>2. ~IsWaiting(pull'[p])
            BY <2>1 DEF IsWaiting
      <2>3. UNCHANGED sendVars /\ recv' = recv /\ UNCHANGED wire
            BY <1>9 DEF PasteTimesOut
      <2> QED BY <1>3, <1>6, <1>7, <2>1, <2>2, <2>3
<1>10. ASSUME NEW p \in Peers, SendPlain(p) PROVE EndsFit'
      <2>1. sendingId[p] = 0
            BY <1>10 DEF SendPlain, ServesWhatItSends
      <2>2. /\ pull' = pull /\ recv' = recv /\ sendingId' = sendingId /\ wire' = wire
            /\ \A o \in Peers \ {p} : send'[o] = send[o]
            BY <1>10 DEF SendPlain, TypeOK
      <2>3. NoneIn({"begin", "end"}, <<>>)
            BY DEF NoneIn
      <2>4. SendMoves(<<>>, sendingId[p], send[p].stage, sendingId'[p], send'[p].stage)
            BY <2>1, <2>3 DEF SendMoves
      <2> QED BY <1>3, <1>7, <2>2, <2>4, SilenceMoves, WritesFit
<1>11. ASSUME NEW p \in Peers, Pump(p) PROVE EndsFit'
      <2>1. pull' = pull /\ recv' = recv
            BY <1>11 DEF Pump
      <2>2. send[p].what \in Ids
            BY DEF TypeOK, Sends
      <2>3. ASSUME NEW ms \in Seq(Messages), Write(p, ms), RequestsNamed(ms),
                   \A o \in Peers \ {p} : sendingId'[o] = sendingId[o] /\ send'[o] = send[o],
                   SendMoves(ms, sendingId[p], send[p].stage, sendingId'[p], send'[p].stage)
            PROVE  EndsFit'
            BY <1>3, <2>1, <2>3, WritesFit
      <2>4. CASE /\ send[p].stage = "preparing"
                 /\ send' = [send EXCEPT ![p].stage = "sending"]
                 /\ Write(p, <<[op |-> "drag", id |-> send[p].what]>>)
                 /\ UNCHANGED sendingId
            <3> DEFINE d == [op |-> "drag", id |-> send[p].what]
            <3>1. d \in Messages /\ d.op = "drag"
                  BY <2>2 DEF Messages
            <3>2. \A o \in Peers \ {p} : sendingId'[o] = sendingId[o] /\ send'[o] = send[o]
                  BY <2>4 DEF TypeOK
            <3> HIDE DEF d
            <3>3. /\ <<d>> \in Seq(Messages) /\ RequestsNamed(<<d>>)
                  /\ NoneIn({"begin", "end"}, <<d>>)
                  /\ \E i \in DOMAIN <<d>> : <<d>>[i].op = "drag"
                  BY <3>1 DEF RequestsNamed, NoneIn
            <3>4. SendMoves(<<d>>, sendingId[p], send[p].stage, sendingId'[p], send'[p].stage)
                  BY <2>4, <3>3 DEF SendMoves
            <3>5. Write(p, <<d>>)
                  BY <2>4 DEF d
            <3> QED BY <2>3, <3>2, <3>3, <3>4, <3>5
      <2>5. CASE /\ send[p].stage = "sending"
                 /\ SendEnds(p, <<[op |-> "end", id |-> send[p].what]>>)
            <3> DEFINE e == Control("end", sendingId[p])
            <3>1. e = [op |-> "end", id |-> send[p].what] /\ e \in Messages /\ e.op = "end"
                  <4>1. sendingId[p] = send[p].what
                        BY <2>5 DEF ServesWhatItSends
                  <4> QED BY <2>2, <4>1, ControlType DEF Control
            <3>2. \A o \in Peers \ {p} : sendingId'[o] = sendingId[o] /\ send'[o] = send[o]
                  BY <2>5 DEF SendEnds, TypeOK
            <3>3. SendMoves(<<e>>, sendingId[p], send[p].stage, sendingId'[p], send'[p].stage)
                  BY <2>5 DEF SendMoves
            <3>4. Write(p, <<e>>)
                  BY <2>5, <3>1 DEF SendEnds
            <3> HIDE DEF e
            <3>5. <<e>> \in Seq(Messages) /\ RequestsNamed(<<e>>)
                  BY <3>1 DEF RequestsNamed
            <3> QED BY <2>3, <3>2, <3>3, <3>4, <3>5
      <2>6. CASE SendEnds(p, ErrorsOf(p))
            <3>1. \A o \in Peers \ {p} : sendingId'[o] = sendingId[o] /\ send'[o] = send[o]
                  BY <2>6 DEF SendEnds, TypeOK
            <3> QED BY <2>3, <2>6, <3>1, ErrorsMove DEF SendEnds
      <2> QED BY <1>11, <2>4, <2>5, <2>6 DEF Pump
<1>12. ASSUME NEW p \in Peers, pull' = [pull EXCEPT ![p] = Failed(@)]
      PROVE  /\ ~IsWaiting(pull'[p]) /\ (pull'[p].waiting => pull'[p].id # 0 /\ pull'[p].done)
             /\ pull'[p].success => pull'[p].got = pull'[p].id
             /\ \A o \in Peers \ {p} : pull'[o] = pull[o]
      <2>1. pull'[p] = Failed(pull[p]) /\ \A o \in Peers \ {p} : pull'[o] = pull[o]
            BY <1>12 DEF TypeOK
      <2> QED BY <1>3, <2>1, FailedFits
<1>13. ASSUME NEW p \in Peers, ChunkFails(p) PROVE EndsFit'
      <2>1. /\ wire' = wire /\ UNCHANGED sendVars
            /\ pull' = [pull EXCEPT ![p] = Failed(@)]
            /\ \A o \in Peers \ {p} : recv'[o] = recv[o]
            BY <1>13 DEF ChunkFails, TypeOK
      <2>2. /\ ~IsWaiting(pull'[p]) /\ (pull'[p].waiting => pull'[p].id # 0 /\ pull'[p].done)
            /\ pull'[p].success => pull'[p].got = pull'[p].id
            /\ \A o \in Peers \ {p} : pull'[o] = pull[o]
            BY <1>12, <2>1
      <2>3. Write(p, <<>>)
            BY <1>7, <2>1
      <2>4. SendMoves(<<>>, sendingId[p], send[p].stage, sendingId'[p], send'[p].stage)
            BY <2>1, SilenceMoves DEF sendVars
      <2> QED BY <1>3, <2>1, <2>2, <2>3, <2>4, SilenceMoves, WritesFit DEF sendVars
<1>14. ASSUME NEW p \in Peers, CancelTransfer(p) PROVE EndsFit'
      <2> DEFINE c == IF pull[p].waiting /\ ~pull[p].done
                      THEN <<Control("cancel", pull[p].id)>> ELSE <<>>
                 ms == c \o ErrorsOf(p)
      <2>1. /\ Write(p, ms) /\ pull' = [pull EXCEPT ![p] = Failed(@)]
            /\ \A o \in Peers \ {p} : recv'[o] = recv[o]
            /\ \A o \in Peers \ {p} : sendingId'[o] = sendingId[o] /\ send'[o] = send[o]
            BY <1>14 DEF CancelTransfer, SendEnds, TypeOK
      <2>2. c \in Seq(Messages) /\ \A i \in DOMAIN c : c[i].op = "cancel"
            <3>1. Control("cancel", pull[p].id) \in Messages
                  /\ Control("cancel", pull[p].id).op = "cancel"
                  BY <1>3, ControlType, ControlOp
            <3> QED BY <3>1
      <2>3. \/ ErrorsOf(p) = <<>> /\ sendingId[p] = 0
            \/ ErrorsOf(p) = <<Control("error", sendingId[p])>>
            BY DEF ErrorsOf
      <2>4. ErrorsOf(p) \in Seq(Messages) /\ \A i \in DOMAIN ErrorsOf(p) : ErrorsOf(p)[i].op = "error"
            <3>1. Control("error", sendingId[p]).op = "error"
                  BY ControlOp
            <3> QED BY <2>3, <3>1, ErrorsType
      <2>5. ms \in Seq(Messages) /\ \A i \in DOMAIN ms : ms[i].op \in {"cancel", "error"}
            <3> DEFINE e == ErrorsOf(p)
            <3>1. /\ e \in Seq(Messages) /\ \A i \in DOMAIN e : e[i].op = "error"
                  BY <2>4
            <3> HIDE DEF c, e
            <3>2. c \o e \in Seq(Messages)
                  BY <2>2, <3>1
            <3>3. \A i \in DOMAIN (c \o e) : (c \o e)[i].op \in {"cancel", "error"}
                  BY <2>2, <3>1, Concatenated
            <3> QED BY <3>2, <3>3 DEF e
      <2>6. sendingId[p] = 0 \/ Has(ms, Control("error", sendingId[p]))
            <3> DEFINE x == Control("error", sendingId[p])
            <3>1. CASE ErrorsOf(p) = <<x>>
                  <4> HIDE DEF c, x
                  <4>1. Has(<<x>>, x)
                        BY DEF Has
                  <4>2. Has(c \o ErrorsOf(p), x)
                        BY <2>2, <2>4, <3>1, <4>1, HasMore
                  <4> QED BY <4>2 DEF x
            <3> QED BY <2>3, <3>1
      <2> HIDE DEF ms
      <2>7. RequestsNamed(ms) /\ NoneIn({"begin", "end"}, ms)
            BY <2>5 DEF RequestsNamed, NoneIn
      <2>8. SendMoves(ms, sendingId[p], send[p].stage, sendingId'[p], send'[p].stage)
            BY <2>6, <2>7 DEF SendMoves
      <2> QED BY <1>3, <1>12, <2>1, <2>5, <2>7, <2>8, WritesFit
<1> QED BY <1>1, <1>2, <1>4, <1>5, <1>8, <1>9, <1>10, <1>11, <1>13, <1>14 DEF Next

\* The peers start with nothing on the way and no paste.
LEMMA FitsInit == Init => EndsFit
<1> SUFFICES ASSUME Init PROVE EndsFit
    OBVIOUS
<1>1. ASSUME NEW p \in Peers
      PROVE  EndFits(wire[p], wire[Other(p)], pull[p], recv[p].active,
                     sendingId[Other(p)], send[Other(p)].stage)
      <2>1. wire[p] = <<>> /\ pull[p] = NoPull
            BY DEF Init
      <2>2. \A serving, stage : BeginsSettled(<<>>, serving, stage)
            BY DEF BeginsSettled
      <2> QED BY <2>1, <2>2 DEF EndFits, RequestsNamed, PullFits, RequestStands, NoPull, IsWaiting
<1> QED BY <1>1 DEF EndsFit

\* Both ends fit, always: the inductive invariant of the two theorems below.
THEOREM AlwaysFit == Spec => [](TypeOK /\ ServesWhatItSends /\ EndsFit)
<1>1. Init => TypeOK /\ ServesWhatItSends /\ EndsFit
      BY PasteTypeInit, FitsInit DEF Init, ServesWhatItSends, NoSend
<1>2. TypeOK /\ ServesWhatItSends /\ EndsFit /\ [Next]_vars
        => (TypeOK /\ ServesWhatItSends /\ EndsFit)'
      BY PasteTypeStep, ServesStep, FitsStep
<1> QED BY <1>1, <1>2, PTL DEF Spec

\* A paste returns the files of the offer it was made for, for any number of
\* copies, pastes, transfers and cancellations in any order: "begin" is written
\* before the paste's own transfer and after every other, so what ends first
\* after it is the paste's.  (ClipboardFiles::handle, fileChunkReceived.)
THEOREM PastesGetTheirOffer == Spec => []PasteGetsItsOffer
<1>1. Init => PasteGetsItsOffer
      BY DEF Init, PasteGetsItsOffer
<1>2. EndsFit /\ PasteGetsItsOffer /\ [Next]_vars => PasteGetsItsOffer'
      <2> SUFFICES ASSUME EndsFit, PasteGetsItsOffer, [Next]_vars PROVE PasteGetsItsOffer'
          OBVIOUS
      <2>1. ASSUME NEW p \in Peers, PasteReturns(p) PROVE PasteGetsItsOffer'
            <3>1. pull[p].success => pull[p].got = pull[p].id
                  BY DEF EndsFit, EndFits, PullFits
            <3> QED BY <2>1, <3>1 DEF PasteReturns, PasteGetsItsOffer
      <2>2. ASSUME UNCHANGED pasted PROVE PasteGetsItsOffer'
            BY <2>2 DEF PasteGetsItsOffer
      <2>3. ASSUME NEW p \in Peers, ~PasteReturns(p),
                   \/ \E files \in BOOLEAN : Announce(p, files)
                   \/ PasteBegins(p) \/ PasteTimesOut(p) \/ SendPlain(p)
                   \/ Pump(p) \/ CancelTransfer(p) \/ ChunkFails(p) \/ Dispatch(p)
            PROVE  UNCHANGED pasted
            BY <2>3 DEF Announce, PasteBegins, PasteTimesOut, SendPlain, Pump, CancelTransfer,
                        ChunkFails, Dispatch, HandleOffer, HandleRequest, HandleCancel,
                        HandleAnswer, DragInfo, LastChunk, resultVars
      <2> QED BY <2>1, <2>2, <2>3 DEF Next, vars, resultVars
<1> QED BY <1>1, <1>2, AlwaysFit, PTL DEF Spec

\* A paste does not wait in vain: its request is on the way or being served, or
\* what ends it is on the way, for any number of copies, pastes, transfers and
\* cancellations; the time-out of 60 s is for the network.  (handle,
\* sendFinished, failed.)
THEOREM PastesAreAnswered == Spec => []PasteIsAnswered
<1>1. EndsFit => PasteIsAnswered
      <2> SUFFICES ASSUME EndsFit, NEW p \in Peers, pull[p].waiting, ~pull[p].done
                   PROVE  LET id == pull[p].id
                              toPeer == ToSet(wire[Other(p)])
                              toHere == ToSet(wire[p])
                          IN \/ Control("request", id) \in toPeer
                             \/ sendingId[Other(p)] = id
                             \/ Control("error", id) \in toHere
                             \/ Control("end", id) \in toHere
                             \/ \E m \in toHere : m.op = "offer"
          BY DEF PasteIsAnswered
      <2> DEFINE s == wire[p]
                 back == wire[Other(p)]
                 id == pull[p].id
                 serving == sendingId[Other(p)]
                 stage == send[Other(p)].stage
                 active == recv[p].active
      <2>1. EndFits(s, back, pull[p], active, serving, stage)
            BY DEF EndsFit
      <2>2. \A k, a : Settled(s, k, id, a, serving, stage)
              => Has(s, Control("error", id)) \/ Has(s, Control("end", id)) \/ serving = id
            BY DEF Settled, Has
      <2>3. pull[p].started => Settled(s, 0, id, active, serving, stage)
            BY <2>1 DEF EndFits, PullFits, IsWaiting
      <2>4. ASSUME Has(s, Control("begin", id))
            PROVE  \E k : Settled(s, k, id, FALSE, serving, stage)
            <3>1. PICK k \in DOMAIN s : s[k] = Control("begin", id)
                  BY <2>4 DEF Has
            <3>2. s[k].op = "begin" /\ s[k].id = id
                  BY <3>1, ControlOp
            <3> QED BY <2>1, <3>2 DEF EndFits, BeginsSettled
      <2>5. \/ Has(back, Control("request", id)) \/ Has(s, Control("error", id))
            \/ Has(s, Control("end", id)) \/ serving = id
            BY <2>1, <2>2, <2>3, <2>4 DEF EndFits, RequestStands
      <2>6. \A t, m : Has(t, m) <=> m \in ToSet(t)
            BY DEF Has, ToSet
      <2> QED BY <2>5, <2>6
<1> QED BY <1>1, AlwaysFit, PTL

-----------------------------------------------------------------------------
(***************************************************************************)
(* Text.                                                                   *)
(***************************************************************************)

(***************************************************************************)
(* StreamChunker: transfers under way.                                     *)
(***************************************************************************)

\* The last member of a queue.
Latest(s) == s[Len(s)]

\* The messages that settle what a client shows.
Settles(m) == m.type \in {"grab", "data"}

Data(content) == [type: {"data"}, copy: content, seq: Nat]

\* The last copy that q leaves or puts out is k.
Carries(q, k) ==
    IF q.left # <<>> THEN Latest(q.left).copy = k
    ELSE q.out # <<>> /\ Latest(q.out).copy = k

\* The definition, taken apart and put together.
LEMMA OutboxParts ==
    ASSUME NEW C, NEW box \in Outboxes(C)
    PROVE  /\ box \in Seq(Transfers(C)) /\ Len(box) \in 0 .. 2
           /\ DOMAIN box = 1 .. Len(box)
           /\ \A i \in 1 .. Len(box) : box[i] \in Transfers(C)
           /\ \A i \in 2 .. Len(box) : ~box[i].started
<1>1. box \in Seq(Transfers(C)) /\ Len(box) <= 2
      BY DEF Outboxes
<1>2. \A i \in 2 .. Len(box) : ~box[i].started
      BY Zenon DEF Outboxes
<1>3. Len(box) \in Nat /\ DOMAIN box = 1 .. Len(box)
      BY <1>1
<1>4. \A i \in 1 .. Len(box) : box[i] \in Transfers(C)
      BY <1>1
<1>5. Len(box) \in 0 .. 2
      BY <1>1, <1>3
<1> QED BY <1>1, <1>2, <1>3, <1>4, <1>5

\* The transfers a sender holds are transfers of copies that were made.
LEMMA OutboxMade ==
    ASSUME NEW C, NEW box \in Seq(Transfers(C)), Len(box) <= 2,
           \A i \in 2 .. Len(box) : ~box[i].started
    PROVE  box \in Outboxes(C)
BY Zenon DEF Outboxes

\* A turn sends some number of transfers, all of them or up to a large one.
LEMMA PumpedSome ==
    ASSUME NEW C, NEW box \in Outboxes(C)
    PROVE  \E n \in 0 .. Len(box) :
             Pumped(box) =
               [left |-> [SubSeq(box, n + 1, Len(box)) EXCEPT ![1].started = TRUE],
                out |-> [i \in 1 .. n |-> [type |-> "data", copy |-> box[i].copy,
                                           seq |-> box[i].seq]]]
<1> DEFINE Waits(i) == box[i].copy \in Large /\ ~box[i].started
           T == {i \in DOMAIN box : Waits(i)} \cup {Len(box) + 1}
<1>1. Len(box) \in Nat /\ DOMAIN box = 1 .. Len(box)
      <2>1. Len(box) \in 0 .. 2 /\ DOMAIN box = 1 .. Len(box)
            BY OutboxParts
      <2> QED BY <2>1
<1> HIDE DEF Waits
<1>2. T \subseteq Nat /\ Len(box) + 1 \in T /\ \A i \in T : 1 <= i
      BY <1>1
<1>3. \E n \in T : \A m \in T : n <= m
      BY <1>2, LeastNumber
<1>4. /\ Min(T) \in T
      /\ \A m \in T : Min(T) <= m
      BY <1>3 DEF Min
<1> DEFINE n == Min(T) - 1
<1> HIDE DEF T
<1>5. n \in 0 .. Len(box)
      <2>1. Min(T) \in Nat /\ 1 <= Min(T) /\ Min(T) <= Len(box) + 1
            BY <1>2, <1>4
      <2> QED BY <1>1, <2>1
<1>6. Pumped(box) =
        [left |-> [SubSeq(box, n + 1, Len(box)) EXCEPT ![1].started = TRUE],
         out |-> [i \in 1 .. n |-> [type |-> "data", copy |-> box[i].copy,
                                    seq |-> box[i].seq]]]
      BY DEF Pumped, T, Waits
<1> QED BY <1>5, <1>6

\* A function on 1 .. n is a sequence.
LEMMA FunctionSeq ==
    ASSUME NEW S, NEW m \in Nat, NEW f \in [1 .. m -> S]
    PROVE  f \in Seq(S) /\ Len(f) = m
OBVIOUS

\* What is left of an outbox when its first n transfers are sent.
LeftOf(box, n) == [SubSeq(box, n + 1, Len(box)) EXCEPT ![1].started = TRUE]

\* What pump() leaves: at most one transfer under way and one snapshot.
LEMMA LeftOver ==
    ASSUME NEW C, NEW box \in Outboxes(C), NEW n \in 0 .. Len(box)
    PROVE  /\ LeftOf(box, n) \in Outboxes(C)
           /\ IF n = Len(box) THEN LeftOf(box, n) = <<>>
              ELSE LeftOf(box, n) # <<>> /\ Latest(LeftOf(box, n)).copy = Latest(box).copy
<1> DEFINE left == LeftOf(box, n)
           s == SubSeq(box, n + 1, Len(box))
           N == Len(box)
           S == Transfers(C)
<1>1. /\ N \in 0 .. 2
      /\ \A i \in 1 .. N : box[i] \in S
      /\ \A i \in 2 .. N : ~box[i].started
      BY OutboxParts
<1>2. \A r \in S : [r EXCEPT !.started = TRUE] \in S /\ [r EXCEPT !.started = TRUE].copy = r.copy
      BY DEF Transfers
<1>3. left = [s EXCEPT ![1].started = TRUE]
      BY DEF LeftOf
<1> HIDE DEF S, N, left
<1>4. N \in Nat /\ n \in Nat /\ n <= N
      BY <1>1 DEF N
<1>a. N <= 2
      BY <1>1, <1>4
<1>5. s = SubSeq(box, n + 1, N)
      BY DEF N
<1> HIDE DEF s
<1>6. \A i \in (n + 1) .. N : box[i] \in S
      BY <1>1, <1>4
<1>7. /\ s \in Seq(S)
      /\ Len(s) = (IF n + 1 <= N THEN N - (n + 1) + 1 ELSE 0)
      /\ \A i \in 1 .. N - (n + 1) + 1 : s[i] = box[n + 1 + i - 1]
      BY <1>4, <1>5, <1>6, SubSeqProperties
<1>8. Len(s) \in Nat /\ Len(s) = N - n /\ \A i \in 1 .. Len(s) : s[i] = box[n + i]
      <2>1. Len(s) = N - n
            BY <1>4, <1>7
      <2>2. ASSUME NEW i \in 1 .. Len(s) PROVE s[i] = box[n + i]
            <3>1. i \in Int /\ n + 1 + i - 1 = n + i /\ i \in 1 .. N - (n + 1) + 1
                  BY <1>4, <2>1
            <3> QED BY <1>7, <3>1
      <2> QED BY <1>4, <2>1, <2>2
<1>9. DOMAIN s = 1 .. Len(s) /\ \A i \in 1 .. Len(s) : s[i] \in S
      BY <1>7
<1>10. left = [i \in 1 .. Len(s) |-> IF i = 1 THEN [s[1] EXCEPT !.started = TRUE] ELSE s[i]]
      BY <1>3, <1>9
<1>11. ASSUME NEW i \in 1 .. Len(s)
       PROVE  /\ left[i] \in S /\ left[i].copy = s[i].copy
              /\ i # 1 => left[i] = s[i]
       <2>1. s[i] \in S
             BY <1>9
       <2>2. CASE i = 1
             <3>1. left[i] = [s[i] EXCEPT !.started = TRUE]
                   BY <1>10, <2>2
             <3> QED BY <1>2, <2>1, <2>2, <3>1
       <2>3. CASE i # 1
             <3>1. left[i] = s[i]
                   BY <1>10, <2>3
             <3> QED BY <2>1, <2>3, <3>1
       <2> QED BY <2>2, <2>3
<1>12. left \in Seq(S) /\ Len(left) = Len(s)
      <2> DEFINE m == Len(s)
      <2>1. left \in [1 .. m -> S]
            BY <1>10, <1>11
      <2>2. m \in Nat
            BY <1>8
      <2> HIDE DEF m
      <2>3. left \in Seq(S) /\ Len(left) = m
            BY <2>1, <2>2, FunctionSeq
      <2> QED BY <2>3 DEF m
<1>13. \A i \in 2 .. Len(left) : ~left[i].started
      <2> TAKE i \in 2 .. Len(left)
      <2>1. i \in 1 .. Len(s) /\ i # 1 /\ n + i \in 2 .. N
            <3>1. Len(left) = N - n /\ Len(s) = N - n
                  BY <1>8, <1>12
            <3>2. i \in 2 .. N - n
                  BY <3>1
            <3> QED BY <1>4, <3>1, <3>2
      <2>2. left[i] = box[n + i]
            BY <1>8, <1>11, <2>1
      <2> QED BY <1>1, <2>1, <2>2 DEF N
<1>14. left \in Outboxes(C)
      <2>1. Len(left) <= 2
            <3>1. Len(left) = N - n
                  BY <1>8, <1>12
            <3> QED BY <1>4, <1>a, <3>1
      <2>2. left \in Seq(Transfers(C))
            BY <1>12 DEF S
      <2> QED BY <1>13, <2>1, <2>2, OutboxMade
<1>15. ASSUME n = N PROVE left = <<>>
      <2>1. Len(left) = 0
            BY <1>4, <1>8, <1>12, <1>15
      <2> QED BY <1>12, <2>1
<1>16. ASSUME n # N PROVE left # <<>> /\ Latest(left).copy = Latest(box).copy
      <2>1. Len(s) \in 1 .. Len(s) /\ n + Len(s) = N /\ Len(s) # 0
            BY <1>4, <1>8, <1>16
      <2>2. left[Len(s)].copy = s[Len(s)].copy
            BY <1>11, <2>1
      <2>3. s[Len(s)] = box[N]
            BY <1>8, <2>1
      <2>4. Latest(left).copy = Latest(box).copy
            BY <1>12, <2>2, <2>3 DEF Latest, N
      <2>5. left # <<>>
            BY <1>12, <2>1
      <2> QED BY <2>4, <2>5
<1> QED BY <1>14, <1>15, <1>16 DEF left, N

\* A turn leaves an outbox, and carries the last transfer of the one it had.
LEMMA PumpedType ==
    ASSUME NEW C, NEW box \in Outboxes(C)
    PROVE  /\ Pumped(box).left \in Outboxes(C)
           /\ Pumped(box).out \in Seq(Data(C))
           /\ box # <<>> => Carries(Pumped(box), Latest(box).copy)
<1>1. PICK n \in 0 .. Len(box) :
        Pumped(box) =
          [left |-> LeftOf(box, n),
           out |-> [i \in 1 .. n |-> [type |-> "data", copy |-> box[i].copy,
                                      seq |-> box[i].seq]]]
      BY PumpedSome DEF LeftOf
<1> DEFINE left == LeftOf(box, n)
           out == [i \in 1 .. n |-> [type |-> "data", copy |-> box[i].copy,
                                     seq |-> box[i].seq]]
<1>2. Pumped(box).left = left /\ Pumped(box).out = out
      <2> HIDE DEF left, out
      <2>1. Pumped(box) = [left |-> left, out |-> out]
            BY <1>1 DEF left, out
      <2> QED BY <2>1
<1>3. /\ left \in Outboxes(C)
      /\ IF n = Len(box) THEN left = <<>>
         ELSE left # <<>> /\ Latest(left).copy = Latest(box).copy
      BY LeftOver
<1> HIDE DEF left
<1>4. Len(box) \in Nat /\ n \in Nat /\ \A i \in 1 .. Len(box) : box[i] \in Transfers(C)
      <2>1. Len(box) \in 0 .. 2 /\ \A i \in 1 .. Len(box) : box[i] \in Transfers(C)
            BY OutboxParts
      <2> QED BY <2>1
<1>5. out \in Seq(Data(C)) /\ Len(out) = n
      <2>1. \A i \in 1 .. n : out[i] \in Data(C)
            BY <1>4 DEF Data, Transfers
      <2>2. out \in [1 .. n -> Data(C)]
            BY <2>1
      <2> QED BY <1>4, <2>2
<1>6. ASSUME box # <<>> PROVE Carries(Pumped(box), Latest(box).copy)
      <2>1. CASE n = Len(box)
            <3>1. n \in 1 .. n
                  <4>1. box \in Seq(Transfers(C))
                        BY OutboxParts
                  <4>2. Len(box) # 0
                        BY <1>6, <4>1
                  <4> QED BY <1>4, <2>1, <4>2
            <3>2. Latest(out).copy = Latest(box).copy /\ out # <<>>
                  BY <1>5, <2>1, <3>1 DEF Latest
            <3> QED BY <1>2, <1>3, <2>1, <3>2 DEF Carries
      <2>2. CASE n # Len(box)
            <3>1. left # <<>> /\ Latest(left).copy = Latest(box).copy
                  BY <1>3, <2>2
            <3>2. Pumped(box).left = left
                  BY <1>2
            <3> QED BY <3>1, <3>2 DEF Carries
      <2> QED BY <2>1, <2>2
<1> HIDE DEF out
<1>7. Pumped(box).left \in Outboxes(C) /\ Pumped(box).out \in Seq(Data(C))
      BY <1>2, <1>3, <1>5
<1> QED BY <1>6, <1>7

\* Of an outbox only its first transfer stays, if it is under way.
LEMMA KeptStarted ==
    ASSUME NEW box \in Outboxes(0 .. MaxTexts)
    PROVE  LET kept == Kept(box, {t \in Transfer : t.started})
           IN kept = <<>> \/ (box # <<>> /\ kept = <<box[1]>> /\ box[1].started)
<1> DEFINE T == {t \in Transfer : t.started}
           kept == Kept(box, T)
<1>1. /\ box \in Seq(Transfer) /\ Len(box) \in 0 .. 2
      /\ \A i \in 2 .. Len(box) : ~box[i].started
      BY OutboxParts DEF Transfer
<1>2. kept \in Seq(Transfer) /\ \E h : ComesFrom(box, T, Len(box), kept, h)
      BY <1>1, KeptSifts
<1>3. PICK h : ComesFrom(box, T, Len(box), kept, h)
      BY <1>2
<1>4. \A e : e \in T => e.started
      OBVIOUS
<1> HIDE DEF kept, T
<1>5. Len(kept) \in Nat
      BY <1>2
<1>6. ASSUME NEW i \in 1 .. Len(kept)
      PROVE  h[i] = 1 /\ kept[i] = box[1] /\ box[1].started /\ 1 <= Len(box)
      <2>1. h[i] \in 1 .. Len(box) /\ kept[i] = box[h[i]] /\ box[h[i]] \in T
            BY <1>3 DEF ComesFrom
      <2>2. box[h[i]].started
            BY <1>4, <2>1
      <2>3. h[i] \notin 2 .. Len(box)
            BY <1>1, <2>2
      <2>4. h[i] = 1 /\ 1 <= Len(box)
            BY <1>1, <2>1, <2>3
      <2> QED BY <2>1, <2>2, <2>4
<1>7. Len(kept) <= 1
      <2> SUFFICES ASSUME ~(Len(kept) <= 1) PROVE FALSE
            OBVIOUS
      <2>1. 1 \in 1 .. Len(kept) /\ 2 \in 1 .. Len(kept)
            BY <1>5
      <2>2. h[1] < h[2]
            BY <1>3, <2>1 DEF ComesFrom
      <2> QED BY <1>6, <2>1, <2>2
<1>8. CASE Len(kept) = 0
      <2>1. kept = <<>>
            BY <1>2, <1>8
      <2> QED BY <2>1 DEF kept, T
<1>9. CASE Len(kept) = 1
      <2>1. 1 \in 1 .. Len(kept)
            BY <1>9
      <2>2. kept[1] = box[1] /\ box[1].started /\ 1 <= Len(box)
            BY <1>6, <2>1
      <2>3. kept = <<box[1]>>
            BY <1>2, <1>9, <2>2
      <2>4. box # <<>>
            BY <1>1, <2>2
      <2> QED BY <2>2, <2>3, <2>4 DEF kept, T
<1> QED BY <1>5, <1>7, <1>8, <1>9

\* A transfer that is queued is carried.
LEMMA QueuedType ==
    ASSUME NEW C, C \subseteq 0 .. MaxTexts, NEW box \in Outboxes(C),
           NEW copy \in C, NEW seq \in Nat
    PROVE  /\ Queued(box, copy, seq).left \in Outboxes(C)
           /\ Queued(box, copy, seq).out \in Seq(Data(C))
           /\ Carries(Queued(box, copy, seq), copy)
<1> DEFINE kept == Kept(box, {t \in Transfer : t.started})
           new == [copy |-> copy, seq |-> seq, started |-> FALSE]
           after == Append(kept, new)
<1>1. box \in Outboxes(0 .. MaxTexts)
      <2>1. Transfers(C) \subseteq Transfers(0 .. MaxTexts)
            BY DEF Transfers
      <2>2. /\ box \in Seq(Transfers(C)) /\ Len(box) \in 0 .. 2
            /\ \A i \in 2 .. Len(box) : ~box[i].started
            BY OutboxParts
      <2>3. box \in Seq(Transfers(0 .. MaxTexts)) /\ Len(box) <= 2
            BY <2>1, <2>2
      <2> QED BY <2>2, <2>3, OutboxMade
<1>2. kept = <<>> \/ (box # <<>> /\ kept = <<box[1]>> /\ box[1].started)
      BY <1>1, KeptStarted
<1>3. Queued(box, copy, seq) =
        IF after[1].started THEN [left |-> after, out |-> <<>>] ELSE Pumped(after)
      BY DEF Queued
<1>4. new \in Transfers(C) /\ ~new.started /\ new.copy = copy
      BY DEF Transfers
<1> HIDE DEF kept, new
<1>5. CASE kept = <<>>
      <2>1. after = <<new>>
            BY <1>5
      <2>2. /\ after \in Seq(Transfers(C)) /\ Len(after) = 1 /\ after # <<>>
            /\ Latest(after).copy = copy /\ ~after[1].started
            BY <1>4, <2>1 DEF Latest
      <2> HIDE DEF after
      <2>3. Queued(box, copy, seq) = Pumped(after)
            BY <1>3, <2>2
      <2>4. after \in Outboxes(C)
            <3>1. Len(after) <= 2 /\ \A i \in 2 .. Len(after) : ~after[i].started
                  BY <2>2
            <3> QED BY <2>2, <3>1, OutboxMade
      <2>5. /\ Pumped(after).left \in Outboxes(C) /\ Pumped(after).out \in Seq(Data(C))
            /\ Carries(Pumped(after), Latest(after).copy)
            BY <2>2, <2>4, PumpedType
      <2> QED BY <2>2, <2>3, <2>5
<1>6. CASE box # <<>> /\ kept = <<box[1]>> /\ box[1].started
      <2>1. after = Append(<<box[1]>>, new)
            BY <1>6
      <2>2. box[1] \in Transfers(C)
            <3>1. box \in Seq(Transfers(C))
                  BY OutboxParts
            <3> QED BY <1>6, <3>1
      <2>3. /\ after \in Seq(Transfers(C)) /\ Len(after) = 2
            /\ after[1] = box[1] /\ after[2] = new
            BY <1>4, <2>1, <2>2
      <2> HIDE DEF after
      <2>4. after \in Outboxes(C)
            <3>1. Len(after) <= 2 /\ \A i \in 2 .. Len(after) : i = 2
                  BY <2>3
            <3> QED BY <1>4, <2>3, <3>1, OutboxMade
      <2>5. Queued(box, copy, seq) = [left |-> after, out |-> <<>>]
            BY <1>3, <1>6, <2>3
      <2>6. after # <<>> /\ Latest(after).copy = copy
            BY <1>4, <2>3 DEF Latest
      <2> QED BY <2>4, <2>5, <2>6 DEF Carries
<1> QED BY <1>2, <1>5, <1>6

-----------------------------------------------------------------------------
(***************************************************************************)
(* What a client shows once it has read everything that is under way to it. *)
(***************************************************************************)

NoneAfter(d, i) == \A j \in 1 .. Len(d) : j > i => ~Settles(d[j])

Shows(d, shown, k) ==
    \/ \E i \in 1 .. Len(d) : d[i].type = "data" /\ d[i].copy = k /\ NoneAfter(d, i)
    \/ shown = k /\ NoneAfter(d, 0)

Leads(box, d, shown, k) ==
    IF box # <<>> THEN Latest(box).copy = k ELSE Shows(d, shown, k)

\* A message that settles nothing makes no difference.
LEMMA ShowsAppend ==
    ASSUME NEW S, NEW d \in Seq(S), NEW m \in S, ~Settles(m)
    PROVE  /\ NoneAfter(d, 0) => NoneAfter(Append(d, m), 0)
           /\ \A shown, k : Shows(d, shown, k) => Shows(Append(d, m), shown, k)
<1> DEFINE e == Append(d, m)
           n == Len(d)
<1>1. n \in Nat /\ Len(e) = n + 1 /\ e[n + 1] = m /\ \A i \in 1 .. n : e[i] = d[i]
      BY AppendProperties, LenProperties
<1>2. n \in Nat /\ Len(e) = n + 1
      BY <1>1
<1> HIDE DEF e
<1>3. ASSUME NEW i \in Nat, NoneAfter(d, i) PROVE NoneAfter(e, i)
      <2> HIDE DEF n
      <2> SUFFICES ASSUME NEW j \in 1 .. Len(e), j > i PROVE ~Settles(e[j])
          BY DEF NoneAfter
      <2>1. CASE j = n + 1
            BY <1>1, <2>1
      <2>2. CASE j # n + 1
            <3>1. j \in 1 .. n
                  BY <1>2, <2>2
            <3>2. ~Settles(d[j])
                  BY <1>3, <3>1 DEF NoneAfter, n
            <3> QED BY <1>1, <3>1, <3>2
      <2> QED BY <2>1, <2>2
<1>4. ASSUME NEW shown, NEW k, Shows(d, shown, k) PROVE Shows(e, shown, k)
      <2>1. CASE shown = k /\ NoneAfter(d, 0)
            BY <1>3, <2>1 DEF Shows
      <2>2. CASE \E i \in 1 .. Len(d) : d[i].type = "data" /\ d[i].copy = k /\ NoneAfter(d, i)
            <3>1. PICK i \in 1 .. n : d[i].type = "data" /\ d[i].copy = k /\ NoneAfter(d, i)
                  BY <2>2
            <3> HIDE DEF n
            <3>2. i \in Nat /\ i \in 1 .. Len(e)
                  BY <1>2
            <3>3. e[i] = d[i]
                  BY <1>1
            <3> QED BY <1>3, <3>1, <3>2, <3>3 DEF Shows
      <2> QED BY <1>4, <2>1, <2>2 DEF Shows
<1> QED BY <1>3, <1>4 DEF e

\* Data that is sent is shown.
LEMMA ShowsData ==
    ASSUME NEW S, NEW C, Data(C) \subseteq S, NEW d \in Seq(S), NEW out \in Seq(Data(C)),
           out # <<>>, NEW k, Latest(out).copy = k, NEW shown
    PROVE  Shows(d \o out, shown, k)
<1> DEFINE e == d \o out
           l == Len(out)
<1>1. out \in Seq(S) /\ l \in Nat /\ Len(d) \in Nat /\ l # 0
      BY LenProperties
<1>2. Len(e) = Len(d) + l
      BY <1>1, ConcatProperties
<1>3. \A i \in 1 .. Len(d) + l : e[i] = IF i <= Len(d) THEN d[i] ELSE out[i - Len(d)]
      BY <1>1, ConcatProperties
<1>4. l \in 1 .. l /\ out[l] \in Data(C)
      BY <1>1
<1>5. out[l].type = "data" /\ out[l].copy = k
      BY <1>4 DEF Data, Latest
<1> HIDE DEF e, l
<1>6. e[Len(e)] = out[l] /\ Len(e) \in 1 .. Len(e)
      <2>1. Len(e) \in 1 .. Len(d) + l /\ ~(Len(e) <= Len(d)) /\ Len(e) - Len(d) = l
            BY <1>1, <1>2
      <2> QED BY <1>2, <1>3, <2>1
<1>7. NoneAfter(e, Len(e))
      BY <1>6 DEF NoneAfter
<1> QED BY <1>5, <1>6, <1>7 DEF Shows, e

\* Reading a message: what it settles is shown, unless more is to come.
LEMMA ShowsTail ==
    ASSUME NEW S, NEW d \in Seq(S), d # <<>>, NEW shown, NEW k, NEW x, Shows(d, shown, k),
           Head(d).type = "data" /\ Head(d).copy = k => x = k,
           ~Settles(Head(d)) => x = shown
    PROVE  Shows(Tail(d), x, k)
<1> DEFINE e == Tail(d)
           n == Len(e)
<1>1. /\ e \in Seq(S) /\ n \in Nat /\ Len(d) = n + 1
      /\ \A i \in 1 .. n : e[i] = d[i + 1]
      BY HeadTailProperties, LenProperties
<1>2. Head(d) = d[1]
      OBVIOUS
<1>3. n \in Nat /\ Len(d) = n + 1
      BY <1>1
<1> HIDE DEF e
<1>4. ASSUME NEW i \in 1 .. Len(d), NoneAfter(d, i) PROVE NoneAfter(e, i - 1)
      <2> SUFFICES ASSUME NEW j \in 1 .. n, j > i - 1 PROVE ~Settles(e[j])
          BY DEF NoneAfter
      <2>1. j + 1 \in 1 .. Len(d) /\ j + 1 > i
            <3> HIDE DEF n
            <3> QED BY <1>3
      <2>2. ~Settles(d[j + 1])
            BY <1>4, <2>1 DEF NoneAfter
      <2> QED BY <1>1, <2>2
<1>5. CASE shown = k /\ NoneAfter(d, 0)
      <2>1. 1 \in 1 .. Len(d) /\ 1 > 0
            BY <1>3
      <2>2. ~Settles(Head(d)) /\ NoneAfter(d, 1)
            <3>1. ~Settles(d[1])
                  BY <1>5, <2>1 DEF NoneAfter
            <3>2. \A j \in 1 .. Len(d) : j > 1 => j > 0
                  BY <1>3
            <3> QED BY <1>2, <1>5, <3>1, <3>2 DEF NoneAfter
      <2>3. NoneAfter(e, 1 - 1)
            BY <1>4, <2>1, <2>2
      <2> QED BY <1>5, <2>2, <2>3 DEF Shows, e
<1>6. CASE \E i \in 1 .. Len(d) : d[i].type = "data" /\ d[i].copy = k /\ NoneAfter(d, i)
      <2>1. PICK i \in 1 .. Len(d) : d[i].type = "data" /\ d[i].copy = k /\ NoneAfter(d, i)
            BY <1>6
      <2>2. NoneAfter(e, i - 1)
            BY <1>4, <2>1
      <2>3. CASE i = 1
            <3>1. x = k
                  BY <1>2, <2>1, <2>3
            <3>2. NoneAfter(e, 0)
                  BY <2>2, <2>3
            <3> QED BY <3>1, <3>2 DEF Shows, e
      <2>4. CASE i # 1
            <3>1. i - 1 \in 1 .. n /\ (i - 1) + 1 = i
                  <4> HIDE DEF n
                  <4> QED BY <1>3, <2>4
            <3>2. e[i - 1] = d[i]
                  BY <1>1, <3>1
            <3> QED BY <2>1, <2>2, <3>1, <3>2 DEF Shows, e
      <2> QED BY <2>3, <2>4
<1> QED BY <1>5, <1>6 DEF Shows

\* With nothing on the way, what a client shows is what it is led to.
LEMMA LeadsEmpty ==
    ASSUME NEW shown, NEW k, Leads(<<>>, <<>>, shown, k)
    PROVE  shown = k
BY DEF Leads, Shows

\* A client is led to what its proxy carries.
LEMMA LeadsCarried ==
    ASSUME NEW S, NEW C, Data(C) \subseteq S, NEW d \in Seq(S), NEW q, NEW k,
           q.out \in Seq(Data(C)), Carries(q, k), NEW shown
    PROVE  Leads(q.left, d \o q.out, shown, k)
<1>1. CASE q.left # <<>>
      BY <1>1 DEF Leads, Carries
<1>2. CASE q.left = <<>>
      <2>1. q.out # <<>> /\ Latest(q.out).copy = k
            BY <1>2 DEF Carries
      <2>2. Shows(d \o q.out, shown, k)
            BY <2>1, ShowsData
      <2> QED BY <1>2, <2>2 DEF Leads
<1> QED BY <1>1, <1>2

\* A message that settles nothing leads nobody elsewhere.
LEMMA LeadsAppend ==
    ASSUME NEW S, NEW d \in Seq(S), NEW m \in S, ~Settles(m),
           NEW box, NEW shown, NEW k, Leads(box, d, shown, k)
    PROVE  Leads(box, Append(d, m), shown, k)
BY ShowsAppend DEF Leads

\* Reading a message leads where it led before.
LEMMA LeadsTail ==
    ASSUME NEW S, NEW d \in Seq(S), d # <<>>, NEW box, NEW shown, NEW k, NEW x,
           Leads(box, d, shown, k),
           Head(d).type = "data" /\ Head(d).copy = k => x = k,
           ~Settles(Head(d)) => x = shown
    PROVE  Leads(box, Tail(d), x, k)
BY ShowsTail DEF Leads

\* Pumping moves transfers on without a change of what they lead to.
LEMMA LeadsPumped ==
    ASSUME NEW S, NEW C, Data(C) \subseteq S, NEW d \in Seq(S), NEW box \in Outboxes(C),
           box # <<>>, NEW shown, NEW k, Leads(box, d, shown, k)
    PROVE  Leads(Pumped(box).left, d \o Pumped(box).out, shown, k)
<1>1. /\ Pumped(box).out \in Seq(Data(C))
      /\ Carries(Pumped(box), k)
      BY PumpedType DEF Leads
<1> QED BY <1>1, LeadsCarried

-----------------------------------------------------------------------------
(***************************************************************************)
(* The states a handler of the server starts from and ends in, when K      *)
(* copies have been made.                                                  *)
(***************************************************************************)

Servers(K) ==
    [owner: Screens, seq: Nat, cache: 0 .. K, data: 0 .. K \cup {Cleared}, count: Nat,
     active: Screens, screenSeq: Nat, retry: 0 .. Retries, retrySeq: Nat]

Proxies(K) == [dirty: BOOLEAN, content: 0 .. K, outbox: Outboxes(0 .. K)]
Downs(K) == Seq(DownMessages(0 .. K))
Ups(K) == Seq(UpMessages(0 .. K))
Expenses(K) == [copies: {K}, fails: Nat, twists: 0 .. MaxTwists]

States(K) ==
    [srv: Servers(K), px: [Clients -> Proxies(K)], dn: [Clients -> Downs(K)],
     clip: [Screens -> 0 .. K], spent: Expenses(K), source: Screens]

\* The bounds are numbers.
LEMMA Bounds == MaxTexts \in Nat /\ MaxTwists \in Nat /\ Retries \in Nat
BY ClipboardAssumption

\* The primary is no client, and a client is a computer or a phone.
LEMMA Places ==
    /\ Primary \in Screens /\ Primary \notin Clients /\ Clients \subseteq Screens
    /\ \A s \in Screens : s # Primary => s \in Clients
    /\ Computers \subseteq Clients /\ Phones \subseteq Clients
    /\ \A c \in Clients : c \in Computers \/ c \in Phones
    /\ \A c \in Computers : c \notin Phones
BY ClipboardAssumption DEF Screens, Clients

\* The parts of a state of the server's handlers.
LEMMA StateParts ==
    ASSUME NEW K, NEW st \in States(K)
    PROVE  /\ st.srv \in Servers(K) /\ st.px \in [Clients -> Proxies(K)]
           /\ st.dn \in [Clients -> Downs(K)] /\ st.clip \in [Screens -> 0 .. K]
           /\ st.spent \in Expenses(K) /\ st.source \in Screens
BY DEF States

\* The pushes to some clients.
LEMMA SentFacts ==
    ASSUME NEW K \in 0 .. MaxTexts, NEW st \in States(K), NEW some \in SUBSET Clients
    PROVE  LET new == Sent(st, some)
           IN /\ new \in States(K)
              /\ new.srv = st.srv /\ new.clip = st.clip
              /\ new.spent = st.spent /\ new.source = st.source
              /\ \A c \in Clients \ some : new.px[c] = st.px[c] /\ new.dn[c] = st.dn[c]
              /\ \A c \in some : ~new.px[c].dirty
              /\ \A c \in some : \A shown :
                   Leads(new.px[c].outbox, new.dn[c], shown, st.srv.cache)
<1> DEFINE copy == st.srv.cache
           Q(c) == Queued(st.px[c].outbox, copy, 0)
           q == [c \in some |-> Queued(st.px[c].outbox, copy, 0)]
           px == [c \in Clients |-> IF c \notin some THEN st.px[c]
                    ELSE [dirty |-> FALSE, content |-> copy, outbox |-> q[c].left]]
           dn == [c \in Clients |-> IF c \notin some THEN st.dn[c]
                    ELSE st.dn[c] \o q[c].out]
           new == Sent(st, some)
<1>1. new = [st EXCEPT !.px = px, !.dn = dn]
      BY DEF Sent
<1>2. /\ st.srv \in Servers(K) /\ st.px \in [Clients -> Proxies(K)]
      /\ st.dn \in [Clients -> Downs(K)] /\ st.clip \in [Screens -> 0 .. K]
      /\ st.spent \in Expenses(K) /\ st.source \in Screens
      BY StateParts
<1>3. copy \in 0 .. K
      BY <1>2 DEF Servers
<1>4. 0 .. K \subseteq 0 .. MaxTexts
      BY Bounds
<1>5. Data(0 .. K) \subseteq DownMessages(0 .. K)
      BY DEF Data, DownMessages
<1> HIDE DEF copy
<1>6. ASSUME NEW c \in some
      PROVE  /\ px[c] \in Proxies(K) /\ ~px[c].dirty
             /\ dn[c] \in Downs(K)
             /\ \A shown : Leads(px[c].outbox, dn[c], shown, copy)
      <2>1. c \in Clients /\ q[c] = Q(c)
            OBVIOUS
      <2> HIDE DEF q
      <2>2. px[c] = [dirty |-> FALSE, content |-> copy, outbox |-> q[c].left]
            BY <2>1
      <2>3. dn[c] = st.dn[c] \o q[c].out
            BY <2>1
      <2> HIDE DEF px, dn
      <2>4. st.px[c].outbox \in Outboxes(0 .. K)
            BY <1>2, <2>1 DEF Proxies
      <2>5. /\ Q(c).left \in Outboxes(0 .. K) /\ Q(c).out \in Seq(Data(0 .. K))
            /\ Carries(Q(c), copy)
            BY <1>3, <1>4, <2>4, QueuedType
      <2> HIDE DEF Q
      <2>6. px[c] \in Proxies(K) /\ ~px[c].dirty /\ px[c].outbox = Q(c).left
            BY <1>3, <2>1, <2>2, <2>5 DEF Proxies
      <2> DEFINE S == DownMessages(0 .. K)
                 D == Data(0 .. K)
      <2>7. st.dn[c] \in Seq(S)
            BY <1>2, <2>1 DEF Downs
      <2>8. dn[c] \in Seq(S)
            <3>1. q[c].out \in Seq(D)
                  BY <2>1, <2>5
            <3>2. D \subseteq S
                  BY <1>5
            <3> HIDE DEF S, D
            <3>3. q[c].out \in Seq(S)
                  BY <3>1, <3>2
            <3> QED BY <2>3, <2>7, <3>3, ConcatProperties
      <2>9. \A shown : Leads(Q(c).left, st.dn[c] \o Q(c).out, shown, copy)
            BY <1>5, <2>5, <2>7, LeadsCarried
      <2> QED BY <2>1, <2>3, <2>6, <2>8, <2>9 DEF Downs
<1>7. ASSUME NEW c \in Clients \ some PROVE px[c] = st.px[c] /\ dn[c] = st.dn[c]
      OBVIOUS
<1>8. px \in [Clients -> Proxies(K)] /\ dn \in [Clients -> Downs(K)]
      <2>1. \A c \in Clients : px[c] \in Proxies(K) /\ dn[c] \in Downs(K)
            BY <1>2, <1>6, <1>7
      <2>2. px = [c \in Clients |-> px[c]] /\ dn = [c \in Clients |-> dn[c]]
            OBVIOUS
      <2> HIDE DEF px, dn
      <2> QED BY <2>1, <2>2
<1> HIDE DEF px, dn
<1>9. /\ new.srv = st.srv /\ new.px = px /\ new.dn = dn /\ new.clip = st.clip
      /\ new.spent = st.spent /\ new.source = st.source
      BY <1>1 DEF States
<1>10. new \in States(K)
      BY <1>1, <1>8 DEF States
<1> HIDE DEF new
<1> QED BY <1>6, <1>7, <1>9, <1>10 DEF new, copy

\* The push to everybody but the sender.
LEMMA PublishFacts ==
    ASSUME NEW K \in 0 .. MaxTexts, NEW st \in States(K), NEW sender \in Screens
    PROVE  LET new == Publish(st, sender)
           IN /\ new \in States(K)
              /\ new.srv = st.srv /\ new.spent = st.spent /\ new.source = st.source
              /\ \A c \in Clients : new.clip[c] = st.clip[c]
              /\ new.clip[Primary] =
                   IF sender = Primary THEN st.clip[Primary] ELSE st.srv.cache
              /\ \A c \in Clients : ~new.px[c].dirty
              /\ \A c \in Clients : c # sender =>
                   \A shown : Leads(new.px[c].outbox, new.dn[c], shown, st.srv.cache)
              /\ \A c \in Clients : c = sender =>
                   /\ new.dn[c] = st.dn[c] /\ new.px[c].outbox = st.px[c].outbox
                   /\ new.px[c].content = st.px[c].content
<1> DEFINE some == Clients \ {sender}
           pushed == Sent(st, some)
           new == Publish(st, sender)
<1>1. /\ pushed \in States(K)
      /\ pushed.srv = st.srv /\ pushed.clip = st.clip
      /\ pushed.spent = st.spent /\ pushed.source = st.source
      /\ \A c \in Clients \ some : pushed.px[c] = st.px[c] /\ pushed.dn[c] = st.dn[c]
      /\ \A c \in some : ~pushed.px[c].dirty
      /\ \A c \in some : \A shown :
           Leads(pushed.px[c].outbox, pushed.dn[c], shown, st.srv.cache)
      BY SentFacts
<1>2. new = IF sender = Primary THEN pushed
            ELSE [pushed EXCEPT !.clip[Primary] = st.srv.cache, !.px[sender].dirty = FALSE]
      BY DEF Publish
<1> HIDE DEF pushed, new
<1>3. \A c \in Clients : c # Primary
      BY Places
<1>4. CASE sender = Primary
      <2>1. new = pushed /\ \A c \in Clients : c \in some /\ c # sender
            BY <1>2, <1>3, <1>4
      <2> QED BY <1>1, <1>4, <2>1 DEF new
<1>5. CASE sender # Primary
      <2>1. sender \in Clients /\ Primary \in Screens /\ Clients \subseteq Screens
            BY <1>5, Places
      <2>2. /\ pushed.srv \in Servers(K) /\ pushed.px \in [Clients -> Proxies(K)]
            /\ pushed.dn \in [Clients -> Downs(K)] /\ pushed.clip \in [Screens -> 0 .. K]
            /\ pushed.spent \in Expenses(K) /\ pushed.source \in Screens
            BY <1>1, StateParts
      <2> DEFINE cl == [pushed.clip EXCEPT ![Primary] = st.srv.cache]
                 px == [pushed.px EXCEPT ![sender].dirty = FALSE]
      <2>3. new = [pushed EXCEPT !.clip = cl, !.px = px]
            BY <1>1, <1>2, <1>5 DEF States
      <2>4. st.srv.cache \in 0 .. K
            <3>1. st.srv \in Servers(K)
                  BY StateParts
            <3> QED BY <3>1 DEF Servers
      <2>5. /\ cl \in [Screens -> 0 .. K] /\ cl[Primary] = st.srv.cache
            /\ \A c \in Clients : cl[c] = st.clip[c]
            BY <1>1, <1>3, <2>1, <2>2, <2>4
      <2>6. /\ \A c \in Clients : px[c] \in Proxies(K)
            /\ \A c \in Clients : c # sender => px[c] = pushed.px[c]
            /\ ~px[sender].dirty /\ px[sender].outbox = pushed.px[sender].outbox
            /\ px[sender].content = pushed.px[sender].content
            BY <2>1, <2>2 DEF Proxies
      <2>7. px \in [Clients -> Proxies(K)]
            <3>1. px = [c \in Clients |-> px[c]]
                  BY <2>2
            <3> HIDE DEF px
            <3> QED BY <2>6, <3>1
      <2> HIDE DEF cl, px
      <2>8. /\ new.srv = pushed.srv /\ new.px = px /\ new.dn = pushed.dn /\ new.clip = cl
            /\ new.spent = pushed.spent /\ new.source = pushed.source
            BY <1>1, <2>3 DEF States
      <2>9. new \in States(K)
            BY <1>1, <2>3, <2>5, <2>7 DEF States
      <2>10. /\ \A c \in Clients : ~new.px[c].dirty
             /\ \A c \in Clients : c # sender =>
                  \A shown : Leads(new.px[c].outbox, new.dn[c], shown, st.srv.cache)
             BY <1>1, <2>6, <2>8
      <2>11. /\ new.dn[sender] = st.dn[sender] /\ new.px[sender].outbox = st.px[sender].outbox
             /\ new.px[sender].content = st.px[sender].content
             BY <1>1, <2>1, <2>6, <2>8
      <2> QED BY <1>1, <1>5, <2>5, <2>8, <2>9, <2>10, <2>11 DEF new
<1> QED BY <1>4, <1>5

-----------------------------------------------------------------------------
(***************************************************************************)
(* Server::onClipboardChanged.                                             *)
(***************************************************************************)

\* What no update of a clipboard touches.
SameFocus(old, new) ==
    /\ new.srv.count = old.srv.count /\ new.srv.active = old.srv.active
    /\ new.srv.screenSeq = old.srv.screenSeq
    /\ new.srv.retry = old.srv.retry /\ new.srv.retrySeq = old.srv.retrySeq

\* Nothing was pushed.
SameRecords(old, new) ==
    /\ new.px = old.px /\ new.dn = old.dn /\ new.source = old.source
    /\ new.srv.data = old.srv.data /\ new.clip = old.clip

\* Copy k was pushed to every client but the sender.
PushedToAll(old, new, sender, k) ==
    /\ new.srv.cache = k /\ new.srv.data = k /\ new.source = sender
    /\ new.spent.fails = old.spent.fails
    /\ \A c \in Clients : ~new.px[c].dirty /\ new.clip[c] = old.clip[c]
    /\ \A c \in Clients : c # sender =>
         \A shown : Leads(new.px[c].outbox, new.dn[c], shown, k)

\* What a reading of the primary comes to: nothing, an empty clipboard, what is
\* known, or something new.
ReadOutcome(old, new) ==
    /\ new.clip = old.clip
    /\ \/ /\ SameRecords(old, new)
          /\ new.spent.fails = old.spent.fails \/ new.spent.fails = old.spent.fails + 1
          /\ \/ new.srv.cache = old.srv.cache /\ new.spent.fails = old.spent.fails + 1
             \/ new.srv.cache = 0 /\ (old.clip[Primary] = 0 \/
                                        new.spent.fails = old.spent.fails + 1)
             \/ new.srv.cache = old.srv.data /\ old.srv.data = old.clip[Primary]
       \/ /\ old.clip[Primary] # 0 /\ old.clip[Primary] # old.srv.data
          /\ PushedToAll(old, new, Primary, old.clip[Primary])

ReadPrimary(old, new) ==
    /\ SameFocus(old, new)
    /\ new.srv.owner = old.srv.owner /\ new.srv.seq = old.srv.seq
    /\ ReadOutcome(old, new)

\* A client's update was accepted.
ReadClient(old, new, c) ==
    /\ SameFocus(old, new)
    /\ new.srv.owner = c /\ new.spent = old.spent
    /\ \/ /\ old.px[c].content = 0
          /\ SameRecords(old, new) /\ new.srv.cache = 0
       \/ /\ old.px[c].content # 0
          /\ PushedToAll(old, new, c, old.px[c].content)
          /\ new.clip[Primary] = old.px[c].content
          /\ new.dn[c] = old.dn[c] /\ new.px[c].outbox = old.px[c].outbox
          /\ new.px[c].content = old.px[c].content

\* A reading: what is there, or nothing at the cost of a failure.
LEMMA ReadsFacts ==
    ASSUME NEW K \in Nat, NEW content \in 0 .. K, NEW costs \in Expenses(K),
           NEW n \in {0, 1}, NEW r \in Reads(content, costs, n)
    PROVE  /\ r.spent \in Expenses(K)
           /\ r.got \in 0 .. K \cup {NotRead}
           /\ \/ r.got = content /\ r.spent = costs
              \/ r.got \in {NotRead, 0} /\ r.spent.fails = costs.fails + n
<1>1. CASE r = [got |-> content, spent |-> costs]
      BY <1>1
<1>2. CASE /\ costs.twists < MaxTwists
           /\ \E g \in {NotRead, 0} :
                r = [got |-> g, spent |-> [costs EXCEPT !.fails = @ + n, !.twists = @ + 1]]
      <2>1. PICK g \in {NotRead, 0} :
              r = [got |-> g, spent |-> [costs EXCEPT !.fails = @ + n, !.twists = @ + 1]]
            BY <1>2
      <2>2. r.got = g /\ r.spent = [costs EXCEPT !.fails = @ + n, !.twists = @ + 1]
            BY <2>1
      <2>3. /\ costs.fails \in Nat /\ costs.twists \in 0 .. MaxTwists
            /\ costs.copies = K
            BY DEF Expenses
      <2>4. costs.fails + n \in Nat /\ costs.twists + 1 \in 0 .. MaxTwists
            BY <1>2, <2>3, Bounds
      <2>5. r.spent \in Expenses(K) /\ r.spent.fails = costs.fails + n
            BY <2>2, <2>4 DEF Expenses
      <2>6. 0 \in 0 .. K
            OBVIOUS
      <2> QED BY <2>2, <2>5, <2>6
<1> QED BY <1>1, <1>2 DEF Reads

\* The owner and the cache of a state may be replaced, and what was pushed last.
Changed(st, srv, costs, source) ==
    [st EXCEPT !.srv = srv, !.spent = costs, !.source = source]

\* A change of the record, the costs and the source keeps a state a state.
LEMMA StateChanged ==
    ASSUME NEW K \in Nat, NEW st \in States(K), NEW srv \in Servers(K),
           NEW costs \in Expenses(K), NEW source \in Screens
    PROVE  LET new == Changed(st, srv, costs, source)
           IN /\ new \in States(K) /\ new.srv = srv /\ new.spent = costs
              /\ new.source = source
              /\ new.px = st.px /\ new.dn = st.dn /\ new.clip = st.clip
BY DEF States, Changed

\* The record after a reading.
LEMMA NewServer ==
    ASSUME NEW K \in Nat, NEW srv \in Servers(K), NEW cache \in 0 .. K,
           NEW data \in 0 .. K \cup {Cleared}, NEW owner \in Screens, NEW seq \in Nat
    PROVE  /\ [srv EXCEPT !.cache = cache] \in Servers(K)
           /\ [srv EXCEPT !.owner = owner, !.seq = seq] \in Servers(K)
           /\ [srv EXCEPT !.cache = cache, !.data = data] \in Servers(K)
BY DEF Servers

\* The fields of the server's record.
LEMMA ServerParts ==
    ASSUME NEW K \in Nat, NEW srv \in Servers(K)
    PROVE  /\ srv.owner \in Screens /\ srv.seq \in Nat /\ srv.cache \in 0 .. K
           /\ srv.data \in 0 .. K \cup {Cleared} /\ srv.count \in Nat
           /\ srv.active \in Screens /\ srv.screenSeq \in Nat
           /\ srv.retry \in 0 .. Retries /\ srv.retrySeq \in Nat
BY DEF Servers

\* The primary is read while it owns the clipboard.
LEMMA PrimaryRead ==
    ASSUME NEW K \in 0 .. MaxTexts, NEW old \in States(K), old.srv.owner = Primary,
           NEW new \in OnClipboardChanged(old, Primary, old.srv.seq)
    PROVE  new \in States(K) /\ ReadPrimary(old, new)
<1> DEFINE content == old.clip[Primary]
           Read(r) == [old EXCEPT !.spent = r.spent]
           Cached(r) == [Read(r) EXCEPT !.srv.cache = r.got]
           Adopted(r) == [Cached(r) EXCEPT !.srv.data = r.got, !.source = Primary]
           After(r) ==
             CASE r.got = NotRead -> Read(r)
               [] r.got = 0 \/ r.got = old.srv.data -> Cached(r)
               [] OTHER -> Publish(Adopted(r), Primary)
<1>1. PICK r \in Reads(content, old.spent, 1) : new = After(r)
      <2>1. old.srv.seq \in Nat
            BY StateParts, ServerParts, Bounds
      <2>2. ~(old.srv.seq < old.srv.seq)
            BY <2>1
      <2> QED BY <2>2 DEF OnClipboardChanged
<1>2. /\ K \in Nat /\ Primary \in Screens
      /\ old.srv \in Servers(K) /\ old.px \in [Clients -> Proxies(K)]
      /\ old.dn \in [Clients -> Downs(K)] /\ old.clip \in [Screens -> 0 .. K]
      /\ old.spent \in Expenses(K) /\ old.source \in Screens
      BY StateParts, Places, Bounds
<1>3. content \in 0 .. K
      BY <1>2
<1>4. /\ r.spent \in Expenses(K)
      /\ r.got \in 0 .. K \cup {NotRead}
      /\ \/ r.got = content /\ r.spent = old.spent
         \/ r.got \in {NotRead, 0} /\ r.spent.fails = old.spent.fails + 1
      BY <1>1, <1>2, <1>3, ReadsFacts
<1>5. content # NotRead /\ NotRead # 0 /\ NotRead # old.srv.data
      <2>1. old.srv.data \in 0 .. K \cup {Cleared}
            BY <1>2, ServerParts
      <2> QED BY <1>2, <1>3, <2>1 DEF NotRead, Cleared
<1>6. Read(r) = Changed(old, old.srv, r.spent, old.source)
      BY DEF States, Changed
<1>7. CASE r.got = NotRead
      <2>1. new = Read(r)
            BY <1>1, <1>5, <1>7
      <2>2. r.spent.fails = old.spent.fails + 1
            BY <1>4, <1>5, <1>7
      <2> HIDE DEF Read, After
      <2>3. /\ new \in States(K) /\ new.srv = old.srv /\ new.spent = r.spent
            /\ new.source = old.source /\ new.px = old.px /\ new.dn = old.dn
            /\ new.clip = old.clip
            BY <1>2, <1>4, <1>6, <2>1, StateChanged
      <2> QED BY <2>2, <2>3 DEF ReadPrimary, ReadOutcome, SameFocus, SameRecords
<1>8. CASE r.got # NotRead /\ (r.got = 0 \/ r.got = old.srv.data)
      <2> DEFINE srv == [old.srv EXCEPT !.cache = r.got]
      <2>1. new = Cached(r)
            BY <1>1, <1>8
      <2>2. r.got \in 0 .. K
            BY <1>4, <1>8
      <2>3. Cached(r) = Changed(old, srv, r.spent, old.source)
            BY DEF States, Changed
      <2>4. srv \in Servers(K)
            BY <1>2, <2>2, NewServer, ServerParts
      <2>5. /\ srv.cache = r.got /\ srv.data = old.srv.data
            /\ srv.owner = old.srv.owner /\ srv.seq = old.srv.seq
            /\ srv.count = old.srv.count /\ srv.active = old.srv.active
            /\ srv.screenSeq = old.srv.screenSeq
            /\ srv.retry = old.srv.retry /\ srv.retrySeq = old.srv.retrySeq
            BY <1>2 DEF Servers
      <2> HIDE DEF Cached, Read, After, srv
      <2>6. /\ new \in States(K) /\ new.srv = srv /\ new.spent = r.spent
            /\ new.source = old.source /\ new.px = old.px /\ new.dn = old.dn
            /\ new.clip = old.clip
            BY <1>2, <1>4, <2>1, <2>3, <2>4, StateChanged
      <2>7. /\ SameFocus(old, new) /\ SameRecords(old, new)
            /\ new.srv.owner = old.srv.owner /\ new.srv.seq = old.srv.seq
            BY <2>5, <2>6 DEF SameFocus, SameRecords
      <2>8. /\ new.srv.cache = r.got
            /\ new.spent.fails = old.spent.fails \/ new.spent.fails = old.spent.fails + 1
            BY <1>4, <2>5, <2>6
      <2>9. \/ new.srv.cache = 0 /\ (content = 0 \/ new.spent.fails = old.spent.fails + 1)
            \/ new.srv.cache = old.srv.data /\ old.srv.data = content
            BY <1>4, <1>8, <2>6, <2>8
      <2> QED BY <2>6, <2>7, <2>8, <2>9 DEF ReadPrimary, ReadOutcome
<1>9. CASE r.got # NotRead /\ r.got # 0 /\ r.got # old.srv.data
      <2> DEFINE srv == [old.srv EXCEPT !.cache = r.got, !.data = r.got]
                 st == Adopted(r)
      <2>1. new = Publish(st, Primary)
            BY <1>1, <1>9
      <2>2. r.got \in 0 .. K /\ r.got = content /\ r.spent = old.spent
            BY <1>4, <1>9
      <2>3. st = Changed(old, srv, r.spent, Primary)
            BY DEF States, Servers, Changed
      <2>4. srv \in Servers(K)
            BY <1>2, <2>2, NewServer, ServerParts
      <2>5. /\ srv.cache = r.got /\ srv.data = r.got
            /\ srv.owner = old.srv.owner /\ srv.seq = old.srv.seq
            /\ srv.count = old.srv.count /\ srv.active = old.srv.active
            /\ srv.screenSeq = old.srv.screenSeq
            /\ srv.retry = old.srv.retry /\ srv.retrySeq = old.srv.retrySeq
            BY <1>2 DEF Servers
      <2> HIDE DEF st, Adopted, Cached, Read, After, srv
      <2>6. /\ st \in States(K) /\ st.srv = srv /\ st.spent = r.spent
            /\ st.source = Primary /\ st.px = old.px /\ st.dn = old.dn
            /\ st.clip = old.clip
            BY <1>2, <1>4, <2>3, <2>4, StateChanged
      <2>7. /\ new \in States(K)
            /\ new.srv = srv /\ new.spent = old.spent /\ new.source = Primary
            /\ \A c \in Clients : new.clip[c] = old.clip[c]
            /\ new.clip[Primary] = old.clip[Primary]
            /\ \A c \in Clients : ~new.px[c].dirty
            /\ \A c \in Clients : c # Primary =>
                 \A shown : Leads(new.px[c].outbox, new.dn[c], shown, content)
            <3>1. /\ new \in States(K)
                  /\ new.srv = st.srv /\ new.spent = st.spent /\ new.source = st.source
                  /\ \A c \in Clients : new.clip[c] = st.clip[c]
                  /\ new.clip[Primary] =
                       IF Primary = Primary THEN st.clip[Primary] ELSE st.srv.cache
                  /\ \A c \in Clients : ~new.px[c].dirty
                  /\ \A c \in Clients : c # Primary =>
                       \A shown : Leads(new.px[c].outbox, new.dn[c], shown, st.srv.cache)
                  BY <1>2, <2>1, <2>6, PublishFacts, ZenonT(40)
            <3>2. st.srv.cache = content
                  BY <2>2, <2>5, <2>6
            <3> HIDE DEF content
            <3> QED BY <2>2, <2>6, <3>1, <3>2
      <2>8. PushedToAll(old, new, Primary, content)
            BY <2>2, <2>5, <2>7 DEF PushedToAll
      <2>9. new.clip = old.clip
            <3>1. \A s \in Screens : new.clip[s] = old.clip[s]
                  BY <2>7, Places
            <3>2. new.clip \in [Screens -> 0 .. K]
                  BY <2>7, StateParts
            <3> QED BY <1>2, <3>1, <3>2
      <2> QED BY <1>9, <2>2, <2>5, <2>7, <2>8, <2>9 DEF ReadPrimary, ReadOutcome, SameFocus
<1> QED BY <1>7, <1>8, <1>9

\* The update of a client is accepted.
LEMMA ClientRead ==
    ASSUME NEW K \in 0 .. MaxTexts, NEW old \in States(K), NEW c \in Clients,
           NEW seq \in Nat, ~(seq < old.srv.seq),
           NEW new \in OnClipboardChanged(old, c, seq)
    PROVE  new \in States(K) /\ ReadClient(old, new, c)
<1> DEFINE content == old.px[c].content
           owned == IF old.srv.owner = c THEN old.srv
                    ELSE [old.srv EXCEPT !.owner = c, !.seq = seq]
           adopted == IF old.srv.owner = c THEN old
                      ELSE [old EXCEPT !.srv.owner = c, !.srv.seq = seq]
           read == [adopted EXCEPT !.spent = old.spent]
           cached == [read EXCEPT !.srv.cache = content]
           known == [cached EXCEPT !.srv.data = content, !.source = c]
<1>1. /\ K \in Nat /\ c \in Screens /\ c # Primary
      /\ old.srv \in Servers(K) /\ old.px \in [Clients -> Proxies(K)]
      /\ old.dn \in [Clients -> Downs(K)] /\ old.clip \in [Screens -> 0 .. K]
      /\ old.spent \in Expenses(K) /\ old.source \in Screens
      BY StateParts, Places, Bounds
<1>2. content \in 0 .. K
      BY <1>1 DEF Proxies
<1>3. content # NotRead
      BY <1>1, <1>2 DEF NotRead
<1>4. new = IF content = 0 THEN cached ELSE Publish(known, c)
      <2> DEFINE r == [got |-> content, spent |-> old.spent]
      <2>1. r.got = content /\ r.spent = old.spent
            OBVIOUS
      <2> HIDE DEF r
      <2>2. \E q \in {r} :
              new = (CASE q.got = NotRead -> [adopted EXCEPT !.spent = q.spent]
                       [] q.got = 0 ->
                            [[adopted EXCEPT !.spent = q.spent] EXCEPT !.srv.cache = q.got]
                       [] OTHER ->
                            Publish([[[adopted EXCEPT !.spent = q.spent]
                                        EXCEPT !.srv.cache = q.got]
                                       EXCEPT !.srv.data = q.got, !.source = c], c))
            BY <1>1, ZenonT(40) DEF OnClipboardChanged, r
      <2> HIDE DEF adopted
      <2>3. new = (CASE r.got = NotRead -> [adopted EXCEPT !.spent = r.spent]
                     [] r.got = 0 ->
                          [[adopted EXCEPT !.spent = r.spent] EXCEPT !.srv.cache = r.got]
                     [] OTHER ->
                          Publish([[[adopted EXCEPT !.spent = r.spent]
                                      EXCEPT !.srv.cache = r.got]
                                     EXCEPT !.srv.data = r.got, !.source = c], c))
            BY <2>2
      <2> HIDE DEF content
      <2>4. CASE content = 0
            BY <1>3, <2>1, <2>3, <2>4
      <2>5. CASE content # 0
            BY <1>3, <2>1, <2>3, <2>5
      <2> QED BY <2>4, <2>5
<1>5. /\ owned \in Servers(K) /\ owned.owner = c
      /\ owned.cache = old.srv.cache /\ owned.data = old.srv.data
      /\ owned.count = old.srv.count /\ owned.active = old.srv.active
      /\ owned.screenSeq = old.srv.screenSeq
      /\ owned.retry = old.srv.retry /\ owned.retrySeq = old.srv.retrySeq
      BY <1>1, Bounds DEF Servers
<1>6. adopted = [old EXCEPT !.srv = owned]
      BY DEF States, Servers
<1>7. CASE content = 0
      <2> DEFINE srv == [owned EXCEPT !.cache = 0]
      <2>1. new = Changed(old, srv, old.spent, old.source)
            <3>1. cached = Changed(old, srv, old.spent, old.source)
                  <4> HIDE DEF adopted, owned
                  <4> QED BY <1>6, <1>7 DEF States, Changed
            <3> QED BY <1>4, <1>7, <3>1
      <2>2. srv \in Servers(K)
            <3> HIDE DEF owned
            <3>1. 0 \in 0 .. K
                  BY <1>1
            <3> QED BY <1>5, <3>1 DEF Servers
      <2>3. /\ srv.cache = 0 /\ srv.data = old.srv.data /\ srv.owner = c
            /\ srv.count = old.srv.count /\ srv.active = old.srv.active
            /\ srv.screenSeq = old.srv.screenSeq
            /\ srv.retry = old.srv.retry /\ srv.retrySeq = old.srv.retrySeq
            <3> HIDE DEF owned
            <3> QED BY <1>5 DEF Servers
      <2> HIDE DEF srv
      <2>4. /\ new \in States(K) /\ new.srv = srv /\ new.spent = old.spent
            /\ new.source = old.source /\ new.px = old.px /\ new.dn = old.dn
            /\ new.clip = old.clip
            BY <1>1, <2>1, <2>2, StateChanged
      <2> QED BY <1>7, <2>3, <2>4 DEF ReadClient, SameFocus, SameRecords
<1>8. CASE content # 0
      <2> DEFINE srv == [owned EXCEPT !.cache = content, !.data = content]
      <2>1. new = Publish(known, c)
            BY <1>4, <1>8
      <2>2. known = Changed(old, srv, old.spent, c)
            <3> HIDE DEF adopted, owned, content
            <3> QED BY <1>5, <1>6 DEF States, Servers, Changed
      <2>3. srv \in Servers(K)
            <3> HIDE DEF owned, content
            <3> QED BY <1>2, <1>5 DEF Servers
      <2>4. /\ srv.cache = content /\ srv.data = content /\ srv.owner = c
            /\ srv.count = old.srv.count /\ srv.active = old.srv.active
            /\ srv.screenSeq = old.srv.screenSeq
            /\ srv.retry = old.srv.retry /\ srv.retrySeq = old.srv.retrySeq
            <3> HIDE DEF owned, content
            <3> QED BY <1>5 DEF Servers
      <2> HIDE DEF srv, known
      <2>5. /\ known \in States(K) /\ known.srv = srv /\ known.spent = old.spent
            /\ known.source = c /\ known.px = old.px /\ known.dn = old.dn
            /\ known.clip = old.clip
            BY <1>1, <2>2, <2>3, StateChanged
      <2>6. /\ new \in States(K)
            /\ new.srv = srv /\ new.spent = old.spent /\ new.source = c
            /\ \A d \in Clients : new.clip[d] = old.clip[d]
            /\ new.clip[Primary] = content
            /\ \A d \in Clients : ~new.px[d].dirty
            /\ \A d \in Clients : d # c =>
                 \A shown : Leads(new.px[d].outbox, new.dn[d], shown, content)
            /\ \A d \in Clients : d = c =>
                 /\ new.dn[d] = old.dn[d] /\ new.px[d].outbox = old.px[d].outbox
                 /\ new.px[d].content = old.px[d].content
            <3>1. /\ new \in States(K)
                  /\ new.srv = known.srv /\ new.spent = known.spent
                  /\ new.source = known.source
                  /\ \A d \in Clients : new.clip[d] = known.clip[d]
                  /\ new.clip[Primary] =
                       IF c = Primary THEN known.clip[Primary] ELSE known.srv.cache
                  /\ \A d \in Clients : ~new.px[d].dirty
                  /\ \A d \in Clients : d # c =>
                       \A shown : Leads(new.px[d].outbox, new.dn[d], shown, known.srv.cache)
                  /\ \A d \in Clients : d = c =>
                       /\ new.dn[d] = known.dn[d] /\ new.px[d].outbox = known.px[d].outbox
                       /\ new.px[d].content = known.px[d].content
                  <4>1. c \in Screens /\ known \in States(K)
                        BY <1>1, <2>5
                  <4> HIDE DEF content
                  <4> QED BY <2>1, <4>1, PublishFacts, ZenonT(60)
            <3>2. known.srv.cache = content /\ c # Primary
                  BY <1>1, <2>4, <2>5
            <3> HIDE DEF content
            <3>3. new.clip[Primary] = content
                  BY <3>1, <3>2
            <3>4. \A d \in Clients : d # c =>
                    \A shown : Leads(new.px[d].outbox, new.dn[d], shown, content)
                  BY <3>1, <3>2
            <3>5. /\ new.srv = srv /\ new.spent = old.spent /\ new.source = c
                  /\ \A d \in Clients : new.clip[d] = old.clip[d]
                  /\ \A d \in Clients : d = c =>
                       /\ new.dn[d] = old.dn[d] /\ new.px[d].outbox = old.px[d].outbox
                       /\ new.px[d].content = old.px[d].content
                  BY <2>5, <3>1
            <3>6. new \in States(K) /\ \A d \in Clients : ~new.px[d].dirty
                  BY <3>1
            <3> QED BY ONLY <3>3, <3>4, <3>5, <3>6
      <2>7. PushedToAll(old, new, c, content)
            BY <2>4, <2>6 DEF PushedToAll
      <2> QED BY <1>8, <2>4, <2>6, <2>7 DEF ReadClient, SameFocus
<1> QED BY <1>7, <1>8

-----------------------------------------------------------------------------
(***************************************************************************)
(* Server::switchScreen and the handler of a grab.                         *)
(***************************************************************************)

\* A client's proxy and what the client will show are as before.
Undisturbed(old, new, c) ==
    /\ new.px[c] = old.px[c]
    /\ NoneAfter(old.dn[c], 0) => NoneAfter(new.dn[c], 0)
    /\ \A shown, k : Leads(old.px[c].outbox, old.dn[c], shown, k)
                       => Leads(new.px[c].outbox, new.dn[c], shown, k)

SameServer(old, new) ==
    /\ new.srv.owner = old.srv.owner /\ new.srv.seq = old.srv.seq
    /\ new.srv.cache = old.srv.cache /\ new.srv.data = old.srv.data
    /\ new.srv.retry = old.srv.retry /\ new.srv.retrySeq = old.srv.retrySeq
    /\ new.spent = old.spent /\ new.source = old.source

\* A message that settles nothing is sent to c.
WithMessage(st, c, m) == [st EXCEPT !.dn = [st.dn EXCEPT ![c] = Append(@, m)]]

\* A message that settles nothing is sent to a client.
LEMMA MessageFacts ==
    ASSUME NEW K \in Nat, NEW st \in States(K), NEW c \in Clients,
           NEW m \in DownMessages(0 .. K), ~Settles(m)
    PROVE  LET new == WithMessage(st, c, m)
           IN /\ new \in States(K)
              /\ new.srv = st.srv /\ new.px = st.px /\ new.clip = st.clip
              /\ new.spent = st.spent /\ new.source = st.source
              /\ \A d \in Clients : Undisturbed(st, new, d)
<1> DEFINE dn == [st.dn EXCEPT ![c] = Append(@, m)]
           new == WithMessage(st, c, m)
<1>1. st.dn \in [Clients -> Downs(K)]
      BY StateParts
<1>2. new = [st EXCEPT !.dn = dn]
      BY DEF WithMessage
<1>3. dn[c] = Append(st.dn[c], m) /\ \A d \in Clients : d # c => dn[d] = st.dn[d]
      BY <1>1
<1> DEFINE S == DownMessages(0 .. K)
<1>4. m \in S /\ st.dn[c] \in Seq(S)
      BY <1>1 DEF Downs
<1>5. dn \in [Clients -> Downs(K)]
      <2>1. \A d \in Clients : dn[d] \in Downs(K)
            <3>1. Append(st.dn[c], m) \in Seq(S)
                  <4> HIDE DEF S
                  <4> QED BY <1>4, AppendProperties
            <3>2. dn[c] \in Downs(K)
                  BY <1>3, <3>1 DEF Downs
            <3> QED BY <1>1, <1>3, <3>2
      <2>2. dn = [d \in Clients |-> dn[d]]
            BY <1>1
      <2> HIDE DEF dn
      <2> QED BY <2>1, <2>2
<1> HIDE DEF dn, S
<1>6. /\ new \in States(K)
      /\ new.srv = st.srv /\ new.px = st.px /\ new.clip = st.clip /\ new.dn = dn
      /\ new.spent = st.spent /\ new.source = st.source
      BY <1>2, <1>5 DEF States
<1>7. NoneAfter(st.dn[c], 0) => NoneAfter(dn[c], 0)
      BY <1>3, <1>4, ShowsAppend
<1>8. \A box, shown, k : Leads(box, st.dn[c], shown, k) => Leads(box, dn[c], shown, k)
      BY <1>3, <1>4, LeadsAppend
<1> HIDE DEF new
<1>9. ASSUME NEW d \in Clients PROVE Undisturbed(st, new, d)
      <2>1. CASE d = c
            BY <1>6, <1>7, <1>8, <2>1 DEF Undisturbed
      <2>2. CASE d # c
            <3>1. dn[d] = st.dn[d]
                  BY <1>3, <2>2
            <3> QED BY <1>6, <3>1 DEF Undisturbed
      <2> QED BY <2>1, <2>2
<1> QED BY <1>6, <1>9 DEF new

\* What a switch to dst does to what was there.
EntersFrom(old, new, dst) ==
    /\ SameServer(old, new)
    /\ \A c \in Clients : new.clip[c] = old.clip[c]
    /\ new.clip[Primary] = IF dst = Primary THEN old.srv.cache ELSE old.clip[Primary]
    /\ \A c \in Clients : new.px[c].dirty => old.px[c].dirty
    /\ \A c \in Clients : c # dst \/ ~old.px[c].dirty => Undisturbed(old, new, c)

\* The primary shows the cache, a dirty proxy sends it.
LEMMA SetFacts ==
    ASSUME NEW K \in 0 .. MaxTexts, NEW st \in States(K), NEW dst \in Screens
    PROVE  SetClipboard(st, dst) \in States(K) /\ EntersFrom(st, SetClipboard(st, dst), dst)
<1> DEFINE new == SetClipboard(st, dst)
<1>1. /\ st.srv \in Servers(K) /\ st.px \in [Clients -> Proxies(K)]
      /\ st.dn \in [Clients -> Downs(K)] /\ st.clip \in [Screens -> 0 .. K]
      /\ st.spent \in Expenses(K) /\ st.source \in Screens
      BY StateParts
<1>2. K \in Nat /\ st.srv.cache \in 0 .. K
      <2>1. K \in Nat
            BY Bounds
      <2> QED BY <1>1, <2>1, ServerParts
<1>3. CASE dst = Primary
      <2> DEFINE cl == [st.clip EXCEPT ![Primary] = st.srv.cache]
      <2>1. new = [st EXCEPT !.clip = cl]
            BY <1>3 DEF SetClipboard, States
      <2>2. /\ cl \in [Screens -> 0 .. K] /\ cl[Primary] = st.srv.cache
            /\ \A c \in Clients : cl[c] = st.clip[c]
            BY <1>1, <1>2, Places
      <2> HIDE DEF cl
      <2>3. /\ new \in States(K) /\ new.srv = st.srv /\ new.px = st.px /\ new.dn = st.dn
            /\ new.clip = cl /\ new.spent = st.spent /\ new.source = st.source
            BY <2>1, <2>2 DEF States
      <2> HIDE DEF new
      <2> QED BY <1>3, <2>2, <2>3 DEF EntersFrom, SameServer, Undisturbed, new
<1>4. CASE dst # Primary /\ st.px[dst].dirty
      <2> DEFINE some == {dst}
      <2>1. dst \in Clients /\ some \in SUBSET Clients
            BY <1>4, Places
      <2>2. new = Sent(st, some)
            BY <1>4 DEF SetClipboard
      <2> HIDE DEF new, some
      <2>3. /\ new \in States(K)
            /\ new.srv = st.srv /\ new.clip = st.clip
            /\ new.spent = st.spent /\ new.source = st.source
            /\ \A c \in Clients \ some : new.px[c] = st.px[c] /\ new.dn[c] = st.dn[c]
            /\ \A c \in some : ~new.px[c].dirty
            BY <2>1, <2>2, SentFacts
      <2>4. \A c \in Clients : c # dst => c \in Clients \ some
            BY DEF some
      <2>5. ASSUME NEW c \in Clients PROVE c # dst \/ ~st.px[c].dirty => Undisturbed(st, new, c)
            BY <1>4, <2>3, <2>4 DEF Undisturbed
      <2>6. ASSUME NEW c \in Clients PROVE new.px[c].dirty => st.px[c].dirty
            BY <1>4, <2>3, <2>4
      <2> QED BY <1>4, <2>3, <2>5, <2>6 DEF EntersFrom, SameServer, new
<1>5. CASE dst # Primary /\ ~st.px[dst].dirty
      <2>1. new = st
            BY <1>5 DEF SetClipboard
      <2> HIDE DEF new
      <2> QED BY <1>5, <2>1 DEF EntersFrom, SameServer, Undisturbed, new
<1> QED BY <1>3, <1>4, <1>5

\* Server::switchScreen, once the screen is left.
LEMMA EnteredFacts ==
    ASSUME NEW K \in 0 .. MaxTexts, NEW st \in States(K), NEW dst \in Screens
    PROVE  Entered(st, dst) \in States(K) /\ EntersFrom(st, Entered(st, dst), dst)
<1> DEFINE was == st.srv.active
           leave == [type |-> "leave"]
           count == st.srv.count + 1
           enter == [type |-> "enter", seq |-> count]
           left == IF was = Primary THEN st ELSE WithMessage(st, was, leave)
           srv == [st.srv EXCEPT !.active = dst, !.count = count]
           cut == Changed(left, srv, left.spent, left.source)
           home == Changed(left, [srv EXCEPT !.screenSeq = count], left.spent, left.source)
           there == IF dst = Primary THEN home ELSE WithMessage(cut, dst, enter)
<1>1. /\ st.srv \in Servers(K) /\ st.px \in [Clients -> Proxies(K)]
      /\ st.dn \in [Clients -> Downs(K)] /\ st.clip \in [Screens -> 0 .. K]
      /\ st.spent \in Expenses(K) /\ st.source \in Screens
      BY StateParts
<1>2. K \in Nat /\ was \in Screens /\ count \in Nat
      <2>1. K \in Nat
            BY Bounds
      <2> QED BY <1>1, <2>1, ServerParts
<1>3. /\ leave \in DownMessages(0 .. K) /\ ~Settles(leave)
      /\ enter \in DownMessages(0 .. K) /\ ~Settles(enter)
      BY <1>2 DEF DownMessages, Settles
<1>4. /\ srv \in Servers(K) /\ [srv EXCEPT !.screenSeq = count] \in Servers(K)
      /\ srv.owner = st.srv.owner /\ srv.seq = st.srv.seq
      /\ srv.cache = st.srv.cache /\ srv.data = st.srv.data
      /\ srv.retry = st.srv.retry /\ srv.retrySeq = st.srv.retrySeq
      BY <1>1, <1>2 DEF Servers
<1>5. LET new == [srv EXCEPT !.screenSeq = count]
      IN /\ new.owner = st.srv.owner /\ new.seq = st.srv.seq
         /\ new.cache = st.srv.cache /\ new.data = st.srv.data
         /\ new.retry = st.srv.retry /\ new.retrySeq = st.srv.retrySeq
      BY <1>1 DEF Servers
<1> HIDE DEF leave, enter, srv, was
<1>6. /\ left \in States(K) /\ left.srv = st.srv /\ left.px = st.px /\ left.clip = st.clip
      /\ left.spent = st.spent /\ left.source = st.source
      /\ \A c \in Clients : Undisturbed(st, left, c)
      <2>1. CASE was = Primary
            BY <2>1 DEF Undisturbed
      <2>2. CASE was # Primary
            <3>1. was \in Clients
                  BY <1>2, <2>2, Places
            <3> QED BY <1>2, <1>3, <2>2, <3>1, MessageFacts
      <2> QED BY <2>1, <2>2
<1> HIDE DEF left
<1>7. left.spent \in Expenses(K) /\ left.source \in Screens
      BY <1>1, <1>6
<1>8. /\ there \in States(K) /\ SameServer(st, there)
      /\ there.px = st.px /\ there.clip = st.clip
      /\ \A c \in Clients : Undisturbed(st, there, c)
      <2>1. CASE dst = Primary
            <3> DEFINE at == [srv EXCEPT !.screenSeq = count]
            <3>1. there = Changed(left, at, left.spent, left.source) /\ at \in Servers(K)
                  BY <1>4, <2>1
            <3>2. /\ at.owner = st.srv.owner /\ at.seq = st.srv.seq
                  /\ at.cache = st.srv.cache /\ at.data = st.srv.data
                  /\ at.retry = st.srv.retry /\ at.retrySeq = st.srv.retrySeq
                  BY <1>5
            <3> HIDE DEF at, there, count
            <3>3. /\ there \in States(K) /\ there.srv = at /\ there.spent = left.spent
                  /\ there.source = left.source
                  /\ there.px = left.px /\ there.dn = left.dn /\ there.clip = left.clip
                  BY <1>2, <1>6, <1>7, <3>1, StateChanged
            <3> QED BY <1>6, <3>2, <3>3 DEF SameServer, Undisturbed
      <2>2. CASE dst # Primary
            <3>1. dst \in Clients /\ there = WithMessage(cut, dst, enter)
                  BY <2>2, Places
            <3> HIDE DEF there, count
            <3>2. /\ cut \in States(K) /\ cut.srv = srv /\ cut.spent = left.spent
                  /\ cut.source = left.source
                  /\ cut.px = left.px /\ cut.dn = left.dn /\ cut.clip = left.clip
                  BY <1>2, <1>4, <1>6, <1>7, StateChanged
            <3> HIDE DEF cut
            <3>3. /\ there \in States(K)
                  /\ there.srv = cut.srv /\ there.px = cut.px /\ there.clip = cut.clip
                  /\ there.spent = cut.spent /\ there.source = cut.source
                  /\ \A c \in Clients : Undisturbed(cut, there, c)
                  BY <1>2, <1>3, <3>1, <3>2, MessageFacts
            <3>4. ASSUME NEW c \in Clients PROVE Undisturbed(st, there, c)
                  BY <1>6, <3>2, <3>3 DEF Undisturbed
            <3>5. SameServer(st, there)
                  BY <1>4, <1>6, <3>2, <3>3 DEF SameServer
            <3> QED BY <1>6, <3>2, <3>3, <3>4, <3>5
      <2> QED BY <2>1, <2>2
<1>9. Entered(st, dst) = SetClipboard(there, dst)
      <2> DEFINE left0 == IF was = Primary THEN st
                          ELSE [st EXCEPT !.dn = [st.dn EXCEPT ![was] = Append(@, leave)]]
                 cut0 == [left0 EXCEPT !.srv.active = dst, !.srv.count = count]
      <2>1. left0 = left
            BY DEF left, WithMessage
      <2> HIDE DEF left0
      <2>2. cut0 = cut
            BY <1>6, <2>1 DEF Changed, srv, States, Servers
      <2> HIDE DEF cut0
      <2>3. [cut0 EXCEPT !.srv.screenSeq = count] = home
            <3> HIDE DEF count
            <3>1. cut = [left EXCEPT !.srv = srv]
                  BY <1>6 DEF Changed, States
            <3>2. home = [left EXCEPT !.srv = [srv EXCEPT !.screenSeq = count]]
                  BY <1>6 DEF Changed, States
            <3> QED BY <1>6, <2>2, <3>1, <3>2 DEF States
      <2>4. [cut0 EXCEPT !.dn[dst] = Append(@, enter)] = WithMessage(cut, dst, enter)
            <3>1. cut = [left EXCEPT !.srv = srv]
                  BY <1>6 DEF Changed, States
            <3> HIDE DEF cut
            <3> QED BY <1>6, <2>2, <3>1 DEF WithMessage, States
      <2>5. there = IF dst = Primary THEN [cut0 EXCEPT !.srv.screenSeq = count]
                    ELSE [cut0 EXCEPT !.dn[dst] = Append(@, enter)]
            BY <2>3, <2>4
      <2> HIDE DEF there
      <2>6. Entered(st, dst) =
              SetClipboard(IF dst = Primary THEN [cut0 EXCEPT !.srv.screenSeq = count]
                           ELSE [cut0 EXCEPT !.dn[dst] = Append(@, enter)], dst)
            BY DEF Entered, left0, cut0, was, leave, enter
      <2> QED BY <2>5, <2>6
<1> HIDE DEF there
<1> DEFINE new == SetClipboard(there, dst)
<1>10. new \in States(K) /\ EntersFrom(there, new, dst)
      BY <1>8, SetFacts
<1> HIDE DEF new
<1>11. EntersFrom(st, new, dst)
      <2>1. SameServer(st, new)
            BY <1>8, <1>10 DEF EntersFrom, SameServer
      <2>2. \A c \in Clients : new.clip[c] = st.clip[c] /\ (new.px[c].dirty => st.px[c].dirty)
            BY <1>8, <1>10 DEF EntersFrom
      <2>3. new.clip[Primary] = IF dst = Primary THEN st.srv.cache ELSE st.clip[Primary]
            BY <1>8, <1>10 DEF EntersFrom, SameServer
      <2>4. ASSUME NEW c \in Clients, c # dst \/ ~st.px[c].dirty PROVE Undisturbed(st, new, c)
            <3>1. Undisturbed(st, there, c) /\ Undisturbed(there, new, c)
                  BY <1>8, <1>10, <2>4 DEF EntersFrom
            <3> QED BY <3>1 DEF Undisturbed
      <2> QED BY <2>1, <2>2, <2>3, <2>4 DEF EntersFrom
<1> QED BY <1>9, <1>10, <1>11 DEF new

-----------------------------------------------------------------------------
(***************************************************************************)
(* Types.                                                                  *)
(***************************************************************************)

Records(K) ==
    [own: BOOLEAN, sent: BOOLEAN, seq: Nat, told: 0 .. K, data: 0 .. K,
     outbox: Outboxes(0 .. K)]

Histories(K) ==
    [from: Screens, copy: 0 .. K, orderly: BOOLEAN, source: Screens,
     refused: SUBSET Clients]

\* SharingTypeOK, with the server's part as the state its handlers know.
Typed(K, st, cls, ups, evs, hist) ==
    /\ K \in 0 .. MaxTexts /\ st \in States(K)
    /\ cls \in [Clients -> Records(K)]
    /\ \A h \in Phones : cls[h].told = 0 /\ cls[h].outbox = <<>> /\ ~cls[h].own
    /\ ups \in [Clients -> Ups(K)]
    /\ evs \in Seq(Event)
    /\ hist \in Histories(K)

\* SharingTypeOK says no less and no more than Typed.
LEMMA TypeSplit ==
    SharingTypeOK <=> Typed(spent.copies, Now, client, up, events, history)
<1>1. ASSUME SharingTypeOK PROVE Typed(spent.copies, Now, client, up, events, history)
      <2> DEFINE K == spent.copies
      <2>1. spent.copies \in 0 .. MaxTexts /\ spent \in Expenses(K)
            BY <1>1 DEF SharingTypeOK, Expenses
      <2>2. history \in Histories(K) /\ history.source \in Screens
            BY <1>1 DEF SharingTypeOK, Histories
      <2>3. /\ clip \in [Screens -> 0 .. K] /\ server \in Servers(K)
            /\ proxy \in [Clients -> Proxies(K)] /\ client \in [Clients -> Records(K)]
            /\ \A h \in Phones :
                 client[h].told = 0 /\ client[h].outbox = <<>> /\ ~client[h].own
            /\ up \in [Clients -> Ups(K)] /\ down \in [Clients -> Downs(K)]
            /\ events \in Seq(Event)
            BY <1>1, Zenon DEF SharingTypeOK, Servers, Proxies, Records, Ups, Downs
      <2> HIDE DEF K
      <2>4. Now \in States(K)
            BY <2>1, <2>2, <2>3 DEF Now, States
      <2> QED BY <2>1, <2>2, <2>3, <2>4 DEF Typed, K
<1>2. ASSUME Typed(spent.copies, Now, client, up, events, history) PROVE SharingTypeOK
      <2> DEFINE K == spent.copies
      <2>1. /\ K \in 0 .. MaxTexts /\ Now \in States(K)
            /\ client \in [Clients -> Records(K)]
            /\ \A h \in Phones :
                 client[h].told = 0 /\ client[h].outbox = <<>> /\ ~client[h].own
            /\ up \in [Clients -> Ups(K)] /\ events \in Seq(Event)
            /\ history \in Histories(K)
            BY <1>2 DEF Typed
      <2> HIDE DEF K
      <2>2. /\ server \in Servers(K) /\ proxy \in [Clients -> Proxies(K)]
            /\ down \in [Clients -> Downs(K)] /\ clip \in [Screens -> 0 .. K]
            /\ spent \in Expenses(K)
            BY <2>1, StateParts DEF Now
      <2>3. spent \in [copies: 0 .. MaxTexts, fails: Nat, twists: 0 .. MaxTwists]
            BY <2>1, <2>2 DEF Expenses
      <2> QED BY <2>1, <2>2, <2>3, Zenon
                DEF SharingTypeOK, Servers, Proxies, Records, Ups, Downs, Histories, K
<1> QED BY <1>1, <1>2

\* ... and after a step.
LEMMA TypeSplitNext ==
    SharingTypeOK' <=> Typed(spent.copies, Now, client, up, events, history)'
BY TypeSplit, PTL

\* What SharingTypeOK says of each variable.
LEMMA TypeParts ==
    ASSUME SharingTypeOK
    PROVE  /\ spent.copies \in 0 .. MaxTexts /\ spent.copies \in Nat
           /\ Now \in States(spent.copies)
           /\ client \in [Clients -> Records(spent.copies)]
           /\ \A h \in Phones :
                client[h].told = 0 /\ client[h].outbox = <<>> /\ ~client[h].own
           /\ up \in [Clients -> Ups(spent.copies)]
           /\ events \in Seq(Event)
           /\ history \in Histories(spent.copies)
<1>1. Typed(spent.copies, Now, client, up, events, history)
      BY TypeSplit
<1> QED BY <1>1, Bounds DEF Typed

\* The server's part of the type correctness of a step: what a handler has ended in
\* is what the variables hold.
LEMMA CommitNow ==
    ASSUME NEW K, NEW new \in States(K), Commit(new), history'.source = new.source
    PROVE  Now' = new
BY DEF Commit, Now, States

\* The types after a step, from those of the parts.
LEMMA TypedNext ==
    ASSUME NEW K \in 0 .. MaxTexts, Now' \in States(K), spent'.copies = K,
           client' \in [Clients -> Records(K)],
           \A h \in Phones :
             client'[h].told = 0 /\ client'[h].outbox = <<>> /\ ~client'[h].own,
           up' \in [Clients -> Ups(K)], events' \in Seq(Event), history' \in Histories(K)
    PROVE  SharingTypeOK'
<1>1. Typed(K, Now', client', up', events', history')
      BY DEF Typed
<1> QED BY <1>1, TypeSplitNext

\* What the type of the server's part says of the costs.
LEMMA SpentOf ==
    ASSUME NEW K, Now' \in States(K)
    PROVE  spent'.copies = K /\ spent' \in Expenses(K) /\ history'.source \in Screens
<1>1. Now'.spent = spent' /\ Now'.source = history'.source
      BY DEF Now
<1> QED BY <1>1 DEF States, Expenses

\* A step of the server that leaves the clients alone.
LEMMA ServerTyped ==
    ASSUME SharingTypeOK, Now' \in States(spent.copies), client' = client,
           up' \in [Clients -> Ups(spent.copies)],
           events' \in Seq(Event), history' \in Histories(spent.copies)
    PROVE  SharingTypeOK'
<1> DEFINE K == spent.copies
<1>1. /\ K \in 0 .. MaxTexts /\ client \in [Clients -> Records(K)]
      /\ \A h \in Phones : client[h].told = 0 /\ client[h].outbox = <<>> /\ ~client[h].own
      BY TypeParts
<1>2. Now' \in States(K) /\ spent'.copies = K
      BY SpentOf
<1>3. /\ client' \in [Clients -> Records(K)] /\ up' \in [Clients -> Ups(K)]
      /\ \A h \in Phones :
           client'[h].told = 0 /\ client'[h].outbox = <<>> /\ ~client'[h].own
      /\ events' \in Seq(Event) /\ history' \in Histories(K)
      BY <1>1
<1> HIDE DEF K
<1> QED BY <1>1, <1>2, <1>3, TypedNext

-----------------------------------------------------------------------------
(***************************************************************************)
(* The handlers of the server.                                             *)
(***************************************************************************)

\* The primary's grab: it is read, and will be read again.
GrabbedByPrimary(old, new) ==
    /\ ReadOutcome(Afresh(old), new)
    /\ new.srv.owner = Primary /\ new.srv.seq = new.srv.retrySeq
    /\ new.srv.retry = Retries

\* A client's grab: the others are to give theirs up.
GrabbedByClient(old, new, c) ==
    /\ new.srv.owner = c /\ new.srv.cache = 0 /\ new.srv.data = Cleared
    /\ new.clip = old.clip /\ new.spent = old.spent /\ new.source = old.source
    /\ new.dn[c] = old.dn[c]
    /\ \A d \in Clients : /\ new.px[d].outbox = old.px[d].outbox
                          /\ new.px[d].content = old.px[d].content

OwnedBy(st, e) == [st EXCEPT !.srv.owner = e.from, !.srv.seq = e.seq]

\* A screen takes the clipboard over.
LEMMA OwnedFacts ==
    ASSUME NEW K \in Nat, NEW st \in States(K), NEW e, e.from \in Screens, e.seq \in Nat
    PROVE  LET new == OwnedBy(st, e)
           IN /\ new \in States(K)
              /\ new.srv.owner = e.from /\ new.srv.seq = e.seq
              /\ new.srv.cache = st.srv.cache /\ new.srv.data = st.srv.data
              /\ new.px = st.px /\ new.dn = st.dn /\ new.clip = st.clip
              /\ new.spent = st.spent /\ new.source = st.source
<1> DEFINE srv == [st.srv EXCEPT !.owner = e.from, !.seq = e.seq]
<1>1. st.srv \in Servers(K)
      BY StateParts
<1>2. /\ srv \in Servers(K) /\ srv.owner = e.from /\ srv.seq = e.seq
      /\ srv.cache = st.srv.cache /\ srv.data = st.srv.data
      BY <1>1 DEF Servers
<1>3. OwnedBy(st, e) = [st EXCEPT !.srv = srv]
      BY DEF OwnedBy, States
<1> HIDE DEF srv
<1> QED BY <1>2, <1>3 DEF States

\* What a reading comes to depends on these parts of the states before and after.
LEMMA SameOutcome ==
    ASSUME NEW old, NEW new, ReadOutcome(old, new), NEW old2, NEW new2,
           old2.px = old.px, old2.dn = old.dn, old2.clip = old.clip,
           old2.source = old.source, old2.spent.fails = old.spent.fails,
           old2.srv.cache = old.srv.cache, old2.srv.data = old.srv.data,
           new2.px = new.px, new2.dn = new.dn, new2.clip = new.clip,
           new2.source = new.source, new2.spent = new.spent,
           new2.srv.cache = new.srv.cache, new2.srv.data = new.srv.data
    PROVE  ReadOutcome(old2, new2)
<1>1. SameRecords(old, new) => SameRecords(old2, new2)
      BY DEF SameRecords
<1>2. \A k : PushedToAll(old, new, Primary, k) => PushedToAll(old2, new2, Primary, k)
      BY DEF PushedToAll
<1> QED BY <1>1, <1>2 DEF ReadOutcome

\* Counting anew changes nothing else.
LEMMA AfreshFacts ==
    ASSUME NEW K \in Nat, NEW st \in States(K)
    PROVE  LET new == Afresh(st)
           IN /\ new \in States(K) /\ new.spent.fails = 0
              /\ new.srv = st.srv /\ new.px = st.px /\ new.dn = st.dn
              /\ new.clip = st.clip /\ new.source = st.source
<1> DEFINE costs == [st.spent EXCEPT !.fails = 0]
<1>1. st.spent \in Expenses(K)
      BY StateParts
<1>2. costs \in Expenses(K) /\ costs.fails = 0
      <2>1. 0 \in Nat
            BY Bounds
      <2> QED BY <1>1, <2>1 DEF Expenses
<1>3. Afresh(st) = [st EXCEPT !.spent = costs]
      BY DEF Afresh, States
<1> HIDE DEF costs
<1> QED BY <1>2, <1>3 DEF States

\* A client's grab empties what the server holds and what the others show.
LEMMA EmptiedFacts ==
    ASSUME NEW K \in Nat, NEW st \in States(K), NEW e, e.from \in Clients,
           st.srv.owner = e.from
    PROVE  Emptied(e, st) \in States(K) /\ GrabbedByClient(st, Emptied(e, st), e.from)
<1> DEFINE srv == [st.srv EXCEPT !.cache = 0, !.data = Cleared]
           px == [c \in Clients |-> [st.px[c] EXCEPT !.dirty = (c # e.from)]]
           dn == [c \in Clients |-> IF c = e.from THEN st.dn[c]
                                    ELSE Append(st.dn[c], [type |-> "grab"])]
<1>1. /\ st.srv \in Servers(K) /\ st.px \in [Clients -> Proxies(K)]
      /\ st.dn \in [Clients -> Downs(K)]
      BY StateParts
<1>2. Emptied(e, st) = [st EXCEPT !.srv = srv, !.px = px, !.dn = dn]
      BY DEF Emptied, States
<1>3. srv \in Servers(K) /\ srv.owner = e.from /\ srv.cache = 0 /\ srv.data = Cleared
      <2>1. 0 \in 0 .. K
            OBVIOUS
      <2> QED BY <1>1, <2>1 DEF Servers
<1>4. /\ px \in [Clients -> Proxies(K)]
      /\ \A d \in Clients : px[d].outbox = st.px[d].outbox /\ px[d].content = st.px[d].content
      BY <1>1 DEF Proxies
<1>5. dn \in [Clients -> Downs(K)] /\ dn[e.from] = st.dn[e.from]
      <2> DEFINE S == DownMessages(0 .. K)
      <2>1. [type |-> "grab"] \in S
            BY DEF DownMessages
      <2>2. \A c \in Clients : st.dn[c] \in Seq(S)
            BY <1>1 DEF Downs
      <2> HIDE DEF S
      <2>3. \A c \in Clients : Append(st.dn[c], [type |-> "grab"]) \in Seq(S)
            BY <2>1, <2>2, AppendProperties
      <2>4. \A c \in Clients : dn[c] \in Seq(S)
            BY <2>2, <2>3
      <2>5. dn \in [Clients -> Seq(S)]
            BY <2>4
      <2> QED BY <2>5 DEF S, Downs
<1> HIDE DEF srv, px, dn
<1>6. /\ Emptied(e, st) \in States(K)
      /\ Emptied(e, st).srv = srv /\ Emptied(e, st).px = px /\ Emptied(e, st).dn = dn
      /\ Emptied(e, st).clip = st.clip /\ Emptied(e, st).spent = st.spent
      /\ Emptied(e, st).source = st.source
      BY <1>2, <1>3, <1>4, <1>5 DEF States
<1> QED BY <1>3, <1>4, <1>5, <1>6 DEF GrabbedByClient

\* The next event, of each kind.
Dispatched(old, new, e) ==
    \/ Stale(e) /\ e.from \in Clients /\ new = old
    \/ /\ ~Stale(e) /\ e.type = "grabbed" /\ e.from = Primary
       /\ GrabbedByPrimary(old, new)
    \/ /\ ~Stale(e) /\ e.type = "grabbed" /\ e.from \in Clients
       /\ GrabbedByClient(old, new, e.from)
    \/ /\ ~Stale(e) /\ e.type = "changed" /\ e.from \in Clients
       /\ ReadClient(old, new, e.from)

RefusedAfter(e) ==
    IF Stale(e) THEN history.refused \cup {e.from}
    ELSE IF e.type = "changed" /\ proxy[e.from].content # 0
    THEN history.refused \ {e.from} ELSE history.refused

\* The fields of an event.
LEMMA EventParts ==
    ASSUME NEW e \in Event
    PROVE  /\ e.from \in Screens /\ e.seq \in Nat /\ e.type \in {"grabbed", "changed"}
           /\ e.type = "changed" => e.from \in Clients
           /\ e.type = "grabbed" /\ e.from # Primary => e.from \in Clients
BY Places DEF Event

\* What Server::handleClipboardGrabbed comes to.
LEMMA GrabFacts ==
    ASSUME SharingTypeOK, NEW e \in Event, e.type = "grabbed",
           NEW new \in HandleClipboardGrabbed(e)
    PROVE  new \in States(spent.copies) /\ Dispatched(Now, new, e)
<1> DEFINE K == spent.copies
           owned == OwnedBy(Now, e)
           fresh == Afresh(owned)
<1>1. K \in 0 .. MaxTexts /\ K \in Nat /\ Now \in States(K)
      BY TypeParts
<1>2. e.from \in Screens /\ e.seq \in Nat /\ (e.from # Primary => e.from \in Clients)
      BY EventParts
<1>3. new \in IF Stale(e) THEN {Now}
              ELSE IF e.from = Primary
              THEN {[st EXCEPT !.srv.retry = Retries, !.srv.retrySeq = e.seq] :
                      st \in OnClipboardChanged(fresh, Primary, e.seq)}
              ELSE {Emptied(e, owned)}
      BY DEF HandleClipboardGrabbed, OwnedBy, Stale
<1> HIDE DEF K, fresh, owned
<1>4. /\ owned \in States(K)
      /\ owned.srv.owner = e.from /\ owned.srv.seq = e.seq
      /\ owned.srv.cache = Now.srv.cache /\ owned.srv.data = Now.srv.data
      /\ owned.px = Now.px /\ owned.dn = Now.dn /\ owned.clip = Now.clip
      /\ owned.spent = Now.spent /\ owned.source = Now.source
      BY <1>1, <1>2, OwnedFacts DEF owned
<1>8. /\ fresh \in States(K) /\ fresh.spent.fails = 0
      /\ fresh.srv = owned.srv /\ fresh.px = owned.px /\ fresh.dn = owned.dn
      /\ fresh.clip = owned.clip /\ fresh.source = owned.source
      /\ Afresh(Now).spent.fails = 0 /\ Afresh(Now).srv = Now.srv
      /\ Afresh(Now).px = Now.px /\ Afresh(Now).dn = Now.dn
      /\ Afresh(Now).clip = Now.clip /\ Afresh(Now).source = Now.source
      BY <1>1, <1>4, AfreshFacts DEF fresh
<1>5. CASE Stale(e)
      <2>1. e.from \in Clients
            BY <1>2, <1>5 DEF Stale
      <2> QED BY <1>1, <1>3, <1>5, <2>1 DEF Dispatched, K
<1>6. CASE ~Stale(e) /\ e.from = Primary
      <2>1. PICK st \in OnClipboardChanged(fresh, Primary, e.seq) :
              new = [st EXCEPT !.srv.retry = Retries, !.srv.retrySeq = e.seq]
            BY <1>3, <1>6
      <2>2. st \in States(K) /\ ReadPrimary(fresh, st)
            <3>1. fresh.srv.owner = Primary /\ fresh.srv.seq = e.seq
                  BY <1>4, <1>6, <1>8
            <3> QED BY <1>1, <1>8, <2>1, <3>1, PrimaryRead
      <2> DEFINE srv == [st.srv EXCEPT !.retry = Retries, !.retrySeq = e.seq]
      <2>3. st.srv \in Servers(K) /\ st.srv.owner = Primary /\ st.srv.seq = e.seq
            BY <1>4, <1>6, <1>8, <2>2, StateParts DEF ReadPrimary
      <2>4. new = [st EXCEPT !.srv = srv]
            BY <2>1, <2>2 DEF States
      <2>5. /\ srv \in Servers(K) /\ srv.owner = Primary /\ srv.seq = e.seq
            /\ srv.retrySeq = e.seq /\ srv.retry = Retries
            /\ srv.cache = st.srv.cache /\ srv.data = st.srv.data
            <3>1. Retries \in 0 .. Retries
                  BY Bounds
            <3> QED BY <1>2, <2>3, <3>1 DEF Servers
      <2> HIDE DEF srv
      <2>6. /\ new \in States(K) /\ new.srv = srv /\ new.px = st.px /\ new.dn = st.dn
            /\ new.clip = st.clip /\ new.spent = st.spent /\ new.source = st.source
            BY <2>2, <2>4, <2>5 DEF States
      <2>7. ReadOutcome(Afresh(Now), new)
            <3>1. ReadOutcome(fresh, st)
                  BY <2>2 DEF ReadPrimary
            <3>2. new.srv.cache = st.srv.cache /\ new.srv.data = st.srv.data
                  BY <2>5, <2>6
            <3> DEFINE now == Afresh(Now)
            <3>3. /\ now.px = fresh.px /\ now.dn = fresh.dn /\ now.clip = fresh.clip
                  /\ now.source = fresh.source /\ now.spent.fails = fresh.spent.fails
                  /\ now.srv.cache = fresh.srv.cache /\ now.srv.data = fresh.srv.data
                  BY <1>4, <1>8
            <3> HIDE DEF now
            <3>4. ReadOutcome(now, new)
                  BY <2>6, <3>1, <3>2, <3>3, SameOutcome
            <3> QED BY <3>4 DEF now
      <2> QED BY <1>6, <2>5, <2>6, <2>7 DEF Dispatched, GrabbedByPrimary, K
<1>7. CASE ~Stale(e) /\ e.from # Primary
      <2>1. new = Emptied(e, owned) /\ e.from \in Clients
            BY <1>2, <1>3, <1>7
      <2>2. new \in States(K) /\ GrabbedByClient(owned, new, e.from)
            BY <1>1, <1>4, <2>1, EmptiedFacts
      <2>3. GrabbedByClient(Now, new, e.from)
            BY <1>4, <2>2 DEF GrabbedByClient
      <2> QED BY <1>7, <2>1, <2>2, <2>3 DEF Dispatched, K
<1> QED BY <1>5, <1>6, <1>7

\* What an event comes to, and what it leaves alone.
LEMMA DispatchFacts ==
    ASSUME SharingTypeOK, DispatchEvent
    PROVE  /\ events # <<>> /\ Head(events) \in Event
           /\ Now' \in States(spent.copies) /\ Dispatched(Now, Now', Head(events))
           /\ history' = [history EXCEPT !.source = Now'.source,
                                         !.refused = RefusedAfter(Head(events))]
           /\ events' = Tail(events) /\ client' = client /\ up' = up
<1> DEFINE e == Head(events)
<1>1. /\ events # <<>> /\ events' = Tail(events) /\ client' = client /\ up' = up
      BY DEF DispatchEvent
<1>2. PICK st \in IF e.type = "grabbed" THEN HandleClipboardGrabbed(e)
                  ELSE OnClipboardChanged(Now, e.from, e.seq) :
            /\ Commit(st)
            /\ history' = [history EXCEPT !.source = st.source, !.refused = RefusedAfter(e)]
      BY Zenon DEF DispatchEvent, RefusedAfter
<1>3. e \in Event
      <2> HIDE DEF e
      <2>1. events \in Seq(Event)
            BY TypeParts
      <2> QED BY <1>1, <2>1, HeadTailProperties DEF e
<1> HIDE DEF e
<1>4. st \in States(spent.copies) /\ Dispatched(Now, st, e)
      <2>1. CASE e.type = "grabbed"
            BY <1>2, <1>3, <2>1, GrabFacts
      <2>2. CASE e.type # "grabbed"
            <3>1. /\ e.type = "changed" /\ e.from \in Clients /\ e.seq \in Nat
                  /\ e.from # Primary
                  BY <1>3, <2>2, EventParts, Places
            <3>2. st \in OnClipboardChanged(Now, e.from, e.seq)
                  BY <1>2, <2>2
            <3>3. spent.copies \in 0 .. MaxTexts /\ Now \in States(spent.copies)
                  BY TypeParts
            <3>4. Stale(e) <=> e.seq < Now.srv.seq
                  BY <3>1 DEF Stale, Now
            <3>5. CASE Stale(e)
                  <4>1. st = Now
                        BY <3>2, <3>4, <3>5 DEF OnClipboardChanged
                  <4> QED BY <3>1, <3>3, <3>5, <4>1 DEF Dispatched
            <3>6. CASE ~Stale(e)
                  <4>1. st \in States(spent.copies) /\ ReadClient(Now, st, e.from)
                        BY <3>1, <3>2, <3>3, <3>4, <3>6, ClientRead
                  <4> QED BY <3>1, <3>6, <4>1 DEF Dispatched
            <3> QED BY <3>5, <3>6
      <2> QED BY <2>1, <2>2
<1>5. Now' = st
      <2>1. history'.source = st.source
            <3>1. history \in Histories(spent.copies)
                  BY TypeParts
            <3> QED BY <1>2, <3>1 DEF Histories
      <2> QED BY <1>2, <1>4, <2>1, CommitNow
<1> QED BY <1>1, <1>2, <1>3, <1>4, <1>5 DEF e

\* The retry timer: a reading that is still wanted, or the end of the retries.
Still(old, new) ==
    /\ SameRecords(old, new) /\ new.srv.cache = old.srv.cache
    /\ new.spent.fails = old.spent.fails

Retried(old, new) ==
    /\ new.srv.owner = old.srv.owner /\ new.srv.seq = old.srv.seq
    /\ new.srv.retrySeq = old.srv.retrySeq
    /\ \/ /\ old.srv.owner = Primary /\ old.srv.seq = old.srv.retrySeq
          /\ ReadOutcome(old, new) /\ new.srv.retry = old.srv.retry - 1
       \/ /\ ~(old.srv.owner = Primary /\ old.srv.seq = old.srv.retrySeq)
          /\ Still(old, new) /\ new.srv.retry = 0

\* What the retry timer comes to.
LEMMA RetryFacts ==
    ASSUME SharingTypeOK, RetryFires
    PROVE  /\ Now' \in States(spent.copies) /\ Retried(Now, Now')
           /\ history' = [history EXCEPT !.source = Now'.source]
           /\ events' = events /\ client' = client /\ up' = up
<1> DEFINE current == server.owner = Primary /\ server.seq = server.retrySeq
           K == spent.copies
<1>1. /\ server.retry > 0 /\ events' = events /\ client' = client /\ up' = up
      BY DEF RetryFires
<1>2. PICK st \in IF current THEN OnClipboardChanged(Now, Primary, server.seq) ELSE {Now} :
            /\ Commit([st EXCEPT !.srv.retry = IF current THEN @ - 1 ELSE 0])
            /\ history' = [history EXCEPT !.source = st.source]
      BY Zenon DEF RetryFires
<1> DEFINE left == IF current THEN st.srv.retry - 1 ELSE 0
           srv == [st.srv EXCEPT !.retry = left]
           new == [st EXCEPT !.srv = srv]
<1>3. K \in 0 .. MaxTexts /\ Now \in States(K) /\ Now.srv = server
      BY TypeParts DEF Now
<1>4. /\ st \in States(K)
      /\ IF current THEN ReadPrimary(Now, st) ELSE st = Now
      <2>1. CASE current
            <3>1. Now.srv.owner = Primary /\ st \in OnClipboardChanged(Now, Primary, Now.srv.seq)
                  BY <1>2, <1>3, <2>1
            <3> QED BY <1>3, <2>1, <3>1, PrimaryRead
      <2>2. CASE ~current
            BY <1>2, <1>3, <2>2
      <2> QED BY <2>1, <2>2
<1> HIDE DEF current
<1>5. st.srv \in Servers(K) /\ st.srv.retry = server.retry
      BY <1>3, <1>4, StateParts DEF ReadPrimary, SameFocus
<1>6. left \in 0 .. Retries
      <2>1. st.srv.retry \in 0 .. Retries /\ Retries \in Nat
            BY <1>5, Bounds DEF Servers
      <2> QED BY <1>1, <1>5, <2>1
<1>7. [st EXCEPT !.srv.retry = IF current THEN @ - 1 ELSE 0] = new
      BY <1>4 DEF States, Servers
<1> HIDE DEF left
<1>8. /\ srv \in Servers(K) /\ srv.owner = st.srv.owner /\ srv.seq = st.srv.seq
      /\ srv.retrySeq = st.srv.retrySeq /\ srv.retry = left
      /\ srv.cache = st.srv.cache /\ srv.data = st.srv.data
      BY <1>5, <1>6 DEF Servers
<1> HIDE DEF srv
<1>9. /\ new \in States(K) /\ new.srv = srv /\ new.px = st.px /\ new.dn = st.dn
      /\ new.clip = st.clip /\ new.spent = st.spent /\ new.source = st.source
      BY <1>4, <1>8 DEF States
<1> HIDE DEF new
<1>10. Now' = new
      <2>1. history'.source = new.source
            <3>1. history \in Histories(K)
                  BY TypeParts
            <3> QED BY <1>2, <1>9, <3>1 DEF Histories
      <2> QED BY <1>2, <1>7, <1>9, <2>1, CommitNow
<1>11. Retried(Now, new)
      <2>1. CASE current
            <3>1. ReadOutcome(Now, new)
                  BY <1>4, <1>8, <1>9, <2>1 DEF ReadPrimary, ReadOutcome, SameRecords, PushedToAll
            <3>2. new.srv.retry = Now.srv.retry - 1
                  BY <1>3, <1>5, <1>8, <1>9, <2>1 DEF left
            <3> QED BY <1>3, <1>4, <1>8, <1>9, <2>1, <3>1, <3>2
                    DEF Retried, ReadPrimary, SameFocus, current
      <2>2. CASE ~current
            BY <1>3, <1>4, <1>8, <1>9, <2>2 DEF Retried, Still, SameRecords, current, left
      <2> QED BY <2>1, <2>2
<1> QED BY <1>1, <1>2, <1>9, <1>10, <1>11 DEF K

\* What is done before a screen is left.
Refreshes(old, new) ==
    /\ SameFocus(old, new)
    /\ new.srv.owner = old.srv.owner /\ new.srv.seq = old.srv.seq
    /\ \/ /\ old.srv.owner = Primary /\ old.srv.active = Primary
          /\ ReadOutcome(old, new)
       \/ Still(old, new)

\* What the reading before a switch comes to.
LEMMA RefreshFacts ==
    ASSUME SharingTypeOK, spent.twists < MaxTwists, NEW st \in Refreshed
    PROVE  st \in States(spent.copies) /\ Refreshes(Now, st)
<1> DEFINE K == spent.copies
           costs == [spent EXCEPT !.twists = @ + 1]
           now == Changed(Now, server, costs, history.source)
<1>1. K \in 0 .. MaxTexts /\ K \in Nat /\ Now \in States(K)
      BY TypeParts
<1>2. /\ Now.srv = server /\ Now.spent = spent /\ Now.source = history.source
      /\ server \in Servers(K) /\ spent \in Expenses(K) /\ history.source \in Screens
      BY <1>1, StateParts DEF Now
<1>3. costs \in Expenses(K) /\ costs.fails = spent.fails
      <2>1. spent.twists + 1 \in 0 .. MaxTwists
            <3>1. spent.twists \in 0 .. MaxTwists
                  BY <1>2 DEF Expenses
            <3> QED BY <3>1, Bounds
      <2> QED BY <1>2, <2>1 DEF Expenses
<1>4. [Now EXCEPT !.spent.twists = @ + 1] = now
      BY <1>1, <1>2 DEF Changed, States
<1> HIDE DEF costs, K
<1>5. /\ now \in States(K) /\ now.srv = server /\ now.spent = costs
      /\ now.source = Now.source
      /\ now.px = Now.px /\ now.dn = Now.dn /\ now.clip = Now.clip
      BY <1>1, <1>2, <1>3, StateChanged
<1> HIDE DEF now
<1>6. st \in IF server.active = Primary /\ server.owner = Primary
             THEN OnClipboardChanged(now, Primary, server.seq) ELSE {now}
      BY <1>4 DEF Refreshed
<1>7. CASE server.active = Primary /\ server.owner = Primary
      <2>1. st \in States(K) /\ ReadPrimary(now, st)
            BY <1>1, <1>5, <1>6, <1>7, PrimaryRead
      <2>2. ReadOutcome(Now, st)
            BY <1>2, <1>3, <1>5, <2>1 DEF ReadPrimary, ReadOutcome, SameRecords, PushedToAll
      <2> QED BY <1>2, <1>5, <1>7, <2>1, <2>2 DEF Refreshes, ReadPrimary, SameFocus, K
<1>8. CASE ~(server.active = Primary /\ server.owner = Primary)
      <2>1. st = now
            BY <1>6, <1>8
      <2> QED BY <1>2, <1>3, <1>5, <2>1 DEF Refreshes, SameFocus, Still, SameRecords, K
<1> QED BY <1>7, <1>8

\* What a switch comes to.
LEMMA SwitchFacts ==
    ASSUME SharingTypeOK, NEW dst \in Screens, SwitchScreen(dst)
    PROVE  \E st \in States(spent.copies) :
             /\ dst # server.active /\ Refreshes(Now, st)
             /\ Now' \in States(spent.copies)
             /\ \/ EntersFrom(st, Now', dst)
                \/ server.active = Primary /\ Now' = st
             /\ history' = [history EXCEPT !.source = Now'.source,
                                           !.orderly = @ /\ ~Underway(dst)]
             /\ events' = events /\ client' = client /\ up' = up
<1>1. /\ spent.twists < MaxTwists /\ dst # server.active
      /\ events' = events /\ client' = client /\ up' = up
      BY DEF SwitchScreen
<1>2. PICK st \in Refreshed :
        /\ \/ Commit(Entered(st, dst))
           \/ server.active = Primary /\ Commit(st)
        /\ history' = [history EXCEPT !.source = st.source, !.orderly = @ /\ ~Underway(dst)]
      BY DEF SwitchScreen
<1>3. st \in States(spent.copies) /\ Refreshes(Now, st)
      BY <1>1, RefreshFacts
<1>4. history'.source = st.source
      <2>1. history \in Histories(spent.copies)
            BY TypeParts
      <2> QED BY <1>2, <2>1 DEF Histories
<1>5. CASE Commit(Entered(st, dst))
      <2>1. Entered(st, dst) \in States(spent.copies) /\ EntersFrom(st, Entered(st, dst), dst)
            BY <1>3, TypeParts, EnteredFacts
      <2>2. Entered(st, dst).source = st.source
            BY <2>1 DEF EntersFrom, SameServer
      <2>3. Now' = Entered(st, dst)
            BY <1>4, <1>5, <2>1, <2>2, CommitNow
      <2> QED BY <1>1, <1>2, <1>3, <2>1, <2>2, <2>3
<1>6. CASE server.active = Primary /\ Commit(st)
      <2>1. Now' = st
            BY <1>3, <1>4, <1>6, CommitNow
      <2> QED BY <1>1, <1>2, <1>3, <1>6, <2>1
<1> QED BY <1>2, <1>5, <1>6

-----------------------------------------------------------------------------
(***************************************************************************)
(* The other steps.                                                        *)
(***************************************************************************)

\* The server's part after a step, from the types of its variables.
LEMMA NowTyped ==
    ASSUME NEW K, server' \in Servers(K), proxy' \in [Clients -> Proxies(K)],
           down' \in [Clients -> Downs(K)], clip' \in [Screens -> 0 .. K],
           spent' \in Expenses(K), history' \in Histories(K)
    PROVE  Now' \in States(K)
BY DEF Now, States, Histories

\* The types of the server's variables.
LEMMA NowParts ==
    ASSUME SharingTypeOK
    PROVE  /\ server \in Servers(spent.copies) /\ proxy \in [Clients -> Proxies(spent.copies)]
           /\ down \in [Clients -> Downs(spent.copies)] /\ clip \in [Screens -> 0 .. spent.copies]
           /\ spent \in Expenses(spent.copies)
BY TypeParts, StateParts DEF Now

\* One client's value is replaced.
LEMMA Replaced ==
    ASSUME NEW S, NEW f \in [Clients -> S], NEW c \in Clients, NEW x \in S
    PROVE  /\ [f EXCEPT ![c] = x] \in [Clients -> S] /\ [f EXCEPT ![c] = x][c] = x
           /\ \A d \in Clients : d # c => [f EXCEPT ![c] = x][d] = f[d]
OBVIOUS

\* The first message of a queue and the rest.
LEMMA UpHead ==
    ASSUME SharingTypeOK, NEW c \in Clients, up[c] # <<>>
    PROVE  /\ Head(up[c]) \in UpMessages(0 .. spent.copies)
           /\ Tail(up[c]) \in Ups(spent.copies)
<1> DEFINE S == UpMessages(0 .. spent.copies)
<1>1. up[c] \in Seq(S)
      BY TypeParts DEF Ups
<1> HIDE DEF S
<1>2. Head(up[c]) \in S /\ Tail(up[c]) \in Seq(S)
      BY <1>1, HeadTailProperties
<1> QED BY <1>2 DEF S, Ups

\* The first message to a client and the rest.
LEMMA DownHead ==
    ASSUME SharingTypeOK, NEW c \in Clients, down[c] # <<>>
    PROVE  /\ Head(down[c]) \in DownMessages(0 .. spent.copies)
           /\ Tail(down[c]) \in Downs(spent.copies)
<1> DEFINE S == DownMessages(0 .. spent.copies)
<1>1. down[c] \in Seq(S)
      BY NowParts DEF Downs
<1> HIDE DEF S
<1>2. Head(down[c]) \in S /\ Tail(down[c]) \in Seq(S)
      BY <1>1, HeadTailProperties
<1> QED BY <1>2 DEF S, Downs

\* Data is a message either way.
LEMMA DataMessages ==
    ASSUME NEW C
    PROVE  Data(C) \subseteq UpMessages(C) /\ Data(C) \subseteq DownMessages(C)
BY DEF Data, UpMessages, DownMessages

\* A sequence over a set is one over any larger set.
LEMMA SeqMore ==
    ASSUME NEW S, NEW T, S \subseteq T, NEW q \in Seq(S)
    PROVE  q \in Seq(T)
OBVIOUS

\* Messages follow messages, from a client,
LEMMA UpsConcat ==
    ASSUME NEW K, NEW q \in Ups(K), NEW r \in Seq(UpMessages(0 .. K))
    PROVE  q \o r \in Ups(K)
<1> DEFINE S == UpMessages(0 .. K)
<1>1. q \in Seq(S) /\ r \in Seq(S)
      BY DEF Ups
<1> HIDE DEF S
<1>2. q \o r \in Seq(S)
      BY <1>1, ConcatProperties
<1> QED BY <1>2 DEF Ups, S

\* transfers follow messages from a client,
LEMMA UpsData ==
    ASSUME NEW K, NEW q \in Ups(K), NEW r \in Seq(Data(0 .. K))
    PROVE  q \o r \in Ups(K)
<1>1. r \in Seq(UpMessages(0 .. K))
      BY DataMessages, SeqMore
<1> QED BY <1>1, UpsConcat

\* and transfers follow messages to a client.
LEMMA DownsData ==
    ASSUME NEW K, NEW q \in Downs(K), NEW r \in Seq(Data(0 .. K))
    PROVE  q \o r \in Downs(K)
<1> DEFINE S == DownMessages(0 .. K)
<1>1. q \in Seq(S) /\ r \in Seq(S)
      BY DataMessages, SeqMore DEF Downs
<1> HIDE DEF S
<1>2. q \o r \in Seq(S)
      BY <1>1, ConcatProperties
<1> QED BY <1>2 DEF Downs, S

\* A message from a client becomes an event; data is kept by the proxy.
LEMMA ReceiveFacts ==
    ASSUME SharingTypeOK, NEW c \in Clients, ServerReceives(c)
    PROVE  /\ SharingTypeOK'
           /\ up[c] # <<>> /\ up' = [up EXCEPT ![c] = Tail(@)]
           /\ \E e \in Event :
                /\ events' = Append(events, e) /\ e.from = c
                /\ Head(up[c]).type = "grab" => e.type = "grabbed"
                /\ Head(up[c]).type = "data" =>
                     e.type = "changed" /\ proxy'[c].content = Head(up[c]).copy
           /\ \A d \in Clients : /\ proxy'[d].outbox = proxy[d].outbox
                                 /\ proxy'[d].dirty = proxy[d].dirty
                                 /\ d # c => proxy'[d] = proxy[d]
           /\ UNCHANGED <<clip, server, client, down, history, spent>>
<1> DEFINE K == spent.copies
           m == Head(up[c])
           type == IF m.type = "grab" THEN "grabbed" ELSE "changed"
           e == [type |-> type, from |-> c, seq |-> m.seq]
<1>1. /\ up[c] # <<>> /\ up' = [up EXCEPT ![c] = Tail(@)]
      /\ proxy' = IF m.type = "grab" THEN proxy ELSE [proxy EXCEPT ![c].content = m.copy]
      /\ events' = Append(events, e)
      /\ UNCHANGED <<clip, server, client, down, history, spent>>
      BY DEF ServerReceives
<1>2. m \in UpMessages(0 .. K) /\ Tail(up[c]) \in Ups(K)
      BY <1>1, UpHead
<1> HIDE DEF m, K
<1>3. /\ m.type \in {"grab", "data"} /\ m.seq \in Nat
      /\ m.type # "grab" => m.copy \in 0 .. K
      BY <1>2 DEF UpMessages
<1>4. e \in Event /\ e.from = c /\ e.type = type
      BY <1>3, Places DEF Event
<1>5. /\ server \in Servers(K) /\ proxy \in [Clients -> Proxies(K)]
      /\ down \in [Clients -> Downs(K)] /\ clip \in [Screens -> 0 .. K]
      /\ spent \in Expenses(K) /\ history \in Histories(K)
      /\ up \in [Clients -> Ups(K)] /\ events \in Seq(Event)
      BY NowParts, TypeParts DEF K
<1>6. /\ proxy' \in [Clients -> Proxies(K)]
      /\ \A d \in Clients : /\ proxy'[d].outbox = proxy[d].outbox
                            /\ proxy'[d].dirty = proxy[d].dirty
                            /\ d # c => proxy'[d] = proxy[d]
      /\ m.type # "grab" => proxy'[c].content = m.copy
      <2>1. CASE m.type = "grab"
            BY <1>1, <1>5, <2>1
      <2>2. CASE m.type # "grab"
            <3> DEFINE record == [proxy[c] EXCEPT !.content = m.copy]
            <3>1. proxy[c] \in Proxies(K)
                  BY <1>5
            <3>2. /\ record \in Proxies(K) /\ record.content = m.copy
                  /\ record.outbox = proxy[c].outbox /\ record.dirty = proxy[c].dirty
                  BY <1>3, <2>2, <3>1 DEF Proxies
            <3>3. proxy' = [proxy EXCEPT ![c] = record]
                  BY <1>1, <2>2
            <3> HIDE DEF record
            <3> QED BY <1>5, <3>2, <3>3
      <2> QED BY <2>1, <2>2
<1> HIDE DEF e, type
<1>7. Now' \in States(K)
      <2>1. spent' \in Expenses(K) /\ history' \in Histories(K) /\ server' \in Servers(K)
            BY <1>1, <1>5
      <2>2. down' \in [Clients -> Downs(K)] /\ clip' \in [Screens -> 0 .. K]
            BY <1>1, <1>5
      <2> QED BY <1>6, <2>1, <2>2, NowTyped
<1>8. up' \in [Clients -> Ups(K)]
      BY <1>1, <1>2, <1>5, Replaced
<1>9. events' \in Seq(Event)
      BY <1>1, <1>4, <1>5, AppendProperties
<1>10. SharingTypeOK'
      BY <1>1, <1>5, <1>7, <1>8, <1>9, ServerTyped DEF K
<1> QED BY <1>1, <1>3, <1>4, <1>6, <1>10 DEF m, type

\* The pump timer of a proxy.
LEMMA ServerPumpFacts ==
    ASSUME SharingTypeOK, NEW c \in Clients, ServerPumps(c)
    PROVE  /\ SharingTypeOK' /\ proxy[c].outbox # <<>>
           /\ \A d \in Clients :
                /\ proxy'[d].content = proxy[d].content /\ proxy'[d].dirty = proxy[d].dirty
                /\ d # c => proxy'[d] = proxy[d] /\ down'[d] = down[d]
                /\ \A shown, k : Leads(proxy[d].outbox, down[d], shown, k)
                                   => Leads(proxy'[d].outbox, down'[d], shown, k)
           /\ UNCHANGED <<clip, server, client, up, events, history, spent>>
<1> DEFINE K == spent.copies
           q == Pumped(proxy[c].outbox)
           record == [proxy[c] EXCEPT !.outbox = q.left]
<1>1. /\ proxy[c].outbox # <<>> /\ proxy' = [proxy EXCEPT ![c] = record]
      /\ down' = [down EXCEPT ![c] = @ \o q.out]
      /\ UNCHANGED <<clip, server, client, up, events, history, spent>>
      BY DEF ServerPumps
<1>2. /\ server \in Servers(K) /\ proxy \in [Clients -> Proxies(K)]
      /\ down \in [Clients -> Downs(K)] /\ clip \in [Screens -> 0 .. K]
      /\ spent \in Expenses(K) /\ history \in Histories(K)
      /\ up \in [Clients -> Ups(K)] /\ events \in Seq(Event)
      BY NowParts, TypeParts
<1>3. proxy[c] \in Proxies(K) /\ proxy[c].outbox \in Outboxes(0 .. K) /\ down[c] \in Downs(K)
      BY <1>2 DEF Proxies
<1>4. q.left \in Outboxes(0 .. K) /\ q.out \in Seq(Data(0 .. K))
      BY <1>3, PumpedType
<1>5. \A shown, k : Leads(proxy[c].outbox, down[c], shown, k)
                      => Leads(q.left, down[c] \o q.out, shown, k)
      <2> DEFINE S == DownMessages(0 .. K)
                 C == 0 .. K
      <2>1. down[c] \in Seq(S) /\ Data(C) \subseteq S
            BY <1>3, DataMessages DEF Downs
      <2> HIDE DEF S, K
      <2> QED BY <1>1, <1>3, <2>1, LeadsPumped
<1> HIDE DEF q, K
<1>6. /\ record \in Proxies(K) /\ record.outbox = q.left
      /\ record.content = proxy[c].content /\ record.dirty = proxy[c].dirty
      BY <1>3, <1>4 DEF Proxies
<1>7. down[c] \o q.out \in Downs(K)
      BY <1>3, <1>4, DownsData
<1> HIDE DEF record
<1>8. /\ proxy' \in [Clients -> Proxies(K)] /\ proxy'[c] = record
      /\ \A d \in Clients : d # c => proxy'[d] = proxy[d]
      BY <1>1, <1>2, <1>6, Replaced
<1>9. /\ down' \in [Clients -> Downs(K)] /\ down'[c] = down[c] \o q.out
      /\ \A d \in Clients : d # c => down'[d] = down[d]
      BY <1>1, <1>2, <1>7, Replaced
<1>10. Now' \in States(K)
      <2>1. spent' \in Expenses(K) /\ history' \in Histories(K) /\ server' \in Servers(K)
            BY <1>1, <1>2
      <2>2. clip' \in [Screens -> 0 .. K]
            BY <1>1, <1>2
      <2> QED BY <1>8, <1>9, <2>1, <2>2, NowTyped
<1>11. SharingTypeOK'
      BY <1>1, <1>2, <1>10, ServerTyped DEF K
<1>12. ASSUME NEW d \in Clients
       PROVE  /\ proxy'[d].content = proxy[d].content /\ proxy'[d].dirty = proxy[d].dirty
              /\ d # c => proxy'[d] = proxy[d] /\ down'[d] = down[d]
              /\ \A shown, k : Leads(proxy[d].outbox, down[d], shown, k)
                                 => Leads(proxy'[d].outbox, down'[d], shown, k)
      <2>1. CASE d = c
            BY <1>5, <1>6, <1>8, <1>9, <2>1
      <2>2. CASE d # c
            BY <1>8, <1>9, <2>2
      <2> QED BY <2>1, <2>2
<1> QED BY <1>1, <1>11, <1>12

\* What c sends of its record after some messages: k, or nothing if it was not read.
SentBy(c, record, messages, k) ==
    /\ client'[c].own = record.own /\ client'[c].told = record.told
    /\ \/ client'[c] = record /\ up'[c] = up[c] \o messages
       \/ /\ client'[c].sent /\ client'[c].data = k
          /\ \E q : /\ q.out \in Seq(Data(0 .. spent.copies)) /\ Carries(q, k)
                    /\ client'[c].outbox = q.left
                    /\ up'[c] = up[c] \o messages \o q.out

\* What was sent already is not sent again.
NotAgain(c, record, messages) ==
    record.sent /\ record.data = clip[c] /\ history'.orderly =>
      client'[c] = record /\ up'[c] = up[c] \o messages

\* The records of the other clients and what they sent are as they were.
OnlyClient(c) ==
    \A d \in Clients : d # c => client'[d] = client[d] /\ up'[d] = up[d]

\* A history that may have become disorderly.
LessOrderly ==
    /\ history'.from = history.from /\ history'.copy = history.copy
    /\ history'.source = history.source /\ history'.refused = history.refused
    /\ history'.orderly => history.orderly

\* What Client::sendClipboard comes to.
LEMMA SendFacts ==
    ASSUME SharingTypeOK, NEW c \in Clients, NEW record \in Records(spent.copies),
           NEW messages \in Seq(UpMessages(0 .. spent.copies)),
           SendClipboard(c, record, messages)
    PROVE  /\ spent' \in Expenses(spent.copies)
           /\ spent'.fails = spent.fails
           /\ client' \in [Clients -> Records(spent.copies)]
           /\ up' \in [Clients -> Ups(spent.copies)]
           /\ history' \in Histories(spent.copies)
           /\ OnlyClient(c) /\ LessOrderly
           /\ \E k : SentBy(c, record, messages, k) /\ (history'.orderly => k = clip[c])
           /\ NotAgain(c, record, messages)
<1> DEFINE K == spent.copies
<1>1. PICK r \in Reads(clip[c], spent, 0) :
        /\ spent' = r.spent
        /\ IF r.got = NotRead \/ (record.sent /\ r.got = record.data)
           THEN /\ client' = [client EXCEPT ![c] = record]
                /\ up' = [up EXCEPT ![c] = @ \o messages]
           ELSE ClientSends(c, record, messages, r.got)
        /\ history' = [history EXCEPT !.orderly = @ /\ (r.got = 0 => clip[c] = 0)]
      BY DEF SendClipboard
<1>2. /\ K \in Nat /\ K \in 0 .. MaxTexts /\ clip[c] \in 0 .. K /\ spent \in Expenses(K)
      /\ client \in [Clients -> Records(K)] /\ up \in [Clients -> Ups(K)]
      /\ history \in Histories(K)
      <2>1. c \in Screens /\ clip \in [Screens -> 0 .. K]
            BY Places, NowParts
      <2> QED BY <2>1, NowParts, TypeParts
<1> HIDE DEF K
<1>3. /\ r.spent \in Expenses(K)
      /\ r.got \in 0 .. K \cup {NotRead}
      /\ \/ r.got = clip[c] /\ r.spent = spent
         \/ r.got \in {NotRead, 0} /\ r.spent.fails = spent.fails + 0
      BY <1>1, <1>2, ReadsFacts
<1>4. spent' \in Expenses(K) /\ spent'.fails = spent.fails
      <2>1. spent.fails \in Nat
            BY <1>2 DEF Expenses
      <2> QED BY <1>1, <1>3, <2>1, Bounds
<1>5. /\ history' \in Histories(K) /\ LessOrderly
      /\ history'.orderly => (r.got = 0 => clip[c] = 0)
      BY <1>1, <1>2 DEF Histories, LessOrderly
<1>6. up[c] \o messages \in Ups(K)
      BY <1>2, UpsConcat DEF K
<1>7. CASE r.got = NotRead \/ (record.sent /\ r.got = record.data)
      <2>1. /\ client' = [client EXCEPT ![c] = record]
            /\ up' = [up EXCEPT ![c] = up[c] \o messages]
            BY <1>1, <1>7
      <2>2. record \in Records(K)
            BY DEF K
      <2>3. /\ client' \in [Clients -> Records(K)] /\ client'[c] = record
            /\ \A d \in Clients : d # c => client'[d] = client[d]
            BY <1>2, <2>1, <2>2, Replaced
      <2>4. /\ up' \in [Clients -> Ups(K)] /\ up'[c] = up[c] \o messages
            /\ \A d \in Clients : d # c => up'[d] = up[d]
            BY <1>2, <1>6, <2>1, Replaced
      <2>5. SentBy(c, record, messages, clip[c])
            BY <2>3, <2>4 DEF SentBy
      <2>6. NotAgain(c, record, messages)
            BY <2>3, <2>4 DEF NotAgain
      <2> QED BY <1>4, <1>5, <2>3, <2>4, <2>5, <2>6 DEF OnlyClient, K
<1>8. CASE ~(r.got = NotRead \/ (record.sent /\ r.got = record.data))
      <2> DEFINE q == Queued(record.outbox, r.got, record.seq)
                 sent == [record EXCEPT !.outbox = q.left, !.sent = TRUE, !.data = r.got]
      <2>1. /\ client' = [client EXCEPT ![c] = sent]
            /\ up' = [up EXCEPT ![c] = up[c] \o messages \o q.out]
            BY <1>1, <1>8 DEF ClientSends
      <2>2. r.got \in 0 .. K /\ 0 .. K \subseteq 0 .. MaxTexts
            BY <1>2, <1>3, <1>8, Bounds
      <2>3. record \in Records(K) /\ record.outbox \in Outboxes(0 .. K) /\ record.seq \in Nat
            BY DEF Records, K
      <2>4. /\ q.left \in Outboxes(0 .. K) /\ q.out \in Seq(Data(0 .. K)) /\ Carries(q, r.got)
            BY <2>2, <2>3, QueuedType
      <2> HIDE DEF q
      <2>5. /\ sent \in Records(K) /\ sent.own = record.own /\ sent.told = record.told
            /\ sent.sent /\ sent.data = r.got /\ sent.outbox = q.left
            BY <2>2, <2>3, <2>4 DEF Records
      <2> HIDE DEF sent
      <2>6. up[c] \o messages \o q.out \in Ups(K)
            BY <1>6, <2>4, UpsData
      <2>7. /\ client' \in [Clients -> Records(K)] /\ client'[c] = sent
            /\ \A d \in Clients : d # c => client'[d] = client[d]
            BY <1>2, <2>1, <2>5, Replaced
      <2>8. /\ up' \in [Clients -> Ups(K)] /\ up'[c] = up[c] \o messages \o q.out
            /\ \A d \in Clients : d # c => up'[d] = up[d]
            BY <1>2, <2>1, <2>6, Replaced
      <2>9. SentBy(c, record, messages, r.got)
            BY <2>4, <2>5, <2>7, <2>8 DEF SentBy, K
      <2>10. history'.orderly => r.got = clip[c]
            BY <1>3, <1>5, <1>8
      <2>11. NotAgain(c, record, messages)
             BY <1>8, <2>10 DEF NotAgain
      <2> QED BY <1>4, <1>5, <2>7, <2>8, <2>9, <2>10, <2>11 DEF OnlyClient, K
<1> QED BY <1>7, <1>8

\* A step of a computer that leaves the server and what is under way to the clients
\* alone, or takes a message from it.
LEMMA ComputerTyped ==
    ASSUME SharingTypeOK, NEW c \in Computers, server' = server, proxy' = proxy,
           down' \in [Clients -> Downs(spent.copies)],
           clip' \in [Screens -> 0 .. spent.copies], spent' \in Expenses(spent.copies),
           client' \in [Clients -> Records(spent.copies)],
           up' \in [Clients -> Ups(spent.copies)], OnlyClient(c), events' = events,
           history' \in Histories(spent.copies)
    PROVE  SharingTypeOK'
<1> DEFINE K == spent.copies
<1>1. /\ K \in 0 .. MaxTexts /\ server \in Servers(K) /\ proxy \in [Clients -> Proxies(K)]
      /\ events \in Seq(Event)
      /\ \A h \in Phones : client[h].told = 0 /\ client[h].outbox = <<>> /\ ~client[h].own
      BY TypeParts, NowParts
<1>2. \A h \in Phones : h \in Clients /\ h # c
      BY Places
<1>3. \A h \in Phones : client'[h].told = 0 /\ client'[h].outbox = <<>> /\ ~client'[h].own
      BY <1>1, <1>2 DEF OnlyClient
<1> HIDE DEF K
<1>4. server' \in Servers(K) /\ proxy' \in [Clients -> Proxies(K)] /\ events' \in Seq(Event)
      BY <1>1
<1>5. Now' \in States(K)
      BY <1>4, NowTyped DEF K
<1>6. spent'.copies = K
      BY <1>5, SpentOf
<1> QED BY <1>1, <1>3, <1>4, <1>5, <1>6, TypedNext DEF K

\* Client::handleClipboardGrabbed
LEMMA LocalGrabFacts ==
    ASSUME SharingTypeOK, NEW c \in Computers, HandleLocalGrab(c)
    PROVE  /\ SharingTypeOK' /\ client[c].told > 0
           /\ OnlyClient(c) /\ LessOrderly
           /\ spent'.copies = spent.copies
           /\ spent'.fails = spent.fails
           /\ \E record, m, k :
                /\ SentBy(c, record, <<m>>, k) /\ (history'.orderly => k = clip[c])
                /\ record.own /\ ~record.sent
                /\ m \in UpMessages(0 .. spent.copies) /\ m.type = "grab"
           /\ UNCHANGED <<clip, proxy, server, down, events>>
<1> DEFINE K == spent.copies
           record == [client[c] EXCEPT !.told = @ - 1, !.own = TRUE, !.sent = FALSE]
           m == [type |-> "grab", seq |-> client[c].seq]
<1>1. /\ client[c].told > 0 /\ SendClipboard(c, record, <<m>>)
      /\ UNCHANGED <<clip, proxy, server, down, events>>
      BY DEF HandleLocalGrab
<1>2. c \in Clients /\ client \in [Clients -> Records(K)] /\ K \in Nat
      BY Places, TypeParts
<1>3. client[c] \in Records(K)
      BY <1>2
<1> HIDE DEF K
<1>4. client[c].told - 1 \in 0 .. K /\ client[c].seq \in Nat
      <2>1. client[c].told \in 0 .. K /\ client[c].seq \in Nat
            BY <1>3 DEF Records
      <2> QED BY <1>1, <1>2, <2>1
<1>5. record \in Records(K) /\ record.own /\ ~record.sent
      BY <1>3, <1>4 DEF Records
<1>6. m \in UpMessages(0 .. K) /\ m.type = "grab"
      BY <1>4 DEF UpMessages
<1> HIDE DEF record, m
<1>7. <<m>> \in Seq(UpMessages(0 .. K))
      <2> DEFINE S == UpMessages(0 .. K)
      <2> HIDE DEF S
      <2>1. m \in S
            BY <1>6 DEF S
      <2> QED BY <2>1 DEF S
<1>8. /\ spent' \in Expenses(K)
      /\ spent'.fails = spent.fails
      /\ client' \in [Clients -> Records(K)]
      /\ up' \in [Clients -> Ups(K)]
      /\ history' \in Histories(K)
      /\ OnlyClient(c) /\ LessOrderly
      /\ \E k : SentBy(c, record, <<m>>, k) /\ (history'.orderly => k = clip[c])
      BY <1>1, <1>2, <1>5, <1>7, SendFacts DEF K
<1>9. SharingTypeOK'
      <2>1. down' \in [Clients -> Downs(K)] /\ clip' \in [Screens -> 0 .. K]
            BY <1>1, NowParts DEF K
      <2> QED BY <1>1, <1>8, <2>1, ComputerTyped DEF K
<1>10. spent'.copies = K
       BY <1>8 DEF Expenses
<1> QED BY <1>1, <1>5, <1>6, <1>8, <1>9, <1>10 DEF K

\* The pump timer of a client.
LEMMA ClientPumpFacts ==
    ASSUME SharingTypeOK, NEW c \in Computers, ClientPumps(c)
    PROVE  /\ SharingTypeOK' /\ OnlyClient(c) /\ client[c].outbox # <<>>
           /\ \E q : /\ q.out \in Seq(Data(0 .. spent.copies))
                     /\ Carries(q, Latest(client[c].outbox).copy)
                     /\ client'[c].outbox = q.left /\ up'[c] = up[c] \o q.out
           /\ client'[c].own = client[c].own /\ client'[c].sent = client[c].sent
           /\ client'[c].told = client[c].told /\ client'[c].data = client[c].data
           /\ UNCHANGED <<clip, server, proxy, down, events, history, spent>>
<1> DEFINE K == spent.copies
           q == Pumped(client[c].outbox)
           record == [client[c] EXCEPT !.outbox = q.left]
<1>1. /\ client[c].outbox # <<>> /\ client' = [client EXCEPT ![c] = record]
      /\ up' = [up EXCEPT ![c] = up[c] \o q.out]
      /\ UNCHANGED <<clip, server, proxy, down, events, history, spent>>
      BY DEF ClientPumps
<1>2. c \in Clients /\ client \in [Clients -> Records(K)] /\ up \in [Clients -> Ups(K)]
      BY Places, TypeParts
<1>3. client[c] \in Records(K) /\ client[c].outbox \in Outboxes(0 .. K)
      BY <1>2 DEF Records
<1>4. /\ q.left \in Outboxes(0 .. K) /\ q.out \in Seq(Data(0 .. K))
      /\ Carries(q, Latest(client[c].outbox).copy)
      BY <1>1, <1>3, PumpedType
<1> HIDE DEF q, K
<1>5. /\ record \in Records(K) /\ record.outbox = q.left
      /\ record.own = client[c].own /\ record.sent = client[c].sent
      /\ record.told = client[c].told /\ record.data = client[c].data
      BY <1>3, <1>4 DEF Records
<1> HIDE DEF record
<1>6. up[c] \o q.out \in Ups(K)
      BY <1>2, <1>4, UpsData
<1>7. /\ client' \in [Clients -> Records(K)] /\ client'[c] = record
      /\ \A d \in Clients : d # c => client'[d] = client[d]
      BY <1>1, <1>2, <1>5, Replaced
<1>8. /\ up' \in [Clients -> Ups(K)] /\ up'[c] = up[c] \o q.out
      /\ \A d \in Clients : d # c => up'[d] = up[d]
      BY <1>1, <1>2, <1>6, Replaced
<1>9. SharingTypeOK'
      <2>1. /\ down' \in [Clients -> Downs(K)] /\ clip' \in [Screens -> 0 .. K]
            /\ spent' \in Expenses(K) /\ history' \in Histories(K)
            BY <1>1, NowParts, TypeParts DEF K
      <2> QED BY <1>1, <1>7, <1>8, <2>1, ComputerTyped DEF K, OnlyClient
<1> QED BY <1>1, <1>4, <1>5, <1>7, <1>8, <1>9 DEF K, OnlyClient

\* c has read its first message.
Reading(c) ==
    /\ down[c] # <<>> /\ down'[c] = Tail(down[c])
    /\ \A d \in Clients : d # c => down'[d] = down[d]
    /\ \A s \in Screens : s # c => clip'[s] = clip[s]
    /\ ~Settles(Head(down[c])) => clip'[c] = clip[c]

\* The types after a client has read a message.
LEMMA ReadingTyped ==
    ASSUME SharingTypeOK, NEW c \in Clients, down[c] # <<>>,
           down' = [down EXCEPT ![c] = Tail(@)]
    PROVE  /\ down' \in [Clients -> Downs(spent.copies)]
           /\ down'[c] = Tail(down[c]) /\ \A d \in Clients : d # c => down'[d] = down[d]
<1> DEFINE K == spent.copies
<1>1. down \in [Clients -> Downs(K)] /\ Tail(down[c]) \in Downs(K)
      BY NowParts, DownHead
<1> HIDE DEF K
<1> QED BY <1>1, Replaced DEF K

\* What a computer does with a message.
LEMMA ComputerFacts ==
    ASSUME SharingTypeOK, NEW c \in Computers, ComputerReceives(c)
    PROVE  /\ SharingTypeOK' /\ OnlyClient(c) /\ LessOrderly /\ Reading(c)
           /\ Head(down[c]).type = "data" => clip'[c] = Head(down[c]).copy
           /\ client'[c].told = client[c].told
           /\ spent'.copies = spent.copies
           /\ spent'.fails = spent.fails
           /\ UNCHANGED <<server, proxy, events>>
           /\ \/ /\ ~client'[c].own /\ client'[c].outbox = client[c].outbox /\ up' = up
                 /\ Settles(Head(down[c]))
              \/ /\ client'[c].own = client[c].own /\ client'[c].sent = client[c].sent
                 /\ client'[c].data = client[c].data
                 /\ client'[c].outbox = client[c].outbox /\ up' = up
                 /\ ~Settles(Head(down[c]))
              \/ /\ client[c].own /\ (Unsent(c) \/ ~history'.orderly)
                 /\ ~Settles(Head(down[c]))
                 /\ \E k : SentBy(c, client[c], <<>>, k) /\ (history'.orderly => k = clip[c])
<1> DEFINE K == spent.copies
           m == Head(down[c])
<1>1. /\ down[c] # <<>> /\ down' = [down EXCEPT ![c] = Tail(@)]
      /\ UNCHANGED <<server, proxy, events>>
      BY DEF ComputerReceives
<1>2. /\ c \in Clients /\ c \in Screens /\ K \in Nat
      /\ client \in [Clients -> Records(K)] /\ up \in [Clients -> Ups(K)]
      /\ clip \in [Screens -> 0 .. K] /\ spent \in Expenses(K) /\ history \in Histories(K)
      BY Places, TypeParts, NowParts
<1>3. /\ down' \in [Clients -> Downs(K)]
      /\ down'[c] = Tail(down[c]) /\ \A d \in Clients : d # c => down'[d] = down[d]
      BY <1>1, <1>2, ReadingTyped
<1>4. m \in DownMessages(0 .. K)
      BY <1>1, <1>2, DownHead
<1>5. client[c] \in Records(K)
      BY <1>2
<1> HIDE DEF K, m
<1>6. m.type = "enter" => m.seq \in Nat
      BY <1>4 DEF DownMessages
<1>7. m.type = "data" => m.copy \in 0 .. K
      BY <1>4 DEF DownMessages
<1>8. CASE m.type = "enter" /\ client' = [client EXCEPT ![c].seq = m.seq]
           /\ UNCHANGED <<clip, up, history, spent>>
      <2> DEFINE record == [client[c] EXCEPT !.seq = m.seq]
      <2>1. /\ record \in Records(K) /\ record.own = client[c].own
            /\ record.sent = client[c].sent /\ record.told = client[c].told
            /\ record.data = client[c].data /\ record.outbox = client[c].outbox
            BY <1>5, <1>6, <1>8 DEF Records
      <2>2. client' = [client EXCEPT ![c] = record]
            BY <1>8
      <2> HIDE DEF record
      <2>3. /\ client' \in [Clients -> Records(K)] /\ client'[c] = record
            /\ \A d \in Clients : d # c => client'[d] = client[d]
            BY <1>2, <2>1, <2>2, Replaced
      <2>4. OnlyClient(c) /\ LessOrderly /\ ~Settles(m)
            BY <1>8, <2>3 DEF OnlyClient, LessOrderly, Settles
      <2>5. /\ up' \in [Clients -> Ups(K)] /\ clip' \in [Screens -> 0 .. K]
            /\ spent' \in Expenses(K) /\ history' \in Histories(K)
            BY <1>2, <1>8
      <2>6. SharingTypeOK'
            BY <1>1, <1>3, <2>3, <2>4, <2>5, ComputerTyped DEF K
      <2>7. Reading(c) /\ m.type # "data"
            BY <1>1, <1>3, <1>8 DEF Reading
      <2> QED BY <1>1, <1>8, <2>1, <2>3, <2>4, <2>6, <2>7 DEF m
<1>9. CASE m.type = "leave" /\ clip' = clip
           /\ IF client[c].own
              THEN SendClipboard(c, client[c], <<>>)
              ELSE UNCHANGED <<client, up, history, spent>>
      <2>1. ~Settles(m) /\ m.type # "data"
            BY <1>9 DEF Settles
      <2>2. Reading(c) /\ clip' \in [Screens -> 0 .. K]
            BY <1>1, <1>2, <1>3, <1>9 DEF Reading
      <2>3. CASE client[c].own
            <3>1. SendClipboard(c, client[c], <<>>)
                  BY <1>9, <2>3
            <3>2. <<>> \in Seq(UpMessages(0 .. K))
                  OBVIOUS
            <3>3. /\ spent' \in Expenses(K)
                  /\ spent'.fails = spent.fails
                  /\ client' \in [Clients -> Records(K)]
                  /\ up' \in [Clients -> Ups(K)]
                  /\ history' \in Histories(K)
                  /\ OnlyClient(c) /\ LessOrderly
                  /\ \E k : SentBy(c, client[c], <<>>, k) /\ (history'.orderly => k = clip[c])
                  /\ NotAgain(c, client[c], <<>>)
                  BY <1>2, <1>5, <3>1, <3>2, SendFacts DEF K
            <3>4. SharingTypeOK'
                  BY <1>1, <1>3, <2>2, <3>3, ComputerTyped DEF K
            <3>5. client'[c].told = client[c].told
                  BY <3>3 DEF SentBy
            <3>6. spent'.copies = spent.copies
                  BY <3>3 DEF Expenses, K
            <3>7. CASE Unsent(c) \/ ~history'.orderly
                  BY <1>1, <2>1, <2>2, <2>3, <3>3, <3>4, <3>5, <3>6, <3>7 DEF m
            <3>8. CASE ~(Unsent(c) \/ ~history'.orderly)
                  <4>1. client'[c] = client[c] /\ up'[c] = up[c] \o <<>>
                        BY <2>3, <3>3, <3>8 DEF Unsent, NotAgain
                  <4>2. up' = up
                        <5> DEFINE S == UpMessages(0 .. K)
                        <5>1. up[c] \in Seq(S)
                              BY <1>2 DEF Ups
                        <5> HIDE DEF S
                        <5>2. up'[c] = up[c]
                              BY <4>1, <5>1
                        <5> QED BY <1>2, <3>3, <5>2 DEF OnlyClient
                  <4> QED BY <1>1, <2>1, <2>2, <3>3, <3>4, <3>5, <3>6, <4>1, <4>2 DEF m
            <3> QED BY <3>7, <3>8
      <2>4. CASE ~client[c].own
            <3>1. UNCHANGED <<client, up, history, spent>>
                  BY <1>9, <2>4
            <3>2. OnlyClient(c) /\ LessOrderly
                  BY <3>1 DEF OnlyClient, LessOrderly
            <3>3. /\ client' \in [Clients -> Records(K)] /\ up' \in [Clients -> Ups(K)]
                  /\ spent' \in Expenses(K) /\ history' \in Histories(K)
                  BY <1>2, <3>1
            <3>4. SharingTypeOK'
                  BY <1>1, <1>3, <2>2, <3>2, <3>3, ComputerTyped DEF K
            <3> QED BY <1>1, <2>1, <2>2, <3>1, <3>2, <3>4 DEF m
      <2> QED BY <2>3, <2>4
<1>10. CASE /\ m.type \in {"grab", "data"}
            /\ clip' = [clip EXCEPT ![c] = IF m.type = "grab" THEN 0 ELSE m.copy]
            /\ client' = Disowned(c)
            /\ UNCHANGED <<up, history, spent>>
      <2> DEFINE record == [client[c] EXCEPT !.own = FALSE, !.sent = FALSE]
                 shown == IF m.type = "grab" THEN 0 ELSE m.copy
      <2>1. /\ record \in Records(K) /\ ~record.own /\ record.told = client[c].told
            /\ record.outbox = client[c].outbox
            BY <1>5 DEF Records
      <2>2. client' = [client EXCEPT ![c] = record]
            BY <1>2, <1>10 DEF Disowned
      <2>3. shown \in 0 .. K
            BY <1>2, <1>7, <1>10
      <2>4. /\ clip' \in [Screens -> 0 .. K] /\ clip'[c] = shown
            /\ \A s \in Screens : s # c => clip'[s] = clip[s]
            BY <1>2, <1>10, <2>3
      <2>5. m.type = "data" => shown = m.copy
            OBVIOUS
      <2> HIDE DEF record, shown
      <2>6. /\ client' \in [Clients -> Records(K)] /\ client'[c] = record
            /\ \A d \in Clients : d # c => client'[d] = client[d]
            BY <1>2, <2>1, <2>2, Replaced
      <2>7. OnlyClient(c) /\ LessOrderly /\ Settles(m)
            BY <1>10, <2>6 DEF OnlyClient, LessOrderly, Settles
      <2>8. up' \in [Clients -> Ups(K)] /\ spent' \in Expenses(K) /\ history' \in Histories(K)
            BY <1>2, <1>10
      <2>9. SharingTypeOK'
            BY <1>1, <1>3, <2>4, <2>6, <2>7, <2>8, ComputerTyped DEF K
      <2>10. Reading(c)
             BY <1>1, <1>3, <2>4, <2>7 DEF Reading, m
      <2> QED BY <1>1, <1>10, <2>1, <2>4, <2>5, <2>6, <2>7, <2>9, <2>10 DEF m
<1>11. \/ m.type = "enter" /\ client' = [client EXCEPT ![c].seq = m.seq]
          /\ UNCHANGED <<clip, up, history, spent>>
       \/ m.type = "leave" /\ clip' = clip
          /\ IF client[c].own
             THEN SendClipboard(c, client[c], <<>>)
             ELSE UNCHANGED <<client, up, history, spent>>
       \/ /\ m.type \in {"grab", "data"}
          /\ clip' = [clip EXCEPT ![c] = IF m.type = "grab" THEN 0 ELSE m.copy]
          /\ client' = Disowned(c)
          /\ UNCHANGED <<up, history, spent>>
       BY DEF ComputerReceives, m
<1> QED BY <1>8, <1>9, <1>10, <1>11

\* The greater of two numbers is a number.
LEMMA GreaterOfTwo ==
    ASSUME NEW a \in Nat, NEW b \in Nat
    PROVE  Max({a, b}) \in Nat
<1>1. \E x \in {a, b} : \A y \in {a, b} : x >= y
      OBVIOUS
<1>2. Max({a, b}) \in {a, b}
      BY <1>1 DEF Max
<1> QED BY <1>2

\* What a phone does with a message.
LEMMA PhoneFacts ==
    ASSUME SharingTypeOK, NEW h \in Phones, PhoneReceives(h)
    PROVE  /\ SharingTypeOK' /\ Reading(h)
           /\ Head(down[h]).type = "data" /\ Head(down[h]).copy # 0
                => clip'[h] = Head(down[h]).copy
           /\ \A d \in Clients : /\ client'[d].own = client[d].own
                                 /\ client'[d].sent = client[d].sent
                                 /\ client'[d].data = client[d].data
                                 /\ client'[d].told = client[d].told
                                 /\ client'[d].outbox = client[d].outbox
           /\ UNCHANGED <<server, proxy, up, events, history, spent>>
<1> DEFINE K == spent.copies
           m == Head(down[h])
           seq == Max({client[h].seq, m.seq})
           record == [client[h] EXCEPT !.seq = seq]
           shown == IF m.type = "data" /\ m.copy # 0 THEN m.copy ELSE clip[h]
<1>1. /\ down[h] # <<>> /\ down' = [down EXCEPT ![h] = Tail(@)]
      /\ client' = IF m.type = "enter" THEN [client EXCEPT ![h] = record] ELSE client
      /\ clip' = IF m.type = "data" /\ m.copy # 0 THEN [clip EXCEPT ![h] = m.copy] ELSE clip
      /\ UNCHANGED <<server, proxy, up, events, history, spent>>
      BY DEF PhoneReceives
<1>2. /\ h \in Clients /\ h \in Screens /\ K \in Nat /\ K \in 0 .. MaxTexts
      /\ client \in [Clients -> Records(K)] /\ up \in [Clients -> Ups(K)]
      /\ clip \in [Screens -> 0 .. K] /\ spent \in Expenses(K) /\ history \in Histories(K)
      /\ server \in Servers(K) /\ proxy \in [Clients -> Proxies(K)] /\ events \in Seq(Event)
      /\ \A g \in Phones : client[g].told = 0 /\ client[g].outbox = <<>> /\ ~client[g].own
      BY Places, TypeParts, NowParts
<1>3. /\ down' \in [Clients -> Downs(K)]
      /\ down'[h] = Tail(down[h]) /\ \A d \in Clients : d # h => down'[d] = down[d]
      BY <1>1, <1>2, ReadingTyped
<1>4. m \in DownMessages(0 .. K)
      BY <1>1, <1>2, DownHead
<1>5. client[h] \in Records(K)
      BY <1>2
<1> HIDE DEF K, m
<1>6. m.type = "enter" => m.seq \in Nat
      BY <1>4 DEF DownMessages
<1>7. m.type = "data" => m.copy \in 0 .. K
      BY <1>4 DEF DownMessages
<1>8. m.type = "enter" => seq \in Nat
      <2>1. client[h].seq \in Nat
            BY <1>5 DEF Records
      <2> QED BY <1>6, <2>1, GreaterOfTwo
<1> HIDE DEF seq
<1>9. /\ m.type = "enter" => record \in Records(K)
      /\ record.own = client[h].own /\ record.sent = client[h].sent
      /\ record.data = client[h].data
      /\ record.told = client[h].told /\ record.outbox = client[h].outbox
      BY <1>5, <1>8 DEF Records
<1> HIDE DEF record
<1>10. /\ client' \in [Clients -> Records(K)]
       /\ \A d \in Clients : /\ client'[d].own = client[d].own
                             /\ client'[d].sent = client[d].sent
                             /\ client'[d].data = client[d].data
                             /\ client'[d].told = client[d].told
                             /\ client'[d].outbox = client[d].outbox
      <2>1. CASE m.type = "enter"
            <3>1. /\ client' \in [Clients -> Records(K)] /\ client'[h] = record
                  /\ \A d \in Clients : d # h => client'[d] = client[d]
                  BY <1>1, <1>2, <1>9, <2>1, Replaced
            <3> QED BY <1>9, <3>1
      <2>2. CASE m.type # "enter"
            BY <1>1, <1>2, <2>2
      <2> QED BY <2>1, <2>2
<1>11. /\ clip' \in [Screens -> 0 .. K] /\ clip'[h] = shown
       /\ \A s \in Screens : s # h => clip'[s] = clip[s]
      BY <1>1, <1>2, <1>7
<1>12. Now' \in States(K)
      <2>1. /\ spent' \in Expenses(K) /\ history' \in Histories(K) /\ server' \in Servers(K)
            /\ proxy' \in [Clients -> Proxies(K)]
            BY <1>1, <1>2
      <2> QED BY <1>3, <1>11, <2>1, NowTyped
<1>13. SharingTypeOK'
      <2>1. /\ spent'.copies = K /\ up' \in [Clients -> Ups(K)] /\ events' \in Seq(Event)
            /\ history' \in Histories(K)
            BY <1>1, <1>2, <1>12, SpentOf
      <2>2. \A g \in Phones : client'[g].told = 0 /\ client'[g].outbox = <<>> /\ ~client'[g].own
            BY <1>2, <1>10, Places
      <2> QED BY <1>2, <1>10, <1>12, <2>1, <2>2, TypedNext
<1>14. Reading(h)
      <2>1. ~Settles(m) => shown = clip[h]
            BY DEF Settles
      <2> QED BY <1>1, <1>3, <1>11, <2>1 DEF Reading, m
<1> QED BY <1>1, <1>10, <1>11, <1>13, <1>14 DEF m

-----------------------------------------------------------------------------
(***************************************************************************)
(* The users.                                                              *)
(***************************************************************************)

\* What is typed when K copies have been made still is when there are more.
LEMMA OneMore ==
    ASSUME NEW K \in Nat
    PROVE  /\ Servers(K) \subseteq Servers(K + 1) /\ Proxies(K) \subseteq Proxies(K + 1)
           /\ Downs(K) \subseteq Downs(K + 1) /\ Ups(K) \subseteq Ups(K + 1)
           /\ Records(K) \subseteq Records(K + 1)
           /\ 0 .. K \subseteq 0 .. K + 1
<1> DEFINE A == 0 .. K
           B == 0 .. K + 1
<1>1. A \subseteq B
      OBVIOUS
<1> HIDE DEF A, B
<1>2. Outboxes(A) \subseteq Outboxes(B)
      <2>1. Transfers(A) \subseteq Transfers(B)
            BY <1>1 DEF Transfers
      <2> SUFFICES ASSUME NEW box \in Outboxes(A) PROVE box \in Outboxes(B)
          OBVIOUS
      <2>2. /\ box \in Seq(Transfers(A)) /\ Len(box) \in 0 .. 2
            /\ \A i \in 2 .. Len(box) : ~box[i].started
            BY OutboxParts
      <2>3. box \in Seq(Transfers(B)) /\ Len(box) <= 2
            BY <2>1, <2>2, SeqMore
      <2> QED BY <2>2, <2>3, OutboxMade
<1>3. UpMessages(A) \subseteq UpMessages(B) /\ DownMessages(A) \subseteq DownMessages(B)
      BY <1>1 DEF UpMessages, DownMessages
<1>4. Seq(UpMessages(A)) \subseteq Seq(UpMessages(B))
      BY <1>3, SeqMore
<1>5. Seq(DownMessages(A)) \subseteq Seq(DownMessages(B))
      BY <1>3, SeqMore
<1>6. [dirty: BOOLEAN, content: A, outbox: Outboxes(A)]
        \subseteq [dirty: BOOLEAN, content: B, outbox: Outboxes(B)]
      BY <1>1, <1>2
<1>7. [own: BOOLEAN, sent: BOOLEAN, seq: Nat, told: A, data: A, outbox: Outboxes(A)]
        \subseteq [own: BOOLEAN, sent: BOOLEAN, seq: Nat, told: B, data: B,
                   outbox: Outboxes(B)]
      BY <1>1, <1>2
<1>8. Servers(K) \subseteq Servers(K + 1)
      BY <1>1 DEF Servers, A, B
<1> QED BY <1>1, <1>4, <1>5, <1>6, <1>7, <1>8 DEF Proxies, Records, Ups, Downs, A, B

\* What every copy does.
LEMMA CopyFacts ==
    ASSUME SharingTypeOK, NEW s \in Screens, CopyOn(s)
    PROVE  LET K == spent.copies + 1
           IN /\ K \in 0 .. MaxTexts /\ K > 0
              /\ spent' \in Expenses(K) /\ spent'.copies = K /\ spent'.fails = spent.fails
              /\ clip' \in [Screens -> 0 .. K] /\ clip'[s] = K
              /\ \A t \in Screens : t # s => clip'[t] = clip[t]
              /\ history' \in Histories(K)
              /\ history'.from = s /\ history'.copy = K /\ history'.orderly = AloneAt(s)
              /\ history'.source = history.source /\ history'.refused = history.refused \ {s}
<1> DEFINE K == spent.copies + 1
<1>1. /\ spent.copies < MaxTexts /\ spent' = [spent EXCEPT !.copies = K]
      /\ clip' = [clip EXCEPT ![s] = K]
      /\ history' = [history EXCEPT !.from = s, !.copy = K, !.orderly = AloneAt(s),
                                    !.refused = @ \ {s}]
      BY DEF CopyOn
<1>2. /\ spent.copies \in 0 .. MaxTexts /\ spent.copies \in Nat
      /\ clip \in [Screens -> 0 .. spent.copies] /\ spent \in Expenses(spent.copies)
      /\ history \in Histories(spent.copies)
      BY TypeParts, NowParts
<1>3. K \in 0 .. MaxTexts /\ K > 0 /\ K \in 0 .. K /\ 0 .. spent.copies \subseteq 0 .. K
      BY <1>1, <1>2, Bounds
<1> HIDE DEF K
<1>4. spent' \in Expenses(K) /\ spent'.copies = K /\ spent'.fails = spent.fails
      BY <1>1, <1>2 DEF Expenses
<1>5. /\ clip' \in [Screens -> 0 .. K] /\ clip'[s] = K
      /\ \A t \in Screens : t # s => clip'[t] = clip[t]
      BY <1>1, <1>2, <1>3
<1>6. AloneAt(s) \in BOOLEAN
      BY DEF AloneAt
<1>7. /\ history' \in Histories(K)
      /\ history'.from = s /\ history'.copy = K /\ history'.orderly = AloneAt(s)
      /\ history'.source = history.source /\ history'.refused = history.refused \ {s}
      BY <1>1, <1>2, <1>3, <1>6 DEF Histories
<1> QED BY <1>3, <1>4, <1>5, <1>7 DEF K

\* A copy leaves the types of all else as they are.
LEMMA CopyTyped ==
    ASSUME SharingTypeOK, NEW s \in Screens, CopyOn(s),
           UNCHANGED <<server, proxy, down>>,
           client' \in [Clients -> Records(spent.copies + 1)],
           \A h \in Phones :
             client'[h].told = 0 /\ client'[h].outbox = <<>> /\ ~client'[h].own,
           up' \in [Clients -> Ups(spent.copies + 1)], events' \in Seq(Event)
    PROVE  SharingTypeOK'
<1> DEFINE K == spent.copies + 1
<1>1. /\ K \in 0 .. MaxTexts /\ spent' \in Expenses(K) /\ spent'.copies = K
      /\ clip' \in [Screens -> 0 .. K] /\ history' \in Histories(K)
      BY CopyFacts
<1>2. /\ server \in Servers(K) /\ proxy \in [Clients -> Proxies(K)]
      /\ down \in [Clients -> Downs(K)]
      <2>1. /\ Servers(spent.copies) \subseteq Servers(K)
            /\ Proxies(spent.copies) \subseteq Proxies(K)
            /\ Downs(spent.copies) \subseteq Downs(K)
            BY TypeParts, OneMore
      <2>2. /\ server \in Servers(spent.copies) /\ proxy \in [Clients -> Proxies(spent.copies)]
            /\ down \in [Clients -> Downs(spent.copies)]
            BY NowParts
      <2> HIDE DEF K
      <2> QED BY <2>1, <2>2
<1>3. client' \in [Clients -> Records(K)] /\ up' \in [Clients -> Ups(K)]
      OBVIOUS
<1> HIDE DEF K
<1>4. server' \in Servers(K) /\ proxy' \in [Clients -> Proxies(K)]
      /\ down' \in [Clients -> Downs(K)]
      BY <1>2
<1>5. Now' \in States(K)
      BY <1>1, <1>4, NowTyped
<1> QED BY <1>1, <1>3, <1>5, TypedNext

\* A notice of the primary.
LEMMA TellFacts ==
    ASSUME SharingTypeOK, PrimaryTells
    PROVE  /\ events' \in Seq(Event)
           /\ \E e \in Event : events' = Append(events, e) /\ e.from = Primary
<1> DEFINE e == [type |-> "grabbed", from |-> Primary, seq |-> server.screenSeq]
<1>1. events \in Seq(Event) /\ events' = Append(events, e)
      BY TypeParts DEF PrimaryTells
<1>2. e \in Event
      <2>1. server.screenSeq \in Nat /\ Primary \in Screens
            BY NowParts, ServerParts, Places, TypeParts
      <2> QED BY <2>1 DEF Event
<1>3. e.from = Primary
      OBVIOUS
<1> HIDE DEF e
<1> QED BY <1>1, <1>2, <1>3, AppendProperties

\* What a copy on the primary does,
LEMMA PrimaryCopyFacts ==
    ASSUME SharingTypeOK, PrimaryCopies
    PROVE  /\ SharingTypeOK' /\ CopyOn(Primary)
           /\ \E e \in Event : events' = Append(events, e) /\ e.from = Primary
           /\ UNCHANGED <<server, proxy, client, up, down>>
<1> DEFINE K == spent.copies
<1>1. CopyOn(Primary) /\ PrimaryTells /\ UNCHANGED <<server, proxy, client, up, down>>
      BY DEF PrimaryCopies
<1>2. Primary \in Screens
      BY Places
<1>3. /\ events' \in Seq(Event)
      /\ \E e \in Event : events' = Append(events, e) /\ e.from = Primary
      BY <1>1, TellFacts
<1>4. /\ K \in Nat /\ client \in [Clients -> Records(K)] /\ up \in [Clients -> Ups(K)]
      /\ \A h \in Phones : client[h].told = 0 /\ client[h].outbox = <<>> /\ ~client[h].own
      BY TypeParts
<1> HIDE DEF K
<1>5. client' \in [Clients -> Records(K + 1)] /\ up' \in [Clients -> Ups(K + 1)]
      <2>1. Records(K) \subseteq Records(K + 1) /\ Ups(K) \subseteq Ups(K + 1)
            BY <1>4, OneMore
      <2> QED BY <1>1, <1>4, <2>1
<1>6. \A h \in Phones : client'[h].told = 0 /\ client'[h].outbox = <<>> /\ ~client'[h].own
      BY <1>1, <1>4
<1>7. SharingTypeOK'
      BY <1>1, <1>2, <1>3, <1>5, <1>6, CopyTyped DEF K
<1> QED BY <1>1, <1>3, <1>7

\* a grab of the primary without a new copy,
LEMMA EchoFacts ==
    ASSUME SharingTypeOK, PrimaryEchoes
    PROVE  /\ SharingTypeOK' /\ LessOrderly /\ (history'.orderly => AloneAt(Primary))
           /\ \E e \in Event : events' = Append(events, e) /\ e.from = Primary
           /\ spent'.copies = spent.copies /\ spent'.fails = spent.fails
           /\ UNCHANGED <<clip, server, proxy, client, up, down>>
<1> DEFINE K == spent.copies
<1>1. /\ spent.twists < MaxTwists /\ spent' = [spent EXCEPT !.twists = @ + 1]
      /\ history' = [history EXCEPT !.orderly = @ /\ AloneAt(Primary)]
      /\ PrimaryTells /\ UNCHANGED <<clip, server, proxy, client, up, down>>
      BY DEF PrimaryEchoes
<1>2. /\ server \in Servers(K) /\ proxy \in [Clients -> Proxies(K)]
      /\ down \in [Clients -> Downs(K)] /\ clip \in [Screens -> 0 .. K]
      /\ spent \in Expenses(K) /\ history \in Histories(K)
      /\ up \in [Clients -> Ups(K)]
      BY NowParts, TypeParts
<1> HIDE DEF K
<1>3. spent' \in Expenses(K) /\ spent'.fails = spent.fails
      <2>1. spent.twists + 1 \in 0 .. MaxTwists
            <3>1. spent.twists \in 0 .. MaxTwists
                  BY <1>2 DEF Expenses
            <3> QED BY <1>1, <3>1, Bounds
      <2> QED BY <1>1, <1>2, <2>1 DEF Expenses
<1>4. /\ history' \in Histories(K) /\ LessOrderly
      /\ history'.orderly => AloneAt(Primary)
      <2>1. AloneAt(Primary) \in BOOLEAN
            BY DEF AloneAt
      <2> QED BY <1>1, <1>2, <2>1 DEF Histories, LessOrderly
<1>5. /\ events' \in Seq(Event)
      /\ \E e \in Event : events' = Append(events, e) /\ e.from = Primary
      BY <1>1, TellFacts
<1>6. /\ server' \in Servers(K) /\ proxy' \in [Clients -> Proxies(K)]
      /\ down' \in [Clients -> Downs(K)] /\ clip' \in [Screens -> 0 .. K]
      /\ up' \in [Clients -> Ups(K)]
      BY <1>1, <1>2
<1>7. Now' \in States(K)
      BY <1>3, <1>4, <1>6, NowTyped
<1>8. SharingTypeOK'
      BY <1>1, <1>4, <1>5, <1>6, <1>7, ServerTyped DEF K
<1>9. spent'.copies = K
      BY <1>3 DEF Expenses
<1> QED BY <1>1, <1>3, <1>4, <1>5, <1>8, <1>9 DEF K

\* the other clipboard's grab,
LEMMA OtherFacts ==
    ASSUME SharingTypeOK, OtherGrabbed
    PROVE  /\ SharingTypeOK'
           /\ server'.retry = 0 /\ server'.retrySeq = server.retrySeq
           /\ server'.owner = server.owner /\ server'.seq = server.seq
           /\ server'.cache = server.cache /\ server'.data = server.data
           /\ spent'.copies = spent.copies /\ spent'.fails = spent.fails + server.retry
           /\ UNCHANGED <<clip, proxy, client, up, down, events, history>>
<1> DEFINE K == spent.copies
<1>1. /\ server' = [server EXCEPT !.retry = 0]
      /\ spent' = [spent EXCEPT !.fails = @ + server.retry]
      /\ UNCHANGED <<clip, proxy, client, up, down, events, history>>
      BY DEF OtherGrabbed
<1>2. /\ server \in Servers(K) /\ proxy \in [Clients -> Proxies(K)]
      /\ down \in [Clients -> Downs(K)] /\ clip \in [Screens -> 0 .. K]
      /\ spent \in Expenses(K) /\ history \in Histories(K)
      /\ up \in [Clients -> Ups(K)] /\ events \in Seq(Event)
      BY NowParts, TypeParts
<1> HIDE DEF K
<1>3. /\ server' \in Servers(K)
      /\ server'.retry = 0 /\ server'.retrySeq = server.retrySeq
      /\ server'.owner = server.owner /\ server'.seq = server.seq
      /\ server'.cache = server.cache /\ server'.data = server.data
      <2>1. 0 \in 0 .. Retries
            BY Bounds
      <2> QED BY <1>1, <1>2, <2>1 DEF Servers
<1>4. /\ spent' \in Expenses(K) /\ spent'.fails = spent.fails + server.retry
      /\ spent'.copies = K
      <2>1. server.retry \in 0 .. Retries /\ spent.fails \in Nat
            BY <1>2 DEF Servers, Expenses
      <2>2. spent.fails + server.retry \in Nat
            BY <2>1, Bounds
      <2> QED BY <1>1, <1>2, <2>2 DEF Expenses
<1>5. /\ proxy' \in [Clients -> Proxies(K)] /\ down' \in [Clients -> Downs(K)]
      /\ clip' \in [Screens -> 0 .. K] /\ history' \in Histories(K)
      /\ up' \in [Clients -> Ups(K)] /\ events' \in Seq(Event)
      BY <1>1, <1>2
<1>6. Now' \in States(K)
      BY <1>3, <1>4, <1>5, NowTyped
<1>7. SharingTypeOK'
      BY <1>1, <1>5, <1>6, ServerTyped DEF K
<1> QED BY <1>1, <1>3, <1>4, <1>7 DEF K

\* a copy on a computer,
LEMMA ComputerCopyFacts ==
    ASSUME SharingTypeOK, NEW c \in Computers, ComputerCopies(c)
    PROVE  /\ SharingTypeOK' /\ CopyOn(c) /\ client'[c].told > 0
           /\ \A d \in Clients : d # c => client'[d] = client[d]
           /\ UNCHANGED <<server, proxy, up, down, events>>
<1> DEFINE K == spent.copies
           record == [client[c] EXCEPT !.told = @ + 1]
<1>1. /\ CopyOn(c) /\ client' = [client EXCEPT ![c] = record]
      /\ UNCHANGED <<server, proxy, up, down, events>>
      BY DEF ComputerCopies
<1>2. /\ c \in Clients /\ c \in Screens /\ c \notin Phones /\ Phones \subseteq Clients
      /\ K \in Nat
      /\ client \in [Clients -> Records(K)] /\ up \in [Clients -> Ups(K)]
      /\ \A h \in Phones : client[h].told = 0 /\ client[h].outbox = <<>> /\ ~client[h].own
      /\ events \in Seq(Event)
      BY Places, TypeParts
<1> HIDE DEF K
<1>3. client \in [Clients -> Records(K + 1)] /\ up' \in [Clients -> Ups(K + 1)]
      <2>1. Records(K) \subseteq Records(K + 1) /\ Ups(K) \subseteq Ups(K + 1)
            BY <1>2, OneMore
      <2> QED BY <1>1, <1>2, <2>1
<1>4. record \in Records(K + 1) /\ record.told > 0
      <2>1. client[c] \in Records(K)
            BY <1>2
      <2>2. client[c].told \in 0 .. K
            BY <2>1 DEF Records
      <2>3. client[c].told + 1 \in 0 .. K + 1 /\ client[c].told + 1 > 0
            BY <1>2, <2>2
      <2>4. client[c] \in Records(K + 1)
            BY <1>2, <1>3
      <2> QED BY <2>3, <2>4 DEF Records
<1> HIDE DEF record
<1>5. /\ client' \in [Clients -> Records(K + 1)] /\ client'[c] = record
      /\ \A d \in Clients : d # c => client'[d] = client[d]
      BY <1>1, <1>2, <1>3, <1>4, Replaced
<1>6. \A h \in Phones : client'[h].told = 0 /\ client'[h].outbox = <<>> /\ ~client'[h].own
      BY <1>2, <1>5
<1>7. SharingTypeOK'
      BY <1>1, <1>2, <1>3, <1>5, <1>6, CopyTyped DEF K
<1> QED BY <1>1, <1>4, <1>5, <1>7

\* and a copy on a phone, which sends at once.
LEMMA PhoneCopyFacts ==
    ASSUME SharingTypeOK, NEW h \in Phones, PhoneCopies(h)
    PROVE  /\ SharingTypeOK' /\ CopyOn(h)
           /\ \A d \in Clients : /\ client'[d].own = client[d].own
                                 /\ client'[d].sent = client[d].sent
                                 /\ client'[d].data = client[d].data
                                 /\ client'[d].told = client[d].told
                                 /\ client'[d].outbox = client[d].outbox
                                 /\ d # h => up'[d] = up[d]
           /\ \E grab, data : /\ up'[h] = up[h] \o <<grab, data>>
                              /\ grab \in UpMessages(0 .. spent.copies + 1)
                              /\ grab.type = "grab"
                              /\ data \in Data(0 .. spent.copies + 1)
                              /\ data.copy = spent.copies + 1
           /\ UNCHANGED <<server, proxy, down, events>>
<1> DEFINE K == spent.copies
           seq == client[h].seq + 1
           record == [client[h] EXCEPT !.seq = seq]
           grab == [type |-> "grab", seq |-> seq]
           data == [type |-> "data", copy |-> K + 1, seq |-> seq]
<1>1. /\ CopyOn(h) /\ client' = [client EXCEPT ![h] = record]
      /\ up' = [up EXCEPT ![h] = up[h] \o <<grab, data>>]
      /\ UNCHANGED <<server, proxy, down, events>>
      BY DEF PhoneCopies
<1>2. /\ h \in Clients /\ h \in Screens /\ Phones \subseteq Clients
      /\ K \in Nat
      /\ client \in [Clients -> Records(K)] /\ up \in [Clients -> Ups(K)]
      /\ \A g \in Phones : client[g].told = 0 /\ client[g].outbox = <<>> /\ ~client[g].own
      /\ events \in Seq(Event)
      BY Places, TypeParts
<1> HIDE DEF K
<1>3. client \in [Clients -> Records(K + 1)] /\ up \in [Clients -> Ups(K + 1)]
      <2>1. Records(K) \subseteq Records(K + 1) /\ Ups(K) \subseteq Ups(K + 1)
            BY <1>2, OneMore
      <2> QED BY <1>1, <1>2, <2>1
<1>4. seq \in Nat
      <2>1. client[h] \in Records(K)
            BY <1>2
      <2>2. client[h].seq \in Nat
            BY <2>1 DEF Records
      <2> QED BY <2>2
<1> HIDE DEF seq
<1>5. /\ record \in Records(K + 1) /\ record.own = client[h].own
      /\ record.sent = client[h].sent /\ record.told = client[h].told
      /\ record.data = client[h].data
      /\ record.outbox = client[h].outbox
      <2>1. client[h] \in Records(K + 1)
            BY <1>2, <1>3
      <2> QED BY <1>4, <2>1 DEF Records
<1>6. grab \in UpMessages(0 .. K + 1) /\ grab.type = "grab"
      BY <1>4 DEF UpMessages
<1>7. data \in Data(0 .. K + 1) /\ data.copy = K + 1
      <2>1. K + 1 \in 0 .. K + 1
            BY <1>2
      <2> QED BY <1>4, <2>1 DEF Data
<1> HIDE DEF record, grab, data
<1>8. /\ client' \in [Clients -> Records(K + 1)] /\ client'[h] = record
      /\ \A d \in Clients : d # h => client'[d] = client[d]
      BY <1>1, <1>2, <1>3, <1>5, Replaced
<1>9. up[h] \o <<grab, data>> \in Ups(K + 1)
      <2> DEFINE S == UpMessages(0 .. K + 1)
      <2>1. grab \in S /\ data \in S
            BY <1>6, <1>7, DataMessages
      <2>2. up[h] \in Ups(K + 1)
            BY <1>2, <1>3
      <2> HIDE DEF S
      <2>3. <<grab, data>> \in Seq(S)
            BY <2>1
      <2> QED BY <2>2, <2>3, UpsConcat DEF S
<1>10. /\ up' \in [Clients -> Ups(K + 1)] /\ up'[h] = up[h] \o <<grab, data>>
       /\ \A d \in Clients : d # h => up'[d] = up[d]
       BY <1>1, <1>2, <1>3, <1>9, Replaced
<1>11. \A d \in Clients : /\ client'[d].own = client[d].own
                          /\ client'[d].sent = client[d].sent
                          /\ client'[d].data = client[d].data
                          /\ client'[d].told = client[d].told
                          /\ client'[d].outbox = client[d].outbox
       BY <1>5, <1>8
<1>12. \A g \in Phones : client'[g].told = 0 /\ client'[g].outbox = <<>> /\ ~client'[g].own
       BY <1>2, <1>11
<1>13. SharingTypeOK'
       BY <1>1, <1>2, <1>8, <1>10, <1>12, CopyTyped DEF K
<1> QED BY <1>1, <1>6, <1>7, <1>10, <1>11, <1>13 DEF K

-----------------------------------------------------------------------------
(***************************************************************************)
(* The type invariant.                                                     *)
(***************************************************************************)

\* Each step keeps the types: an event,
LEMMA DispatchTyped ==
    ASSUME SharingTypeOK, DispatchEvent PROVE SharingTypeOK'
<1> DEFINE e == Head(events)
<1>1. /\ events # <<>> /\ e \in Event
      /\ Now' \in States(spent.copies)
      /\ history' = [history EXCEPT !.source = Now'.source, !.refused = RefusedAfter(e)]
      /\ events' = Tail(events) /\ client' = client /\ up' = up
      /\ Dispatched(Now, Now', e)
      BY DispatchFacts
<1>2. /\ events \in Seq(Event) /\ up \in [Clients -> Ups(spent.copies)]
      /\ history \in Histories(spent.copies)
      BY TypeParts
<1>3. events' \in Seq(Event)
      BY <1>1, <1>2, HeadTailProperties
<1> HIDE DEF e
<1>4. RefusedAfter(e) \in SUBSET Clients
      <2>1. e.from \in Clients \/ ~Stale(e)
            BY <1>1, EventParts DEF Stale
      <2>2. history.refused \in SUBSET Clients
            BY <1>2 DEF Histories
      <2> QED BY <2>1, <2>2 DEF RefusedAfter
<1>5. Now'.source \in Screens
      BY <1>1 DEF States
<1>6. history' \in Histories(spent.copies)
      BY <1>1, <1>2, <1>4, <1>5 DEF Histories
<1>7. up' \in [Clients -> Ups(spent.copies)]
      BY <1>1, <1>2
<1> QED BY <1>1, <1>3, <1>6, <1>7, ServerTyped

\* a retry,
LEMMA RetryTyped ==
    ASSUME SharingTypeOK, RetryFires PROVE SharingTypeOK'
<1>1. /\ Now' \in States(spent.copies)
      /\ history' = [history EXCEPT !.source = Now'.source]
      /\ events' = events /\ client' = client /\ up' = up
      BY RetryFacts
<1>2. /\ events' \in Seq(Event) /\ up' \in [Clients -> Ups(spent.copies)]
      /\ history \in Histories(spent.copies)
      BY <1>1, TypeParts
<1>3. Now'.source \in Screens
      BY <1>1 DEF States
<1>4. history' \in Histories(spent.copies)
      BY <1>1, <1>2, <1>3 DEF Histories
<1> QED BY <1>1, <1>2, <1>4, ServerTyped

\* a switch.
LEMMA SwitchTyped ==
    ASSUME SharingTypeOK, NEW dst \in Screens, SwitchScreen(dst) PROVE SharingTypeOK'
<1>1. /\ Now' \in States(spent.copies)
      /\ history' = [history EXCEPT !.source = Now'.source,
                                    !.orderly = @ /\ ~Underway(dst)]
      /\ events' = events /\ client' = client /\ up' = up
      BY SwitchFacts
<1>2. /\ events' \in Seq(Event) /\ up' \in [Clients -> Ups(spent.copies)]
      /\ history \in Histories(spent.copies)
      BY <1>1, TypeParts
<1>3. Now'.source \in Screens
      BY <1>1 DEF States
<1>4. history' \in Histories(spent.copies)
      <2>1. (history.orderly /\ ~Underway(dst)) \in BOOLEAN
            BY <1>2 DEF Histories
      <2> QED BY <1>1, <1>2, <1>3, <2>1 DEF Histories
<1> QED BY <1>1, <1>2, <1>4, ServerTyped

\* They hold at the start,
LEMMA InitTyped ==
    ASSUME SharingInit PROVE SharingTypeOK
<1>1. spent.copies = 0 /\ 0 \in 0 .. MaxTexts /\ 0 \in 0 .. 0
      /\ spent \in [copies: 0 .. MaxTexts, fails: Nat, twists: 0 .. MaxTwists]
      <2>1. 0 \in 0 .. MaxTexts /\ 0 \in 0 .. MaxTwists
            BY Bounds
      <2> QED BY <2>1 DEF SharingInit
<1>2. <<>> \in Outboxes(0 .. 0)
      <2>1. <<>> \in Seq(Transfers(0 .. 0)) /\ Len(<<>>) = 0 /\ 0 <= 2
            OBVIOUS
      <2>2. \A i \in 2 .. Len(<<>>) : FALSE
            BY <2>1
      <2> QED BY <2>1, <2>2, OutboxMade
<1>3. server \in [owner: Screens, seq: Nat, cache: 0 .. 0, data: 0 .. 0 \cup {Cleared},
                  count: Nat, active: Screens, screenSeq: Nat,
                  retry: 0 .. Retries, retrySeq: Nat]
      <2>1. 0 \in 0 .. Retries /\ Primary \in Screens
            BY Bounds, Places
      <2> QED BY <1>1, <2>1 DEF SharingInit
<1>4. proxy \in [Clients -> [dirty: BOOLEAN, content: 0 .. 0, outbox: Outboxes(0 .. 0)]]
      <2>1. [dirty |-> TRUE, content |-> 0, outbox |-> <<>>]
              \in [dirty: BOOLEAN, content: 0 .. 0, outbox: Outboxes(0 .. 0)]
            BY <1>1, <1>2
      <2> QED BY <2>1 DEF SharingInit
<1>5. client \in [Clients -> [own: BOOLEAN, sent: BOOLEAN, seq: Nat, told: 0 .. 0,
                              data: 0 .. 0, outbox: Outboxes(0 .. 0)]]
      <2>1. [own |-> FALSE, sent |-> FALSE, seq |-> 0, told |-> 0, data |-> 0,
             outbox |-> <<>>]
              \in [own: BOOLEAN, sent: BOOLEAN, seq: Nat, told: 0 .. 0, data: 0 .. 0,
                   outbox: Outboxes(0 .. 0)]
            BY <1>1, <1>2
      <2> QED BY <2>1 DEF SharingInit
<1>6. \A h \in Phones : client[h].told = 0 /\ client[h].outbox = <<>> /\ ~client[h].own
      BY Places DEF SharingInit
<1>7. /\ up \in [Clients -> Seq(UpMessages(0 .. 0))]
      /\ down \in [Clients -> Seq(DownMessages(0 .. 0))] /\ events \in Seq(Event)
      BY DEF SharingInit
<1>8. /\ clip \in [Screens -> 0 .. 0]
      /\ history \in [from: Screens, copy: 0 .. 0, orderly: BOOLEAN, source: Screens,
                      refused: SUBSET Clients]
      BY <1>1, Places DEF SharingInit
<1> QED BY <1>1, <1>3, <1>4, <1>5, <1>6, <1>7, <1>8, Zenon DEF SharingTypeOK

\* while nothing changes,
LEMMA StutterTyped ==
    ASSUME SharingTypeOK, UNCHANGED sharingVars PROVE SharingTypeOK'
BY DEF sharingVars, SharingTypeOK

\* One step of the users or the system, as one of the actions.
LEMMA Steps ==
    ASSUME SharingNext
    PROVE  \/ PrimaryCopies \/ PrimaryEchoes \/ OtherGrabbed \/ DispatchEvent \/ RetryFires
           \/ \E c \in Computers : \/ ComputerCopies(c) \/ ComputerReceives(c)
                                   \/ ClientPumps(c) \/ HandleLocalGrab(c)
           \/ \E h \in Phones : PhoneCopies(h) \/ PhoneReceives(h)
           \/ \E s \in Screens : SwitchScreen(s)
           \/ \E c \in Clients : ServerReceives(c) \/ ServerPumps(c)
BY DEF SharingNext, Users, System

\* and through every step.
LEMMA TypeStep ==
    ASSUME SharingTypeOK, [SharingNext]_sharingVars PROVE SharingTypeOK'
<1>1. CASE UNCHANGED sharingVars
      BY <1>1, StutterTyped
<1>2. CASE PrimaryCopies \/ PrimaryEchoes \/ OtherGrabbed
      BY <1>2, PrimaryCopyFacts, EchoFacts, OtherFacts
<1>3. CASE DispatchEvent \/ RetryFires
      BY <1>3, DispatchTyped, RetryTyped
<1>4. ASSUME NEW c \in Computers, \/ ComputerCopies(c) \/ ComputerReceives(c)
                                  \/ ClientPumps(c) \/ HandleLocalGrab(c)
      PROVE  SharingTypeOK'
      BY <1>4, ComputerCopyFacts, ComputerFacts, ClientPumpFacts, LocalGrabFacts
<1>5. ASSUME NEW h \in Phones, PhoneCopies(h) \/ PhoneReceives(h) PROVE SharingTypeOK'
      BY <1>5, PhoneCopyFacts, PhoneFacts
<1>6. ASSUME NEW s \in Screens, SwitchScreen(s) PROVE SharingTypeOK'
      BY <1>6, SwitchTyped
<1>7. ASSUME NEW c \in Clients, ServerReceives(c) \/ ServerPumps(c) PROVE SharingTypeOK'
      BY <1>7, ReceiveFacts, ServerPumpFacts
<1> QED BY <1>1, <1>2, <1>3, <1>4, <1>5, <1>6, <1>7, Steps, Zenon

\* Every value of the clipboard's model keeps its type: what is under way anywhere is a
\* copy that was made, a sender holds one transfer and one snapshot at most
\* (StreamChunker::sendClipboard), and the retries of a reading stay within their table
\* (Server::schedulePrimaryClipboardRetry).
THEOREM SharingTypeCorrect == SharingSpec => []SharingTypeOK
<1>1. SharingInit => SharingTypeOK
      BY InitTyped
<1>2. SharingTypeOK /\ [SharingNext]_sharingVars => SharingTypeOK'
      BY TypeStep
<1> QED BY <1>1, <1>2, PTL DEF SharingSpec

-----------------------------------------------------------------------------
(***************************************************************************)
(* What is in a queue.                                                     *)
(***************************************************************************)

Meets(q, T) == \E i \in 1 .. Len(q) : q[i] \in T

\* What a queue meets once a member is appended,
LEMMA MeetsAppend ==
    ASSUME NEW S, NEW T, NEW q \in Seq(S), NEW m \in S
    PROVE  Meets(Append(q, m), T) <=> Meets(q, T) \/ m \in T
<1> DEFINE r == Append(q, m)
           n == Len(q)
<1>1. n \in Nat /\ Len(r) = n + 1 /\ r[n + 1] = m /\ \A i \in 1 .. n : r[i] = q[i]
      BY AppendProperties, LenProperties
<1>2. 1 .. Len(r) = 1 .. n \cup {n + 1}
      <2> HIDE DEF r, n
      <2> QED BY <1>1
<1> HIDE DEF r
<1> QED BY <1>1, <1>2 DEF Meets, r

\* once a queue is,
LEMMA MeetsConcat ==
    ASSUME NEW S, NEW T, NEW q \in Seq(S), NEW r \in Seq(S)
    PROVE  Meets(q \o r, T) <=> Meets(q, T) \/ Meets(r, T)
<1> DEFINE s == q \o r
           n == Len(q)
           l == Len(r)
<1>1. n \in Nat /\ l \in Nat /\ Len(s) = n + l
      BY ConcatProperties, LenProperties
<1>2. \A i \in 1 .. n + l : s[i] = IF i <= n THEN q[i] ELSE r[i - n]
      BY ConcatProperties
<1> HIDE DEF s, n, l
<1>3. ASSUME NEW i \in 1 .. n PROVE i \in 1 .. Len(s) /\ s[i] = q[i]
      BY <1>1, <1>2
<1>4. ASSUME NEW i \in 1 .. l PROVE i + n \in 1 .. Len(s) /\ s[i + n] = r[i]
      <2>1. i + n \in 1 .. n + l /\ ~(i + n <= n) /\ (i + n) - n = i
            BY <1>1
      <2> QED BY <1>1, <1>2, <2>1
<1>5. ASSUME NEW i \in 1 .. Len(s)
      PROVE  i \in 1 .. n \/ i - n \in 1 .. l
      BY <1>1
<1>6. ASSUME NEW i \in 1 .. Len(s), i - n \in 1 .. l PROVE s[i] = r[i - n]
      <2>1. (i - n) + n = i
            BY <1>1
      <2> QED BY <1>4, <1>6, <2>1
<1>7. Meets(s, T) => Meets(q, T) \/ Meets(r, T)
      BY <1>3, <1>5, <1>6 DEF Meets, n, l
<1>8. Meets(q, T) \/ Meets(r, T) => Meets(s, T)
      BY <1>3, <1>4 DEF Meets, n, l
<1> QED BY <1>7, <1>8 DEF s

\* and once its first is gone.
LEMMA MeetsTail ==
    ASSUME NEW S, NEW T, NEW q \in Seq(S), q # <<>>
    PROVE  Meets(q, T) <=> Head(q) \in T \/ Meets(Tail(q), T)
<1> DEFINE r == Tail(q)
           n == Len(r)
<1>1. /\ n \in Nat /\ Len(q) = n + 1
      /\ \A i \in 1 .. n : r[i] = q[i + 1]
      BY HeadTailProperties, LenProperties
<1>2. Head(q) = q[1]
      OBVIOUS
<1> HIDE DEF r, n
<1>3. 1 \in 1 .. Len(q) /\ \A i \in 1 .. n : i + 1 \in 1 .. Len(q) /\ r[i] = q[i + 1]
      BY <1>1
<1>4. ASSUME NEW i \in 1 .. Len(q), i # 1 PROVE i - 1 \in 1 .. n /\ r[i - 1] = q[i]
      <2>1. i - 1 \in 1 .. n /\ (i - 1) + 1 = i
            BY <1>1, <1>4
      <2> QED BY <1>1, <2>1
<1> QED BY <1>2, <1>3, <1>4 DEF Meets, n, r

\* The events of a screen, its grabs among them, and the grabs on their way.
EventOf(evs, s) == Meets(evs, {e \in Event : e.from = s})
GrabOf(evs, s) == Meets(evs, {e \in Event : e.from = s /\ e.type = "grabbed"})
GrabIn(q) == \E i \in 1 .. Len(q) : q[i].type = "grab"

\* The events and the grabs of a screen once an event is added,
LEMMA EventsAppend ==
    ASSUME NEW evs \in Seq(Event), NEW e \in Event, NEW s
    PROVE  /\ EventOf(Append(evs, e), s) <=> EventOf(evs, s) \/ e.from = s
           /\ GrabOf(Append(evs, e), s) <=>
                GrabOf(evs, s) \/ (e.from = s /\ e.type = "grabbed")
BY MeetsAppend DEF EventOf, GrabOf

\* once the first is dispatched,
LEMMA EventsTail ==
    ASSUME NEW evs \in Seq(Event), evs # <<>>, NEW s
    PROVE  /\ EventOf(evs, s) <=> Head(evs).from = s \/ EventOf(Tail(evs), s)
           /\ GrabOf(evs, s) <=>
                (Head(evs).from = s /\ Head(evs).type = "grabbed") \/ GrabOf(Tail(evs), s)
<1>1. Head(evs) \in Event
      BY HeadTailProperties
<1> QED BY <1>1, MeetsTail DEF EventOf, GrabOf

\* and when there are none.
LEMMA EventsEmpty ==
    ASSUME NEW s
    PROVE  ~EventOf(<<>>, s) /\ ~GrabOf(<<>>, s)
BY DEF EventOf, GrabOf, Meets

\* The grabs among messages, as the messages of a set.
LEMMA GrabsMeet ==
    ASSUME NEW K, NEW q \in Ups(K)
    PROVE  GrabIn(q) <=> Meets(q, {m \in UpMessages(0 .. K) : m.type = "grab"})
<1> DEFINE S == UpMessages(0 .. K)
<1>1. q \in Seq(S)
      BY DEF Ups
<1> HIDE DEF S
<1>2. \A i \in 1 .. Len(q) : q[i] \in S
      BY <1>1
<1>3. GrabIn(q) <=> Meets(q, {m \in S : m.type = "grab"})
      BY <1>2 DEF GrabIn, Meets
<1> QED BY <1>3 DEF S

\* Whether there are grabs once messages follow,
LEMMA GrabsConcat ==
    ASSUME NEW K, NEW q \in Ups(K), NEW r \in Ups(K)
    PROVE  GrabIn(q \o r) <=> GrabIn(q) \/ GrabIn(r)
<1> DEFINE S == UpMessages(0 .. K)
           T == {m \in S : m.type = "grab"}
<1>1. q \in Seq(S) /\ r \in Seq(S)
      BY DEF Ups
<1>2. q \o r \in Ups(K)
      BY <1>1, UpsConcat
<1>3. GrabIn(q) <=> Meets(q, T)
      BY GrabsMeet
<1>4. GrabIn(r) <=> Meets(r, T)
      BY GrabsMeet
<1>5. GrabIn(q \o r) <=> Meets(q \o r, T)
      BY <1>2, GrabsMeet
<1> HIDE DEF S, T
<1> QED BY <1>1, <1>3, <1>4, <1>5, MeetsConcat

\* and once the first is read.
LEMMA GrabsTail ==
    ASSUME NEW K, NEW q \in Ups(K), q # <<>>
    PROVE  GrabIn(q) <=> Head(q).type = "grab" \/ GrabIn(Tail(q))
<1> DEFINE S == UpMessages(0 .. K)
           T == {m \in S : m.type = "grab"}
<1>1. q \in Seq(S)
      BY DEF Ups
<1>2. GrabIn(q) <=> Meets(q, T)
      BY GrabsMeet
<1>3. Head(q) \in S /\ Tail(q) \in Ups(K)
      <2> HIDE DEF S
      <2>1. Head(q) \in S /\ Tail(q) \in Seq(S)
            BY <1>1, HeadTailProperties
      <2> QED BY <2>1 DEF S, Ups
<1>4. GrabIn(Tail(q)) <=> Meets(Tail(q), T)
      BY <1>3, GrabsMeet
<1>5. Head(q) \in T <=> Head(q).type = "grab"
      BY <1>3
<1> HIDE DEF S, T
<1> QED BY <1>1, <1>2, <1>4, <1>5, MeetsTail

-----------------------------------------------------------------------------
(***************************************************************************)
(* OthersFollowOwner.  What the server published last is what its proxies  *)
(* lead every client to, save the client it came from, those that have     *)
(* something to tell and those that were refused.                          *)
(***************************************************************************)

LeadTo(st, s, k) == Leads(st.px[s].outbox, st.dn[s], st.clip[s], k)

\* A client whose grab the server has not seen yet.
Tells(s) == client[s].told > 0 \/ GrabIn(up[s]) \/ GrabOf(events, s)

Exempt == history.refused \cup {s \in Clients : Tells(s)}

\* The readings of the primary's last copy that failed or were called off, and those
\* still to come, are all that there are: none has found it.
Unread(st) ==
    /\ st.srv.owner = Primary /\ st.srv.seq = st.srv.retrySeq
    /\ st.spent.fails + st.srv.retry > Retries

CacheFits(st) == st.srv.cache \in {0, st.srv.data}

ProxiesClean(st) == st.srv.data > 0 => \A s \in Clients : ~st.px[s].dirty

ClientsFollow(st, exempt) ==
    st.srv.data > 0 =>
      \A s \in Clients : s \in exempt \/ s = st.source \/ LeadTo(st, s, st.srv.data)

PrimaryFollows(st, evs) ==
    st.srv.data > 0 /\ st.srv.cache = st.srv.data /\ st.source # Primary =>
      st.clip[Primary] = st.srv.data \/ EventOf(evs, Primary) \/ Unread(st)

Follows(st, exempt, evs) ==
    /\ CacheFits(st) /\ ProxiesClean(st)
    /\ ClientsFollow(st, exempt) /\ PrimaryFollows(st, evs)

FollowInv == Follows(Now, Exempt, events)

\* The numbers in a state of the server's handlers.
LEMMA DataParts ==
    ASSUME NEW K \in Nat, NEW st \in States(K)
    PROVE  /\ st.srv.data \in Int /\ st.srv.cache \in Nat
           /\ st.spent.fails \in Nat
           /\ st.srv.retry \in Nat /\ st.srv.retry <= Retries
           /\ \A s \in Screens : st.clip[s] \in Nat
<1>1. /\ st.srv \in Servers(K) /\ st.spent \in Expenses(K) /\ st.clip \in [Screens -> 0 .. K]
      BY StateParts
<1>2. /\ st.srv.data \in 0 .. K \cup {Cleared} /\ st.srv.cache \in 0 .. K
      /\ st.srv.retry \in 0 .. Retries /\ st.spent.fails \in Nat
      BY <1>1, ServerParts DEF Expenses
<1> QED BY <1>1, <1>2, Bounds DEF Cleared

\* Two proxies that are alike lead to the same.
LEMMA LeadsAlike ==
    ASSUME NEW old, NEW new, NEW s, NEW k, new.px[s].outbox = old.px[s].outbox,
           new.dn[s] = old.dn[s], new.clip[s] = old.clip[s], LeadTo(old, s, k)
    PROVE  LeadTo(new, s, k)
BY DEF LeadTo

\* A reading of the primary.
LEMMA ReadFollows ==
    ASSUME NEW K \in Nat, NEW old \in States(K), NEW new \in States(K),
           ReadOutcome(old, new), NEW X,
           CacheFits(old), ProxiesClean(old), ClientsFollow(old, X)
    PROVE  /\ CacheFits(new) /\ ProxiesClean(new) /\ ClientsFollow(new, X)
           /\ new.srv.data > 0 /\ new.srv.cache = new.srv.data /\ new.source # Primary =>
                \/ new.clip[Primary] = new.srv.data
                \/ /\ new.spent.fails = old.spent.fails + 1
                   /\ new.srv.cache = old.srv.cache /\ SameRecords(old, new)
           /\ new.spent.fails = old.spent.fails \/ new.spent.fails = old.spent.fails + 1
<1>1. CASE /\ SameRecords(old, new)
           /\ new.spent.fails = old.spent.fails \/ new.spent.fails = old.spent.fails + 1
           /\ \/ new.srv.cache = old.srv.cache /\ new.spent.fails = old.spent.fails + 1
              \/ new.srv.cache = 0 /\ (old.clip[Primary] = 0 \/
                                         new.spent.fails = old.spent.fails + 1)
              \/ new.srv.cache = old.srv.data /\ old.srv.data = old.clip[Primary]
      <2>1. /\ new.px = old.px /\ new.dn = old.dn /\ new.source = old.source
            /\ new.srv.data = old.srv.data /\ new.clip = old.clip
            BY <1>1 DEF SameRecords
      <2>2. CacheFits(new)
            BY <1>1, <2>1 DEF CacheFits
      <2>3. ProxiesClean(new) /\ ClientsFollow(new, X)
            BY <2>1 DEF ProxiesClean, ClientsFollow, LeadTo
      <2>4. new.srv.cache = 0 /\ new.srv.cache = new.srv.data => ~(new.srv.data > 0)
            OBVIOUS
      <2> QED BY <1>1, <2>1, <2>2, <2>3, <2>4
<1>2. CASE PushedToAll(old, new, Primary, old.clip[Primary])
      <2>1. \A c \in Clients : c # Primary
            BY Places
      <2> QED BY <1>2, <2>1 DEF PushedToAll, CacheFits, ProxiesClean, ClientsFollow, LeadTo
<1> QED BY <1>1, <1>2 DEF ReadOutcome

\* The more clients are exempt, the less is asked.
LEMMA ExemptMore ==
    ASSUME NEW st, NEW X, NEW Y, X \subseteq Y, ClientsFollow(st, X)
    PROVE  ClientsFollow(st, Y)
BY DEF ClientsFollow

\* A grab that was dispatched is the only thing that is no longer to be told.
LEMMA DispatchTells ==
    ASSUME SharingTypeOK, DispatchEvent, NEW s \in Clients, Tells(s)
    PROVE  Tells(s)' \/ (Head(events).from = s /\ Head(events).type = "grabbed")
<1>1. /\ events # <<>> /\ events' = Tail(events) /\ client' = client /\ up' = up
      BY DispatchFacts
<1>2. events \in Seq(Event)
      BY TypeParts
<1>3. GrabOf(events, s) <=>
        (Head(events).from = s /\ Head(events).type = "grabbed") \/ GrabOf(Tail(events), s)
      BY <1>1, <1>2, EventsTail
<1> QED BY <1>1, <1>3 DEF Tells

\* Each step keeps FollowInv: an event,
LEMMA DispatchFollows ==
    ASSUME SharingTypeOK, DispatchEvent, FollowInv
    PROVE  FollowInv'
<1> DEFINE e == Head(events)
<1>1. /\ events # <<>> /\ e \in Event /\ Now' \in States(spent.copies)
      /\ Dispatched(Now, Now', e)
      /\ history' = [history EXCEPT !.source = Now'.source, !.refused = RefusedAfter(e)]
      /\ events' = Tail(events)
      BY DispatchFacts
<1>2. /\ events \in Seq(Event) /\ Now \in States(spent.copies) /\ spent.copies \in Nat
      /\ history \in Histories(spent.copies)
      BY TypeParts
<1>3. history'.refused = RefusedAfter(e)
      BY <1>1, <1>2 DEF Histories
<1>4. EventOf(events, Primary) => e.from = Primary \/ EventOf(events', Primary)
      BY <1>1, <1>2, EventsTail
<1>5. \A s \in Clients : Tells(s) => Tells(s)' \/ (e.from = s /\ e.type = "grabbed")
      BY DispatchTells
<1>6. e.from \in Clients => e.from # Primary
      BY Places
<1>7. /\ CacheFits(Now) /\ ProxiesClean(Now) /\ ClientsFollow(Now, Exempt)
      /\ PrimaryFollows(Now, events)
      BY DEF FollowInv, Follows
<1>8. Now'.srv.data \in Int /\ Now'.spent.fails \in Nat /\ Now.spent.fails \in Nat
      BY <1>1, <1>2, DataParts
<1> HIDE DEF e
<1> SUFFICES Follows(Now', Exempt', events')
    BY DEF FollowInv
<1>9. CASE Stale(e) /\ e.from \in Clients /\ Now' = Now
      <2>1. Exempt \subseteq Exempt'
            BY <1>3, <1>5, <1>9 DEF Exempt, RefusedAfter
      <2>2. ClientsFollow(Now, Exempt')
            BY <1>7, <2>1, ExemptMore
      <2>3. PrimaryFollows(Now, events')
            BY <1>4, <1>6, <1>7, <1>9 DEF PrimaryFollows
      <2> QED BY <1>7, <1>9, <2>2, <2>3 DEF Follows
<1>10. CASE /\ ~Stale(e) /\ e.type = "grabbed" /\ e.from = Primary
            /\ GrabbedByPrimary(Now, Now')
      <2>1. Exempt \subseteq Exempt'
            <3>1. history'.refused = history.refused
                  BY <1>3, <1>10 DEF RefusedAfter
            <3>2. \A s \in Clients : Tells(s) => Tells(s)'
                  BY <1>5, <1>10, Places
            <3> QED BY <3>1, <3>2 DEF Exempt
      <2> DEFINE fresh == Afresh(Now)
      <2>2. /\ ReadOutcome(fresh, Now') /\ Now'.srv.owner = Primary
            /\ Now'.srv.seq = Now'.srv.retrySeq /\ Now'.srv.retry = Retries
            BY <1>10 DEF GrabbedByPrimary
      <2>7. /\ fresh \in States(spent.copies) /\ fresh.spent.fails = 0
            /\ fresh.srv = Now.srv /\ fresh.px = Now.px /\ fresh.dn = Now.dn
            /\ fresh.clip = Now.clip /\ fresh.source = Now.source
            BY <1>2, AfreshFacts
      <2> HIDE DEF fresh
      <2>8. CacheFits(fresh) /\ ProxiesClean(fresh) /\ ClientsFollow(fresh, Exempt)
            BY <1>7, <2>7 DEF CacheFits, ProxiesClean, ClientsFollow, LeadTo
      <2>3. /\ CacheFits(Now') /\ ProxiesClean(Now') /\ ClientsFollow(Now', Exempt)
            /\ Now'.srv.data > 0 /\ Now'.srv.cache = Now'.srv.data /\ Now'.source # Primary =>
                \/ Now'.clip[Primary] = Now'.srv.data
                \/ Now'.spent.fails = 1
            <3>1. fresh.spent.fails + 1 = 1
                  BY <2>7
            <3> QED BY <1>1, <1>2, <2>2, <2>7, <2>8, <3>1, ReadFollows
      <2>4. Now'.spent.fails = 1 => Unread(Now')
            <3>1. Now'.spent.fails = 1 => Now'.spent.fails + Now'.srv.retry > Retries
                  BY <2>2, Bounds
            <3> QED BY <2>2, <3>1 DEF Unread
      <2>5. PrimaryFollows(Now', events')
            BY <2>3, <2>4 DEF PrimaryFollows
      <2>6. ClientsFollow(Now', Exempt')
            BY <2>1, <2>3, ExemptMore
      <2> QED BY <2>3, <2>5, <2>6 DEF Follows
<1>11. CASE GrabbedByClient(Now, Now', e.from)
      <2>1. Now'.srv.cache = 0 /\ ~(Now'.srv.data > 0)
            BY <1>11 DEF GrabbedByClient, Cleared
      <2> QED BY <2>1 DEF Follows, CacheFits, ProxiesClean, ClientsFollow, PrimaryFollows
<1>12. CASE /\ ~Stale(e) /\ e.type = "changed" /\ e.from \in Clients
            /\ ReadClient(Now, Now', e.from)
      <2>1. \A s \in Clients : Tells(s) => Tells(s)'
            BY <1>5, <1>12
      <2>2. CASE /\ Now.px[e.from].content = 0
                 /\ SameRecords(Now, Now') /\ Now'.srv.cache = 0
            <3>1. history'.refused = history.refused
                  BY <1>3, <1>12, <2>2 DEF RefusedAfter, Now
            <3>2. Exempt \subseteq Exempt'
                  BY <2>1, <3>1 DEF Exempt
            <3>3. /\ Now'.px = Now.px /\ Now'.dn = Now.dn /\ Now'.source = Now.source
                  /\ Now'.srv.data = Now.srv.data /\ Now'.clip = Now.clip
                  BY <2>2 DEF SameRecords
            <3>4. CacheFits(Now') /\ ProxiesClean(Now') /\ ClientsFollow(Now', Exempt)
                  BY <1>7, <2>2, <3>3 DEF CacheFits, ProxiesClean, ClientsFollow, LeadTo
            <3>5. ClientsFollow(Now', Exempt')
                  BY <3>2, <3>4, ExemptMore
            <3>6. PrimaryFollows(Now', events')
                  <4>1. Now'.srv.cache = 0 /\ Now'.srv.cache = Now'.srv.data
                          => ~(Now'.srv.data > 0)
                        OBVIOUS
                  <4> QED BY <2>2, <4>1 DEF PrimaryFollows
            <3> QED BY <3>4, <3>5, <3>6 DEF Follows
      <2>3. CASE /\ PushedToAll(Now, Now', e.from, Now.px[e.from].content)
                 /\ Now'.clip[Primary] = Now.px[e.from].content
            BY <2>3 DEF PushedToAll, Follows, CacheFits, ProxiesClean, ClientsFollow,
                        PrimaryFollows, LeadTo
      <2> QED BY <1>12, <2>2, <2>3 DEF ReadClient
<1> QED BY <1>1, <1>9, <1>10, <1>11, <1>12 DEF Dispatched

\* a retry,
LEMMA RetryFollows ==
    ASSUME SharingTypeOK, RetryFires, FollowInv
    PROVE  FollowInv'
<1>1. /\ Now' \in States(spent.copies) /\ Retried(Now, Now')
      /\ history' = [history EXCEPT !.source = Now'.source]
      /\ events' = events /\ client' = client /\ up' = up
      BY RetryFacts
<1>2. /\ Now \in States(spent.copies) /\ spent.copies \in Nat
      /\ history \in Histories(spent.copies)
      BY TypeParts
<1>3. Exempt' = Exempt
      BY <1>1, <1>2 DEF Exempt, Tells, Histories
<1>4. /\ CacheFits(Now) /\ ProxiesClean(Now) /\ ClientsFollow(Now, Exempt)
      /\ PrimaryFollows(Now, events)
      BY DEF FollowInv, Follows
<1> SUFFICES Follows(Now', Exempt, events)
    BY <1>1, <1>3 DEF FollowInv
<1>5. /\ Now'.srv.owner = Now.srv.owner /\ Now'.srv.seq = Now.srv.seq
      /\ Now'.srv.retrySeq = Now.srv.retrySeq
      BY <1>1 DEF Retried
<1>6. CASE /\ Now.srv.owner = Primary /\ Now.srv.seq = Now.srv.retrySeq
           /\ ReadOutcome(Now, Now') /\ Now'.srv.retry = Now.srv.retry - 1
      <2>1. /\ CacheFits(Now') /\ ProxiesClean(Now') /\ ClientsFollow(Now', Exempt)
            /\ Now'.srv.data > 0 /\ Now'.srv.cache = Now'.srv.data /\ Now'.source # Primary =>
                 \/ Now'.clip[Primary] = Now'.srv.data
                 \/ /\ Now'.spent.fails = Now.spent.fails + 1
                    /\ Now'.srv.cache = Now.srv.cache /\ SameRecords(Now, Now')
            BY <1>1, <1>2, <1>4, <1>6, ReadFollows
      <2>2. Now'.spent.fails = Now.spent.fails + 1 /\ Unread(Now) => Unread(Now')
            <3>1. /\ Now.spent.fails \in Nat /\ Now.srv.retry \in Nat
                  BY <1>2, DataParts
            <3>2. Now'.spent.fails = Now.spent.fails + 1 =>
                    Now'.spent.fails + Now'.srv.retry = Now.spent.fails + Now.srv.retry
                  BY <1>6, <3>1
            <3> QED BY <1>5, <3>2 DEF Unread
      <2>3. PrimaryFollows(Now', events)
            BY <1>4, <2>1, <2>2 DEF PrimaryFollows, SameRecords
      <2> QED BY <2>1, <2>3 DEF Follows
<1>7. CASE /\ ~(Now.srv.owner = Primary /\ Now.srv.seq = Now.srv.retrySeq)
           /\ Still(Now, Now')
      <2>1. ~Unread(Now)
            BY <1>7 DEF Unread
      <2>2. /\ Now'.px = Now.px /\ Now'.dn = Now.dn /\ Now'.source = Now.source
            /\ Now'.srv.data = Now.srv.data /\ Now'.clip = Now.clip
            /\ Now'.srv.cache = Now.srv.cache
            BY <1>7 DEF Still, SameRecords
      <2>3. CacheFits(Now') /\ ProxiesClean(Now') /\ ClientsFollow(Now', Exempt)
            BY <1>4, <2>2 DEF CacheFits, ProxiesClean, ClientsFollow, LeadTo
      <2>4. PrimaryFollows(Now', events)
            BY <1>4, <2>1, <2>2 DEF PrimaryFollows
      <2> QED BY <2>3, <2>4 DEF Follows
<1> QED BY <1>1, <1>6, <1>7 DEF Retried

\* The primary is read before it is left.
LEMMA RefreshFollows ==
    ASSUME NEW K \in Nat, NEW old \in States(K), NEW new \in States(K),
           Refreshes(old, new), NEW X, NEW evs, Follows(old, X, evs)
    PROVE  Follows(new, X, evs)
<1>1. /\ new.srv.retry = old.srv.retry /\ new.srv.retrySeq = old.srv.retrySeq
      /\ new.srv.owner = old.srv.owner /\ new.srv.seq = old.srv.seq
      BY DEF Refreshes, SameFocus
<1>2. /\ CacheFits(old) /\ ProxiesClean(old) /\ ClientsFollow(old, X)
      /\ PrimaryFollows(old, evs)
      BY DEF Follows
<1>3. /\ old.spent.fails \in Nat /\ old.srv.retry \in Nat
      BY DataParts
<1>4. CASE ReadOutcome(old, new)
      <2>1. /\ CacheFits(new) /\ ProxiesClean(new) /\ ClientsFollow(new, X)
            /\ new.srv.data > 0 /\ new.srv.cache = new.srv.data /\ new.source # Primary =>
                 \/ new.clip[Primary] = new.srv.data
                 \/ /\ new.spent.fails = old.spent.fails + 1
                    /\ new.srv.cache = old.srv.cache /\ SameRecords(old, new)
            BY <1>2, <1>4, ReadFollows
      <2>2. new.spent.fails = old.spent.fails + 1 /\ Unread(old) => Unread(new)
            <3>1. new.spent.fails = old.spent.fails + 1
                    /\ old.spent.fails + old.srv.retry > Retries
                    => new.spent.fails + new.srv.retry > Retries
                  BY <1>1, <1>3, Bounds
            <3> QED BY <1>1, <3>1 DEF Unread
      <2>3. PrimaryFollows(new, evs)
            BY <1>2, <2>1, <2>2 DEF PrimaryFollows, SameRecords
      <2> QED BY <2>1, <2>3 DEF Follows
<1>5. CASE Still(old, new)
      <2>1. /\ new.px = old.px /\ new.dn = old.dn /\ new.source = old.source
            /\ new.srv.data = old.srv.data /\ new.clip = old.clip
            /\ new.srv.cache = old.srv.cache /\ new.spent.fails = old.spent.fails
            BY <1>5 DEF Still, SameRecords
      <2>2. CacheFits(new) /\ ProxiesClean(new) /\ ClientsFollow(new, X)
            BY <1>2, <2>1 DEF CacheFits, ProxiesClean, ClientsFollow, LeadTo
      <2>3. PrimaryFollows(new, evs)
            BY <1>1, <1>2, <2>1 DEF PrimaryFollows, Unread
      <2> QED BY <2>2, <2>3 DEF Follows
<1> QED BY <1>4, <1>5 DEF Refreshes

\* the leaving and entering of a switch,
LEMMA EnterFollows ==
    ASSUME NEW K \in Nat, NEW old \in States(K), NEW new \in States(K),
           NEW dst \in Screens, EntersFrom(old, new, dst), NEW X, NEW evs, Follows(old, X, evs)
    PROVE  Follows(new, X, evs)
<1>1. /\ new.srv.owner = old.srv.owner /\ new.srv.seq = old.srv.seq
      /\ new.srv.cache = old.srv.cache /\ new.srv.data = old.srv.data
      /\ new.srv.retry = old.srv.retry /\ new.srv.retrySeq = old.srv.retrySeq
      /\ new.spent = old.spent /\ new.source = old.source
      /\ \A c \in Clients : new.clip[c] = old.clip[c]
      /\ new.clip[Primary] = IF dst = Primary THEN old.srv.cache ELSE old.clip[Primary]
      /\ \A c \in Clients : new.px[c].dirty => old.px[c].dirty
      BY DEF EntersFrom, SameServer
<1>2. /\ CacheFits(old) /\ ProxiesClean(old) /\ ClientsFollow(old, X)
      /\ PrimaryFollows(old, evs)
      BY DEF Follows
<1>3. CacheFits(new) /\ ProxiesClean(new)
      BY <1>1, <1>2 DEF CacheFits, ProxiesClean
<1>4. ClientsFollow(new, X)
      <2> SUFFICES ASSUME new.srv.data > 0, NEW c \in Clients, c \notin X, c # new.source
                   PROVE  LeadTo(new, c, new.srv.data)
          BY DEF ClientsFollow
      <2>1. ~old.px[c].dirty /\ LeadTo(old, c, new.srv.data)
            BY <1>1, <1>2 DEF ProxiesClean, ClientsFollow
      <2>2. Undisturbed(old, new, c)
            BY <2>1 DEF EntersFrom
      <2> QED BY <1>1, <2>1, <2>2 DEF Undisturbed, LeadTo
<1>5. PrimaryFollows(new, evs)
      BY <1>1, <1>2 DEF PrimaryFollows, Unread
<1> QED BY <1>3, <1>4, <1>5 DEF Follows

\* and the whole of a switch.
LEMMA SwitchFollows ==
    ASSUME SharingTypeOK, NEW dst \in Screens, SwitchScreen(dst), FollowInv
    PROVE  FollowInv'
<1>1. PICK st \in States(spent.copies) :
        /\ Refreshes(Now, st) /\ Now' \in States(spent.copies)
        /\ EntersFrom(st, Now', dst) \/ Now' = st
        /\ history' = [history EXCEPT !.source = Now'.source,
                                      !.orderly = @ /\ ~Underway(dst)]
        /\ events' = events /\ client' = client /\ up' = up
      BY SwitchFacts
<1>2. /\ Now \in States(spent.copies) /\ spent.copies \in Nat
      /\ history \in Histories(spent.copies)
      BY TypeParts
<1>3. Exempt' = Exempt
      BY <1>1, <1>2 DEF Exempt, Tells, Histories
<1>4. Follows(st, Exempt, events)
      BY <1>1, <1>2, RefreshFollows DEF FollowInv
<1>5. Follows(Now', Exempt, events)
      BY <1>1, <1>2, <1>4, EnterFollows
<1> QED BY <1>1, <1>3, <1>5 DEF FollowInv

\* A step of which the server's record knows nothing.
LEMMA AsideFollows ==
    ASSUME SharingTypeOK, FollowInv,
           server' = server, history'.source = history.source,
           spent'.fails = spent.fails,
           \A d \in Clients : proxy'[d].dirty = proxy[d].dirty,
           Exempt \subseteq Exempt',
           server.data > 0 =>
             \A d \in Clients : d \notin Exempt' /\ LeadTo(Now, d, server.data)
                                  => LeadTo(Now', d, server.data),
           clip'[Primary] = clip[Primary] \/ EventOf(events', Primary),
           EventOf(events, Primary) => EventOf(events', Primary)
    PROVE  FollowInv'
<1>1. Now \in States(spent.copies) /\ spent.copies \in Nat
      BY TypeParts
<1>2. /\ Now.srv = server /\ Now'.srv = server /\ Now.source = history.source
      /\ Now'.source = history.source /\ Now.px = proxy /\ Now'.px = proxy'
      /\ Now.clip = clip /\ Now'.clip = clip' /\ Now.spent = spent /\ Now'.spent = spent'
      BY DEF Now
<1>3. /\ CacheFits(Now) /\ ProxiesClean(Now) /\ ClientsFollow(Now, Exempt)
      /\ PrimaryFollows(Now, events)
      BY DEF FollowInv, Follows
<1>4. CacheFits(Now')
      BY <1>2, <1>3 DEF CacheFits
<1>5. ProxiesClean(Now')
      BY <1>2, <1>3 DEF ProxiesClean
<1>6. ClientsFollow(Now', Exempt')
      BY <1>2, <1>3 DEF ClientsFollow
<1>7. Unread(Now) => Unread(Now')
      <2>1. spent.fails \in Nat /\ server.retry \in Nat /\ Retries \in Nat
            BY <1>1, <1>2, DataParts, Bounds
      <2>2. spent.fails + server.retry > Retries => spent'.fails + server.retry > Retries
            BY <2>1
      <2> QED BY <1>2, <2>2 DEF Unread
<1>8. PrimaryFollows(Now', events')
      BY <1>2, <1>3, <1>7 DEF PrimaryFollows
<1> QED BY <1>4, <1>5, <1>6, <1>8 DEF FollowInv, Follows

\* What c sends leaves its grabs on their way.
LEMMA SentTells ==
    ASSUME SharingTypeOK, NEW c \in Clients, NEW record, NEW messages, NEW k,
           messages \in Seq(UpMessages(0 .. spent.copies)),
           SentBy(c, record, messages, k)
    PROVE  /\ GrabIn(up[c]) \/ GrabIn(messages) => GrabIn(up'[c])
           /\ client'[c].told = record.told
<1> DEFINE K == spent.copies
<1>1. up[c] \in Ups(K) /\ messages \in Ups(K)
      BY TypeParts DEF Ups
<1>2. up[c] \o messages \in Ups(K)
      BY <1>1, UpsConcat DEF Ups
<1>3. GrabIn(up[c]) \/ GrabIn(messages) => GrabIn(up[c] \o messages)
      BY <1>1, GrabsConcat
<1>4. CASE up'[c] = up[c] \o messages
      BY <1>3, <1>4 DEF SentBy
<1>5. ASSUME NEW q, q.out \in Seq(Data(0 .. K)), up'[c] = up[c] \o messages \o q.out
      PROVE  GrabIn(up[c]) \/ GrabIn(messages) => GrabIn(up'[c])
      <2>1. q.out \in Ups(K)
            BY <1>5, DataMessages, SeqMore DEF Ups
      <2> HIDE DEF K
      <2>2. GrabIn(up[c] \o messages) => GrabIn(up[c] \o messages \o q.out)
            BY <1>2, <2>1, GrabsConcat
      <2> QED BY <1>3, <1>5, <2>2
<1> QED BY <1>4, <1>5 DEF SentBy

\* The exempt stay exempt when what each has to tell stays to be told.
LEMMA ExemptKept ==
    ASSUME history'.refused = history.refused,
           \A s \in Clients : Tells(s) => Tells(s)'
    PROVE  Exempt \subseteq Exempt'
BY DEF Exempt

\* Reading a message, a client goes on to where it was led.
LEMMA ReadingLeads ==
    ASSUME SharingTypeOK, NEW c \in Clients, Reading(c), proxy' = proxy,
           NEW k, Head(down[c]).type = "data" /\ Head(down[c]).copy = k => clip'[c] = k
    PROVE  \A d \in Clients : LeadTo(Now, d, k) => LeadTo(Now', d, k)
<1> SUFFICES ASSUME NEW d \in Clients, LeadTo(Now, d, k) PROVE LeadTo(Now', d, k)
    OBVIOUS
<1>1. /\ Now.px = proxy /\ Now'.px = proxy /\ Now.dn = down /\ Now'.dn = down'
      /\ Now.clip = clip /\ Now'.clip = clip'
      BY DEF Now
<1>2. CASE d = c
      <2> DEFINE S == DownMessages(0 .. spent.copies)
      <2>1. down[c] \in Seq(S)
            BY NowParts DEF Downs
      <2>2. down[c] # <<>> /\ (~Settles(Head(down[c])) => clip'[c] = clip[c])
            BY DEF Reading
      <2> HIDE DEF S
      <2>3. Leads(proxy[c].outbox, Tail(down[c]), clip'[c], k)
            <3>1. Leads(proxy[c].outbox, down[c], clip[c], k)
                  BY <1>1, <1>2 DEF LeadTo
            <3> QED BY <2>1, <2>2, <3>1, LeadsTail
      <2> QED BY <1>1, <1>2, <2>3 DEF LeadTo, Reading
<1>3. CASE d # c
      <2>1. down'[d] = down[d] /\ clip'[d] = clip[d]
            BY <1>3, Places DEF Reading
      <2> QED BY <1>1, <2>1 DEF LeadTo
<1> QED BY <1>2, <1>3

\* The server reads a message;
LEMMA ReceiveFollows ==
    ASSUME SharingTypeOK, NEW c \in Clients, ServerReceives(c), FollowInv
    PROVE  FollowInv'
<1>1. /\ up[c] # <<>> /\ up' = [up EXCEPT ![c] = Tail(@)]
      /\ \A d \in Clients : proxy'[d].outbox = proxy[d].outbox
                            /\ proxy'[d].dirty = proxy[d].dirty
      /\ UNCHANGED <<clip, server, client, down, history, spent>>
      BY ReceiveFacts
<1>2. PICK e \in Event : /\ events' = Append(events, e) /\ e.from = c
                         /\ Head(up[c]).type = "grab" => e.type = "grabbed"
      BY ReceiveFacts
<1>3. /\ events \in Seq(Event) /\ up \in [Clients -> Ups(spent.copies)]
      BY TypeParts
<1>4. \A s \in Clients : Tells(s) => Tells(s)'
      <2> SUFFICES ASSUME NEW s \in Clients, Tells(s) PROVE Tells(s)'
          OBVIOUS
      <2>1. GrabOf(events', s) <=> GrabOf(events, s) \/ (e.from = s /\ e.type = "grabbed")
            BY <1>2, <1>3, EventsAppend
      <2>2. CASE s # c
            <3>1. up'[s] = up[s]
                  BY <1>1, <1>3, <2>2
            <3> QED BY <1>1, <2>1, <3>1 DEF Tells
      <2>3. CASE s = c
            <3>1. up'[s] = Tail(up[c]) /\ up[c] \in Ups(spent.copies)
                  BY <1>1, <1>3, <2>3
            <3>2. GrabIn(up[c]) <=> Head(up[c]).type = "grab" \/ GrabIn(Tail(up[c]))
                  BY <1>1, <3>1, GrabsTail
            <3> QED BY <1>1, <1>2, <2>1, <2>3, <3>1, <3>2 DEF Tells
      <2> QED BY <2>2, <2>3
<1>5. Exempt \subseteq Exempt'
      BY <1>1, <1>4, ExemptKept
<1>6. EventOf(events, Primary) => EventOf(events', Primary)
      BY <1>2, <1>3, EventsAppend
<1>7. \A d \in Clients : LeadTo(Now, d, server.data) => LeadTo(Now', d, server.data)
      BY <1>1 DEF LeadTo, Now
<1> QED BY <1>1, <1>5, <1>6, <1>7, AsideFollows

\* a proxy pumps;
LEMMA ServerPumpFollows ==
    ASSUME SharingTypeOK, NEW c \in Clients, ServerPumps(c), FollowInv
    PROVE  FollowInv'
<1>1. /\ \A d \in Clients :
           /\ proxy'[d].dirty = proxy[d].dirty
           /\ \A shown, k : Leads(proxy[d].outbox, down[d], shown, k)
                              => Leads(proxy'[d].outbox, down'[d], shown, k)
      /\ UNCHANGED <<clip, server, client, up, events, history, spent>>
      BY ServerPumpFacts
<1>2. Exempt \subseteq Exempt'
      BY <1>1, ExemptKept DEF Tells
<1>3. \A d \in Clients : LeadTo(Now, d, server.data) => LeadTo(Now', d, server.data)
      BY <1>1 DEF LeadTo, Now
<1> QED BY <1>1, <1>2, <1>3, AsideFollows

\* a client tells of a copy;
LEMMA LocalGrabFollows ==
    ASSUME SharingTypeOK, NEW c \in Computers, HandleLocalGrab(c), FollowInv
    PROVE  FollowInv'
<1>1. /\ OnlyClient(c) /\ LessOrderly
      /\ spent'.fails = spent.fails
      /\ UNCHANGED <<clip, proxy, server, down, events>>
      BY LocalGrabFacts
<1>2. PICK record, m, k : /\ SentBy(c, record, <<m>>, k)
                          /\ m \in UpMessages(0 .. spent.copies) /\ m.type = "grab"
      BY LocalGrabFacts
<1>3. c \in Clients
      BY Places
<1>4. Tells(c)'
      <2>1. <<m>> \in Seq(UpMessages(0 .. spent.copies))
            <3> DEFINE S == UpMessages(0 .. spent.copies)
            <3>1. m \in S
                  BY <1>2
            <3> HIDE DEF S
            <3>2. <<m>> \in Seq(S)
                  BY <3>1
            <3> QED BY <3>2 DEF S
      <2>2. GrabIn(<<m>>)
            BY <1>2 DEF GrabIn
      <2>3. GrabIn(up'[c])
            BY <1>2, <1>3, <2>1, <2>2, SentTells
      <2> QED BY <2>3 DEF Tells
<1>5. \A s \in Clients : Tells(s) => Tells(s)'
      BY <1>1, <1>4 DEF Tells, OnlyClient
<1>6. Exempt \subseteq Exempt'
      BY <1>1, <1>5, ExemptKept DEF LessOrderly
<1>7. \A d \in Clients : LeadTo(Now, d, server.data) => LeadTo(Now', d, server.data)
      BY <1>1 DEF LeadTo, Now
<1> QED BY <1>1, <1>6, <1>7, AsideFollows DEF LessOrderly

\* it pumps;
LEMMA ClientPumpFollows ==
    ASSUME SharingTypeOK, NEW c \in Computers, ClientPumps(c), FollowInv
    PROVE  FollowInv'
<1>1. /\ OnlyClient(c) /\ client'[c].told = client[c].told
      /\ UNCHANGED <<clip, server, proxy, down, events, history, spent>>
      BY ClientPumpFacts
<1>2. PICK q : q.out \in Seq(Data(0 .. spent.copies)) /\ up'[c] = up[c] \o q.out
      BY ClientPumpFacts
<1>3. up[c] \in Ups(spent.copies) /\ q.out \in Ups(spent.copies)
      BY <1>2, Places, TypeParts, DataMessages, SeqMore DEF Ups
<1>4. GrabIn(up[c]) => GrabIn(up'[c])
      BY <1>2, <1>3, GrabsConcat
<1>5. \A s \in Clients : Tells(s) => Tells(s)'
      BY <1>1, <1>4 DEF Tells, OnlyClient
<1>6. Exempt \subseteq Exempt'
      BY <1>1, <1>5, ExemptKept
<1>7. \A d \in Clients : LeadTo(Now, d, server.data) => LeadTo(Now', d, server.data)
      BY <1>1 DEF LeadTo, Now
<1> QED BY <1>1, <1>6, <1>7, AsideFollows

\* a computer reads a message;
LEMMA ComputerFollows ==
    ASSUME SharingTypeOK, NEW c \in Computers, ComputerReceives(c), FollowInv
    PROVE  FollowInv'
<1>1. /\ OnlyClient(c) /\ LessOrderly /\ Reading(c)
      /\ Head(down[c]).type = "data" => clip'[c] = Head(down[c]).copy
      /\ client'[c].told = client[c].told
      /\ spent'.fails = spent.fails
      /\ UNCHANGED <<server, proxy, events>>
      /\ up' = up \/ \E k : SentBy(c, client[c], <<>>, k)
      BY ComputerFacts
<1>2. c \in Clients /\ Primary \in Screens /\ Primary # c
      BY Places
<1>3. GrabIn(up[c]) => GrabIn(up'[c])
      <2>1. <<>> \in Seq(UpMessages(0 .. spent.copies))
            OBVIOUS
      <2> QED BY <1>1, <1>2, <2>1, SentTells
<1>4. \A s \in Clients : Tells(s) => Tells(s)'
      BY <1>1, <1>3 DEF Tells, OnlyClient
<1>5. Exempt \subseteq Exempt'
      BY <1>1, <1>4, ExemptKept DEF LessOrderly
<1>6. \A d \in Clients : LeadTo(Now, d, server.data) => LeadTo(Now', d, server.data)
      BY <1>1, <1>2, ReadingLeads
<1>7. clip'[Primary] = clip[Primary]
      BY <1>1, <1>2 DEF Reading
<1> QED BY <1>1, <1>5, <1>6, <1>7, AsideFollows DEF LessOrderly

\* a phone does;
LEMMA PhoneFollows ==
    ASSUME SharingTypeOK, NEW h \in Phones, PhoneReceives(h), FollowInv
    PROVE  FollowInv'
<1>1. /\ Reading(h)
      /\ Head(down[h]).type = "data" /\ Head(down[h]).copy # 0
           => clip'[h] = Head(down[h]).copy
      /\ \A d \in Clients : client'[d].told = client[d].told
      /\ UNCHANGED <<server, proxy, up, events, history, spent>>
      BY PhoneFacts
<1>2. h \in Clients /\ Primary \in Screens /\ Primary # h
      BY Places
<1>3. Exempt \subseteq Exempt'
      BY <1>1, ExemptKept DEF Tells
<1>4. server.data > 0 =>
        \A d \in Clients : LeadTo(Now, d, server.data) => LeadTo(Now', d, server.data)
      BY <1>1, <1>2, ReadingLeads
<1>5. clip'[Primary] = clip[Primary]
      BY <1>1, <1>2 DEF Reading
<1> QED BY <1>1, <1>3, <1>4, <1>5, AsideFollows

\* The users' copies.
LEMMA CopyFollows ==
    ASSUME SharingTypeOK, FollowInv, NEW s \in Screens, CopyOn(s),
           UNCHANGED <<server, proxy, down>>,
           s = Primary => EventOf(events', Primary),
           EventOf(events, Primary) => EventOf(events', Primary),
           \A c \in Clients : Tells(c) => Tells(c)',
           s # Primary => Tells(s)'
    PROVE  FollowInv'
<1>1. /\ spent'.fails = spent.fails
      /\ \A t \in Screens : t # s => clip'[t] = clip[t]
      /\ history'.source = history.source /\ history'.refused = history.refused \ {s}
      BY CopyFacts
<1>2. Exempt \subseteq Exempt'
      <2>1. history.refused \subseteq Clients /\ Primary \notin Clients
            BY TypeParts, Places DEF Histories
      <2> QED BY <1>1, <2>1 DEF Exempt
<1>3. \A d \in Clients : d \notin Exempt' /\ LeadTo(Now, d, server.data)
                           => LeadTo(Now', d, server.data)
      <2> SUFFICES ASSUME NEW d \in Clients, d \notin Exempt', LeadTo(Now, d, server.data)
                   PROVE  LeadTo(Now', d, server.data)
          OBVIOUS
      <2>1. d # s
            <3>1. d \in Clients /\ d # Primary
                  BY Places
            <3> QED BY <3>1 DEF Exempt
      <2>2. clip'[d] = clip[d]
            BY <1>1, <2>1, Places
      <2> QED BY <2>2 DEF LeadTo, Now
<1>4. clip'[Primary] = clip[Primary] \/ EventOf(events', Primary)
      BY <1>1, Places
<1> QED BY <1>1, <1>2, <1>3, <1>4, AsideFollows

\* or a user copies.
LEMMA UsersFollow ==
    ASSUME SharingTypeOK, FollowInv,
           \/ PrimaryCopies \/ PrimaryEchoes
           \/ \E c \in Computers : ComputerCopies(c)
           \/ \E h \in Phones : PhoneCopies(h)
    PROVE  FollowInv'
<1>1. events \in Seq(Event) /\ up \in [Clients -> Ups(spent.copies)] /\ spent.copies \in Nat
      BY TypeParts
<1>2. CASE PrimaryCopies
      <2>1. /\ CopyOn(Primary) /\ UNCHANGED <<server, proxy, client, up, down>>
            /\ \E e \in Event : events' = Append(events, e) /\ e.from = Primary
            BY <1>2, PrimaryCopyFacts
      <2>2. PICK e \in Event : events' = Append(events, e) /\ e.from = Primary
            BY <2>1
      <2>3. /\ EventOf(events', Primary)
            /\ \A c \in Clients : GrabOf(events, c) => GrabOf(events', c)
            BY <1>1, <2>2, EventsAppend
      <2>4. \A c \in Clients : Tells(c) => Tells(c)'
            BY <2>1, <2>3 DEF Tells
      <2> QED BY <2>1, <2>3, <2>4, Places, CopyFollows
<1>3. CASE PrimaryEchoes
      <2>1. /\ LessOrderly /\ spent'.fails = spent.fails
            /\ \E e \in Event : events' = Append(events, e) /\ e.from = Primary
            /\ UNCHANGED <<clip, server, proxy, client, up, down>>
            BY <1>3, EchoFacts
      <2>2. PICK e \in Event : events' = Append(events, e) /\ e.from = Primary
            BY <2>1
      <2>3. /\ EventOf(events', Primary)
            /\ \A c \in Clients : GrabOf(events, c) => GrabOf(events', c)
            BY <1>1, <2>2, EventsAppend
      <2>4. Exempt \subseteq Exempt'
            BY <2>1, <2>3, ExemptKept DEF Tells, LessOrderly
      <2>5. \A d \in Clients : LeadTo(Now, d, server.data) => LeadTo(Now', d, server.data)
            BY <2>1 DEF LeadTo, Now
      <2> QED BY <2>1, <2>3, <2>4, <2>5, AsideFollows DEF LessOrderly
<1>4. ASSUME NEW c \in Computers, ComputerCopies(c) PROVE FollowInv'
      <2>1. /\ CopyOn(c) /\ client'[c].told > 0
            /\ \A d \in Clients : d # c => client'[d] = client[d]
            /\ UNCHANGED <<server, proxy, up, down, events>>
            BY <1>4, ComputerCopyFacts
      <2>2. c \in Screens /\ c # Primary
            BY Places
      <2>3. Tells(c)' /\ \A d \in Clients : Tells(d) => Tells(d)'
            BY <2>1 DEF Tells
      <2> QED BY <2>1, <2>2, <2>3, CopyFollows
<1>5. ASSUME NEW h \in Phones, PhoneCopies(h) PROVE FollowInv'
      <2>1. /\ CopyOn(h)
            /\ \A d \in Clients : /\ client'[d].told = client[d].told
                                  /\ d # h => up'[d] = up[d]
            /\ UNCHANGED <<server, proxy, down, events>>
            BY <1>5, PhoneCopyFacts
      <2>2. PICK grab, data : /\ up'[h] = up[h] \o <<grab, data>>
                              /\ grab \in UpMessages(0 .. spent.copies + 1)
                              /\ grab.type = "grab"
                              /\ data \in Data(0 .. spent.copies + 1)
            BY <1>5, PhoneCopyFacts
      <2>3. h \in Screens /\ h # Primary /\ h \in Clients
            BY Places
      <2>4. GrabIn(up'[h])
            <3> DEFINE K == spent.copies + 1
                       S == UpMessages(0 .. K)
            <3>1. up[h] \in Ups(K)
                  <4>1. Ups(spent.copies) \subseteq Ups(K)
                        BY <1>1, OneMore
                  <4> HIDE DEF K
                  <4> QED BY <1>1, <2>3, <4>1
            <3>2. grab \in S /\ data \in S
                  BY <2>2, DataMessages
            <3>3. <<grab, data>> \in Ups(K)
                  <4> HIDE DEF S
                  <4>1. <<grab, data>> \in Seq(S)
                        BY <3>2
                  <4> QED BY <4>1 DEF S, Ups
            <3>4. GrabIn(<<grab, data>>)
                  BY <2>2 DEF GrabIn
            <3> HIDE DEF K
            <3> QED BY <2>2, <3>1, <3>3, <3>4, GrabsConcat
      <2>5. Tells(h)' /\ \A d \in Clients : Tells(d) => Tells(d)'
            BY <2>1, <2>4 DEF Tells
      <2> QED BY <2>1, <2>3, <2>5, CopyFollows
<1> QED BY <1>2, <1>3, <1>4, <1>5

\* The other clipboard's grab: the readings that it calls off count as failed.
LEMMA OtherUnread ==
    ASSUME SharingTypeOK, OtherGrabbed PROVE Unread(Now) => Unread(Now')
<1>1. /\ server'.retry = 0 /\ server'.retrySeq = server.retrySeq
      /\ server'.owner = server.owner /\ server'.seq = server.seq
      /\ spent'.fails = spent.fails + server.retry
      BY OtherFacts
<1>2. /\ Now.srv = server /\ Now'.srv = server' /\ Now.spent = spent /\ Now'.spent = spent'
      BY DEF Now
<1>3. spent.fails \in Nat /\ server.retry \in Nat
      BY <1>2, TypeParts, DataParts
<1>4. spent.fails + server.retry > Retries => spent'.fails + server'.retry > Retries
      BY <1>1, <1>3, Bounds
<1> QED BY <1>1, <1>2, <1>4 DEF Unread

LEMMA OtherFollows ==
    ASSUME SharingTypeOK, FollowInv, OtherGrabbed PROVE FollowInv'
<1>1. /\ server'.cache = server.cache /\ server'.data = server.data
      /\ UNCHANGED <<clip, proxy, client, up, down, events, history>>
      BY OtherFacts
<1>2. /\ Now.srv = server /\ Now'.srv = server' /\ Now.source = history.source
      /\ Now'.source = history'.source /\ Now.px = proxy /\ Now'.px = proxy'
      /\ Now.dn = down /\ Now'.dn = down' /\ Now.clip = clip /\ Now'.clip = clip'
      BY DEF Now
<1>3. /\ CacheFits(Now) /\ ProxiesClean(Now) /\ ClientsFollow(Now, Exempt)
      /\ PrimaryFollows(Now, events)
      BY DEF FollowInv, Follows
<1>4. CacheFits(Now') /\ ProxiesClean(Now')
      BY <1>1, <1>2, <1>3 DEF CacheFits, ProxiesClean
<1>5. Exempt' = Exempt
      BY <1>1 DEF Exempt, Tells
<1>6. ClientsFollow(Now', Exempt')
      BY <1>1, <1>2, <1>3, <1>5 DEF ClientsFollow, LeadTo
<1>7. PrimaryFollows(Now', events')
      BY <1>1, <1>2, <1>3, OtherUnread DEF PrimaryFollows
<1> QED BY <1>4, <1>6, <1>7 DEF FollowInv, Follows

\* FollowInv holds at the start,
LEMMA InitFollows ==
    ASSUME SharingInit PROVE FollowInv
<1>1. Now.srv.data = 0 /\ Now.srv.cache = 0
      BY DEF SharingInit, Now
<1> QED BY <1>1 DEF FollowInv, Follows, CacheFits, ProxiesClean, ClientsFollow, PrimaryFollows

\* through every step,
LEMMA FollowStep ==
    ASSUME SharingTypeOK, FollowInv, [SharingNext]_sharingVars PROVE FollowInv'
<1>1. CASE UNCHANGED sharingVars
      BY <1>1 DEF sharingVars, FollowInv, Follows, CacheFits, ProxiesClean, ClientsFollow,
                  PrimaryFollows, Exempt, Tells, Now
<1>2. CASE \/ PrimaryCopies \/ PrimaryEchoes
           \/ \E c \in Computers : ComputerCopies(c)
           \/ \E h \in Phones : PhoneCopies(h)
      BY <1>2, UsersFollow
<1>3. CASE DispatchEvent \/ RetryFires \/ OtherGrabbed
      BY <1>3, DispatchFollows, RetryFollows, OtherFollows
<1>4. ASSUME NEW c \in Computers, ComputerReceives(c) \/ ClientPumps(c) \/ HandleLocalGrab(c)
      PROVE  FollowInv'
      BY <1>4, ComputerFollows, ClientPumpFollows, LocalGrabFollows
<1>5. ASSUME NEW h \in Phones, PhoneReceives(h) PROVE FollowInv'
      BY <1>5, PhoneFollows
<1>6. ASSUME NEW s \in Screens, SwitchScreen(s) PROVE FollowInv'
      BY <1>6, SwitchFollows
<1>7. ASSUME NEW c \in Clients, ServerReceives(c) \/ ServerPumps(c) PROVE FollowInv'
      BY <1>7, ReceiveFollows, ServerPumpFollows
<1> QED BY <1>1, <1>2, <1>3, <1>4, <1>5, <1>6, <1>7, Steps, Zenon

\* and gives OthersFollowOwner.
LEMMA FollowsWhenQuiet ==
    ASSUME SharingTypeOK, FollowInv PROVE OthersFollowOwner
<1> SUFFICES ASSUME Quiet, server.data > 0,
                    NEW s \in Screens \ ({history.source} \cup history.refused)
             PROVE  \/ clip[s] = server.data
                    \/ s = Primary /\ (Unfound \/ server.cache # server.data)
    BY DEF OthersFollowOwner
<1>1. /\ events = <<>> /\ server.retry = 0
      /\ \A c \in Clients :
           /\ up[c] = <<>> /\ down[c] = <<>>
           /\ proxy[c].outbox = <<>> /\ client[c].outbox = <<>> /\ client[c].told = 0
      BY DEF Quiet
<1>2. ClientsFollow(Now, Exempt) /\ PrimaryFollows(Now, events)
      BY DEF FollowInv, Follows
<1>3. /\ Now.srv = server /\ Now.px = proxy /\ Now.dn = down /\ Now.clip = clip
      /\ Now.source = history.source /\ Now.spent = spent
      BY DEF Now
<1>4. CASE s = Primary
      <2>1. ~EventOf(events, Primary)
            BY <1>1, EventsEmpty
      <2>2. Unread(Now) /\ clip[s] # server.data => Unfound
            <3>1. Unread(Now) => spent.fails + 0 > Retries
                  BY <1>1, <1>3 DEF Unread
            <3>2. spent.fails \in Nat
                  BY <1>3, TypeParts, DataParts
            <3>3. spent.fails + 0 > Retries => spent.fails > Retries
                  BY <3>2, Bounds
            <3> QED BY <1>4, <3>1, <3>3 DEF Unfound
      <2> QED BY <1>2, <1>3, <1>4, <2>1, <2>2 DEF PrimaryFollows
<1>5. CASE s # Primary
      <2>1. s \in Clients
            BY <1>5, Places
      <2>2. ~Tells(s)
            <3>1. ~GrabIn(<<>>)
                  BY DEF GrabIn
            <3> QED BY <1>1, <2>1, <3>1, EventsEmpty DEF Tells
      <2>3. LeadTo(Now, s, server.data)
            BY <1>2, <1>3, <2>1, <2>2 DEF ClientsFollow, Exempt
      <2>4. Leads(<<>>, <<>>, clip[s], server.data)
            BY <1>1, <1>3, <2>1, <2>3 DEF LeadTo
      <2> QED BY <2>4, LeadsEmpty
<1> QED BY <1>4, <1>5

\* Once all is quiet, every screen shows what the server pushed last, save the one that
\* it came from, those whose own copy was too old, and a primary whose clipboard was
\* empty since, or whose copy no reading found (Server::onClipboardChanged,
\* Server::schedulePrimaryClipboardRetry).
THEOREM OthersFollow == SharingSpec => []OthersFollowOwner
<1>1. SharingInit => FollowInv
      BY InitFollows
<1>2. SharingTypeOK /\ FollowInv /\ [SharingNext]_sharingVars => FollowInv'
      BY FollowStep
<1>3. SharingTypeOK /\ FollowInv => OthersFollowOwner
      BY FollowsWhenQuiet
<1>4. SharingSpec => []SharingTypeOK
      BY SharingTypeCorrect
<1> QED BY <1>1, <1>2, <1>3, <1>4, PTL DEF SharingSpec

-----------------------------------------------------------------------------
(***************************************************************************)
(* LastCopyWins.  While a copy is the last one and nothing crosses it, no  *)
(* other client has anything under way, and either what its own client has *)
(* under way ends with it, or the server has published it.                 *)
(***************************************************************************)

\* A client that has nothing under way.
Idle(s) ==
    /\ client[s].told = 0 /\ client[s].outbox = <<>> /\ up[s] = <<>>
    /\ ~EventOf(events, s) /\ ~Unsent(s)

\* The last event of s is that a clipboard has arrived.
LastChanged(evs, s) ==
    \E i \in 1 .. Len(evs) :
      /\ evs[i].from = s /\ evs[i].type = "changed"
      /\ \A j \in 1 .. Len(evs) : j > i => evs[j].from # s

\* What s has under way ends with copy k, or is still to be read.
Final(s, k) ==
    \/ client[s].told > 0 \/ Unsent(s)
    \/ IF client[s].outbox # <<>> THEN Latest(client[s].outbox).copy = k
       ELSE IF up[s] # <<>> THEN Latest(up[s]).type = "data" /\ Latest(up[s]).copy = k
       ELSE proxy[s].content = k /\ LastChanged(events, s)

\* The primary's copy k is to be read, or everybody is led to it.
PrimaryShown(st, evs, k) ==
    /\ st.clip[Primary] = k
    /\ EventOf(evs, Primary) \/ st.srv.owner = Primary
    /\ k = 0 \/ EventOf(evs, Primary) \/ Unread(st) \/ st.srv.data = k
    /\ k > 0 /\ st.srv.data = k => \A s \in Clients : LeadTo(st, s, k)

\* Client s shows its copy k and nothing comes to change that; nor will the primary
\* publish something else.
Keeps(st, s, k) ==
    /\ k > 0 /\ st.clip[s] = k /\ st.px[s].outbox = <<>> /\ NoneAfter(st.dn[s], 0)
    /\ st.srv.owner = Primary => st.clip[Primary] \in {0, st.srv.data}

\* Copy k of client s is what all others are led to.
Published(st, s, k) ==
    /\ st.srv.owner \in {s, Primary}
    /\ st.clip[Primary] = k /\ st.srv.data = k
    /\ st.srv.owner = s => st.srv.cache = k
    /\ \A d \in Clients : d # s => LeadTo(st, d, k)

PrimaryWins(k) == PrimaryShown(Now, events, k)

ClientWins(s, k) ==
    /\ Idle(s) /\ s \notin history.refused => Keeps(Now, s, k) /\ Published(Now, s, k)
    /\ ~Idle(s) => Keeps(Now, s, k) /\ ~EventOf(events, Primary) /\ Final(s, k)

Wins(s, k) ==
    /\ \A d \in Clients : d # s => Idle(d)
    /\ IF s = Primary THEN PrimaryWins(k) ELSE ClientWins(s, k)

LastInv ==
    /\ history.copy = spent.copies
    /\ \A s, k : history.orderly /\ history.from = s /\ history.copy = k => Wins(s, k)

\* A client is idle when no copy of its own is on its way.
LEMMA IdleUnderway ==
    ASSUME SharingTypeOK, NEW s \in Clients
    PROVE  Idle(s) <=> ~Underway(s)
<1>1. client[s] \in Records(spent.copies) /\ spent.copies \in Nat /\ events \in Seq(Event)
      BY TypeParts
<1>2. client[s].told \in Nat
      <2>1. client[s].told \in 0 .. spent.copies
            BY <1>1 DEF Records
      <2> QED BY <1>1, <2>1
<1>3. EventOf(events, s) <=> \E i \in DOMAIN events : events[i].from = s
      <2>1. DOMAIN events = 1 .. Len(events) /\ \A i \in DOMAIN events : events[i] \in Event
            BY <1>1
      <2> QED BY <2>1 DEF EventOf, Meets
<1>4. s # Primary
      BY Places
<1> QED BY <1>2, <1>3, <1>4 DEF Idle, Underway

\* The primary, when nothing of its own is under way.
LEMMA PrimaryAtRest ==
    ASSUME SharingTypeOK, ~Underway(Primary)
    PROVE  /\ ~EventOf(events, Primary)
           /\ server.owner = Primary => server.cache = clip[Primary]
<1>1. events \in Seq(Event)
      BY TypeParts
<1>2. EventOf(events, Primary) <=> \E i \in DOMAIN events : events[i].from = Primary
      <2>1. DOMAIN events = 1 .. Len(events) /\ \A i \in DOMAIN events : events[i] \in Event
            BY <1>1
      <2> QED BY <2>1 DEF EventOf, Meets
<1> QED BY <1>2 DEF Underway

\* The last event of a screen once an event is added,
LEMMA LastChangedAppend ==
    ASSUME NEW evs \in Seq(Event), NEW e \in Event, NEW s,
           IF e.from = s THEN e.type = "changed" ELSE LastChanged(evs, s)
    PROVE  LastChanged(Append(evs, e), s)
<1> DEFINE r == Append(evs, e)
           n == Len(evs)
<1>1. n \in Nat /\ Len(r) = n + 1 /\ r[n + 1] = e /\ \A i \in 1 .. n : r[i] = evs[i]
      BY AppendProperties, LenProperties
<1> HIDE DEF r, n
<1>2. n + 1 \in 1 .. Len(r) /\ \A j \in 1 .. Len(r) : ~(j > n + 1)
      BY <1>1
<1>3. \A j \in 1 .. Len(r) : j = n + 1 \/ j \in 1 .. n
      BY <1>1
<1>4. \A j \in 1 .. n : j \in 1 .. Len(r)
      BY <1>1
<1>5. CASE e.from = s
      BY <1>1, <1>2, <1>5 DEF LastChanged, r
<1>6. CASE e.from # s
      <2>1. PICK i \in 1 .. n : /\ evs[i].from = s /\ evs[i].type = "changed"
                                /\ \A j \in 1 .. n : j > i => evs[j].from # s
            BY <1>6 DEF LastChanged, n
      <2>2. /\ i \in 1 .. Len(r) /\ r[i].from = s /\ r[i].type = "changed"
            /\ \A j \in 1 .. Len(r) : j > i => r[j].from # s
            BY <1>1, <1>3, <1>4, <1>6, <2>1
      <2> QED BY <2>2 DEF LastChanged, r
<1> QED BY <1>5, <1>6

\* and once the first is dispatched.
LEMMA LastChangedTail ==
    ASSUME NEW evs \in Seq(Event), evs # <<>>, NEW s, LastChanged(evs, s)
    PROVE  \/ LastChanged(Tail(evs), s)
           \/ /\ Head(evs).from = s /\ Head(evs).type = "changed"
              /\ ~EventOf(Tail(evs), s)
<1> DEFINE r == Tail(evs)
           n == Len(r)
<1>1. /\ n \in Nat /\ Len(evs) = n + 1
      /\ \A i \in 1 .. n : r[i] = evs[i + 1]
      BY HeadTailProperties, LenProperties
<1>2. Head(evs) = evs[1]
      OBVIOUS
<1> HIDE DEF r, n
<1>3. PICK i \in 1 .. Len(evs) : /\ evs[i].from = s /\ evs[i].type = "changed"
                                 /\ \A j \in 1 .. Len(evs) : j > i => evs[j].from # s
      BY DEF LastChanged
<1>4. \A j \in 1 .. n : j + 1 \in 1 .. Len(evs) /\ r[j] = evs[j + 1]
      BY <1>1
<1>5. CASE i = 1
      <2>1. \A j \in 1 .. n : j + 1 > i
            BY <1>1, <1>5
      <2>2. \A j \in 1 .. n : r[j].from # s
            BY <1>3, <1>4, <2>1
      <2>3. ~EventOf(r, s)
            BY <2>2 DEF EventOf, Meets, n
      <2> QED BY <1>2, <1>3, <1>5, <2>3 DEF r
<1>6. CASE i # 1
      <2>1. i - 1 \in 1 .. n /\ (i - 1) + 1 = i
            BY <1>1, <1>6
      <2>2. r[i - 1] = evs[i]
            BY <1>4, <2>1
      <2>3. \A j \in 1 .. n : j > i - 1 => j + 1 > i
            BY <1>1
      <2>4. \A j \in 1 .. n : j > i - 1 => r[j].from # s
            BY <1>3, <1>4, <2>3
      <2> QED BY <1>3, <2>1, <2>2, <2>4 DEF LastChanged, n, r
<1> QED BY <1>5, <1>6

\* The last of a queue once another follows it,
LEMMA LatestConcat ==
    ASSUME NEW S, NEW q \in Seq(S), NEW out \in Seq(S), out # <<>>
    PROVE  q \o out # <<>> /\ Latest(q \o out) = Latest(out)
<1> DEFINE s == q \o out
           n == Len(q)
           l == Len(out)
<1>1. n \in Nat /\ l \in Nat /\ Len(s) = n + l /\ l # 0
      BY ConcatProperties, LenProperties
<1>2. \A i \in 1 .. n + l : s[i] = IF i <= n THEN q[i] ELSE out[i - n]
      BY ConcatProperties
<1> HIDE DEF s, n, l
<1>3. /\ n + l \in 1 .. n + l /\ ~(n + l <= n) /\ (n + l) - n = l
      /\ n + l # 0
      BY <1>1
<1>4. s[n + l] = out[l]
      BY <1>2, <1>3
<1>5. s # <<>>
      <2>1. Len(s) # 0
            BY <1>1, <1>3
      <2>2. Len(<<>>) = 0
            OBVIOUS
      <2> QED BY <2>1, <2>2
<1> QED BY <1>1, <1>4, <1>5 DEF Latest, s, l

\* and once its first is gone.
LEMMA LatestTail ==
    ASSUME NEW S, NEW q \in Seq(S), q # <<>>
    PROVE  IF Tail(q) = <<>> THEN Latest(q) = Head(q) ELSE Latest(q) = Latest(Tail(q))
<1> DEFINE r == Tail(q)
           n == Len(r)
<1>1. /\ r \in Seq(S) /\ n \in Nat /\ Len(q) = n + 1
      /\ \A i \in 1 .. n : r[i] = q[i + 1]
      BY HeadTailProperties, LenProperties
<1>2. Head(q) = q[1]
      OBVIOUS
<1> HIDE DEF r
<1>3. r = <<>> <=> n = 0
      BY <1>1
<1> HIDE DEF n
<1>4. CASE n = 0
      BY <1>1, <1>2, <1>3, <1>4 DEF Latest, r
<1>5. CASE n # 0
      <2>1. n \in 1 .. n
            BY <1>1, <1>5
      <2>2. r[n] = q[n + 1]
            BY <1>1, <2>1
      <2> QED BY <1>1, <1>3, <1>5, <2>2 DEF Latest, r, n
<1> QED BY <1>4, <1>5

-----------------------------------------------------------------------------
(***************************************************************************)
(* What keeps LastInv.                                                     *)
(***************************************************************************)

\* A step that makes no copy, and keeps what makes the last one win.
LEMMA LastKept ==
    ASSUME LastInv, history'.from = history.from, history'.copy = history.copy,
           spent'.copies = spent.copies, history'.orderly => history.orderly,
           history'.orderly => \A d \in Clients : Idle(d) => Idle(d)',
           \A k : /\ history'.orderly /\ history.from = Primary
                  /\ \A d \in Clients : Idle(d)
                  /\ PrimaryWins(k)
                  => PrimaryWins(k)',
           \A s, k : /\ history'.orderly /\ s = history.from /\ s # Primary
                     /\ \A d \in Clients : d # s => Idle(d)
                     /\ ClientWins(s, k)
                     => ClientWins(s, k)'
    PROVE  LastInv'
<1>1. history'.copy = spent'.copies
      BY DEF LastInv
<1> SUFFICES ASSUME NEW s, NEW k, history'.orderly, history'.from = s, history'.copy = k
             PROVE  Wins(s, k)'
    BY <1>1 DEF LastInv
<1>2. Wins(s, k)
      BY DEF LastInv
<1>3. \A d \in Clients : d # s => Idle(d)'
      BY <1>2 DEF Wins
<1>4. CASE s = Primary
      <2>1. PrimaryWins(k) /\ \A d \in Clients : Idle(d)
            BY <1>2, <1>4, Places DEF Wins
      <2>2. PrimaryWins(k)'
            BY <1>4, <2>1
      <2> QED BY <1>3, <1>4, <2>2 DEF Wins
<1>5. CASE s # Primary
      <2>1. ClientWins(s, k) /\ \A d \in Clients : d # s => Idle(d)
            BY <1>2, <1>5 DEF Wins
      <2>2. ClientWins(s, k)'
            BY <1>5, <2>1
      <2> QED BY <1>3, <1>5, <2>2 DEF Wins
<1> QED BY <1>4, <1>5

\* A step of which the server's record knows nothing.
LEMMA AsidePrimary ==
    ASSUME SharingTypeOK, server' = server, clip'[Primary] = clip[Primary],
           spent'.fails = spent.fails,
           EventOf(events, Primary) => EventOf(events', Primary), NEW k,
           k > 0 => \A d \in Clients : LeadTo(Now, d, k) => LeadTo(Now', d, k),
           PrimaryWins(k)
    PROVE  PrimaryWins(k)'
<1>1. Now \in States(spent.copies) /\ spent.copies \in Nat
      BY TypeParts
<1>2. /\ Now.srv = server /\ Now'.srv = server /\ Now.clip = clip /\ Now'.clip = clip'
      /\ Now.spent = spent /\ Now'.spent = spent'
      BY DEF Now
<1>3. Unread(Now) => Unread(Now')
      <2>1. spent.fails \in Nat /\ server.retry \in Nat /\ Retries \in Nat
            BY <1>1, <1>2, DataParts, Bounds
      <2>2. spent.fails + server.retry > Retries => spent'.fails + server.retry > Retries
            BY <2>1
      <2> QED BY <1>2, <2>2 DEF Unread
<1>4. PrimaryShown(Now, events, k)
      BY DEF PrimaryWins
<1>5. PrimaryShown(Now', events', k)
      BY <1>2, <1>3, <1>4 DEF PrimaryShown
<1> QED BY <1>5 DEF PrimaryWins

\* ... for a copy of a client.
LEMMA AsideClient ==
    ASSUME server' = server, clip'[Primary] = clip[Primary],
           NEW s, clip'[s] = clip[s],
           proxy'[s].outbox = proxy[s].outbox,
           NoneAfter(down[s], 0) => NoneAfter(down'[s], 0), NEW k,
           k > 0 => \A d \in Clients : d # s /\ LeadTo(Now, d, k) => LeadTo(Now', d, k),
           Keeps(Now, s, k)
    PROVE  /\ Keeps(Now', s, k)
           /\ Published(Now, s, k) => Published(Now', s, k)
<1>1. /\ Now.srv = server /\ Now'.srv = server /\ Now.clip = clip /\ Now'.clip = clip'
      /\ Now.px = proxy /\ Now'.px = proxy' /\ Now.dn = down /\ Now'.dn = down'
      BY DEF Now
<1>2. Keeps(Now', s, k)
      BY <1>1 DEF Keeps
<1>3. Published(Now, s, k) => Published(Now', s, k)
      BY <1>1 DEF Published, Keeps
<1> QED BY <1>2, <1>3

\* A client whose copy is still on its way is not idle.
LEMMA FinalNotIdle ==
    ASSUME SharingTypeOK, NEW s \in Clients, NEW k, Final(s, k)
    PROVE  ~Idle(s)
<1>1. events \in Seq(Event) /\ client[s] \in Records(spent.copies)
      BY TypeParts
<1>2. LastChanged(events, s) => EventOf(events, s)
      <2>1. \A i \in 1 .. Len(events) : events[i] \in Event
            BY <1>1
      <2> QED BY <2>1 DEF LastChanged, EventOf, Meets
<1>3. client[s].told > 0 => client[s].told # 0
      OBVIOUS
<1> QED BY <1>2, <1>3 DEF Final, Idle

\* ... nor is it after a step.
LEMMA FinalNotIdleNext ==
    ASSUME SharingTypeOK', NEW s \in Clients, NEW k
    PROVE  Final(s, k)' => ~Idle(s)'
BY FinalNotIdle, PTL

\* A step after which a client's last copy is where it was, or further on its way.
LEMMA WinsKept ==
    ASSUME SharingTypeOK', NEW s \in Clients, NEW k, ClientWins(s, k),
           history'.refused = history.refused,
           Keeps(Now, s, k) =>
             /\ Keeps(Now', s, k)
             /\ Published(Now, s, k) => Published(Now', s, k),
           Idle(s) => Idle(s)',
           ~Idle(s) => (EventOf(events', Primary) => EventOf(events, Primary)),
           ~Idle(s) /\ Final(s, k) => Final(s, k)'
    PROVE  ClientWins(s, k)'
<1>1. Final(s, k)' => ~Idle(s)'
      BY FinalNotIdleNext
<1>2. CASE Idle(s)
      BY <1>2 DEF ClientWins
<1>3. CASE ~Idle(s)
      BY <1>1, <1>3 DEF ClientWins
<1> QED BY <1>2, <1>3

\* An idle client is not the one that sends.
LEMMA SentFinal ==
    ASSUME SharingTypeOK, NEW c \in Clients, NEW record, NEW messages, NEW k,
           messages \in Seq(UpMessages(0 .. spent.copies)),
           SentBy(c, record, messages, k), record.own,
           ~record.sent \/ record.data # clip'[c]
    PROVE  Final(c, k)'
<1> DEFINE K == spent.copies
           S == UpMessages(0 .. K)
<1>1. up[c] \in Seq(S)
      BY TypeParts DEF Ups
<1>2. CASE client'[c] = record
      BY <1>2 DEF Final, Unsent
<1>3. ASSUME NEW q, q.out \in Seq(Data(0 .. K)), Carries(q, k),
             client'[c].outbox = q.left, up'[c] = up[c] \o messages \o q.out
      PROVE  Final(c, k)'
      <2>1. CASE q.left # <<>>
            BY <1>3, <2>1 DEF Carries, Final
      <2>2. CASE q.left = <<>>
            <3>1. q.out # <<>> /\ Latest(q.out).copy = k
                  BY <1>3, <2>2 DEF Carries
            <3>2. q.out \in Seq(S) /\ messages \in Seq(S)
                  BY <1>3, DataMessages, SeqMore
            <3>3. Latest(q.out).type = "data"
                  <4> DEFINE D == Data(0 .. K)
                             out == q.out
                  <4>1. out \in Seq(D) /\ out # <<>>
                        BY <1>3, <3>1
                  <4> HIDE DEF D, out
                  <4>2. Len(out) \in 1 .. Len(out)
                        BY <4>1
                  <4>3. out[Len(out)] \in D
                        BY <4>1, <4>2
                  <4> QED BY <4>3 DEF Latest, Data, D, out
            <3> HIDE DEF S, K
            <3> DEFINE before == up[c] \o messages
                       out == q.out
            <3>4. before \in Seq(S) /\ out \in Seq(S) /\ out # <<>>
                  BY <1>1, <3>1, <3>2, ConcatProperties
            <3>5. up'[c] = before \o out
                  BY <1>3
            <3> HIDE DEF before, out
            <3>6. before \o out # <<>> /\ Latest(before \o out) = Latest(out)
                  BY <3>4, LatestConcat
            <3>7. up'[c] # <<>> /\ Latest(up'[c]) = Latest(q.out)
                  BY <3>5, <3>6 DEF out
            <3> QED BY <1>3, <2>2, <3>1, <3>3, <3>7 DEF Final
      <2> QED BY <2>1, <2>2
<1> QED BY <1>2, <1>3 DEF SentBy

\* Each step keeps LastInv: a client tells of a copy,
LEMMA LocalGrabWins ==
    ASSUME SharingTypeOK, NEW c \in Computers, HandleLocalGrab(c), LastInv
    PROVE  LastInv'
<1>1. /\ SharingTypeOK' /\ client[c].told > 0
      /\ OnlyClient(c) /\ LessOrderly
      /\ spent'.copies = spent.copies
      /\ spent'.fails = spent.fails
      /\ UNCHANGED <<clip, proxy, server, down, events>>
      BY LocalGrabFacts
<1>2. PICK record, m, k1 :
        /\ SentBy(c, record, <<m>>, k1) /\ (history'.orderly => k1 = clip[c])
        /\ record.own /\ ~record.sent
        /\ m \in UpMessages(0 .. spent.copies) /\ m.type = "grab"
      BY LocalGrabFacts
<1>3. c \in Clients /\ ~Idle(c)
      BY <1>1, Places DEF Idle
<1>4. \A d \in Clients : Idle(d) => Idle(d)'
      BY <1>1, <1>3 DEF Idle, Unsent, OnlyClient
<1>5. ASSUME NEW k, PrimaryWins(k) PROVE PrimaryWins(k)'
      <2>1. \A d \in Clients : LeadTo(Now, d, k) => LeadTo(Now', d, k)
            BY <1>1 DEF LeadTo, Now
      <2> QED BY <1>1, <1>5, <2>1, AsidePrimary
<1>6. ASSUME NEW s, NEW k, history'.orderly, s = history.from, s # Primary,
             \A d \in Clients : d # s => Idle(d), ClientWins(s, k)
      PROVE  ClientWins(s, k)'
      <2>1. s = c
            BY <1>3, <1>6
      <2>2. \A d \in Clients : LeadTo(Now, d, k) => LeadTo(Now', d, k)
            BY <1>1 DEF LeadTo, Now
      <2>3. Keeps(Now, s, k)
            BY <1>3, <1>6, <2>1 DEF ClientWins
      <2>4. /\ Keeps(Now', s, k)
            /\ Published(Now, s, k) => Published(Now', s, k)
            BY <1>1, <2>2, <2>3, AsideClient
      <2>5. k1 = k
            BY <1>2, <1>6, <2>1, <2>3 DEF Keeps, Now
      <2>6. Final(s, k)'
            <3>1. <<m>> \in Seq(UpMessages(0 .. spent.copies))
                  <4> DEFINE S == UpMessages(0 .. spent.copies)
                  <4>1. m \in S
                        BY <1>2
                  <4> HIDE DEF S
                  <4>2. <<m>> \in Seq(S)
                        BY <4>1
                  <4> QED BY <4>2 DEF S
            <3> QED BY <1>2, <1>3, <2>1, <2>5, <3>1, SentFinal
      <2>7. history'.refused = history.refused
            BY <1>1 DEF LessOrderly
      <2>8. s \in Clients
            BY <1>3, <2>1
      <2>9. EventOf(events', Primary) => EventOf(events, Primary)
            BY <1>1
      <2>10. Idle(s) => Idle(s)'
             BY <1>4, <2>8
      <2> QED BY <1>1, <1>6, <2>4, <2>6, <2>7, <2>8, <2>9, <2>10, WinsKept
<1> QED BY <1>1, <1>4, <1>5, <1>6, LastKept DEF LessOrderly

\* it pumps,
LEMMA ClientPumpWins ==
    ASSUME SharingTypeOK, NEW c \in Computers, ClientPumps(c), LastInv
    PROVE  LastInv'
<1>1. /\ SharingTypeOK' /\ OnlyClient(c) /\ client[c].outbox # <<>>
      /\ client'[c].own = client[c].own /\ client'[c].sent = client[c].sent
      /\ client'[c].told = client[c].told /\ client'[c].data = client[c].data
      /\ UNCHANGED <<clip, server, proxy, down, events, history, spent>>
      BY ClientPumpFacts
<1>2. PICK q : /\ q.out \in Seq(Data(0 .. spent.copies))
               /\ Carries(q, Latest(client[c].outbox).copy)
               /\ client'[c].outbox = q.left /\ up'[c] = up[c] \o q.out
      BY ClientPumpFacts
<1>3. c \in Clients /\ ~Idle(c)
      BY <1>1, Places DEF Idle
<1>4. \A d \in Clients : Idle(d) => Idle(d)'
      BY <1>1, <1>3 DEF Idle, Unsent, OnlyClient
<1>5. ASSUME NEW k, PrimaryWins(k) PROVE PrimaryWins(k)'
      <2>1. \A d \in Clients : LeadTo(Now, d, k) => LeadTo(Now', d, k)
            BY <1>1 DEF LeadTo, Now
      <2> QED BY <1>1, <1>5, <2>1, AsidePrimary
<1>6. ASSUME NEW s, NEW k, s = history.from, s # Primary,
             \A d \in Clients : d # s => Idle(d), ClientWins(s, k)
      PROVE  ClientWins(s, k)'
      <2>1. s = c
            BY <1>3, <1>6
      <2>2. \A d \in Clients : LeadTo(Now, d, k) => LeadTo(Now', d, k)
            BY <1>1 DEF LeadTo, Now
      <2>3. Keeps(Now, s, k) =>
              /\ Keeps(Now', s, k)
              /\ Published(Now, s, k) => Published(Now', s, k)
            BY <1>1, <2>2, AsideClient
      <2>4. Final(s, k) => Final(s, k)'
            <3> SUFFICES ASSUME Final(s, k) PROVE Final(s, k)'
                OBVIOUS
            <3>1. CASE client[s].told > 0 \/ Unsent(s)
                  BY <1>1, <2>1, <3>1 DEF Final, Unsent
            <3>2. CASE Latest(client[s].outbox).copy = k
                  <4>1. Carries(q, k)
                        BY <1>2, <2>1, <3>2
                  <4>2. CASE q.left # <<>>
                        BY <1>2, <2>1, <4>1, <4>2 DEF Carries, Final
                  <4>3. CASE q.left = <<>>
                        <5> DEFINE K == spent.copies
                                   S == UpMessages(0 .. K)
                                   D == Data(0 .. K)
                                   out == q.out
                        <5>1. out # <<>> /\ Latest(out).copy = k
                              BY <4>1, <4>3 DEF Carries
                        <5>2. out \in Seq(D) /\ out \in Seq(S) /\ up[c] \in Seq(S)
                              BY <1>2, <1>3, DataMessages, SeqMore, TypeParts DEF Ups
                        <5> HIDE DEF S, D, out
                        <5>3. Latest(out) \in D
                              <6>1. Len(out) \in 1 .. Len(out)
                                    BY <5>1, <5>2
                              <6> QED BY <5>2, <6>1 DEF Latest
                        <5>4. Latest(out).type = "data"
                              BY <5>3 DEF D, Data
                        <5>5. up[c] \o out # <<>> /\ Latest(up[c] \o out) = Latest(out)
                              BY <5>1, <5>2, LatestConcat
                        <5> QED BY <1>2, <2>1, <4>3, <5>1, <5>4, <5>5 DEF Final, out
                  <4> QED BY <4>2, <4>3
            <3> QED BY <1>1, <2>1, <3>1, <3>2 DEF Final
      <2>5. s \in Clients /\ (Idle(s) => Idle(s)')
            BY <1>3, <1>4, <2>1
      <2> QED BY <1>1, <1>6, <2>3, <2>4, <2>5, WinsKept
<1> QED BY <1>1, <1>4, <1>5, <1>6, LastKept

\* A proxy pumps,
LEMMA ServerPumpWins ==
    ASSUME SharingTypeOK, NEW c \in Clients, ServerPumps(c), LastInv
    PROVE  LastInv'
<1>1. /\ SharingTypeOK' /\ proxy[c].outbox # <<>>
      /\ \A d \in Clients :
           /\ proxy'[d].content = proxy[d].content
           /\ d # c => proxy'[d] = proxy[d] /\ down'[d] = down[d]
           /\ \A shown, k : Leads(proxy[d].outbox, down[d], shown, k)
                              => Leads(proxy'[d].outbox, down'[d], shown, k)
      /\ UNCHANGED <<clip, server, client, up, events, history, spent>>
      BY ServerPumpFacts
<1>2. \A k : \A d \in Clients : LeadTo(Now, d, k) => LeadTo(Now', d, k)
      BY <1>1 DEF LeadTo, Now
<1>3. \A d \in Clients : Idle(d) => Idle(d)'
      BY <1>1 DEF Idle, Unsent
<1>4. ASSUME NEW k, PrimaryWins(k) PROVE PrimaryWins(k)'
      BY <1>1, <1>2, <1>4, AsidePrimary
<1>5. ASSUME NEW s, NEW k, s = history.from, s # Primary, ClientWins(s, k)
      PROVE  ClientWins(s, k)'
      <2>1. s \in Clients
            BY <1>5, TypeParts, Places DEF Histories
      <2>2. ASSUME Keeps(Now, s, k)
            PROVE  /\ Keeps(Now', s, k)
                   /\ Published(Now, s, k) => Published(Now', s, k)
            <3>1. s # c
                  BY <1>1, <2>2 DEF Keeps, Now
            <3>2. proxy'[s].outbox = proxy[s].outbox /\ down'[s] = down[s]
                  BY <1>1, <2>1, <3>1
            <3> QED BY <1>1, <1>2, <2>2, <3>2, AsideClient
      <2>3. Final(s, k) => Final(s, k)'
            BY <1>1, <2>1 DEF Final, Unsent
      <2> QED BY <1>1, <1>3, <1>5, <2>1, <2>2, <2>3, WinsKept
<1> QED BY <1>1, <1>3, <1>4, <1>5, LastKept

\* the server reads a message,
LEMMA ReceiveWins ==
    ASSUME SharingTypeOK, NEW c \in Clients, ServerReceives(c), LastInv
    PROVE  LastInv'
<1>1. /\ SharingTypeOK' /\ up[c] # <<>> /\ up' = [up EXCEPT ![c] = Tail(@)]
      /\ \A d \in Clients : /\ proxy'[d].outbox = proxy[d].outbox
                            /\ d # c => proxy'[d] = proxy[d]
      /\ UNCHANGED <<clip, server, client, down, history, spent>>
      BY ReceiveFacts
<1>2. PICK e \in Event :
        /\ events' = Append(events, e) /\ e.from = c
        /\ Head(up[c]).type = "data" =>
             e.type = "changed" /\ proxy'[c].content = Head(up[c]).copy
      BY ReceiveFacts
<1>3. /\ events \in Seq(Event) /\ up \in [Clients -> Ups(spent.copies)]
      /\ c # Primary
      BY TypeParts, Places
<1>4. \A s : EventOf(events', s) <=> EventOf(events, s) \/ s = c
      BY <1>2, <1>3, EventsAppend
<1>5. ~Idle(c) /\ \A d \in Clients : d # c => up'[d] = up[d]
      BY <1>1, <1>3 DEF Idle
<1>6. \A d \in Clients : Idle(d) => Idle(d)'
      BY <1>1, <1>4, <1>5 DEF Idle, Unsent
<1>7. \A k : \A d \in Clients : LeadTo(Now, d, k) => LeadTo(Now', d, k)
      BY <1>1 DEF LeadTo, Now
<1>8. ASSUME NEW k, PrimaryWins(k) PROVE PrimaryWins(k)'
      BY <1>1, <1>4, <1>7, <1>8, AsidePrimary
<1>9. ASSUME NEW s, NEW k, s = history.from, s # Primary,
             \A d \in Clients : d # s => Idle(d), ClientWins(s, k)
      PROVE  ClientWins(s, k)'
      <2>1. s = c
            BY <1>5, <1>9
      <2>2. Keeps(Now, s, k) =>
              /\ Keeps(Now', s, k)
              /\ Published(Now, s, k) => Published(Now', s, k)
            BY <1>1, <1>7, <2>1, AsideClient
      <2>3. Final(c, k) => Final(c, k)'
            <3> SUFFICES ASSUME Final(c, k) PROVE Final(c, k)'
                OBVIOUS
            <3>1. CASE \/ client[c].told > 0 \/ Unsent(c)
                       \/ client[c].outbox # <<>>
                  BY <1>1, <3>1 DEF Final, Unsent
            <3>2. CASE ~(\/ client[c].told > 0 \/ Unsent(c)
                         \/ client[c].outbox # <<>>)
                  <4>1. Latest(up[c]).type = "data" /\ Latest(up[c]).copy = k
                        BY <1>1, <3>2 DEF Final
                  <4>2. up'[c] = Tail(up[c])
                        BY <1>1, <1>3
                  <4> DEFINE S == UpMessages(0 .. spent.copies)
                  <4>3. up[c] \in Seq(S)
                        BY <1>3 DEF Ups
                  <4> HIDE DEF S
                  <4>4. IF Tail(up[c]) = <<>> THEN Latest(up[c]) = Head(up[c])
                        ELSE Latest(up[c]) = Latest(Tail(up[c]))
                        BY <1>1, <4>3, LatestTail
                  <4>5. CASE Tail(up[c]) # <<>>
                        BY <1>1, <3>2, <4>1, <4>2, <4>4, <4>5 DEF Final
                  <4>6. CASE Tail(up[c]) = <<>>
                        <5>1. proxy'[c].content = k /\ e.type = "changed"
                              BY <1>2, <4>1, <4>4, <4>6
                        <5>2. LastChanged(events', c)
                              BY <1>2, <1>3, <5>1, LastChangedAppend
                        <5> QED BY <1>1, <3>2, <4>2, <4>6, <5>1, <5>2 DEF Final
                  <4> QED BY <4>5, <4>6
            <3> QED BY <3>1, <3>2
      <2>4. EventOf(events', Primary) => EventOf(events, Primary)
            BY <1>3, <1>4
      <2>5. s \in Clients /\ (Final(s, k) => Final(s, k)')
            BY <2>1, <2>3
      <2> QED BY <1>1, <1>6, <1>9, <2>2, <2>4, <2>5, WinsKept
<1> QED BY <1>1, <1>6, <1>8, <1>9, LastKept

\* A client that shows its own copy reads nothing that changes it.
LEMMA NoneAfterTail ==
    ASSUME NEW S, NEW d \in Seq(S), d # <<>>, NoneAfter(d, 0)
    PROVE  ~Settles(Head(d)) /\ NoneAfter(Tail(d), 0)
<1> DEFINE r == Tail(d)
           n == Len(r)
<1>1. /\ n \in Nat /\ Len(d) = n + 1
      /\ \A i \in 1 .. n : r[i] = d[i + 1]
      BY HeadTailProperties, LenProperties
<1>2. Head(d) = d[1]
      OBVIOUS
<1> HIDE DEF r, n
<1>3. 1 \in 1 .. Len(d) /\ 1 > 0
      BY <1>1
<1>4. \A i \in 1 .. n : i + 1 \in 1 .. Len(d) /\ i + 1 > 0
      BY <1>1
<1>5. NoneAfter(r, 0)
      BY <1>1, <1>4 DEF NoneAfter, n
<1>6. ~Settles(d[1])
      BY <1>3 DEF NoneAfter
<1> QED BY <1>2, <1>5, <1>6 DEF r

\* A reading of a message that settles nothing keeps what a client has.
LEMMA ReadingKeeps ==
    ASSUME SharingTypeOK, NEW c \in Clients, Reading(c), proxy' = proxy, server' = server,
           NEW s \in Clients, NEW k, Keeps(Now, s, k),
           Head(down[c]).type = "data" /\ Head(down[c]).copy = k => clip'[c] = k
    PROVE  /\ Keeps(Now', s, k)
           /\ Published(Now, s, k) => Published(Now', s, k)
           /\ c = s => ~Settles(Head(down[c]))
<1>1. \A d \in Clients : LeadTo(Now, d, k) => LeadTo(Now', d, k)
      BY ReadingLeads
<1>2. clip'[Primary] = clip[Primary]
      BY Places DEF Reading
<1>3. NoneAfter(down[s], 0) /\ down[c] # <<>>
      BY DEF Keeps, Now, Reading
<1>4. c = s => ~Settles(Head(down[c])) /\ NoneAfter(Tail(down[c]), 0)
      <2> DEFINE S == DownMessages(0 .. spent.copies)
      <2>1. down[c] \in Seq(S)
            BY NowParts DEF Downs
      <2> HIDE DEF S
      <2> QED BY <1>3, <2>1, NoneAfterTail
<1>5. clip'[s] = clip[s] /\ NoneAfter(down'[s], 0)
      BY <1>3, <1>4, Places DEF Reading
<1> QED BY <1>1, <1>2, <1>4, <1>5, AsideClient

\* A computer reads a message,
LEMMA ComputerWins ==
    ASSUME SharingTypeOK, NEW c \in Computers, ComputerReceives(c), LastInv
    PROVE  LastInv'
<1>1. /\ SharingTypeOK' /\ OnlyClient(c) /\ LessOrderly /\ Reading(c)
      /\ Head(down[c]).type = "data" => clip'[c] = Head(down[c]).copy
      /\ client'[c].told = client[c].told
      /\ spent'.copies = spent.copies
      /\ spent'.fails = spent.fails
      /\ UNCHANGED <<server, proxy, events>>
      BY ComputerFacts
<1>2. \/ /\ ~client'[c].own /\ client'[c].outbox = client[c].outbox /\ up' = up
         /\ Settles(Head(down[c]))
      \/ /\ client'[c].own = client[c].own /\ client'[c].sent = client[c].sent
         /\ client'[c].data = client[c].data /\ clip'[c] = clip[c]
         /\ client'[c].outbox = client[c].outbox /\ up' = up
      \/ /\ client[c].own /\ (Unsent(c) \/ ~history'.orderly) /\ clip'[c] = clip[c]
         /\ \E k : SentBy(c, client[c], <<>>, k) /\ (history'.orderly => k = clip[c])
      BY ComputerFacts DEF Reading
<1>3. c \in Clients
      BY Places
<1>4. history'.orderly => \A d \in Clients : Idle(d) => Idle(d)'
      <2>1. history'.orderly /\ Idle(c) => Idle(c)'
            BY <1>1, <1>2 DEF Idle, Unsent
      <2>2. \A d \in Clients : d # c /\ Idle(d) => Idle(d)'
            BY <1>1, Places DEF Idle, Unsent, OnlyClient, Reading
      <2> QED BY <2>1, <2>2
<1>5. ASSUME NEW k, PrimaryWins(k) PROVE PrimaryWins(k)'
      <2>1. \A d \in Clients : LeadTo(Now, d, k) => LeadTo(Now', d, k)
            BY <1>1, <1>3, ReadingLeads
      <2>2. clip'[Primary] = clip[Primary]
            BY <1>1, <1>3, Places DEF Reading
      <2> QED BY <1>1, <1>5, <2>1, <2>2, AsidePrimary
<1>6. ASSUME NEW s, NEW k, history'.orderly, s = history.from, s # Primary,
             \A d \in Clients : d # s => Idle(d), ClientWins(s, k)
      PROVE  ClientWins(s, k)'
      <2>1. s \in Clients
            BY <1>6, TypeParts, Places DEF Histories
      <2>2. Keeps(Now, s, k) =>
              /\ Keeps(Now', s, k)
              /\ Published(Now, s, k) => Published(Now', s, k)
              /\ c = s => ~Settles(Head(down[c]))
            BY <1>1, <1>3, <2>1, ReadingKeeps
      <2>3. ASSUME ~Idle(s), Final(s, k) PROVE Final(s, k)'
            <3>1. Keeps(Now, s, k)
                  BY <1>6, <2>3 DEF ClientWins
            <3>2. CASE s # c
                  BY <1>1, <2>1, <2>3, <3>2, Places DEF Final, Unsent, OnlyClient, Reading
            <3>3. ASSUME s = c, client'[c].own = client[c].own,
                         client'[c].sent = client[c].sent, clip'[c] = clip[c],
                         client'[c].data = client[c].data,
                         client'[c].outbox = client[c].outbox, up' = up
                  PROVE  Final(s, k)'
                  BY <1>1, <2>3, <3>3 DEF Final, Unsent
            <3>4. ASSUME s = c, Unsent(c), clip'[c] = clip[c], NEW k1,
                         SentBy(c, client[c], <<>>, k1), k1 = clip[c]
                  PROVE  Final(s, k)'
                  <4>1. k1 = k
                        BY <3>1, <3>4 DEF Keeps, Now
                  <4>2. <<>> \in Seq(UpMessages(0 .. spent.copies))
                        OBVIOUS
                  <4>3. client[c].own /\ (~client[c].sent \/ client[c].data # clip'[c])
                        BY <3>4 DEF Unsent
                  <4> QED BY <1>3, <3>4, <4>1, <4>2, <4>3, SentFinal
            <3> QED BY <1>2, <1>6, <2>2, <3>1, <3>2, <3>3, <3>4
      <2>4. history'.refused = history.refused
            BY <1>1 DEF LessOrderly
      <2>5. EventOf(events', Primary) => EventOf(events, Primary)
            BY <1>1
      <2> QED BY <1>1, <1>4, <1>6, <2>1, <2>2, <2>3, <2>4, <2>5, WinsKept
<1> QED BY <1>1, <1>4, <1>5, <1>6, LastKept DEF LessOrderly

\* a phone does,
LEMMA PhoneWins ==
    ASSUME SharingTypeOK, NEW h \in Phones, PhoneReceives(h), LastInv
    PROVE  LastInv'
<1>1. /\ SharingTypeOK' /\ Reading(h)
      /\ Head(down[h]).type = "data" /\ Head(down[h]).copy # 0
           => clip'[h] = Head(down[h]).copy
      /\ \A d \in Clients : /\ client'[d].own = client[d].own
                            /\ client'[d].sent = client[d].sent
                            /\ client'[d].data = client[d].data
                            /\ client'[d].told = client[d].told
                            /\ client'[d].outbox = client[d].outbox
      /\ UNCHANGED <<server, proxy, up, events, history, spent>>
      BY PhoneFacts
<1>2. h \in Clients /\ ~client[h].own
      BY Places, TypeParts
<1>9. \A d \in Clients : Unsent(d)' <=> Unsent(d)
      BY <1>1, <1>2, Places DEF Unsent, Reading
<1>3. \A d \in Clients : Idle(d) => Idle(d)'
      BY <1>1, <1>9 DEF Idle
<1>4. ASSUME NEW k, PrimaryWins(k) PROVE PrimaryWins(k)'
      <2>1. k > 0 => k # 0
            OBVIOUS
      <2>2. k > 0 => \A d \in Clients : LeadTo(Now, d, k) => LeadTo(Now', d, k)
            BY <1>1, <1>2, <2>1, ReadingLeads
      <2>3. clip'[Primary] = clip[Primary]
            BY <1>1, <1>2, Places DEF Reading
      <2> QED BY <1>1, <1>4, <2>2, <2>3, AsidePrimary
<1>5. ASSUME NEW s, NEW k, s = history.from, s # Primary, ClientWins(s, k)
      PROVE  ClientWins(s, k)'
      <2>1. s \in Clients
            BY <1>5, TypeParts, Places DEF Histories
      <2>2. ASSUME Keeps(Now, s, k)
            PROVE  /\ Keeps(Now', s, k)
                   /\ Published(Now, s, k) => Published(Now', s, k)
            <3>1. k # 0
                  BY <2>2 DEF Keeps
            <3> QED BY <1>1, <1>2, <2>1, <2>2, <3>1, ReadingKeeps
      <2>3. Final(s, k) => Final(s, k)'
            BY <1>1, <1>9, <2>1 DEF Final
      <2> QED BY <1>1, <1>3, <1>5, <2>1, <2>2, <2>3, WinsKept
<1> QED BY <1>1, <1>3, <1>4, <1>5, LastKept

\* and the primary grabs without a new copy.
LEMMA EchoWins ==
    ASSUME SharingTypeOK, PrimaryEchoes, LastInv
    PROVE  LastInv'
<1>1. /\ SharingTypeOK' /\ LessOrderly /\ (history'.orderly => AloneAt(Primary))
      /\ \E e \in Event : events' = Append(events, e) /\ e.from = Primary
      /\ spent'.copies = spent.copies /\ spent'.fails = spent.fails
      /\ UNCHANGED <<clip, server, proxy, client, up, down>>
      BY EchoFacts
<1>2. \A s : EventOf(events', s) <=> EventOf(events, s) \/ s = Primary
      BY <1>1, TypeParts, EventsAppend
<1>3. \A d \in Clients : d # Primary
      BY Places
<1>4. \A d \in Clients : Idle(d) => Idle(d)'
      BY <1>1, <1>2, <1>3 DEF Idle, Unsent
<1>5. \A k : \A d \in Clients : LeadTo(Now, d, k) => LeadTo(Now', d, k)
      BY <1>1 DEF LeadTo, Now
<1>6. ASSUME NEW k, PrimaryWins(k) PROVE PrimaryWins(k)'
      BY <1>1, <1>2, <1>5, <1>6, AsidePrimary
<1>7. ASSUME NEW s, NEW k, history'.orderly, s = history.from, s # Primary, ClientWins(s, k)
      PROVE  ClientWins(s, k)'
      <2>1. s \in Clients
            BY <1>7, TypeParts, Places DEF Histories
      <2>2. Idle(s)
            <3>1. ~Underway(s)
                  BY <1>1, <1>7, <2>1, Places DEF AloneAt
            <3> QED BY <2>1, <3>1, IdleUnderway
      <2>3. Keeps(Now, s, k) =>
              /\ Keeps(Now', s, k)
              /\ Published(Now, s, k) => Published(Now', s, k)
            BY <1>1, <1>5, AsideClient
      <2>4. history'.refused = history.refused
            BY <1>1 DEF LessOrderly
      <2> QED BY <1>1, <1>4, <1>7, <2>1, <2>2, <2>3, <2>4, WinsKept
<1> QED BY <1>1, <1>4, <1>6, <1>7, LastKept DEF LessOrderly

-----------------------------------------------------------------------------
(* The server's handlers.                                                  *)

\* A reading of the primary that shows k: it is published, or was, or the reading
\* failed and changed nothing.
LEMMA ReadShown ==
    ASSUME NEW old, NEW new, ReadOutcome(old, new), NEW k, old.clip[Primary] = k,
           k > 0 /\ old.srv.data = k => \A s \in Clients : LeadTo(old, s, k)
    PROVE  /\ new.clip[Primary] = k
           /\ k > 0 /\ new.srv.data = k => \A s \in Clients : LeadTo(new, s, k)
           /\ \/ k = 0 \/ new.srv.data = k
              \/ new.spent.fails = old.spent.fails + 1 /\ SameRecords(old, new)
<1>1. CASE SameRecords(old, new)
      <2>1. /\ new.px = old.px /\ new.dn = old.dn
            /\ new.srv.data = old.srv.data /\ new.clip = old.clip
            BY <1>1 DEF SameRecords
      <2>2. \A s : LeadTo(old, s, k) => LeadTo(new, s, k)
            BY <2>1 DEF LeadTo
      <2>3. k = 0 \/ old.srv.data = k \/ new.spent.fails = old.spent.fails + 1
            BY <2>1 DEF ReadOutcome, PushedToAll
      <2> QED BY <1>1, <2>1, <2>2, <2>3
<1>2. CASE PushedToAll(old, new, Primary, k)
      <2>1. new.clip = old.clip /\ \A c \in Clients : c # Primary
            BY Places DEF ReadOutcome
      <2> QED BY <1>2, <2>1 DEF PushedToAll, LeadTo
<1> QED BY <1>1, <1>2 DEF ReadOutcome

\* A reading that shows nothing, or what is known, publishes nothing.
LEMMA ReadNothing ==
    ASSUME NEW old, NEW new, ReadOutcome(old, new), old.clip[Primary] \in {0, old.srv.data}
    PROVE  SameRecords(old, new)
BY DEF ReadOutcome

\* Keeps and Published depend on these.
LEMMA SameKeeps ==
    ASSUME NEW old, NEW new, SameRecords(old, new), new.srv.owner = old.srv.owner,
           NEW s, NEW k, Keeps(old, s, k),
           old.srv.owner # Primary => new.srv.cache = old.srv.cache, s # Primary
    PROVE  /\ Keeps(new, s, k)
           /\ Published(old, s, k) => Published(new, s, k)
<1>1. /\ new.px = old.px /\ new.dn = old.dn
      /\ new.srv.data = old.srv.data /\ new.clip = old.clip
      BY DEF SameRecords
<1>2. Keeps(new, s, k)
      BY <1>1 DEF Keeps
<1>3. \A d : LeadTo(old, d, k) => LeadTo(new, d, k)
      BY <1>1 DEF LeadTo
<1>4. Published(old, s, k) => Published(new, s, k)
      BY <1>1, <1>3 DEF Published
<1> QED BY <1>2, <1>4

\* What is final stays so, unless the event of the copy has just been handled.
LEMMA FinalTail ==
    ASSUME SharingTypeOK, events # <<>>, events' = Tail(events), client' = client, up' = up,
           NEW s \in Clients, NEW k, Final(s, k), proxy'[s].content = proxy[s].content,
           clip'[s] = clip[s]
    PROVE  \/ Final(s, k)'
           \/ /\ Idle(s)' /\ proxy[s].content = k
              /\ Head(events).from = s /\ Head(events).type = "changed"
<1>1. events \in Seq(Event) /\ client[s].told \in Nat
      <2>1. client[s] \in Records(spent.copies) /\ spent.copies \in Nat
            BY TypeParts
      <2>2. client[s].told \in 0 .. spent.copies
            BY <2>1 DEF Records
      <2> QED BY <2>1, <2>2, TypeParts
<1>4. Unsent(s)' <=> Unsent(s)
      BY DEF Unsent
<1>2. CASE \/ client[s].told > 0 \/ Unsent(s)
           \/ client[s].outbox # <<>> \/ up[s] # <<>>
      BY <1>2, <1>4 DEF Final
<1>3. CASE ~(\/ client[s].told > 0 \/ Unsent(s)
             \/ client[s].outbox # <<>> \/ up[s] # <<>>)
      <2>1. proxy[s].content = k /\ LastChanged(events, s)
            BY <1>3 DEF Final
      <2>2. client[s].told = 0
            BY <1>1, <1>3
      <2>3. CASE LastChanged(Tail(events), s)
            BY <1>3, <2>1, <2>3 DEF Final
      <2>4. CASE /\ Head(events).from = s /\ Head(events).type = "changed"
                 /\ ~EventOf(Tail(events), s)
            BY <1>3, <1>4, <2>1, <2>2, <2>4 DEF Idle
      <2> QED BY <1>1, <2>1, <2>3, <2>4, LastChangedTail
<1> QED BY <1>2, <1>3

\* The server handles an event,
LEMMA DispatchWins ==
    ASSUME SharingTypeOK, SharingTypeOK', DispatchEvent, LastInv
    PROVE  LastInv'
<1> DEFINE e == Head(events)
<1>1. /\ events # <<>> /\ e \in Event /\ Now' \in States(spent.copies)
      /\ Dispatched(Now, Now', e)
      /\ history' = [history EXCEPT !.source = Now'.source, !.refused = RefusedAfter(e)]
      /\ events' = Tail(events) /\ client' = client /\ up' = up
      BY DispatchFacts
<1>2. /\ events \in Seq(Event) /\ history \in Histories(spent.copies)
      /\ Now \in States(spent.copies) /\ spent.copies \in Nat
      BY TypeParts
<1>3. /\ history'.refused = RefusedAfter(e)
      /\ history'.from = history.from /\ history'.copy = history.copy
      /\ history'.orderly = history.orderly
      BY <1>1, <1>2 DEF Histories
<1>4. spent'.copies = spent.copies
      BY <1>1, SpentOf
<1>5. \A s : EventOf(events, s) <=> e.from = s \/ EventOf(events', s)
      BY <1>1, <1>2, EventsTail
<1>12. \A d \in Clients : clip'[d] = clip[d]
       <2>1. Afresh(Now).clip = Now.clip
             BY <1>2, AfreshFacts
       <2> QED BY <1>1, <2>1 DEF Dispatched, GrabbedByPrimary, ReadOutcome, GrabbedByClient,
                                 ReadClient, SameRecords, PushedToAll, Now
<1>6. \A d \in Clients : Idle(d) => Idle(d)' /\ e.from # d
      BY <1>1, <1>5, <1>12 DEF Idle, Unsent
<1>7. /\ e.from \in Screens /\ e.type \in {"grabbed", "changed"}
      /\ e.type = "changed" => e.from \in Clients
      BY <1>1, EventParts
<1>8. /\ Now.srv = server /\ Now'.srv = server' /\ Now.clip = clip /\ Now'.clip = clip'
      /\ Now.px = proxy /\ Now'.px = proxy' /\ Now.dn = down /\ Now'.dn = down'
      /\ Now.spent = spent /\ Now'.spent = spent'
      BY DEF Now
<1> HIDE DEF e
<1>9. e.from = Primary => /\ ~Stale(e) /\ e.type = "grabbed" /\ GrabbedByPrimary(Now, Now')
      BY <1>1, <1>7, Places DEF Stale, Dispatched
<1>10. ASSUME NEW k, \A d \in Clients : Idle(d), PrimaryWins(k)
       PROVE  PrimaryWins(k)'
      <2>1. e.from = Primary
            BY <1>6, <1>7, <1>10, Places
      <2>2. /\ ReadOutcome(Afresh(Now), Now') /\ Now'.srv.owner = Primary
            /\ Now'.srv.seq = Now'.srv.retrySeq /\ Now'.srv.retry = Retries
            BY <1>9, <2>1 DEF GrabbedByPrimary
      <2>3. PrimaryShown(Now, events, k)
            BY <1>10 DEF PrimaryWins
      <2>4. /\ Now'.clip[Primary] = k
            /\ k > 0 /\ Now'.srv.data = k => \A s \in Clients : LeadTo(Now', s, k)
            /\ k = 0 \/ Now'.srv.data = k \/ Now'.spent.fails = 1
            <3> DEFINE fresh == Afresh(Now)
            <3>1. /\ fresh.clip = Now.clip /\ fresh.dn = Now.dn /\ fresh.px = Now.px
                  /\ fresh.srv = Now.srv /\ fresh.spent.fails = 0
                  BY <1>2, AfreshFacts
            <3> HIDE DEF fresh
            <3>2. /\ fresh.clip[Primary] = k
                  /\ k > 0 /\ fresh.srv.data = k => \A s \in Clients : LeadTo(fresh, s, k)
                  BY <2>3, <3>1 DEF PrimaryShown, LeadTo
            <3>3. fresh.spent.fails + 1 = 1
                  BY <3>1
            <3>4. ReadOutcome(fresh, Now')
                  BY <2>2 DEF fresh
            <3> QED BY <3>2, <3>3, <3>4, ReadShown
      <2>5. Now'.spent.fails = 1 => Unread(Now')
            <3>1. Now'.spent.fails = 1 => Now'.spent.fails + Now'.srv.retry > Retries
                  BY <2>2, Bounds
            <3> QED BY <2>2, <3>1 DEF Unread
      <2>6. PrimaryShown(Now', events', k)
            BY <2>2, <2>4, <2>5 DEF PrimaryShown
      <2> QED BY <2>6 DEF PrimaryWins
<1>11. ASSUME NEW s, NEW k, s = history.from, s # Primary,
              \A d \in Clients : d # s => Idle(d), ClientWins(s, k)
       PROVE  ClientWins(s, k)'
      <2>1. s \in Clients
            BY <1>2, <1>11, Places DEF Histories
      <2>2. e.from \in {s, Primary}
            BY <1>6, <1>7, <1>11, Places
      <2>3. CASE e.from = Primary
            <3>1. Idle(s)
                  BY <1>5, <1>11, <2>3 DEF ClientWins
            <3>2. history'.refused = history.refused
                  BY <1>3, <1>9, <2>3 DEF RefusedAfter
            <3>3. ASSUME s \notin history.refused
                  PROVE  Keeps(Now', s, k) /\ Published(Now', s, k)
                  <4>1. Keeps(Now, s, k) /\ Published(Now, s, k)
                        BY <1>11, <3>1, <3>3 DEF ClientWins
                  <4> DEFINE fresh == Afresh(Now)
                  <4>2. ReadOutcome(fresh, Now') /\ Now'.srv.owner = Primary
                        BY <1>9, <2>3 DEF GrabbedByPrimary
                  <4>7. /\ fresh.clip = Now.clip /\ fresh.dn = Now.dn /\ fresh.px = Now.px
                        /\ fresh.srv = Now.srv /\ fresh.source = Now.source
                        BY <1>2, AfreshFacts
                  <4> HIDE DEF fresh
                  <4>3. SameRecords(Now, Now')
                        <5>1. SameRecords(fresh, Now')
                              BY <4>1, <4>2, <4>7, ReadNothing DEF Published
                        <5> QED BY <4>7, <5>1 DEF SameRecords
                  <4>4. /\ Now'.px = Now.px /\ Now'.dn = Now.dn
                        /\ Now'.srv.data = Now.srv.data /\ Now'.clip = Now.clip
                        BY <4>3 DEF SameRecords
                  <4>5. Keeps(Now', s, k)
                        BY <4>1, <4>4 DEF Keeps, Published
                  <4>6. Published(Now', s, k)
                        BY <1>11, <4>1, <4>2, <4>4 DEF Published, LeadTo
                  <4> QED BY <4>5, <4>6
            <3> QED BY <1>6, <2>1, <3>1, <3>2, <3>3 DEF ClientWins
      <2>4. CASE e.from = s
            <3>1. ~Idle(s)
                  BY <1>6, <2>1, <2>4
            <3>2. Keeps(Now, s, k) /\ ~EventOf(events, Primary) /\ Final(s, k)
                  BY <1>11, <3>1 DEF ClientWins
            <3>3. ~EventOf(events', Primary)
                  BY <1>5, <3>2
            <3>4. \/ Stale(e) /\ Now' = Now
                  \/ e.type = "grabbed" /\ GrabbedByClient(Now, Now', s)
                  \/ ~Stale(e) /\ e.type = "changed" /\ ReadClient(Now, Now', s)
                  BY <1>1, <1>11, <2>4 DEF Dispatched
            <3>5. Keeps(Now', s, k) /\ Now'.px[s].content = Now.px[s].content
                  <4>1. CASE Now' = Now
                        BY <3>2, <4>1
                  <4>2. CASE GrabbedByClient(Now, Now', s)
                        BY <1>11, <2>1, <3>2, <4>2 DEF GrabbedByClient, Keeps
                  <4>3. CASE ReadClient(Now, Now', s)
                        <5>1. Now'.srv.owner = s
                              BY <4>3 DEF ReadClient
                        <5>2. /\ Now'.clip[s] = Now.clip[s] /\ Now'.dn[s] = Now.dn[s]
                              /\ Now'.px[s].outbox = Now.px[s].outbox
                              /\ Now'.px[s].content = Now.px[s].content
                              BY <2>1, <4>3 DEF ReadClient, SameRecords, PushedToAll
                        <5> QED BY <1>11, <3>2, <5>1, <5>2 DEF Keeps
                  <4> QED BY <3>4, <4>1, <4>2, <4>3
            <3>6. \/ Final(s, k)'
                  \/ Idle(s)' /\ proxy[s].content = k /\ e.type = "changed"
                  <4>1. proxy'[s].content = proxy[s].content
                        BY <1>8, <3>5
                  <4> QED BY <1>1, <1>12, <2>1, <3>2, <4>1, FinalTail DEF e
            <3>7. Final(s, k)' => ~Idle(s)'
                  BY <2>1, FinalNotIdleNext
            <3>8. CASE Final(s, k)'
                  BY <3>3, <3>5, <3>7, <3>8 DEF ClientWins
            <3>9. CASE Idle(s)' /\ proxy[s].content = k /\ e.type = "changed"
                  <4>1. CASE Stale(e)
                        <5>1. s \in history'.refused
                              BY <1>3, <2>4, <4>1 DEF RefusedAfter
                        <5> QED BY <3>9, <5>1 DEF ClientWins
                  <4>2. CASE ~Stale(e)
                        <5>1. ReadClient(Now, Now', s)
                              BY <3>4, <3>9, <4>2
                        <5>2. k # 0 /\ Now.px[s].content = k
                              BY <1>8, <3>2, <3>9 DEF Keeps
                        <5>3. /\ PushedToAll(Now, Now', s, k) /\ Now'.clip[Primary] = k
                              /\ Now'.srv.owner = s
                              BY <5>1, <5>2 DEF ReadClient
                        <5>4. Published(Now', s, k)
                              BY <5>3 DEF PushedToAll, Published, LeadTo
                        <5> QED BY <3>5, <3>9, <5>4 DEF ClientWins
                  <4> QED BY <4>1, <4>2
            <3> QED BY <3>6, <3>8, <3>9
      <2> QED BY <2>2, <2>3, <2>4
<1> QED BY <1>3, <1>4, <1>6, <1>10, <1>11, LastKept

\* a retry.
LEMMA RetryWins ==
    ASSUME SharingTypeOK, SharingTypeOK', RetryFires, LastInv
    PROVE  LastInv'
<1>1. /\ Now' \in States(spent.copies) /\ Retried(Now, Now')
      /\ history' = [history EXCEPT !.source = Now'.source]
      /\ events' = events /\ client' = client /\ up' = up
      BY RetryFacts
<1>2. /\ Now \in States(spent.copies) /\ spent.copies \in Nat
      /\ history \in Histories(spent.copies)
      BY TypeParts
<1>3. /\ history'.refused = history.refused
      /\ history'.from = history.from /\ history'.copy = history.copy
      /\ history'.orderly = history.orderly
      BY <1>1, <1>2 DEF Histories
<1>4. spent'.copies = spent.copies
      BY <1>1, SpentOf
<1>9. \A d \in Clients : Unsent(d)' <=> Unsent(d)
      BY <1>1 DEF Unsent, Retried, ReadOutcome, Still, SameRecords, Now
<1>5. \A d \in Clients : Idle(d) => Idle(d)'
      BY <1>1, <1>9 DEF Idle
<1>6. /\ Now'.srv.owner = Now.srv.owner /\ Now'.srv.seq = Now.srv.seq
      /\ Now'.srv.retrySeq = Now.srv.retrySeq
      /\ \/ /\ Now.srv.owner = Primary /\ Now.srv.seq = Now.srv.retrySeq
            /\ ReadOutcome(Now, Now') /\ Now'.srv.retry = Now.srv.retry - 1
         \/ /\ ~(Now.srv.owner = Primary /\ Now.srv.seq = Now.srv.retrySeq)
            /\ Still(Now, Now')
      BY <1>1 DEF Retried
<1>7. ASSUME NEW k, PrimaryWins(k) PROVE PrimaryWins(k)'
      <2>1. PrimaryShown(Now, events, k)
            BY <1>7 DEF PrimaryWins
      <2>2. CASE /\ Now.srv.owner = Primary /\ Now.srv.seq = Now.srv.retrySeq
                 /\ ReadOutcome(Now, Now') /\ Now'.srv.retry = Now.srv.retry - 1
            <3>1. /\ Now'.clip[Primary] = k
                  /\ k > 0 /\ Now'.srv.data = k => \A s \in Clients : LeadTo(Now', s, k)
                  /\ \/ k = 0 \/ Now'.srv.data = k
                     \/ Now'.spent.fails = Now.spent.fails + 1 /\ SameRecords(Now, Now')
                  BY <2>1, <2>2, ReadShown DEF PrimaryShown
            <3>2. Now'.spent.fails = Now.spent.fails + 1 /\ Unread(Now) => Unread(Now')
                  <4>1. Now.spent.fails \in Nat /\ Now.srv.retry \in Nat
                        BY <1>2, DataParts
                  <4>2. Now'.spent.fails = Now.spent.fails + 1 =>
                          Now'.spent.fails + Now'.srv.retry = Now.spent.fails + Now.srv.retry
                        BY <2>2, <4>1
                  <4> QED BY <1>6, <4>2 DEF Unread
            <3>3. PrimaryShown(Now', events, k)
                  BY <1>6, <2>1, <3>1, <3>2 DEF PrimaryShown, SameRecords
            <3> QED BY <1>1, <3>3 DEF PrimaryWins
      <2>3. CASE /\ ~(Now.srv.owner = Primary /\ Now.srv.seq = Now.srv.retrySeq)
                 /\ Still(Now, Now')
            <3>1. ~Unread(Now)
                  BY <2>3 DEF Unread
            <3>2. /\ Now'.px = Now.px /\ Now'.dn = Now.dn
                  /\ Now'.srv.data = Now.srv.data /\ Now'.clip = Now.clip
                  BY <2>3 DEF Still, SameRecords
            <3>3. \A d : LeadTo(Now, d, k) => LeadTo(Now', d, k)
                  BY <3>2 DEF LeadTo
            <3>4. PrimaryShown(Now', events, k)
                  BY <1>6, <2>1, <3>1, <3>2, <3>3 DEF PrimaryShown
            <3> QED BY <1>1, <3>4 DEF PrimaryWins
      <2> QED BY <1>6, <2>2, <2>3
<1>8. ASSUME NEW s, NEW k, s = history.from, s # Primary, ClientWins(s, k)
      PROVE  ClientWins(s, k)'
      <2>1. s \in Clients
            BY <1>2, <1>8, Places DEF Histories
      <2>2. ASSUME Keeps(Now, s, k)
            PROVE  /\ SameRecords(Now, Now')
                   /\ Keeps(Now', s, k)
                   /\ Published(Now, s, k) => Published(Now', s, k)
            <3>1. SameRecords(Now, Now')
                  BY <1>6, <2>2, ReadNothing DEF Keeps, Still
            <3>2. Now.srv.owner # Primary => Now'.srv.cache = Now.srv.cache
                  BY <1>6 DEF Still
            <3> QED BY <1>6, <1>8, <2>2, <3>1, <3>2, SameKeeps
      <2>3. ~Idle(s) /\ Final(s, k) => Final(s, k)'
            <3> SUFFICES ASSUME ~Idle(s), Final(s, k) PROVE Final(s, k)'
                OBVIOUS
            <3>1. Keeps(Now, s, k)
                  BY <1>8 DEF ClientWins
            <3>2. proxy' = proxy
                  BY <2>2, <3>1 DEF SameRecords, Now
            <3> QED BY <1>1, <1>9, <2>1, <3>2 DEF Final
      <2> QED BY <1>1, <1>3, <1>5, <1>8, <2>1, <2>2, <2>3, WinsKept
<1> QED BY <1>3, <1>4, <1>5, <1>7, <1>8, LastKept

\* The other clipboard takes the timer.
LEMMA OtherWins ==
    ASSUME SharingTypeOK, OtherGrabbed, LastInv PROVE LastInv'
<1>1. /\ SharingTypeOK' /\ spent'.copies = spent.copies
      /\ server'.owner = server.owner
      /\ server'.cache = server.cache /\ server'.data = server.data
      /\ UNCHANGED <<clip, proxy, client, up, down, events, history>>
      BY OtherFacts
<1>2. /\ Now.srv = server /\ Now'.srv = server' /\ Now.clip = clip /\ Now'.clip = clip'
      /\ Now.px = proxy /\ Now'.px = proxy' /\ Now.dn = down /\ Now'.dn = down'
      BY DEF Now
<1>3. \A d \in Clients : Idle(d) => Idle(d)'
      BY <1>1 DEF Idle, Unsent
<1>4. \A k : \A d : LeadTo(Now, d, k) => LeadTo(Now', d, k)
      BY <1>1, <1>2 DEF LeadTo
<1>5. ASSUME NEW k, PrimaryWins(k) PROVE PrimaryWins(k)'
      <2>1. PrimaryShown(Now, events, k)
            BY <1>5 DEF PrimaryWins
      <2>2. PrimaryShown(Now', events', k)
            BY <1>1, <1>2, <1>4, <2>1, OtherUnread DEF PrimaryShown
      <2> QED BY <2>2 DEF PrimaryWins
<1>6. ASSUME NEW s, NEW k, s = history.from, s # Primary, ClientWins(s, k)
      PROVE  ClientWins(s, k)'
      <2>1. s \in Clients
            BY <1>6, TypeParts, Places DEF Histories
      <2>2. Keeps(Now, s, k) => Keeps(Now', s, k)
            BY <1>1, <1>2 DEF Keeps
      <2>3. Published(Now, s, k) => Published(Now', s, k)
            BY <1>1, <1>2, <1>4 DEF Published
      <2>4. Final(s, k) => Final(s, k)'
            BY <1>1, <2>1 DEF Final, Unsent
      <2> QED BY <1>1, <1>3, <1>6, <2>1, <2>2, <2>3, <2>4, WinsKept
<1> QED BY <1>1, <1>3, <1>5, <1>6, LastKept

\* The reading before a switch keeps what leads to the primary's copy,
LEMMA RefreshShown ==
    ASSUME NEW K \in Nat, NEW old \in States(K), NEW new \in States(K),
           Refreshes(old, new), NEW evs, NEW k, PrimaryShown(old, evs, k)
    PROVE  PrimaryShown(new, evs, k)
<1>1. /\ new.srv.retry = old.srv.retry /\ new.srv.retrySeq = old.srv.retrySeq
      /\ new.srv.owner = old.srv.owner /\ new.srv.seq = old.srv.seq
      BY DEF Refreshes, SameFocus
<1>2. old.spent.fails \in Nat /\ old.srv.retry \in Nat
      BY DataParts
<1>3. CASE ReadOutcome(old, new)
      <2>1. /\ new.clip[Primary] = k
            /\ k > 0 /\ new.srv.data = k => \A s \in Clients : LeadTo(new, s, k)
            /\ \/ k = 0 \/ new.srv.data = k
               \/ new.spent.fails = old.spent.fails + 1 /\ SameRecords(old, new)
            BY <1>3, ReadShown DEF PrimaryShown
      <2>2. new.spent.fails = old.spent.fails + 1 /\ Unread(old) => Unread(new)
            <3>1. new.spent.fails = old.spent.fails + 1
                    /\ old.spent.fails + old.srv.retry > Retries
                    => new.spent.fails + new.srv.retry > Retries
                  BY <1>1, <1>2, Bounds
            <3> QED BY <1>1, <3>1 DEF Unread
      <2> QED BY <1>1, <2>1, <2>2 DEF PrimaryShown, SameRecords
<1>4. CASE Still(old, new)
      <2>1. /\ new.px = old.px /\ new.dn = old.dn
            /\ new.srv.data = old.srv.data /\ new.clip = old.clip
            /\ new.spent.fails = old.spent.fails
            BY <1>4 DEF Still, SameRecords
      <2>2. \A d : LeadTo(old, d, k) => LeadTo(new, d, k)
            BY <2>1 DEF LeadTo
      <2>3. Unread(old) => Unread(new)
            BY <1>1, <2>1 DEF Unread
      <2> QED BY <1>1, <2>1, <2>2, <2>3 DEF PrimaryShown
<1> QED BY <1>3, <1>4 DEF Refreshes

\* The clients are led to the same after a switch while what was published is known.
LEMMA EnterLeads ==
    ASSUME NEW old, NEW new, NEW dst, EntersFrom(old, new, dst), ProxiesClean(old),
           old.srv.data > 0, NEW c \in Clients
    PROVE  /\ Undisturbed(old, new, c)
           /\ \A k : LeadTo(old, c, k) => LeadTo(new, c, k)
<1>1. ~old.px[c].dirty
      BY DEF ProxiesClean
<1>2. Undisturbed(old, new, c) /\ new.clip[c] = old.clip[c]
      BY <1>1 DEF EntersFrom
<1> QED BY <1>2 DEF Undisturbed, LeadTo

\* and so does the entering.
LEMMA EnterShown ==
    ASSUME NEW old, NEW new, NEW dst, EntersFrom(old, new, dst), ProxiesClean(old),
           NEW evs, NEW k, PrimaryShown(old, evs, k),
           dst = Primary => /\ ~EventOf(evs, Primary)
                            /\ old.srv.owner = Primary => old.srv.cache = old.clip[Primary]
    PROVE  PrimaryShown(new, evs, k)
<1>1. /\ new.srv.owner = old.srv.owner /\ new.srv.seq = old.srv.seq
      /\ new.srv.data = old.srv.data
      /\ new.srv.retry = old.srv.retry /\ new.srv.retrySeq = old.srv.retrySeq
      /\ new.spent = old.spent
      /\ new.clip[Primary] = IF dst = Primary THEN old.srv.cache ELSE old.clip[Primary]
      BY DEF EntersFrom, SameServer
<1>2. new.clip[Primary] = k
      BY <1>1 DEF PrimaryShown
<1>3. k > 0 /\ new.srv.data = k => \A s \in Clients : LeadTo(new, s, k)
      BY <1>1, EnterLeads DEF PrimaryShown
<1>4. Unread(old) => Unread(new)
      BY <1>1 DEF Unread
<1> QED BY <1>1, <1>2, <1>3, <1>4 DEF PrimaryShown

\* The reading before a switch keeps what leads to a client's copy,
LEMMA RefreshKeeps ==
    ASSUME NEW old, NEW new, Refreshes(old, new), NEW s, NEW k, s # Primary, Keeps(old, s, k)
    PROVE  /\ SameRecords(old, new) /\ Keeps(new, s, k)
           /\ Published(old, s, k) => Published(new, s, k)
<1>1. new.srv.owner = old.srv.owner
      BY DEF Refreshes
<1>2. SameRecords(old, new)
      BY ReadNothing DEF Refreshes, Keeps, Still
<1>3. old.srv.owner # Primary => new.srv.cache = old.srv.cache
      BY DEF Refreshes, Still
<1> QED BY <1>1, <1>2, <1>3, SameKeeps

\* and so does the entering.
LEMMA EnterKeeps ==
    ASSUME NEW old, NEW new, NEW dst, EntersFrom(old, new, dst), NEW s \in Clients, NEW k,
           CacheFits(old), ProxiesClean(old), Keeps(old, s, k),
           s = dst => Published(old, s, k),
           dst = Primary => (old.srv.owner = Primary => old.srv.cache = old.clip[Primary])
    PROVE  /\ new.px[s] = old.px[s] /\ Keeps(new, s, k)
           /\ Published(old, s, k) => Published(new, s, k)
<1>1. /\ new.srv.owner = old.srv.owner
      /\ new.srv.cache = old.srv.cache /\ new.srv.data = old.srv.data
      /\ \A c \in Clients : new.clip[c] = old.clip[c]
      /\ new.clip[Primary] = IF dst = Primary THEN old.srv.cache ELSE old.clip[Primary]
      BY DEF EntersFrom, SameServer
<1>2. k > 0 /\ s # Primary
      BY Places DEF Keeps
<1>3. Undisturbed(old, new, s)
      <2>1. CASE s # dst
            BY <2>1 DEF EntersFrom
      <2>2. CASE s = dst
            <3>1. old.srv.data > 0
                  BY <1>2, <2>2 DEF Published
            <3> QED BY <3>1, EnterLeads
      <2> QED BY <2>1, <2>2
<1>4. new.px[s] = old.px[s] /\ NoneAfter(new.dn[s], 0)
      BY <1>3 DEF Undisturbed, Keeps
<1>5. Keeps(new, s, k)
      BY <1>1, <1>4 DEF Keeps, CacheFits
<1>6. ASSUME Published(old, s, k) PROVE Published(new, s, k)
      <2>1. old.srv.data > 0 /\ \A d \in Clients : d # s => LeadTo(old, d, k)
            BY <1>2, <1>6 DEF Published
      <2>2. \A d \in Clients : d # s => LeadTo(new, d, k)
            BY <2>1, EnterLeads
      <2>3. new.clip[Primary] = k
            BY <1>1, <1>6 DEF Published
      <2> QED BY <1>1, <1>6, <2>2, <2>3 DEF Published
<1> QED BY <1>4, <1>5, <1>6

\* The server switches screens.
LEMMA SwitchWins ==
    ASSUME SharingTypeOK, SharingTypeOK', NEW dst \in Screens, SwitchScreen(dst),
           FollowInv, LastInv
    PROVE  LastInv'
<1>1. PICK st \in States(spent.copies) :
        /\ dst # server.active /\ Refreshes(Now, st) /\ Now' \in States(spent.copies)
        /\ EntersFrom(st, Now', dst) \/ Now' = st
        /\ history' = [history EXCEPT !.source = Now'.source,
                                      !.orderly = @ /\ ~Underway(dst)]
        /\ events' = events /\ client' = client /\ up' = up
      BY SwitchFacts
<1>2. /\ Now \in States(spent.copies) /\ spent.copies \in Nat
      /\ history \in Histories(spent.copies)
      BY TypeParts
<1>3. /\ history'.refused = history.refused
      /\ history'.from = history.from /\ history'.copy = history.copy
      /\ history'.orderly => history.orderly /\ ~Underway(dst)
      BY <1>1, <1>2 DEF Histories
<1>4. spent'.copies = spent.copies
      BY <1>1, SpentOf
<1>10. \A d \in Clients : Unsent(d)' <=> Unsent(d)
       BY <1>1 DEF Unsent, Refreshes, ReadOutcome, Still, SameRecords, EntersFrom, Now
<1>5. \A d \in Clients : Idle(d) <=> Idle(d)'
      BY <1>1, <1>10 DEF Idle
<1>6. CacheFits(st) /\ ProxiesClean(st)
      BY <1>1, <1>2, RefreshFollows DEF FollowInv, Follows
<1>7. ASSUME history'.orderly, dst = Primary
      PROVE  /\ ~EventOf(events, Primary)
             /\ st.srv.owner = Primary => st.srv.cache = st.clip[Primary]
      <2>1. /\ ~EventOf(events, Primary)
            /\ server.owner = Primary => server.cache = clip[Primary]
            BY <1>3, <1>7, PrimaryAtRest
      <2>2. Still(Now, st) /\ st.srv.owner = Now.srv.owner
            BY <1>1, <1>7 DEF Refreshes, Now
      <2>3. st.srv.cache = server.cache /\ st.clip = clip /\ st.srv.owner = server.owner
            BY <2>2 DEF Still, SameRecords, Now
      <2> QED BY <2>1, <2>3
<1>8. ASSUME NEW k, history'.orderly, PrimaryWins(k) PROVE PrimaryWins(k)'
      <2>1. PrimaryShown(st, events, k)
            BY <1>1, <1>2, <1>8, RefreshShown DEF PrimaryWins
      <2>2. PrimaryShown(Now', events, k)
            BY <1>1, <1>6, <1>7, <1>8, <2>1, EnterShown
      <2> QED BY <1>1, <2>2 DEF PrimaryWins
<1>9. ASSUME NEW s, NEW k, history'.orderly, s = history.from, s # Primary, ClientWins(s, k)
      PROVE  ClientWins(s, k)'
      <2>1. s \in Clients
            BY <1>2, <1>9, Places DEF Histories
      <2>2. s = dst => Idle(s)
            BY <1>3, <1>9, <2>1, IdleUnderway
      <2>3. ASSUME Keeps(Now, s, k), s = dst => Published(Now, s, k)
            PROVE  /\ Now'.px[s] = Now.px[s] /\ Keeps(Now', s, k)
                   /\ Published(Now, s, k) => Published(Now', s, k)
            <3>1. /\ SameRecords(Now, st) /\ Keeps(st, s, k)
                  /\ Published(Now, s, k) => Published(st, s, k)
                  BY <1>1, <1>9, <2>3, RefreshKeeps
            <3>2. CASE Now' = st
                  BY <3>1, <3>2 DEF SameRecords
            <3>3. CASE EntersFrom(st, Now', dst)
                  <4>1. /\ Now'.px[s] = st.px[s] /\ Keeps(Now', s, k)
                        /\ Published(st, s, k) => Published(Now', s, k)
                        BY <1>6, <1>7, <1>9, <2>1, <2>3, <3>1, <3>3, EnterKeeps
                  <4> QED BY <3>1, <4>1 DEF SameRecords
            <3> QED BY <1>1, <3>2, <3>3
      <2>4. CASE Idle(s)
            BY <1>3, <1>5, <1>9, <2>1, <2>3, <2>4 DEF ClientWins
      <2>5. CASE ~Idle(s)
            <3>1. Keeps(Now, s, k) /\ ~EventOf(events, Primary) /\ Final(s, k) /\ s # dst
                  BY <1>9, <2>2, <2>5 DEF ClientWins
            <3>2. proxy'[s] = proxy[s] /\ Keeps(Now', s, k)
                  BY <2>3, <3>1 DEF Now
            <3>3. Final(s, k)'
                  BY <1>1, <1>10, <2>1, <3>1, <3>2 DEF Final
            <3>4. ~Idle(s)'
                  BY <1>5, <2>1, <2>5
            <3> QED BY <1>1, <3>1, <3>2, <3>3, <3>4 DEF ClientWins
      <2> QED BY <2>4, <2>5
<1> QED BY <1>3, <1>4, <1>5, <1>8, <1>9, LastKept

-----------------------------------------------------------------------------
(* The copies.                                                             *)

\* A copy made while nothing is under way is the last one, and is on its way.
LEMMA CopyWins ==
    ASSUME SharingTypeOK, FollowInv, NEW s \in Screens, CopyOn(s),
           UNCHANGED <<server, proxy, down>>, NEW K \in Nat, K = spent.copies + 1,
           \A d \in Clients : d # s /\ Idle(d) => Idle(d)',
           s = Primary => EventOf(events', Primary),
           s # Primary => events' = events /\ ~Idle(s)' /\ Final(s, K)'
    PROVE  LastInv'
<1>1. /\ K > 0 /\ spent'.copies = K /\ clip' \in [Screens -> 0 .. K] /\ clip'[s] = K
      /\ \A t \in Screens : t # s => clip'[t] = clip[t]
      /\ history'.from = s /\ history'.copy = K /\ history'.orderly = AloneAt(s)
      BY CopyFacts
<1> SUFFICES ASSUME AloneAt(s) PROVE Wins(s, K)'
    BY <1>1 DEF LastInv
<1>2. /\ Now.srv = server /\ Now'.srv = server /\ Now.clip = clip /\ Now'.clip = clip'
      /\ Now.px = proxy /\ Now'.px = proxy /\ Now.dn = down /\ Now'.dn = down
      BY DEF Now
<1>3. \A d \in Clients : d # s => Idle(d)'
      <2> SUFFICES ASSUME NEW d \in Clients, d # s PROVE Idle(d)'
          OBVIOUS
      <2>1. ~Underway(d)
            BY Places DEF AloneAt
      <2> QED BY <2>1, IdleUnderway
<1>4. CASE s = Primary
      <2>1. Now.srv.data \in 0 .. spent.copies \cup {Cleared} /\ spent.copies \in Nat
            BY TypeParts, StateParts, ServerParts
      <2>2. ~(K > 0 /\ Now'.srv.data = K)
            <3>1. server.data # K
                  BY <1>2, <2>1 DEF Cleared
            <3> QED BY <1>2, <3>1
      <2>3. PrimaryShown(Now', events', K)
            BY <1>1, <1>2, <1>4, <2>2 DEF PrimaryShown
      <2> QED BY <1>3, <1>4, <2>3 DEF Wins, PrimaryWins
<1>5. CASE s # Primary
      <2>1. s \in Clients /\ Primary \in Screens
            BY <1>5, Places
      <2>2. /\ ~EventOf(events, Primary)
            /\ server.owner = Primary => server.cache = clip[Primary]
            <3>1. ~Underway(Primary)
                  BY <1>5, <2>1 DEF AloneAt
            <3> QED BY <3>1, PrimaryAtRest
      <2>3. proxy[s].outbox = <<>> /\ NoneAfter(down[s], 0)
            <3>1. /\ proxy[s].outbox = <<>>
                  /\ \A i \in DOMAIN down[s] : down[s][i].type \notin {"grab", "data"}
                  BY <1>5 DEF AloneAt
            <3>2. DOMAIN down[s] = 1 .. Len(down[s])
                  BY <2>1, NowParts DEF Downs
            <3> QED BY <3>1, <3>2 DEF NoneAfter, Settles
      <2>4. server.owner = Primary => clip'[Primary] \in {0, server.data}
            BY <1>1, <1>2, <1>5, <2>1, <2>2 DEF FollowInv, Follows, CacheFits
      <2>5. Keeps(Now', s, K)
            BY <1>1, <1>2, <2>3, <2>4 DEF Keeps
      <2>6. ClientWins(s, K)'
            BY <1>5, <2>2, <2>5 DEF ClientWins
      <2> QED BY <1>3, <1>5, <2>6 DEF Wins
<1> QED BY <1>4, <1>5

\* A user copies on the primary,
LEMMA PrimaryCopyWins ==
    ASSUME SharingTypeOK, FollowInv, PrimaryCopies PROVE LastInv'
<1>1. /\ CopyOn(Primary) /\ UNCHANGED <<server, proxy, client, up, down>>
      /\ \E e \in Event : events' = Append(events, e) /\ e.from = Primary
      BY PrimaryCopyFacts
<1>2. PICK e \in Event : events' = Append(events, e) /\ e.from = Primary
      BY <1>1
<1>3. \A s : EventOf(events', s) <=> EventOf(events, s) \/ s = Primary
      BY <1>2, TypeParts, EventsAppend
<1>4. \A d \in Clients : Idle(d) => Idle(d)'
      <2>1. \A d \in Clients : clip'[d] = clip[d]
            BY <1>1, CopyFacts, Places
      <2> QED BY <1>1, <1>3, <2>1, Places DEF Idle, Unsent
<1>5. PICK K \in Nat : K = spent.copies + 1
      BY TypeParts
<1> QED BY <1>1, <1>3, <1>4, <1>5, Places, CopyWins

\* on a computer,
LEMMA ComputerCopyWins ==
    ASSUME SharingTypeOK, FollowInv, NEW c \in Computers, ComputerCopies(c)
    PROVE  LastInv'
<1>1. /\ CopyOn(c) /\ client'[c].told > 0
      /\ \A d \in Clients : d # c => client'[d] = client[d]
      /\ UNCHANGED <<server, proxy, up, down, events>>
      BY ComputerCopyFacts
<1>2. c \in Screens /\ c # Primary
      BY Places
<1>3. \A d \in Clients : d # c /\ Idle(d) => Idle(d)'
      <2>1. \A d \in Clients : d # c => clip'[d] = clip[d]
            BY <1>1, <1>2, CopyFacts, Places
      <2> QED BY <1>1, <2>1 DEF Idle, Unsent
<1>4. PICK K \in Nat : K = spent.copies + 1
      BY TypeParts
<1>5. ~Idle(c)' /\ Final(c, K)'
      <2>1. client'[c].told # 0
            BY <1>1
      <2> QED BY <1>1, <2>1 DEF Idle, Final
<1> QED BY <1>1, <1>2, <1>3, <1>4, <1>5, CopyWins

\* or on a phone.
LEMMA PhoneCopyWins ==
    ASSUME SharingTypeOK, FollowInv, NEW h \in Phones, PhoneCopies(h)
    PROVE  LastInv'
<1>1. /\ CopyOn(h)
      /\ \A d \in Clients : /\ client'[d].own = client[d].own
                            /\ client'[d].sent = client[d].sent
                            /\ client'[d].data = client[d].data
                            /\ client'[d].told = client[d].told
                            /\ client'[d].outbox = client[d].outbox
                            /\ d # h => up'[d] = up[d]
      /\ UNCHANGED <<server, proxy, down, events>>
      BY PhoneCopyFacts
<1>2. PICK K \in Nat : K = spent.copies + 1
      BY TypeParts
<1>3. PICK grab, data : /\ up'[h] = up[h] \o <<grab, data>>
                        /\ grab \in UpMessages(0 .. K) /\ data \in Data(0 .. K)
                        /\ data.copy = K
      <2>1. PICK grab, data : /\ up'[h] = up[h] \o <<grab, data>>
                              /\ grab \in UpMessages(0 .. spent.copies + 1)
                              /\ grab.type = "grab"
                              /\ data \in Data(0 .. spent.copies + 1)
                              /\ data.copy = spent.copies + 1
            BY PhoneCopyFacts
      <2> QED BY <1>2, <2>1
<1>4. /\ h \in Screens /\ h # Primary /\ h \in Clients
      /\ client[h].told = 0 /\ client[h].outbox = <<>> /\ ~client[h].own
      BY Places, TypeParts
<1>5. \A d \in Clients : d # h /\ Idle(d) => Idle(d)'
      <2>1. \A d \in Clients : d # h => clip'[d] = clip[d]
            BY <1>1, <1>4, CopyFacts, Places
      <2> QED BY <1>1, <2>1 DEF Idle, Unsent
<1>6. up'[h] # <<>> /\ Latest(up'[h]).type = "data" /\ Latest(up'[h]).copy = K
      <2> DEFINE S == UpMessages(0 .. K)
                 out == <<grab, data>>
      <2>1. up[h] \in Seq(S)
            <3>1. Ups(spent.copies) \subseteq Ups(K)
                  BY <1>2, TypeParts, OneMore
            <3>2. up[h] \in Ups(K)
                  BY <1>4, <3>1, TypeParts
            <3> QED BY <3>2 DEF Ups
      <2>2. grab \in S /\ data \in S
            BY <1>3, DataMessages
      <2>3. data.type = "data"
            BY <1>3 DEF Data
      <2> HIDE DEF S
      <2>4. out \in Seq(S) /\ out # <<>> /\ Latest(out) = data
            BY <2>2 DEF Latest
      <2> HIDE DEF out
      <2>5. up[h] \o out # <<>> /\ Latest(up[h] \o out) = data
            BY <2>1, <2>4, LatestConcat
      <2> QED BY <1>3, <2>3, <2>5 DEF out
<1>7. ~Idle(h)' /\ Final(h, K)'
      BY <1>1, <1>4, <1>6 DEF Idle, Final
<1> QED BY <1>1, <1>2, <1>4, <1>5, <1>7, CopyWins

\* LastInv holds at the start,
LEMMA InitWins ==
    ASSUME SharingInit PROVE LastInv
<1>1. /\ history.from = Primary /\ history.copy = 0 /\ spent.copies = 0
      /\ events = <<>> /\ clip[Primary] = 0 /\ server.owner = Primary
      /\ \A d \in Clients : /\ client[d].told = 0 /\ client[d].outbox = <<>>
                            /\ up[d] = <<>> /\ ~client[d].own
      BY Places DEF SharingInit
<1>2. \A d \in Clients : Idle(d)
      BY <1>1, EventsEmpty DEF Idle, Unsent
<1>3. Now.clip = clip /\ Now.srv = server
      BY DEF Now
<1>4. PrimaryShown(Now, events, 0)
      BY <1>1, <1>3 DEF PrimaryShown
<1>5. Wins(Primary, 0)
      BY <1>2, <1>4 DEF Wins, PrimaryWins
<1> QED BY <1>1, <1>5 DEF LastInv

\* while nothing changes,
LEMMA StutterWins ==
    ASSUME LastInv, UNCHANGED sharingVars PROVE LastInv'
<1>1. /\ UNCHANGED <<clip, server, proxy, client, up, down, events, history, spent>>
      BY DEF sharingVars
<1>2. Now' = Now
      BY <1>1 DEF Now
<1> QED BY <1>1, <1>2 DEF LastInv, Wins, PrimaryWins, ClientWins, Idle, Final, Unsent

\* through every step,
LEMMA LastStep ==
    ASSUME SharingTypeOK, FollowInv, LastInv, [SharingNext]_sharingVars PROVE LastInv'
<1>1. SharingTypeOK'
      BY TypeStep
<1>2. CASE UNCHANGED sharingVars
      BY <1>2, StutterWins
<1>3. CASE PrimaryCopies \/ PrimaryEchoes
      BY <1>3, PrimaryCopyWins, EchoWins
<1>4. CASE DispatchEvent \/ RetryFires \/ OtherGrabbed
      BY <1>1, <1>4, DispatchWins, RetryWins, OtherWins
<1>5. ASSUME NEW c \in Computers, \/ ComputerCopies(c) \/ ComputerReceives(c)
                                  \/ ClientPumps(c) \/ HandleLocalGrab(c)
      PROVE  LastInv'
      BY <1>1, <1>5, ComputerCopyWins, ComputerWins, ClientPumpWins, LocalGrabWins
<1>6. ASSUME NEW h \in Phones, PhoneCopies(h) \/ PhoneReceives(h) PROVE LastInv'
      BY <1>1, <1>6, PhoneCopyWins, PhoneWins
<1>7. ASSUME NEW s \in Screens, SwitchScreen(s) PROVE LastInv'
      BY <1>1, <1>7, SwitchWins
<1>8. ASSUME NEW c \in Clients, ServerReceives(c) \/ ServerPumps(c) PROVE LastInv'
      BY <1>1, <1>8, ReceiveWins, ServerPumpWins
<1> QED BY <1>2, <1>3, <1>4, <1>5, <1>6, <1>7, <1>8, Steps, Zenon

\* and gives LastCopyWins.
LEMMA WinsWhenQuiet ==
    ASSUME SharingTypeOK, LastInv PROVE LastCopyWins
<1> SUFFICES ASSUME Quiet, NothingUnsent, ~Unfound, history.orderly,
                    history.from \notin history.refused, NEW t \in Screens
             PROVE  clip[t] = history.copy
    BY DEF LastCopyWins
<1> DEFINE s == history.from
           k == history.copy
<1>1. /\ events = <<>> /\ server.retry = 0
      /\ \A c \in Clients :
           /\ up[c] = <<>> /\ down[c] = <<>>
           /\ proxy[c].outbox = <<>> /\ client[c].outbox = <<>> /\ client[c].told = 0
      BY DEF Quiet
<1>2. Wins(s, k) /\ s \in Screens /\ k = spent.copies /\ k \in Nat
      BY TypeParts DEF LastInv, Histories
<1>3. /\ Now.srv = server /\ Now.px = proxy /\ Now.dn = down /\ Now.clip = clip
      /\ Now.spent = spent
      BY DEF Now
<1> HIDE DEF s, k
<1>4. \A d \in Clients : LeadTo(Now, d, k) => clip[d] = k
      <2> SUFFICES ASSUME NEW d \in Clients, LeadTo(Now, d, k) PROVE clip[d] = k
          OBVIOUS
      <2>1. Leads(<<>>, <<>>, clip[d], k)
            BY <1>1, <1>3 DEF LeadTo
      <2> QED BY <2>1, LeadsEmpty
<1>5. CASE s = Primary
      <2>1. PrimaryShown(Now, events, k)
            BY <1>2, <1>5 DEF Wins, PrimaryWins
      <2>2. ~EventOf(events, Primary)
            BY <1>1, EventsEmpty
      <2>3. Unread(Now) => server.data = k
            <3>1. Unread(Now) => spent.fails + 0 > Retries
                  BY <1>1, <1>3 DEF Unread
            <3>2. spent.fails \in Nat
                  BY <1>3, TypeParts, DataParts
            <3>3. spent.fails + 0 > Retries => spent.fails > Retries
                  BY <3>2, Bounds
            <3>4. clip[Primary] = k
                  BY <1>3, <2>1 DEF PrimaryShown
            <3> QED BY <3>1, <3>3, <3>4 DEF Unfound
      <2>4. CASE k = 0
            <3>1. clip[t] \in 0 .. spent.copies
                  BY NowParts
            <3> QED BY <1>2, <2>4, <3>1 DEF k
      <2>5. CASE k # 0
            <3>1. k > 0
                  BY <1>2, <2>5
            <3>2. clip[Primary] = k /\ \A d \in Clients : clip[d] = k
                  BY <1>3, <1>4, <2>1, <2>2, <2>3, <3>1, <2>5 DEF PrimaryShown
            <3> QED BY <3>2, Places DEF k
      <2> QED BY <2>4, <2>5
<1>6. CASE s # Primary
      <2>1. s \in Clients /\ ClientWins(s, k)
            BY <1>2, <1>6, Places DEF Wins
      <2>2. Idle(s) /\ s \notin history.refused
            <3>1. ~Unsent(s)
                  BY <2>1 DEF NothingUnsent
            <3> QED BY <1>1, <2>1, <3>1, EventsEmpty DEF Idle, s
      <2>3. Keeps(Now, s, k) /\ Published(Now, s, k)
            BY <2>1, <2>2 DEF ClientWins
      <2>4. /\ clip[s] = k /\ clip[Primary] = k
            /\ \A d \in Clients : d # s => clip[d] = k
            BY <1>3, <1>4, <2>3 DEF Keeps, Published
      <2> QED BY <2>4, Places DEF k
<1> QED BY <1>5, <1>6

\* Once all is quiet, every screen shows the last copy, whatever grabs and echoes of
\* older copies, failed readings, retries and switches came after it, unless it crossed
\* another copy, was too old for the server or was found by none of the readings that
\* the other clipboard's grabs left (Server::handleClipboardGrabbed,
\* Server::onClipboardChanged, Client::sendClipboard).
THEOREM LastCopyIsShown == SharingSpec => []LastCopyWins
<1>1. SharingInit => FollowInv /\ LastInv
      BY InitFollows, InitWins
<1>2. SharingTypeOK /\ FollowInv /\ [SharingNext]_sharingVars => FollowInv'
      BY FollowStep
<1>3. SharingTypeOK /\ FollowInv /\ LastInv /\ [SharingNext]_sharingVars => LastInv'
      BY LastStep
<1>4. SharingTypeOK /\ LastInv => LastCopyWins
      BY WinsWhenQuiet
<1>5. SharingSpec => []SharingTypeOK
      BY SharingTypeCorrect
<1> QED BY <1>1, <1>2, <1>3, <1>4, <1>5, PTL DEF SharingSpec

=============================================================================
