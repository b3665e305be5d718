---------------------------- MODULE FileDelivery ----------------------------
(***************************************************************************)
(* What transfers to the server promise: a transfer that is delivered is   *)
(* delivered whole, with its own files and nothing else, at most once, and *)
(* the transfers of one client in the order in which it offered them.  A   *)
(* transfer may be lost.  Once a session of a client was taken over by     *)
(* another, less is promised: what the older session announced may come    *)
(* late, behind transfers that were offered later, and a transfer may come *)
(* mixed, with messages of both sessions.                                  *)
(***************************************************************************)
EXTENDS Integers, Sequences

CONSTANTS
    Clients,    \* the clients' screen names
    Manifests   \* the lists of files a client may send: their sizes, in chunks

VARIABLES
    offers,     \* the transfers begun: from which client, which files
    overtaken,  \* the clients of which a session was taken over
    delivered   \* the transfers announced to the user, in order

\* The files of transfer id; chunk p of file f is <<id, f, p>>.
Content(id) ==
    [f \in DOMAIN offers[id].sizes |->
        [p \in 1 .. offers[id].sizes[f] |-> <<id, f, p>>]]

Init == offers = <<>> /\ overtaken = {} /\ delivered = <<>>

Offer(c, sizes) ==
    /\ offers' = Append(offers, [from |-> c, sizes |-> sizes])
    /\ UNCHANGED <<overtaken, delivered>>

TakeOver(c) ==
    /\ overtaken' = overtaken \cup {c}
    /\ UNCHANGED <<offers, delivered>>

\* Of the files of a transfer that comes mixed nothing is said.
Deliver(id, late, mixed) ==
    /\ late \/ mixed => offers[id].from \in overtaken
    /\ \A d \in DOMAIN delivered :
           /\ delivered[d].id # id
           /\ offers[delivered[d].id].from = offers[id].from /\ (late => delivered[d].late)
                => delivered[d].id < id
    /\ delivered' = Append(delivered, [id |-> id, late |-> late, mixed |-> mixed,
                                       files |-> IF mixed THEN <<>> ELSE Content(id)])
    /\ UNCHANGED <<offers, overtaken>>

Next ==
    \/ \E c \in Clients, sizes \in Manifests : Offer(c, sizes)
    \/ \E c \in Clients : TakeOver(c)
    \/ \E id \in DOMAIN offers, late, mixed \in BOOLEAN : Deliver(id, late, mixed)

Spec == Init /\ [][Next]_<<offers, overtaken, delivered>>
=============================================================================
