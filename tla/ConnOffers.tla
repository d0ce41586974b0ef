----------------------------- MODULE ConnOffers -----------------------------
(***************************************************************************)
(* What a connection manager promises to whom accepts from it: each        *)
(* connection is offered at most once, through a channel of bounded        *)
(* capacity, in the order it was made, and may end at any time after that; *)
(* it ends once.  When the manager closes, the channel is closed and       *)
(* nothing is offered any more; what waits in it can still be taken.       *)
(*                                                                         *)
(* ConnManager implements this; Server is built on it.                     *)
(***************************************************************************)
EXTENDS Naturals, Sequences

CONSTANTS
    IDs,          \* the connections
    Backlog       \* capacity of acceptCh (64 in NewManager)

ASSUME OffersAssumption == Backlog \in Nat \ {0}

VARIABLES
    offered,      \* the connections that were offered
    acceptCh,     \* those that wait to be taken
    closed,       \* the manager is closed, or about to close the channel
    chClosed,     \* the channel is closed
    done          \* the connections that have ended

offerVars == <<offered, acceptCh, closed, chClosed, done>>

OffersInit ==
    /\ offered = {}
    /\ acceptCh = <<>>
    /\ closed = FALSE
    /\ chClosed = FALSE
    /\ done = {}

(* A connection is dropped when the channel is full. *)
OfferConn(c) ==
    /\ c \notin offered
    /\ ~chClosed
    /\ offered' = offered \cup {c}
    /\ acceptCh' = IF Len(acceptCh) < Backlog THEN Append(acceptCh, c) ELSE acceptCh
    /\ UNCHANGED <<closed, chClosed, done>>

TakeConn ==
    /\ acceptCh # <<>>
    /\ acceptCh' = Tail(acceptCh)
    /\ UNCHANGED <<offered, closed, chClosed, done>>

EndConn(c) ==
    /\ c \in offered \/ chClosed
    /\ c \notin done
    /\ done' = done \cup {c}
    /\ UNCHANGED <<offered, acceptCh, closed, chClosed>>

BeginClose ==
    /\ ~closed
    /\ closed' = TRUE
    /\ UNCHANGED <<offered, acceptCh, chClosed, done>>

CloseOffers ==
    /\ closed
    /\ ~chClosed
    /\ chClosed' = TRUE
    /\ UNCHANGED <<offered, acceptCh, closed, done>>

OffersNext ==
    \/ \E c \in IDs : OfferConn(c) \/ EndConn(c)
    \/ TakeConn \/ BeginClose \/ CloseOffers

OffersSpec == OffersInit /\ [][OffersNext]_offerVars
==============================================================================
