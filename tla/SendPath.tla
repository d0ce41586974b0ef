------------------------------ MODULE SendPath ------------------------------
(***************************************************************************)
(* The life of a send buffer: SendPool.AcquireForSend and CompleteSend     *)
(* (pkg/buffer), Conn.Send (pkg/connection), the SendCompletionHandler of  *)
(* each connection and the queue it is registered for (pkg/cq and          *)
(* wireSendHandler), and the NIC.  The senders are goroutines that acquire *)
(* a buffer, send it and forget it, as ImmediateSender and Aggregator do.  *)
(*                                                                         *)
(* The queue a manager registers and the queue a connection completes to   *)
(* are two things: the first is cfg.SendCQ, one for all connections of the *)
(* manager, the second is the dialer's choice.                             *)
(***************************************************************************)
EXTENDS Integers

CONSTANTS
    Conns,      \* connections
    SendCQ,     \* the cfg.SendCQ of the manager of each connection
    CQOf,       \* the send queue the QP of each connection completes to
    Buffers,    \* buffers of the SendPool
    Senders,    \* goroutines that send
    None,       \* no connection, no buffer
    MaxWRID,    \* bound: sends of one connection
    PostErrors  \* PostSend may fail

ASSUME SendPathAssumption ==
    /\ DOMAIN CQOf = Conns /\ DOMAIN SendCQ = Conns
    /\ None \notin Conns \union Buffers
    /\ MaxWRID \in Nat
    /\ PostErrors \in BOOLEAN

CQs == {CQOf[c] : c \in Conns} \union {SendCQ[c] : c \in Conns}

VARIABLES
    free,       \* buffers in freeCh
    inFlight,   \* buffers in the inFlight map
    inFlightN,  \* its counter
    state,      \* "init", "failed", "connected" or "closed"
    handler,    \* connection whose handler the poller calls for each queue
    nextWRID,   \* last WRID given out by each connection
    tracked,    \* entries of the handlers' wridMap: connection, WRID, buffer
    posted,     \* send requests the NIC has
    cqes,       \* completed send requests nobody has polled
    pc,         \* where each sender is
    send,       \* its connection, buffer and WRID
    lost,       \* buffers a refused Send has left behind (history)
    misrouted   \* a completion went to another's handler (history)

poolVars == <<free, inFlight, inFlightN>>
connVars == <<state, handler>>
nicVars == <<posted, cqes>>
history == <<lost, misrouted>>
vars == <<poolVars, connVars, nextWRID, tracked, nicVars, pc, send, history>>

Entry == [conn : Conns, wrid : 1..MaxWRID, buf : Buffers]
Idle == [conn |-> None, buf |-> None, wrid |-> 0]

Init ==
    /\ free = Buffers /\ inFlight = {} /\ inFlightN = 0
    /\ state = [c \in Conns |-> "init"]
    /\ handler = [q \in CQs |-> None]
    /\ nextWRID = [c \in Conns |-> 0]
    /\ tracked = {} /\ posted = {} /\ cqes = {}
    /\ pc = [s \in Senders |-> "idle"]
    /\ send = [s \in Senders |-> Idle]
    /\ lost = {} /\ misrouted = FALSE

Goto(s, from, to) == pc[s] = from /\ pc' = [pc EXCEPT ![s] = to]
Done(s) == send' = [send EXCEPT ![s] = Idle]

-----------------------------------------------------------------------------
(* wireSendHandler: AddCQ registers the handler for the manager's queue if  *)
(* the queue has none; its error is ignored.                                *)
WireSendHandler(c) ==
    handler' = [handler EXCEPT ![SendCQ[c]] = IF @ = None THEN c ELSE @]

Connect(c) ==
    /\ state[c] = "init"
    /\ state' = [state EXCEPT ![c] = "connected"]
    /\ WireSendHandler(c)
    /\ UNCHANGED <<poolVars, nextWRID, tracked, nicVars, pc, send, history>>

(* wireRecvPath fails: no one gets the connection, and its handler stays.   *)
ConnectFails(c) ==
    /\ state[c] = "init"
    /\ state' = [state EXCEPT ![c] = "failed"]
    /\ WireSendHandler(c)
    /\ UNCHANGED <<poolVars, nextWRID, tracked, nicVars, pc, send, history>>

(* Conn.Close.  The requests of the queue pair still complete, flushed.     *)
Close(c) ==
    /\ state[c] = "connected"
    /\ state' = [state EXCEPT ![c] = "closed"]
    /\ UNCHANGED <<poolVars, handler, nextWRID, tracked, nicVars, pc, send, history>>

-----------------------------------------------------------------------------
(* AcquireForSend: a buffer off the free list, then its mark.  Nothing      *)
(* changes when the wait times out.                                         *)
Alloc(s, c, b) ==
    /\ Goto(s, "idle", "mark")
    /\ state[c] \in {"connected", "closed"}
    /\ b \in free
    /\ free' = free \ {b}
    /\ send' = [send EXCEPT ![s] = [conn |-> c, buf |-> b, wrid |-> 0]]
    /\ UNCHANGED <<inFlight, inFlightN, connVars, nextWRID, tracked, nicVars, history>>

MarkInFlight(s) ==
    /\ Goto(s, "mark", "send")
    /\ inFlight' = inFlight \union {send[s].buf}
    /\ inFlightN' = inFlightN + 1
    /\ UNCHANGED <<free, connVars, nextWRID, tracked, nicVars, send, history>>

(* CompleteSend: the mark is taken off and the buffer goes back.            *)
CompleteSend(b) ==
    /\ inFlight' = inFlight \ {b}
    /\ inFlightN' = IF b \in inFlight THEN inFlightN - 1 ELSE inFlightN
    /\ free' = free \union {b}

-----------------------------------------------------------------------------
(* ImmediateSender: a message too large for the buffer is refused, and the  *)
(* buffer goes back.                                                        *)
RefuseTooLarge(s) ==
    /\ Goto(s, "send", "idle")
    /\ CompleteSend(send[s].buf)
    /\ Done(s)
    /\ UNCHANGED <<connVars, nextWRID, tracked, nicVars, history>>

(* Conn.Send: the state, the WRID, the handler's map and PostSend are four  *)
(* steps.  Without a connection it returns at once and keeps the buffer.    *)

SendCheckState(s) ==
    /\ Goto(s, "send", "number")
    /\ state[send[s].conn] = "connected"
    /\ UNCHANGED <<poolVars, connVars, nextWRID, tracked, nicVars, send, history>>

SendNotConnected(s) ==
    /\ Goto(s, "send", "idle")
    /\ state[send[s].conn] # "connected"
    /\ lost' = lost \union {send[s].buf}
    /\ Done(s)
    /\ UNCHANGED <<poolVars, connVars, nextWRID, tracked, nicVars, misrouted>>

SendNumber(s) ==
    LET c == send[s].conn IN
    /\ Goto(s, "number", "track")
    /\ nextWRID[c] < MaxWRID
    /\ nextWRID' = [nextWRID EXCEPT ![c] = @ + 1]
    /\ send' = [send EXCEPT ![s].wrid = nextWRID[c] + 1]
    /\ UNCHANGED <<poolVars, connVars, tracked, nicVars, history>>

TrackSend(s) ==
    /\ Goto(s, "track", "post")
    /\ tracked' = tracked \union {send[s]}
    /\ UNCHANGED <<poolVars, connVars, nextWRID, nicVars, send, history>>

(* Mutant: the buffer is given back as soon as the request is posted.       *)
PostSendReleases(s) ==
    /\ Goto(s, "post", "idle")
    /\ posted' = posted \union {send[s]}
    /\ CompleteSend(send[s].buf)
    /\ Done(s)
    /\ UNCHANGED <<connVars, nextWRID, tracked, cqes, history>>

PostSend(s) ==
    /\ Goto(s, "post", "idle")
    /\ posted' = posted \union {send[s]}
    /\ Done(s)
    /\ UNCHANGED <<poolVars, connVars, nextWRID, tracked, cqes, history>>

(* Mutant: the entry is deleted and its buffer forgotten.                   *)
OnSendDoneForgets(c, wrid) ==
    /\ tracked' = {e \in tracked : ~(e.conn = c /\ e.wrid = wrid)}
    /\ UNCHANGED poolVars

(* OnCompletion and OnError of the handler of connection c: the entry of    *)
(* the WRID leaves the map and its buffer returns to the pool; a WRID that  *)
(* is not in the map is ignored.                                            *)
OnSendDone(c, wrid) ==
    LET found == {e \in tracked : e.conn = c /\ e.wrid = wrid} IN
    /\ tracked' = tracked \ found
    /\ IF found = {}
       THEN UNCHANGED poolVars
       ELSE \E e \in found : CompleteSend(e.buf)

(* PostSend fails: the connection's own handler gives the buffer back.      *)
PostSendFails(s) ==
    /\ PostErrors
    /\ Goto(s, "post", "idle")
    /\ OnSendDone(send[s].conn, send[s].wrid)
    /\ Done(s)
    /\ UNCHANGED <<connVars, nextWRID, nicVars, history>>

-----------------------------------------------------------------------------
(* The NIC completes a request, with success or with an error, and the      *)
(* poller hands the completion to the handler registered for the queue.     *)

Complete(w) ==
    /\ w \in posted
    /\ posted' = posted \ {w}
    /\ cqes' = cqes \union {w}
    /\ UNCHANGED <<poolVars, connVars, nextWRID, tracked, pc, send, history>>

(* Only queues with a handler are polled.  The handler looks the WRID up in *)
(* its own map, whichever connection the request was of.                    *)
Dispatch(w) ==
    LET h == handler[CQOf[w.conn]] IN
    /\ w \in cqes
    /\ h # None
    /\ cqes' = cqes \ {w}
    /\ OnSendDone(h, w.wrid)
    /\ misrouted' = (misrouted \/ h # w.conn)
    /\ UNCHANGED <<connVars, nextWRID, posted, pc, send, lost>>

-----------------------------------------------------------------------------

SendStep(s) ==
    \/ MarkInFlight(s) \/ RefuseTooLarge(s) \/ SendCheckState(s) \/ SendNotConnected(s)
    \/ SendNumber(s) \/ TrackSend(s) \/ PostSend(s) \/ PostSendFails(s)

Next ==
    \/ \E c \in Conns : Connect(c) \/ ConnectFails(c) \/ Close(c)
    \/ \E s \in Senders :
          SendStep(s) \/ \E c \in Conns, b \in Buffers : Alloc(s, c, b)
    \/ \E w \in posted : Complete(w)
    \/ \E w \in cqes : Dispatch(w)

Spec == Init /\ [][Next]_vars

(* A sender that holds a buffer goes on, the NIC completes what it was      *)
(* given, and the poller of the queue runs.                                 *)
Fairness ==
    /\ \A s \in Senders : WF_vars(SendStep(s))
    /\ WF_vars(\E w \in posted : Complete(w))
    /\ WF_vars(\E w \in cqes : Dispatch(w))

FairSpec == Spec /\ Fairness

-----------------------------------------------------------------------------

TypeOK ==
    /\ free \subseteq Buffers /\ inFlight \subseteq Buffers
    /\ inFlightN \in Int
    /\ state \in [Conns -> {"init", "failed", "connected", "closed"}]
    /\ handler \in [CQs -> Conns \union {None}]
    /\ nextWRID \in [Conns -> 0..MaxWRID]
    /\ tracked \subseteq Entry /\ posted \subseteq Entry /\ cqes \subseteq Entry
    /\ lost \subseteq Buffers /\ misrouted \in BOOLEAN
    /\ pc \in [Senders -> {"idle", "mark", "send", "number", "track", "post"}]
    /\ send \in [Senders -> [conn : Conns \union {None},
                             buf : Buffers \union {None}, wrid : 0..MaxWRID]]

(* Who may still touch a buffer: a sender that holds it, or the NIC.        *)
HeldBy(b) == {s \in Senders : send[s].buf = b}
RequestsOf(b) == {w \in posted \union cqes : w.buf = b}

(* A buffer has one user.  It is not in the free list while a sender holds  *)
(* it or a request for it is out, no two senders hold it, and no sender has *)
(* it while the NIC still reads the last message from it.                   *)
UsersAgree ==
    \A b \in Buffers :
        /\ b \in free => HeldBy(b) = {} /\ RequestsOf(b) = {}
        /\ HeldBy(b) # {} => RequestsOf(b) = {}
        /\ \A s1, s2 \in HeldBy(b) : s1 = s2
        /\ \A w1, w2 \in RequestsOf(b) : w1 = w2

(* A buffer has one user as long as no completion has been handed to the    *)
(* handler of another connection, whose map knows the WRID as its own: the  *)
(* code gives no other way to two users, however queues are shared.         *)
OneUser == ~misrouted => UsersAgree

(* What manager.go:154-155 relies on: where connections share the manager's *)
(* queue, the error of the second registration can be ignored.              *)
SharingIsHarmless == UsersAgree

(* The loop AcquireForSend, PostSend, completion, CompleteSend is closed:   *)
(* every buffer that leaves the pool comes back to it, unless it was taken  *)
(* to a connection that is not open, where Send refuses and nobody gives it *)
(* back, or the sender that holds it has used up the bound on sends.  It    *)
(* needs a dialer that completes to the queue the manager registers, and a  *)
(* queue for each connection.                                               *)
BufferComesBack ==
    \A b \in Buffers :
        (b \notin free) ~> \/ b \in free \union lost
                            \/ \E s \in HeldBy(b) : nextWRID[send[s].conn] = MaxWRID

(* What conn.go:107-108 says of Send: the buffer it tracks is released when *)
(* the completion arrives.                                                  *)
PostedIsReleased == \A b \in Buffers : (RequestsOf(b) # {}) ~> (b \in free)

(* The send path implements BufferLoan.                                     *)
Place(b) ==
    CASE \E w \in posted : w.buf = b -> "nic"
      [] \E w \in cqes : w.buf = b -> "done"
      [] b \in free -> "pool"
      [] OTHER -> "sender"

Loan == INSTANCE BufferLoan WITH place <- [b \in Buffers |-> Place(b)]
                                 \* and misrouted for itself
ImplementsLoan == Loan!Spec
=============================================================================
