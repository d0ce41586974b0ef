----------------------------- MODULE CMHandshake -----------------------------
(***************************************************************************)
(* How a connection is set up and torn down over the RDMA connection       *)
(* manager (CM): rdma.Dial (RealCMDialer.Dial and NewPingPongFromQP),      *)
(* rdma.Listen, Listener.Accept with AcceptConn, and Conn.Close at both    *)
(* ends.                                                                   *)
(*                                                                         *)
(* Every call of the verbs or CM library may fail, and each failure has    *)
(* its own list of things to undo; what is modelled is which resources a   *)
(* call owns at each step and in which order it gives them up.  A Dial     *)
(* waits three times for an event of the CM, under a context that always   *)
(* has a deadline.  The listener is one goroutine that serves the requests *)
(* of all dials, one event at a time.                                      *)
(***************************************************************************)
EXTENDS Naturals, Sequences

CONSTANTS
    Dials,        \* calls of rdma.Dial; each names the connection it asks for
    Strangers,    \* connections asked for by programs that are not modelled
    None          \* no event, no connection

ASSUME HandshakeAssumption ==
    /\ Dials \cap Strangers = {}
    /\ None \notin Dials \cup Strangers

Conns == Dials \cup Strangers

VARIABLES
    pc,           \* pc[d]: the call of Dial d that comes next
    have,         \* have[d]: what Dial d has made and not yet destroyed
    undo,         \* undo[d]: what d destroys next, once it fails or closes
    held,         \* held[d]: the CM event d has and has not acknowledged
    link,         \* link[d]: how far the CM is with d's connection
    answer,       \* answer[d]: the CM event in d's event channel
    spc,          \* the call of the listener's goroutine that comes next
    lsn,          \* what the listener has made for itself
    events,       \* the CM events in the listener's event channel
    sheld,        \* the CM event the listener has and has not acknowledged
    current,      \* the connection the listener is working on
    pending,      \* Listener.pending: accepted, ESTABLISHED still to come
    acc,          \* acc[d]: what the listener has made for d's connection
    accUndo,      \* accUndo[d]: what is destroyed of it next
    conn          \* conn[d]: the connection Accept returned for d

dialVars   == <<pc, have, undo, held>>
cmVars     == <<link, answer>>
listenVars == <<spc, lsn, sheld, current, pending>>
connVars   == <<acc, accUndo, conn>>
vars == <<dialVars, cmVars, listenVars, events, connVars>>

------------------------------------------------------------------------------
(* The device and the CM. *)

CMObject  == {"channel", "id"}
Verbs     == {"pd", "sendCQ", "recvCQ", "qp"}
DataPath  == {"sendBuf", "recvBuf", "sendMR", "recvMR"}
Resource  == CMObject \cup Verbs \cup DataPath

(* ibv_dealloc_pd and ibv_destroy_cq refuse while something is built on the
   object; the code looks at no result of theirs.  Everything else goes. *)
Busy(made, r) ==
    \/ r = "pd" /\ made \cap {"qp", "sendMR", "recvMR"} # {}
    \/ r \in {"sendCQ", "recvCQ"} /\ "qp" \in made

Destroy(made, r) == IF Busy(made, r) THEN made ELSE made \ {r}

(* The listener is reachable from rdma_listen until its id is destroyed. *)
Listening ==
    spc \notin {"channel", "id", "bind", "listen", "closeChannel", "closed"}

Event(type, d) == [type |-> type, id |-> d]

(* The CM answers a resolution: the event the dial expects or an error. *)
Resolve(d) ==
    /\ link[d] \in {"addr", "route"}
    /\ answer' = [answer EXCEPT ![d] =
                     IF link[d] = "addr" THEN "AddrResolved" ELSE "RouteResolved"]
    /\ link' = [link EXCEPT ![d] = "resolved"]
    /\ UNCHANGED <<dialVars, listenVars, events, connVars>>

ResolveFails(d) ==
    /\ link[d] \in {"addr", "route"}
    /\ answer' = [answer EXCEPT ![d] =
                     IF link[d] = "addr" THEN "AddrError" ELSE "RouteError"]
    /\ link' = [link EXCEPT ![d] = "over"]
    /\ UNCHANGED <<dialVars, listenVars, events, connVars>>

(* A request reaches the listener, or there is none. *)
Request(d) ==
    /\ link[d] = "connect"
    /\ IF Listening
       THEN /\ events' = Append(events, Event("ConnectRequest", d))
            /\ link' = [link EXCEPT ![d] = "request"]
            /\ UNCHANGED answer
       ELSE /\ answer' = [answer EXCEPT ![d] = "Rejected"]
            /\ link' = [link EXCEPT ![d] = "over"]
            /\ UNCHANGED events
    /\ UNCHANGED <<dialVars, listenVars, connVars>>

(* The listener's acceptance reaches the dial, or the CM gives up. *)
Accepted(d) ==
    /\ link[d] = "accepted"
    /\ answer' = [answer EXCEPT ![d] = "Established"]
    /\ link' = [link EXCEPT ![d] = "answered"]
    /\ UNCHANGED <<dialVars, listenVars, events, connVars>>

Unreachable(d) ==
    /\ link[d] \in {"request", "accepted"}
    /\ answer' = [answer EXCEPT ![d] = "Unreachable"]
    /\ link' = [link EXCEPT ![d] = "over"]
    /\ events' = IF link[d] = "accepted"
                 THEN Append(events, Event("ConnectError", d)) ELSE events
    /\ UNCHANGED <<dialVars, listenVars, connVars>>

(* A program that is not modelled asks for a connection, completes it, and
   breaks it off. *)
StrangerKnocks(d) ==
    /\ link[d] = "none"
    /\ link' = [link EXCEPT ![d] = "connect"]
    /\ UNCHANGED <<dialVars, answer, listenVars, events, connVars>>

StrangerCompletes(d) ==
    /\ link[d] = "answered"
    /\ link' = [link EXCEPT ![d] = "up"]
    /\ events' = Append(events, Event("Established", d))
    /\ UNCHANGED <<dialVars, answer, listenVars, connVars>>

StrangerLeaves(d) ==
    /\ link[d] \in {"accepted", "answered", "up"}
    /\ link' = [link EXCEPT ![d] = "over"]
    /\ events' = Append(events, Event("Disconnected", d))
    /\ UNCHANGED <<dialVars, answer, listenVars, connVars>>

Stranger(d) == StrangerKnocks(d) \/ StrangerCompletes(d) \/ StrangerLeaves(d)

CM(d) == Resolve(d) \/ ResolveFails(d) \/ Request(d) \/ Accepted(d) \/ Unreachable(d)

------------------------------------------------------------------------------
(* rdma.Dial.  A step that makes something bears the name of what it makes. *)

(* The calls in their order. *)
After ==
    [channel |-> "id", id |-> "resolveAddr",
     resolveAddr |-> "addrEvent", addrEvent |-> "pd",
     pd |-> "sendCQ", sendCQ |-> "recvCQ", recvCQ |-> "resolveRoute",
     resolveRoute |-> "routeEvent", routeEvent |-> "qp",
     qp |-> "connect", connect |-> "connEvent", connEvent |-> "sendBuf",
     sendBuf |-> "recvBuf", recvBuf |-> "sendMR", sendMR |-> "recvMR",
     recvMR |-> "postRecv", postRecv |-> "open"]

(* Mutant: the failure of the first completion queue forgets the domain. *)
UndoFromForgetsPD ==
    [channel |-> "nothing", id |-> "channel",
     resolveAddr |-> "id", addrEvent |-> "id", pd |-> "id",
     sendCQ |-> "id", recvCQ |-> "sendCQ",
     resolveRoute |-> "recvCQ", routeEvent |-> "recvCQ",
     qp |-> "recvCQ", connect |-> "recvCQ", connEvent |-> "recvCQ",
     sendBuf |-> "id", recvBuf |-> "sendBuf", sendMR |-> "recvBuf",
     recvMR |-> "sendMR", postRecv |-> "recvMR"]

(* What is destroyed first when a call fails: the clean-up at that return.
   Once Dial of RealCMDialer has succeeded, rdma.Dial calls dialer.Close. *)
UndoFrom ==
    [channel |-> "nothing", id |-> "channel",
     resolveAddr |-> "id", addrEvent |-> "id", pd |-> "id",
     sendCQ |-> "pd", recvCQ |-> "sendCQ",
     resolveRoute |-> "recvCQ", routeEvent |-> "recvCQ",
     qp |-> "recvCQ", connect |-> "recvCQ", connEvent |-> "recvCQ",
     sendBuf |-> "id", recvBuf |-> "sendBuf", sendMR |-> "recvBuf",
     recvMR |-> "sendMR", postRecv |-> "recvMR"]

(* Mutant: dialer.Close destroys the event channel before the id. *)
UndoNextChannelFirst ==
    [recvMR |-> "sendMR", sendMR |-> "recvBuf", recvBuf |-> "sendBuf",
     sendBuf |-> "channel", recvCQ |-> "sendCQ", sendCQ |-> "pd", pd |-> "id",
     id |-> "nothing", channel |-> "id"]

(* What is destroyed next: PingPongConn.Close, the clean-ups of Dial,
   RealCMDialer.Close. *)
UndoNext ==
    [recvMR |-> "sendMR", sendMR |-> "recvBuf", recvBuf |-> "sendBuf",
     sendBuf |-> "id", recvCQ |-> "sendCQ", sendCQ |-> "pd", pd |-> "id",
     id |-> "channel", channel |-> "nothing"]

(* What a Dial asks of the CM, and the event it then waits for. *)
Asks == [resolveAddr |-> "addr", resolveRoute |-> "route", connect |-> "connect"]
Waits == [addrEvent |-> "AddrResolved", routeEvent |-> "RouteResolved",
          connEvent |-> "Established"]

Dial(d) ==
    /\ pc[d] = "idle"
    /\ pc' = [pc EXCEPT ![d] = "channel"]
    /\ UNCHANGED <<have, undo, held, cmVars, listenVars, events, connVars>>

Make(d) ==
    /\ pc[d] \in Resource
    /\ have' = [have EXCEPT ![d] = @ \cup {pc[d]}]
    /\ pc' = [pc EXCEPT ![d] = After[@]]
    /\ UNCHANGED <<undo, held, cmVars, listenVars, events, connVars>>

Ask(d) ==
    /\ pc[d] \in DOMAIN Asks
    /\ link' = [link EXCEPT ![d] = Asks[pc[d]]]
    /\ pc' = [pc EXCEPT ![d] = After[@]]
    /\ UNCHANGED <<have, undo, held, answer, listenVars, events, connVars>>

PostFirstRecv(d) ==
    /\ pc[d] = "postRecv"
    /\ pc' = [pc EXCEPT ![d] = After[@]]
    /\ UNCHANGED <<have, undo, held, cmVars, listenVars, events, connVars>>

(* A call returns an error, and the clean-up of that return begins. *)
Fails(d) ==
    /\ pc' = [pc EXCEPT ![d] = "failing"]
    /\ undo' = [undo EXCEPT ![d] = UndoFrom[pc[d]]]

CallFails(d) ==
    /\ pc[d] \in DOMAIN After
    /\ held[d] = None
    /\ Fails(d)
    /\ UNCHANGED <<have, held, cmVars, listenVars, events, connVars>>

(* getCMEvent: the context is done, as it may be at any time and is in the
   end: Dial gives it a deadline where the caller did not. *)
GiveUp(d) ==
    /\ pc[d] \in DOMAIN Waits
    /\ held[d] = None
    /\ Fails(d)
    /\ UNCHANGED <<have, held, cmVars, listenVars, events, connVars>>

(* getCMEvent: an event.  When it says that the listener has accepted, the
   library completes the hand-shake, and the listener's CM hears of it. *)
Take(d) ==
    /\ pc[d] \in DOMAIN Waits
    /\ held[d] = None
    /\ answer[d] # None
    /\ held' = [held EXCEPT ![d] = answer[d]]
    /\ answer' = [answer EXCEPT ![d] = None]
    /\ IF answer[d] = "Established"
       THEN /\ link' = [link EXCEPT ![d] = "up"]
            /\ events' = Append(events, Event("Established", d))
       ELSE UNCHANGED <<link, events>>
    /\ UNCHANGED <<pc, have, undo, listenVars, connVars>>

(* Mutant: an event that is not the one expected is not acknowledged. *)
AckExpected(d) ==
    /\ held[d] # None
    /\ pc[d] \in DOMAIN Waits
    /\ IF held[d] = Waits[pc[d]]
       THEN /\ pc' = [pc EXCEPT ![d] = After[@]]
            /\ held' = [held EXCEPT ![d] = None]
            /\ UNCHANGED undo
       ELSE /\ Fails(d)
            /\ UNCHANGED held
    /\ UNCHANGED <<have, cmVars, listenVars, events, connVars>>

(* The event is acknowledged, whatever it is; then Dial goes on or fails. *)
Ack(d) ==
    /\ held[d] # None
    /\ held' = [held EXCEPT ![d] = None]
    /\ IF held[d] = Waits[pc[d]]
       THEN pc' = [pc EXCEPT ![d] = After[@]] /\ UNCHANGED undo
       ELSE Fails(d)
    /\ UNCHANGED <<have, cmVars, listenVars, events, connVars>>

(* Conn.Close of a connection that was dialled. *)
CloseDialed(d) ==
    /\ pc[d] = "open"
    /\ pc' = [pc EXCEPT ![d] = "closing"]
    /\ undo' = [undo EXCEPT ![d] = "recvMR"]
    /\ UNCHANGED <<have, held, cmVars, listenVars, events, connVars>>

(* rdma_destroy_id waits until every event of the id is acknowledged; the
   events not taken are dropped, and the CM tells the other side. *)
DestroyID(d) ==
    /\ held[d] = None
    /\ answer' = [answer EXCEPT ![d] = None]
    /\ link' = [link EXCEPT ![d] = "over"]
    /\ events' = IF link[d] \in {"accepted", "answered", "up"}
                 THEN Append(events, Event("Disconnected", d)) ELSE events

Undo(d) ==
    /\ pc[d] \in {"failing", "closing"}
    /\ undo[d] # "nothing"
    /\ IF undo[d] = "id" THEN DestroyID(d) ELSE UNCHANGED <<cmVars, events>>
    /\ have' = [have EXCEPT ![d] = Destroy(@, undo[d])]
    /\ undo' = [undo EXCEPT ![d] = UndoNext[@]]
    /\ UNCHANGED <<pc, held, listenVars, connVars>>

Return(d) ==
    /\ pc[d] \in {"failing", "closing"}
    /\ undo[d] = "nothing"
    /\ pc' = [pc EXCEPT ![d] = IF @ = "failing" THEN "failed" ELSE "closed"]
    /\ UNCHANGED <<have, undo, held, cmVars, listenVars, events, connVars>>

DialStep(d) ==
    \/ Make(d) \/ Ask(d) \/ PostFirstRecv(d) \/ CallFails(d)
    \/ GiveUp(d) \/ Take(d) \/ Ack(d) \/ Undo(d) \/ Return(d)

------------------------------------------------------------------------------
(* rdma.Listen and Listener.Accept, called in a loop by one goroutine. *)

ListenAfter == [channel |-> "id", id |-> "bind", bind |-> "listen", listen |-> "accept"]
ListenUndo  == [channel |-> "closed", id |-> "closeChannel",
                bind |-> "closeID", listen |-> "closeID"]

ListenCall ==
    /\ spc \in DOMAIN ListenAfter
    /\ lsn' = lsn \cup ({spc} \cap CMObject)
    /\ spc' = ListenAfter[spc]
    /\ UNCHANGED <<sheld, current, pending, dialVars, cmVars, events, connVars>>

ListenFails ==
    /\ spc \in DOMAIN ListenUndo
    /\ spc' = ListenUndo[spc]
    /\ UNCHANGED <<lsn, sheld, current, pending, dialVars, cmVars, events, connVars>>

(* Accept returns because its context is done or the poll failed. *)
AcceptEnds ==
    /\ spc = "accept"
    /\ spc' = "stopped"
    /\ UNCHANGED <<lsn, sheld, current, pending, dialVars, cmVars, events, connVars>>

(* Listener.Close, deferred by the goroutine that calls Accept. *)
CloseListener ==
    /\ spc \in {"stopped", "closeID", "closeChannel"}
    /\ spc' = CASE spc = "stopped" -> "closeID"
                [] spc = "closeID" -> "closeChannel"
                [] OTHER           -> "closed"
    /\ lsn' = CASE spc = "closeID"      -> lsn \ {"id"}
                [] spc = "closeChannel" -> lsn \ {"channel"}
                [] OTHER                -> lsn
    /\ UNCHANGED <<sheld, current, pending, dialVars, cmVars, events, connVars>>

GetEvent ==
    /\ spc = "accept"
    /\ events # <<>>
    /\ sheld' = Head(events)
    /\ events' = Tail(events)
    /\ current' = Head(events).id
    /\ spc' = IF Head(events).type = "ConnectRequest" THEN "pd" ELSE "handle"
    /\ UNCHANGED <<lsn, pending, dialVars, cmVars, connVars>>

(* AcceptConn, and NewPingPongFromQP in Accept. *)
AcceptAfter ==
    [pd |-> "sendCQ", sendCQ |-> "recvCQ", recvCQ |-> "qp", qp |-> "rdmaAccept",
     sendBuf |-> "recvBuf", recvBuf |-> "sendMR", sendMR |-> "recvMR",
     recvMR |-> "postRecv"]

AcceptUndoFrom ==
    [pd |-> "nothing", sendCQ |-> "pd", recvCQ |-> "sendCQ",
     qp |-> "recvCQ", rdmaAccept |-> "recvCQ",
     sendBuf |-> "nothing", recvBuf |-> "sendBuf", sendMR |-> "recvBuf",
     recvMR |-> "sendMR", postRecv |-> "recvMR"]

(* The clean-up of an accepted connection destroys its queue pair, that of
   a failed NewPingPongFromQP does not. *)
AcceptUndoNext(d) ==
    [recvMR |-> "sendMR", sendMR |-> "recvBuf", recvBuf |-> "sendBuf",
     sendBuf |-> IF conn[d] = "closing" THEN "qp" ELSE "nothing",
     qp |-> "nothing", recvCQ |-> "sendCQ", sendCQ |-> "pd", pd |-> "nothing"]

AcceptMake ==
    /\ spc \in DOMAIN AcceptAfter
    /\ acc' = [acc EXCEPT ![current] = @ \cup {spc}]
    /\ spc' = AcceptAfter[spc]
    /\ UNCHANGED <<lsn, sheld, current, pending, dialVars, cmVars, events,
                   accUndo, conn>>

(* Mutant: an accepted request is not remembered. *)
RdmaAcceptForgets ==
    /\ spc = "rdmaAccept"
    /\ link' = [link EXCEPT ![current] = IF @ = "request" THEN "accepted" ELSE @]
    /\ sheld' = None
    /\ spc' = "accept"
    /\ UNCHANGED <<lsn, current, pending, dialVars, answer, events, connVars>>

(* rdma_accept succeeds, on a request that may be over; then pending, then
   the acknowledgement of the request. *)
RdmaAccept ==
    /\ spc = "rdmaAccept"
    /\ link' = [link EXCEPT ![current] = IF @ = "request" THEN "accepted" ELSE @]
    /\ pending' = pending \cup {current}
    /\ sheld' = None
    /\ spc' = "accept"
    /\ UNCHANGED <<lsn, current, dialVars, answer, events, connVars>>

AcceptFails ==
    /\ spc \in DOMAIN AcceptUndoFrom
    /\ spc' = "undo"
    /\ accUndo' = [accUndo EXCEPT ![current] = AcceptUndoFrom[spc]]
    /\ UNCHANGED <<lsn, sheld, current, pending, dialVars, cmVars, events,
                   acc, conn>>

AcceptUndo ==
    /\ spc = "undo"
    /\ accUndo[current] # "nothing"
    /\ acc' = [acc EXCEPT ![current] = Destroy(@, accUndo[current])]
    /\ accUndo' = [accUndo EXCEPT ![current] = AcceptUndoNext(current)[@]]
    /\ UNCHANGED <<spc, lsn, sheld, current, pending, dialVars, cmVars, events,
                   conn>>

(* AcceptConn failed: the request is acknowledged and Accept goes on.
   NewPingPongFromQP failed: Accept returns the error and the loop ends. *)
AcceptUndone ==
    /\ spc = "undo"
    /\ accUndo[current] = "nothing"
    /\ spc' = IF sheld = None THEN "stopped" ELSE "accept"
    /\ sheld' = None
    /\ UNCHANGED <<lsn, current, pending, dialVars, cmVars, events, connVars>>

(* ESTABLISHED is acknowledged before its connection is looked up; the other
   events are only acknowledged. *)
Handle ==
    /\ spc = "handle"
    /\ sheld' = None
    /\ IF sheld.type = "Established" /\ current \in pending
       THEN /\ pending' = pending \ {current}
            /\ spc' = "sendBuf"
       ELSE /\ UNCHANGED pending
            /\ spc' = "accept"
    /\ UNCHANGED <<lsn, current, dialVars, cmVars, events, connVars>>

(* The first receive is posted, and Accept returns the connection. *)
ReturnConn ==
    /\ spc = "postRecv"
    /\ conn' = [conn EXCEPT ![current] = "open"]
    /\ spc' = "accept"
    /\ UNCHANGED <<lsn, sheld, current, pending, dialVars, cmVars, events,
                   acc, accUndo>>

(* Conn.Close by the goroutine that serves the connection. *)
CloseAccepted(d) ==
    /\ conn[d] = "open"
    /\ conn' = [conn EXCEPT ![d] = "closing"]
    /\ accUndo' = [accUndo EXCEPT ![d] = "recvMR"]
    /\ UNCHANGED <<acc, dialVars, cmVars, listenVars, events>>

UndoAccepted(d) ==
    /\ conn[d] = "closing"
    /\ IF accUndo[d] = "nothing"
       THEN conn' = [conn EXCEPT ![d] = "closed"] /\ UNCHANGED <<acc, accUndo>>
       ELSE /\ acc' = [acc EXCEPT ![d] = Destroy(@, accUndo[d])]
            /\ accUndo' = [accUndo EXCEPT ![d] = AcceptUndoNext(d)[@]]
            /\ UNCHANGED conn
    /\ UNCHANGED <<dialVars, cmVars, listenVars, events>>

(* What the listener's goroutine does once it has been called. *)
AcceptStep ==
    \/ GetEvent \/ AcceptMake \/ RdmaAccept \/ AcceptFails \/ AcceptUndo
    \/ AcceptUndone \/ Handle \/ ReturnConn

------------------------------------------------------------------------------
Init ==
    /\ pc = [d \in Dials |-> "idle"]
    /\ have = [d \in Dials |-> {}]
    /\ undo = [d \in Dials |-> "nothing"]
    /\ held = [d \in Dials |-> None]
    /\ link = [d \in Conns |-> "none"]
    /\ answer = [d \in Conns |-> None]
    /\ spc = "channel"
    /\ lsn = {}
    /\ events = <<>>
    /\ sheld = None
    /\ current = None
    /\ pending = {}
    /\ acc = [d \in Conns |-> {}]
    /\ accUndo = [d \in Conns |-> "nothing"]
    /\ conn = [d \in Conns |-> "none"]

Next ==
    \/ ListenCall \/ ListenFails \/ AcceptEnds \/ CloseListener
    \/ AcceptStep
    \/ \E d \in Dials : Dial(d) \/ DialStep(d) \/ CloseDialed(d)
    \/ \E d \in Strangers : Stranger(d)
    \/ \E d \in Conns : CM(d) \/ CloseAccepted(d) \/ UndoAccepted(d)

(* A Dial and the loop of Accept go on when they can, and a Dial that waits
   for ever meets its deadline.  The CM owes nobody an answer, and nobody is
   made to close anything. *)
Fairness ==
    /\ WF_vars(AcceptStep)
    /\ \A d \in Dials : WF_vars(DialStep(d))

Spec == Init /\ [][Next]_vars /\ Fairness

------------------------------------------------------------------------------
(* The Dial, its events and its ledger have their types. *)
TypeOK ==
    /\ pc \in [Dials -> DOMAIN After \cup
                  {"idle", "open", "failing", "closing", "failed", "closed"}]
    /\ have \in [Dials -> SUBSET Resource]
    /\ undo \in [Dials -> DOMAIN UndoNext \cup {"nothing"}]
    /\ acc \in [Conns -> SUBSET (Verbs \cup DataPath)]
    /\ accUndo \in [Conns -> DataPath \cup Verbs \cup {"nothing"}]
    /\ lsn \subseteq CMObject
    /\ pending \subseteq Conns
    /\ current \in Conns \cup {None}
    /\ conn \in [Conns -> {"none", "open", "closing", "closed"}]

(* A region lives in a buffer and a protection domain, a queue pair in a
   domain and two queues, an id in an event channel. *)
Founded(made) ==
    /\ \A mr \in {"sendMR", "recvMR"} \cap made : "pd" \in made
    /\ "sendMR" \in made => "sendBuf" \in made
    /\ "recvMR" \in made => "recvBuf" \in made
    /\ "qp" \in made => {"pd", "sendCQ", "recvCQ"} \subseteq made
    /\ "id" \in made => "channel" \in made

(* No clean-up pulls away what something it leaves is built on: a memory
   region never outlives its buffer, an id never outlives its channel. *)
NothingDangles ==
    /\ \A d \in Dials : Founded(have[d])
    /\ \A d \in Conns : Founded(acc[d])
    /\ Founded(lsn)

(* A Dial or an AcceptConn that fails before its queue pair is made leaves
   nothing behind.  From the queue pair on nothing destroys it at the dialling
   end, and its domain and queues stay with it, so that this bounds what can
   stay: of a Dial all of the four or none, of a closed connection no buffer,
   no region and, at the accepting end, no queue pair.  That the rest stays is
   another matter: see the two properties that follow. *)
KeptOnlyWithQP ==
    /\ \A d \in Dials :
          /\ pc[d] = "failed" => have[d] \in {{}, Verbs}
          /\ pc[d] = "closed" => have[d] \subseteq Verbs
    /\ \A d \in Conns :
          /\ conn[d] = "closed" => acc[d] \subseteq Verbs \ {"qp"}
          /\ spc \in {"accept", "stopped", "closed"} /\ conn[d] = "none" =>
                acc[d] \in {{}, Verbs}
    /\ spc = "closed" => lsn = {}

(* "The PD/CQs are owned by the QP and freed when the QP is destroyed"
   (listener.go:110): Close of an accepted connection leaves nothing.  Nothing
   in the code frees them. *)
AcceptedIsFreed ==
    \A d \in Conns : conn[d] = "closed" => acc[d] = {}

(* The cleanup of a connection "releases CM resources (event channel, CM ID,
   PD, CQs)" (conn.go:10): Close of a connection that was dialled leaves
   nothing.  RealCMDialer.Close destroys the id and the channel alone. *)
DialedIsFreed ==
    \A d \in Dials : pc[d] = "closed" => have[d] = {}

(* Dial returns, whatever the CM does or fails to do: its context always has
   a deadline, every wait looks at it, and every event is acknowledged before
   its id is destroyed. *)
DialReturns ==
    \A d \in Dials :
        pc[d] \in DOMAIN After \cup {"failing"} ~> pc[d] \in {"open", "failed"}

(* A connection that was dialled is returned by Accept, while somebody calls
   Accept and both ends want it. *)
DialedIsServed ==
    \A d \in Dials :
        pc[d] = "open" ~> \/ conn[d] # "none"
                          \/ pc[d] # "open"
                          \/ spc \in {"stopped", "closeID", "closeChannel", "closed"}
==============================================================================
