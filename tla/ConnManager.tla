----------------------------- MODULE ConnManager -----------------------------
(***************************************************************************)
(* connection.Manager and the state machine of connection.Conn:            *)
(* RunCMEventLoop with its four handlers, Manager.Connect, Conn.Close,     *)
(* Manager.Close and the tables they share.                                *)
(*                                                                         *)
(* A connection bears the name of the CM id it came with.  Conn.Close is   *)
(* called by the event loop, by Manager.Close and by whom accepted or      *)
(* dialled the connection, and takes no lock: its steps interleave.        *)
(***************************************************************************)
EXTENDS Naturals, Sequences, FiniteSets

CONSTANTS
    IDs,          \* CM ids of connections peers ask for
    Dialed,       \* CM ids of connections that calls of Connect ask for
    MaxConns,     \* bound: connections asked for, by peers or by Connect
    Backlog,      \* capacity of acceptCh (64 in NewManager)
    None          \* no event, no connection

ASSUME ConnManagerAssumption ==
    /\ Backlog \in Nat \ {0}
    /\ MaxConns \in Nat
    /\ IDs \cap Dialed = {}
    /\ None \notin IDs \cup Dialed

Conns == IDs \cup Dialed

VARIABLES
    link,         \* link[c]: how far the CM is with connection c
    events,       \* the CM events not yet taken
    loop,         \* what RunCMEventLoop does next
    event,        \* the connection the handler of the event works on
    state,        \* state[c]: Conn.state, "none" before NewConn
    done,         \* the connections whose channel done is closed
    connections,  \* Manager.connections
    cmIDConns,    \* Manager.cmIDConns
    acceptCh,     \* what waits in Manager.acceptCh
    chClosed,     \* acceptCh is closed
    closed,       \* Manager.closed
    mpc,          \* what Manager.Close does next
    owed,         \* the connections its Range is bound to visit
    at,           \* at[a]: the step of Conn.Close that actor a is at
    target,       \* target[a]: the connection a closes
    dialing,      \* dialing[d]: where the call of Connect is that makes d
    accepted,     \* the connections Accept or Connect has returned
    crash,        \* the panic that ended the program, or "no"
    late,         \* history: the request being served when closed was set,
                  \*   and the calls of Connect that had stored nothing yet
                  \*   when Manager.Close began its Range
    overlap       \* history: connections whose calls of Close have overlapped

cmVars      == <<link, events>>
loopVars    == <<loop, event>>
connVars    == <<state, done>>
tableVars   == <<connections, cmIDConns, acceptCh, chClosed>>
managerVars == <<closed, mpc, owed, late>>
closeVars   == <<at, target, overlap>>
vars == <<cmVars, loopVars, connVars, tableVars, managerVars, closeVars, crash,
          dialing, accepted>>

Actors == {"loop", "manager", "user"}
States == {"Init", "Connecting", "Connected", "Draining", "Closed", "Error"}

Event(type, c) == [type |-> type, id |-> c]

------------------------------------------------------------------------------
(* The connections that somebody has asked for. *)
Asked == {c \in IDs : link[c] # "none"} \cup {d \in Dialed : dialing[d] # "no"}
MayAsk == Cardinality(Asked) < MaxConns

(* The CM: what peers do, in the order the CM lets them.  The events of a
   connection that was dialled go to an event channel of the dialer's. *)

PeerStep(c, from, to, type) ==
    /\ link[c] = from
    /\ link' = [link EXCEPT ![c] = to]
    /\ events' = Append(events, Event(type, c))
    /\ UNCHANGED <<loopVars, connVars, tableVars, managerVars, closeVars, crash>>

PeerRequests(c)    == MayAsk /\ PeerStep(c, "none", "request", "ConnectRequest")
PeerEstablishes(c) == PeerStep(c, "accepted", "up", "Established")
PeerDisconnects(c) == PeerStep(c, "up", "over", "Disconnected")

(* A request that is not answered, or not completed, ends in a rejection. *)
PeerRejects(c) ==
    \/ PeerStep(c, "request", "rejected", "Rejected")
    \/ PeerStep(c, "accepted", "rejected", "Rejected")

Peer(c) == PeerRequests(c) \/ PeerEstablishes(c) \/ PeerDisconnects(c) \/ PeerRejects(c)

------------------------------------------------------------------------------
(* Conn.Close, by actor a on connection c.  Only a connection that was dialled
   has a Dialer and disconnects first, which changes nothing modelled here. *)

Idle(a) == at[a] = "idle"

(* Close has returned: the loop goes on to the next event, Manager.Close
   deletes the connection from its table. *)
GoesOn(a, c) ==
    /\ at' = [at EXCEPT ![a] = "idle"]
    /\ target' = [target EXCEPT ![a] = None]
    /\ IF a = "loop" THEN loop' = "wait" /\ event' = None
       ELSE UNCHANGED loopVars
    /\ connections' = IF a = "manager" THEN connections \ {c} ELSE connections
    /\ overlap' = IF \E b \in Actors \ {a} : target[b] = c THEN overlap
                  ELSE overlap \ {c}

(* The test at the head of Close. *)
CallClose(a, c) ==
    /\ Idle(a)
    /\ IF state[c] \in {"Closed", "Draining"}
       THEN GoesOn(a, c)
       ELSE /\ target' = [target EXCEPT ![a] = c]
            /\ at' = [at EXCEPT ![a] = "drain"]
            /\ overlap' = IF \E b \in Actors : target[b] = c
                          THEN overlap \cup {c} ELSE overlap
            /\ UNCHANGED <<loopVars, connections>>
    /\ UNCHANGED <<cmVars, connVars, cmIDConns, acceptCh, chClosed, managerVars,
                   crash>>

(* Mutant: done is closed without looking whether it is closed. *)
DrainUnlooked(a) ==
    /\ at[a] = "drain"
    /\ state' = [state EXCEPT ![target[a]] = "Draining"]
    /\ at' = [at EXCEPT ![a] = "closeDone"]
    /\ UNCHANGED <<target, overlap, loopVars, connections, done, crash>>

(* Mutant: nobody closes done. *)
DrainOnly(a) ==
    /\ at[a] = "drain"
    /\ state' = [state EXCEPT ![target[a]] = "Draining"]
    /\ at' = [at EXCEPT ![a] = "closed"]
    /\ UNCHANGED <<target, overlap, loopVars, connections, done, crash>>

(* The swap to Draining, then the select with a default: done is looked at
   here and closed in a step of its own. *)
Drain(a) ==
    /\ at[a] = "drain"
    /\ state' = [state EXCEPT ![target[a]] = "Draining"]
    /\ at' = [at EXCEPT ![a] = IF target[a] \in done THEN "closed" ELSE "closeDone"]
    /\ UNCHANGED <<target, overlap, loopVars, connections, done, crash>>

(* Closing a closed channel panics. *)
CloseDone(a) ==
    /\ at[a] = "closeDone"
    /\ IF target[a] \in done
       THEN crash' = "done closed twice" /\ UNCHANGED <<at, done>>
       ELSE /\ done' = done \cup {target[a]}
            /\ at' = [at EXCEPT ![a] = "closed"]
            /\ UNCHANGED crash
    /\ UNCHANGED <<target, overlap, loopVars, connections, state>>

BecomeClosed(a) ==
    /\ at[a] = "closed"
    /\ state' = [state EXCEPT ![target[a]] = "Closed"]
    /\ GoesOn(a, target[a])
    /\ UNCHANGED <<done, crash>>

Close(a) ==
    /\ Drain(a) \/ CloseDone(a) \/ BecomeClosed(a)
    /\ UNCHANGED <<cmVars, cmIDConns, acceptCh, chClosed, managerVars>>

------------------------------------------------------------------------------
(* RunCMEventLoop.  Acknowledging an event changes nothing modelled here, and
   nobody but the loop looks at cmIDConns.  When its context is done, or
   GetEvent fails, the loop ends: it takes no further step. *)

(* The next event is of this type, and the loop takes it. *)
Takes(type) ==
    /\ loop = "wait"
    /\ events # <<>>
    /\ Head(events).type = type
    /\ events' = Tail(events)

(* handleConnectRequest up to NewConn: a closed manager ignores the request;
   AcceptConn succeeds, on a request that may be over by now. *)
ConnectRequest ==
    /\ Takes("ConnectRequest")
    /\ ~closed
    /\ LET c == Head(events).id IN
           /\ event' = c
           /\ loop' = "store"
           /\ link' = [link EXCEPT ![c] = IF @ = "request" THEN "accepted" ELSE @]
           /\ state' = [state EXCEPT ![c] = "Connecting"]
    /\ UNCHANGED <<done, tableVars, managerVars, closeVars, crash>>

(* The manager is closed, or AcceptConn fails: the request is skipped. *)
ConnectRequestSkipped ==
    /\ Takes("ConnectRequest")
    /\ UNCHANGED <<link, loop, event, connVars, tableVars, managerVars, closeVars,
                   crash>>

(* Mutant: the connection is not to be found by its CM id. *)
StoreForgetsID ==
    /\ loop = "store"
    /\ connections' = connections \cup {event}
    /\ loop' = "offer"
    /\ UNCHANGED <<cmVars, event, connVars, cmIDConns, acceptCh, chClosed,
                   managerVars, closeVars, crash>>

Store ==
    /\ loop = "store"
    /\ connections' = connections \cup {event}
    /\ cmIDConns' = cmIDConns \cup {event}
    /\ loop' = "offer"
    /\ UNCHANGED <<cmVars, event, connVars, acceptCh, chClosed, managerVars,
                   closeVars, crash>>

(* The send with a default: dropped when acceptCh is full, a panic when it is
   closed. *)
Offer ==
    /\ loop = "offer"
    /\ IF chClosed
       THEN crash' = "send on acceptCh" /\ UNCHANGED <<loop, event, acceptCh>>
       ELSE /\ acceptCh' = IF Len(acceptCh) < Backlog
                           THEN Append(acceptCh, event) ELSE acceptCh
            /\ loop' = "wait"
            /\ event' = None
            /\ UNCHANGED crash
    /\ UNCHANGED <<cmVars, connVars, connections, cmIDConns, chClosed, managerVars,
                   closeVars>>

(* What the other handlers do to a connection, and the state they look for
   when they do not know the CM id. *)
Effect == [Established |-> "Connected", Rejected |-> "Error", Disconnected |-> "close"]
Sought == [Established |-> "Connecting", Rejected |-> "Connecting",
           Disconnected |-> "Connected"]

(* The connection of the event: that of its CM id, or the first that Range
   finds in the state sought. *)
Candidates(e) ==
    IF e.id \in cmIDConns THEN {e.id}
    ELSE {c \in connections : state[c] = Sought[e.type]}

(* The connection is looked up; what is done to it comes next. *)
LookUp(type) ==
    /\ Takes(type)
    /\ IF Candidates(Head(events)) = {}
       THEN UNCHANGED <<loop, event>>
       ELSE loop' = Effect[type] /\ event' \in Candidates(Head(events))
    /\ cmIDConns' = IF type = "Established" THEN cmIDConns
                    ELSE cmIDConns \ {Head(events).id}
    /\ UNCHANGED <<link, connVars, connections, acceptCh, chClosed, managerVars,
                   closeVars, crash>>

SetState ==
    /\ loop \in {"Connected", "Error"}
    /\ state' = [state EXCEPT ![event] = loop]
    /\ loop' = "wait"
    /\ event' = None
    /\ UNCHANGED <<cmVars, done, tableVars, managerVars, closeVars, crash>>

CloseByLoop == loop = "close" /\ CallClose("loop", event)

HandleCMEvent ==
    \/ ConnectRequest \/ ConnectRequestSkipped \/ Store \/ Offer
    \/ (\E type \in DOMAIN Effect : LookUp(type))
    \/ SetState \/ CloseByLoop \/ Close("loop")

------------------------------------------------------------------------------
(* Manager.Close. *)

CloseSwap ==
    /\ mpc = "open"
    /\ closed' = TRUE
    /\ mpc' = "closeCh"
    /\ late' = IF loop \in {"store", "offer"} THEN {event} ELSE {}
    /\ UNCHANGED <<cmVars, loopVars, connVars, tableVars, owed, closeVars, crash>>

(* Mutant: what waits in the channel is thrown away. *)
CloseAcceptChDrains ==
    /\ mpc = "closeCh"
    /\ chClosed' = TRUE
    /\ acceptCh' = <<>>
    /\ mpc' = "range"
    /\ UNCHANGED <<cmVars, loopVars, connVars, connections, cmIDConns, closed, owed,
                   late, closeVars, crash>>

CloseAcceptCh ==
    /\ mpc = "closeCh"
    /\ chClosed' = TRUE
    /\ mpc' = "range"
    /\ UNCHANGED <<cmVars, loopVars, connVars, connections, cmIDConns, acceptCh,
                   closed, owed, late, closeVars, crash>>

(* Range visits what is there when it begins; of what comes later it visits
   some and misses some. *)
RangeBegins ==
    /\ mpc = "range"
    /\ owed' = connections
    /\ mpc' = "visit"
    /\ late' = late \cup {d \in Dialed : dialing[d] \in {"dial", "store"}}
    /\ UNCHANGED <<cmVars, loopVars, connVars, tableVars, closed, closeVars, crash>>

Visit(c) ==
    /\ mpc = "visit"
    /\ c \in connections
    /\ CallClose("manager", c)

RangeEnds ==
    /\ mpc = "visit"
    /\ Idle("manager")
    /\ owed \cap connections = {}
    /\ owed' = {}
    /\ mpc' = "closed"
    /\ UNCHANGED <<cmVars, loopVars, connVars, tableVars, closed, late, closeVars,
                   crash>>

ManagerClose ==
    \/ CloseSwap \/ CloseAcceptCh \/ RangeBegins \/ (\E c \in Conns : Visit(c))
    \/ RangeEnds \/ Close("manager")

------------------------------------------------------------------------------
(* Manager.Connect with a dialer.  closed is looked at when the call begins,
   and at no later time. *)

ConnectStep(d, from, to) ==
    /\ dialing[d] = from
    /\ dialing' = [dialing EXCEPT ![d] = to]
    /\ UNCHANGED <<cmVars, loopVars, done, acceptCh, chClosed, managerVars, closeVars,
                   crash>>

(* Mutant: a closed manager still dials. *)
BeginConnectUnchecked(d) ==
    /\ MayAsk
    /\ ConnectStep(d, "no", "dial")
    /\ UNCHANGED <<state, connections, cmIDConns, accepted>>

BeginConnect(d) ==
    /\ MayAsk
    /\ ~closed
    /\ ConnectStep(d, "no", "dial")
    /\ UNCHANGED <<state, connections, cmIDConns, accepted>>

(* The dial fails, or no receive buffers can be posted. *)
ConnectFails(d) ==
    /\ ConnectStep(d, "dial", "failed")
    /\ UNCHANGED <<state, connections, cmIDConns, accepted>>

(* Nobody else knows the connection before it is in the table. *)
DialSucceeds(d) ==
    /\ ConnectStep(d, "dial", "store")
    /\ state' = [state EXCEPT ![d] = "Connected"]
    /\ UNCHANGED <<connections, cmIDConns, accepted>>

StoreDialed(d) ==
    /\ ConnectStep(d, "store", "storeID")
    /\ connections' = connections \cup {d}
    /\ UNCHANGED <<state, cmIDConns, accepted>>

ReturnDialed(d) ==
    /\ ConnectStep(d, "storeID", "returned")
    /\ cmIDConns' = cmIDConns \cup {d}
    /\ accepted' = accepted \cup {d}
    /\ UNCHANGED <<state, connections>>

Connect(d) ==
    \/ BeginConnect(d) \/ ConnectFails(d) \/ DialSucceeds(d) \/ StoreDialed(d)
    \/ ReturnDialed(d)

------------------------------------------------------------------------------
(* The goroutine that accepts or dials and, for what it got, calls Close. *)

(* Manager.Accept returns a connection; its other returns change nothing. *)
Accept ==
    /\ acceptCh # <<>>
    /\ acceptCh' = Tail(acceptCh)
    /\ accepted' = accepted \cup {Head(acceptCh)}
    /\ UNCHANGED <<cmVars, loopVars, connVars, connections, cmIDConns, chClosed,
                   managerVars, closeVars, crash, dialing>>

UserCloses(c) == c \in accepted /\ CallClose("user", c)

User == (\E c \in Conns : UserCloses(c)) \/ Close("user")

------------------------------------------------------------------------------
Init ==
    /\ link = [c \in Conns |-> "none"]
    /\ events = <<>>
    /\ loop = "wait"
    /\ event = None
    /\ state = [c \in Conns |-> "none"]
    /\ done = {}
    /\ connections = {}
    /\ cmIDConns = {}
    /\ acceptCh = <<>>
    /\ chClosed = FALSE
    /\ closed = FALSE
    /\ mpc = "open"
    /\ owed = {}
    /\ at = [a \in Actors |-> "idle"]
    /\ target = [a \in Actors |-> None]
    /\ crash = "no"
    /\ late = {}
    /\ overlap = {}
    /\ accepted = {}
    /\ dialing = [d \in Dialed |-> "no"]

userVars == <<accepted, dialing>>

Loop == HandleCMEvent /\ UNCHANGED userVars

(* After a panic nothing happens any more. *)
Next ==
    /\ crash = "no"
    /\ \/ Accept
       \/ Loop
       \/ \E d \in Dialed : Connect(d)
       \/ /\ ManagerClose \/ User \/ \E c \in IDs : Peer(c)
          /\ UNCHANGED userVars

(* While the event loop runs it handles what there is, and a call of Conn.Close goes on to
   its end; nobody is made to call anything. *)
Fairness ==
    /\ WF_vars(crash = "no" /\ Loop)
    /\ \A a \in Actors \ {"loop"} : WF_vars(crash = "no" /\ Close(a) /\ UNCHANGED userVars)

Spec == Init /\ [][Next]_vars /\ Fairness

------------------------------------------------------------------------------
(* The tables and states have their types. *)
TypeOK ==
    /\ state \in [Conns -> States \cup {"none"}]
    /\ done \cup connections \cup cmIDConns \cup accepted \cup late \cup overlap \subseteq Conns
    /\ acceptCh \in Seq(IDs) /\ Len(acceptCh) <= Backlog
    /\ loop \in {"wait", "store", "offer", "Connected", "Error", "close"}
    /\ event \in Conns \cup {None}
    /\ target \in [Actors -> Conns \cup {None}]
    /\ dialing \in [Dialed -> {"no", "dial", "store", "storeID", "returned", "failed"}]

(* A connection is closed for a cause of its own: its peer has disconnected,
   the manager was closed, or it was in the hands of the goroutine that
   accepted or dialled it.  Until then the event of one connection closes no
   other, although a handler that does not know the id of its event takes the
   first connection it finds in the state it looks for.  This says nothing of
   the states Connected and Error, where a Rejected whose request was skipped
   may still put another connection. *)
ClosedForCause ==
    \A c \in Conns :
        state[c] \in {"Draining", "Closed"} \/ c \in done =>
            link[c] = "over" \/ closed \/ c \in accepted

(* The two panics the code can meet need a race: two calls of Close on one
   connection that overlap, or a request that was being served when the
   manager was closed. *)
CrashNeedsRace ==
    /\ crash = "done closed twice" => overlap # {}
    /\ crash = "send on acceptCh" => late \cap IDs # {}

(* When Manager.Close has returned every connection is closed, or another
   goroutine is closing it, or Close came too early for it: its request was
   being served when Close began, or the Connect that makes it had not stored
   it yet when Close began to look through the table. *)
ManagerLeavesNoneOpen ==
    mpc = "closed" =>
        \A c \in Conns : \/ state[c] = "none"
                         \/ c \in done \cup late
                         \/ \E a \in Actors : target[a] = c

(* "Close shuts down all connections" (manager.go:187): once it has returned,
   nobody is given a connection, by Accept or by Connect, that is open.  The
   code does not do this: a Connect that has looked at closed before Close set
   it stores its connection after Close has looked through the table. *)
NoneOpenAfterClose ==
    mpc = "closed" =>
        \A c \in accepted : c \in done \/ \E a \in Actors : target[a] = c

(* A connection whose peer disconnects gets its done channel closed, so that
   a Recv on it returns: its event finds it by its id, and whoever else has
   begun to close it finishes. *)
DisconnectIsNoticed ==
    \A c \in IDs : link[c] = "over" ~> c \in done \/ crash # "no"

(* The manager implements ConnOffers, for the connections it accepts. *)
Made == {c \in Conns : state[c] # "none"} \ (IF loop \in {"store", "offer"} THEN {event} ELSE {})
Offers == INSTANCE ConnOffers WITH offered <- Made \cap IDs, done <- done \cap IDs
ImplementsOffers == Offers!OffersSpec
==============================================================================
