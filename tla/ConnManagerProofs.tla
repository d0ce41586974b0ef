-------------------------- MODULE ConnManagerProofs --------------------------
(***************************************************************************)
(* connection.Manager for every number of connections, at either end,      *)
(* and every capacity of acceptCh: who gets a connection closed, what it   *)
(* takes to panic, what Manager.Close leaves open, and that the manager    *)
(* implements ConnOffers.                                                  *)
(***************************************************************************)
EXTENDS ConnManager, TLAPS

Links == {"none", "request", "accepted", "up", "over", "rejected"}
Types == {"ConnectRequest", "Established", "Disconnected", "Rejected"}
Events == [type : Types, id : IDs]

Storing(c) == loop \in {"store", "offer"} /\ event = c
Targeted(c) == \E a \in Actors : target[a] = c

(* The parts of the state that TypeOK leaves out.                           *)
PartsOK ==
    /\ link \in [Conns -> Links]
    /\ events \in Seq(Events)
    /\ at \in [Actors -> {"idle", "drain", "closeDone", "closed"}]
    /\ mpc \in {"open", "closeCh", "range", "visit", "closed"}
    /\ owed \subseteq Conns
    /\ closed \in BOOLEAN /\ chClosed \in BOOLEAN
    /\ closed <=> mpc # "open"
    /\ chClosed <=> mpc \in {"range", "visit", "closed"}

(* The event loop works on a connection that exists; it closes one whose    *)
(* peer is gone.                                                            *)
LoopInv ==
    /\ loop # "wait" => event \in Conns /\ state[event] # "none"
    /\ loop \notin {"wait", "close"} => event \in IDs
    /\ loop = "close" => link[event] = "over"

-----------------------------------------------------------------------------
(* The events of the CM.                                                    *)

Waits(i, type, c) == i \in DOMAIN events /\ events[i] = Event(type, c)

(* The event loop finds a connection by its id, or is about to store it.    *)
Findable(c) == c \in cmIDConns \/ (loop = "store" /\ event = c)

(* A connection is asked for once and ends once; its end finds it.          *)
EventOK(c) ==
    /\ link[c] = "none" => state[c] = "none" /\ \A i \in Nat : ~Waits(i, "ConnectRequest", c)
    /\ link[c] \in {"accepted", "up"} => Findable(c)
    /\ \A i \in Nat : Waits(i, "ConnectRequest", c) =>
          /\ state[c] = "none"
          /\ \A j \in Nat : Waits(j, "ConnectRequest", c) => i = j
    /\ \A i \in Nat : Waits(i, "Disconnected", c) =>
          /\ link[c] = "over" /\ Findable(c)
          /\ \A j \in Nat : Waits(j, "Disconnected", c) => i = j
    /\ \A i \in Nat : Waits(i, "Rejected", c) => link[c] = "rejected"

EventInv == \A c \in IDs : EventOK(c)

-----------------------------------------------------------------------------
(* The calls of Conn.Close.                                                 *)

Cause(c) == link[c] = "over" \/ closed \/ c \in accepted

CallOK(a) ==
    /\ at[a] = "idle" <=> target[a] = None
    /\ at[a] # "idle" =>
          /\ state[target[a]] # "none"
          /\ Cause(target[a])
          /\ target[a] \in Made \/ chClosed
    /\ at[a] = "closed" => target[a] \in done
    /\ at[a] = "closeDone" /\ target[a] \in done => target[a] \in overlap

CallInv ==
    /\ \A a \in Actors : CallOK(a)
    /\ \A a, b \in Actors : a # b /\ target[a] = target[b] /\ target[a] # None =>
          target[a] \in overlap
    /\ at["loop"] # "idle" => loop = "close"
    /\ at["manager"] # "idle" => mpc = "visit"

(* What the state of a connection says of the calls that closed it.         *)
StateInv ==
    \A c \in Conns :
        /\ state[c] = "Draining" => Targeted(c)
        /\ state[c] = "Closed" => c \in done
        /\ c \in done => Cause(c) /\ state[c] # "none"
        /\ state[c] \in {"Draining", "Closed"} => Cause(c)

-----------------------------------------------------------------------------
(* The tables, and what Manager.Close owes.                                 *)

TableInv ==
    /\ \A c \in connections \cup cmIDConns : state[c] # "none"
    /\ accepted \subseteq Made
    /\ \A i \in DOMAIN acceptCh : acceptCh[i] \in Made

(* A connection is in the table, or is about to be, or is closed or being   *)
(* closed.  What Close is not bound to visit came while it ran.             *)
SweepInv ==
    /\ \A c \in Conns : state[c] # "none" =>
          \/ c \in connections \cup done
          \/ Targeted(c)
          \/ loop = "store" /\ event = c
          \/ c \in Dialed /\ dialing[c] = "store"
    /\ mpc \in {"visit", "closed"} =>
          \A d \in Dialed : dialing[d] \in {"dial", "store"} => d \in late
    /\ closed /\ loop \in {"store", "offer"} => event \in late
    /\ mpc = "visit" => connections \subseteq owed \cup late
    /\ mpc = "closed" => connections \subseteq late

(* Who is not in Connect's hands any more has a state, and no handler of    *)
(* the event loop but the one that closes touches it.                       *)
DialedInv ==
    \A d \in Dialed :
        /\ state[d] \in {"none", "Connected", "Draining", "Closed"}
        /\ state[d] = "none" <=> dialing[d] \in {"no", "dial", "failed"}

CrashInv ==
    /\ crash \in {"no", "done closed twice", "send on acceptCh"}
    /\ CrashNeedsRace

IInv ==
    /\ TypeOK /\ PartsOK /\ LoopInv /\ EventInv /\ CallInv
    /\ StateInv /\ TableInv /\ SweepInv /\ DialedInv /\ CrashInv

-----------------------------------------------------------------------------
(* Sequences of events.                                                     *)

(* A connection appended to acceptCh, and what is known of all in it.       *)
LEMMA OfferedOne ==
    ASSUME NEW M, Backlog \in Nat,
           acceptCh \in Seq(IDs), Len(acceptCh) < Backlog, event \in IDs, event \in M,
           \A i \in DOMAIN acceptCh : acceptCh[i] \in M,
           acceptCh' = Append(acceptCh, event)
    PROVE  /\ acceptCh' \in Seq(IDs) /\ Len(acceptCh') <= Backlog
           /\ \A i \in DOMAIN acceptCh' : acceptCh'[i] \in M
<1>1. /\ acceptCh' \in Seq(IDs) /\ Len(acceptCh) \in Nat
      /\ Len(acceptCh') = Len(acceptCh) + 1
      /\ \A i \in 1..Len(acceptCh) : acceptCh'[i] = acceptCh[i]
      /\ acceptCh'[Len(acceptCh) + 1] = event
      /\ DOMAIN acceptCh' = 1..Len(acceptCh') /\ DOMAIN acceptCh = 1..Len(acceptCh)
  OBVIOUS
<1>2. Len(acceptCh') <= Backlog
  BY <1>1
<1>3. ASSUME NEW i \in DOMAIN acceptCh'
      PROVE  acceptCh'[i] \in M
  BY <1>1
<1> QED
  BY <1>1, <1>2, <1>3

(* The elements of acceptCh are connections.                                *)
LEMMA WaitingConns ==
    ASSUME acceptCh \in Seq(IDs)
    PROVE  \A i \in DOMAIN acceptCh : acceptCh[i] \in IDs
    OBVIOUS

(* What waits after an event was appended.                                  *)
LEMMA AppendedEvent ==
    ASSUME events \in Seq(Events), NEW type \in Types, NEW c \in IDs,
           events' = Append(events, Event(type, c))
    PROVE  /\ events' \in Seq(Events)
           /\ \A i \in Nat, t \in Types, d \in IDs : Waits(i, t, d)' =>
                 \/ Waits(i, t, d)
                 \/ i = Len(events) + 1 /\ t = type /\ d = c
<1>1. Event(type, c) \in Events
  BY DEF Event, Events
<1>2. /\ events' \in Seq(Events)
      /\ Len(events) \in Nat /\ Len(events') = Len(events) + 1
      /\ DOMAIN events = 1..Len(events) /\ DOMAIN events' = 1..Len(events')
      /\ \A i \in 1..Len(events) : events'[i] = events[i]
      /\ events'[Len(events) + 1] = Event(type, c)
  BY <1>1
<1>3. ASSUME NEW i \in Nat, NEW t \in Types, NEW d \in IDs, Waits(i, t, d)'
      PROVE  Waits(i, t, d) \/ (i = Len(events) + 1 /\ t = type /\ d = c)
  <2>1. CASE i = Len(events) + 1
    BY <1>2, <1>3, <2>1 DEF Waits, Event
  <2>2. CASE i # Len(events) + 1
    BY <1>2, <1>3, <2>2 DEF Waits
  <2> QED
    BY <2>1, <2>2
<1> QED
  BY <1>2, <1>3

(* What waits after an event was taken.                                     *)
LEMMA TakenEvent ==
    ASSUME events \in Seq(Events), NEW type \in Types, Takes(type)
    PROVE  /\ events' \in Seq(Events) /\ Head(events) \in Events
           /\ Head(events).id \in IDs
           /\ Waits(1, type, Head(events).id)
           /\ \A i \in Nat, t \in Types, d \in IDs : Waits(i, t, d)' =>
                 i # 0 /\ Waits(i + 1, t, d)
<1>1. /\ events' \in Seq(Events) /\ Head(events) = events[1] /\ Head(events) \in Events
      /\ Len(events) \in Nat \ {0} /\ Len(events') = Len(events) - 1
      /\ DOMAIN events = 1..Len(events) /\ DOMAIN events' = 1..Len(events')
      /\ \A i \in 1..Len(events') : events'[i] = events[i + 1]
  BY DEF Takes
<1>2. Head(events) = Event(type, Head(events).id) /\ Head(events).id \in IDs
  BY <1>1 DEF Takes, Events, Event
<1> QED
  BY <1>1, <1>2 DEF Waits

(* After a request or an end was taken no second one waits for the same     *)
(* connection.                                                              *)
LEMMA TakenOnce ==
    ASSUME IInv, NEW type \in {"ConnectRequest", "Disconnected"}, Takes(type)
    PROVE  \A i \in Nat : \A c \in IDs : c = Head(events).id =>
              ~ (i \in DOMAIN events' /\ events'[i] = Event(type, c))
<1> SUFFICES ASSUME NEW i \in Nat, NEW c \in IDs, c = Head(events).id, Waits(i, type, c)'
             PROVE  FALSE
  BY DEF Waits
<1>1. Waits(1, type, c) /\ i # 0 /\ Waits(i + 1, type, c) /\ i + 1 \in Nat
  BY TakenEvent DEF IInv, PartsOK, Types
<1>2. 1 = i + 1
  BY <1>1 DEF IInv, EventInv, EventOK
<1> QED
  BY <1>1, <1>2

-----------------------------------------------------------------------------
(* Frames.                                                                  *)

(* What a step may do to the facts the other parts rest on: add to them.    *)
Grows ==
    /\ \A c \in Conns : /\ state[c] # "none" => state'[c] # "none"
                        /\ c \in Made => c \in Made'
                        /\ Cause(c) => Cause(c)'
    /\ done \subseteq done'
    /\ chClosed => chClosed'

(* A step that queues no event and forgets no connection keeps EventInv.    *)
LEMMA EventFrame ==
    ASSUME EventInv, UNCHANGED cmVars,
           \A c \in IDs : state'[c] = "none" <=> state[c] = "none",
           \A c \in IDs : Findable(c) => Findable(c)'
    PROVE  EventInv'
    BY DEF EventInv, EventOK, Waits, cmVars

(* A step that touches no call of Close.                                    *)
LEMMA CallFrame ==
    ASSUME TypeOK, CallInv, Grows, UNCHANGED <<closeVars, done>>,
           at["loop"] # "idle" => loop' = "close",
           at["manager"] # "idle" => mpc' = "visit"
    PROVE  CallInv'
<1>1. \A a \in Actors : CallOK(a)'
  <2> SUFFICES ASSUME NEW a \in Actors
               PROVE  CallOK(a)'
    OBVIOUS
  <2>1. CallOK(a) /\ target[a] \in Conns \cup {None}
    BY DEF CallInv, TypeOK
  <2> QED
    BY <2>1 DEF CallOK, Grows, closeVars, ConnManagerAssumption
<1> QED
  BY <1>1 DEF CallInv, closeVars

-----------------------------------------------------------------------------
(* The initial states.                                                      *)
LEMMA InitInv == Init => IInv
<1> SUFFICES ASSUME Init
             PROVE  IInv
  OBVIOUS
<1> USE ConnManagerAssumption DEF Init, Conns
<1>1. TypeOK
  BY DEF TypeOK
<1>2. PartsOK
  <2>1. /\ link \in [Conns -> Links] /\ events \in Seq(Events)
        /\ at \in [Actors -> {"idle", "drain", "closeDone", "closed"}]
        /\ mpc = "open" /\ owed \subseteq Conns
    BY DEF Links
  <2>2. closed \in BOOLEAN /\ chClosed \in BOOLEAN
    BY Zenon
  <2>3. /\ closed <=> mpc # "open"
        /\ chClosed <=> mpc \in {"range", "visit", "closed"}
    OBVIOUS
  <2> QED
    BY <2>1, <2>2, <2>3 DEF PartsOK
<1>3. LoopInv
  BY DEF LoopInv
<1>4. EventInv
  <2>1. \A i \in Nat : i \notin DOMAIN events
    OBVIOUS
  <2> QED
    BY <2>1 DEF EventInv, EventOK, Waits
<1>5. CallInv
  BY DEF CallInv, CallOK, Actors
<1>6. StateInv
  BY DEF StateInv
<1>7. TableInv
  BY DEF TableInv
<1>8. SweepInv
  BY DEF SweepInv
<1>d. DialedInv
  BY DEF DialedInv
<1>9. CrashInv
  BY DEF CrashInv, CrashNeedsRace
<1> QED
  BY <1>1, <1>2, <1>3, <1>4, <1>5, <1>6, <1>7, <1>8, <1>9, <1>d DEF IInv

-----------------------------------------------------------------------------
(* The peers.                                                               *)

(* A peer's step changes the CM alone.                                      *)
LEMMA PeerFrame ==
    ASSUME IInv, UNCHANGED <<loopVars, connVars, tableVars, managerVars, closeVars, crash, userVars>>,
           link' \in [Conns -> Links], events' \in Seq(Events), EventInv',
           \A c \in Conns : link[c] = "over" => link'[c] = "over"
    PROVE  IInv'
<1> USE DEF Conns, IInv, userVars, loopVars, connVars, tableVars, managerVars, closeVars
<1>g. Grows
  BY DEF Grows, Made, Cause
<1>1. TypeOK' /\ PartsOK'
  BY DEF TypeOK, PartsOK
<1>3. LoopInv'
  BY DEF LoopInv
<1>5. CallInv'
  BY <1>g, CallFrame DEF CallInv
<1>6. StateInv'
  BY <1>g DEF StateInv, Grows, Targeted
<1>7. TableInv'
  BY DEF TableInv, Made
<1>8. SweepInv'
  BY DEF SweepInv, Targeted
<1>d. DialedInv'
  BY DEF DialedInv
<1>9. CrashInv'
  BY DEF CrashInv, CrashNeedsRace
<1> QED
  BY <1>1, <1>3, <1>5, <1>6, <1>7, <1>8, <1>9, <1>d

(* The CM tells of a connection what its way through the CM allows.         *)
LEMMA PeerInv ==
    ASSUME IInv, NEW c \in IDs, Peer(c), UNCHANGED userVars
    PROVE  IInv'
<1> DEFINE From(type) == CASE type = "ConnectRequest" -> {"none"}
                           [] type = "Established"    -> {"accepted"}
                           [] type = "Disconnected"   -> {"up"}
                           [] OTHER                   -> {"request", "accepted"}
           To(type) == CASE type = "ConnectRequest" -> "request"
                         [] type = "Established"    -> "up"
                         [] type = "Disconnected"   -> "over"
                         [] OTHER                   -> "rejected"
<1>1. PICK type \in Types :
        /\ link[c] \in From(type)
        /\ link' = [link EXCEPT ![c] = To(type)]
        /\ events' = Append(events, Event(type, c))
        /\ UNCHANGED <<loopVars, connVars, tableVars, managerVars, closeVars, crash>>
  BY DEF Peer, PeerRequests, PeerEstablishes, PeerDisconnects, PeerRejects,
     PeerStep, Types
<1>2. events \in Seq(Events) /\ link \in [Conns -> Links] /\ EventInv
  BY DEF IInv, PartsOK
<1>3. /\ events' \in Seq(Events)
      /\ \A i \in Nat, t \in Types, d \in IDs : Waits(i, t, d)' =>
            Waits(i, t, d) \/ (i = Len(events) + 1 /\ t = type /\ d = c)
  BY <1>1, <1>2, AppendedEvent
<1>4. /\ link' \in [Conns -> Links]
      /\ \A d \in Conns : link[d] = "over" => link'[d] = "over"
  BY <1>1, <1>2 DEF Links
<1>5. EventInv'
  <2> SUFFICES ASSUME NEW d \in IDs
               PROVE  EventOK(d)'
    BY DEF EventInv
  <2>0. EventOK(d) /\ state' = state /\ Findable(d)' = Findable(d)
    BY <1>1, <1>2 DEF EventInv, Findable, connVars, loopVars, tableVars
  <2>1. CASE d # c
    BY <2>0, <2>1, <1>1, <1>2, <1>3 DEF EventOK, Types
  <2>2. CASE d = c
    BY <2>0, <2>2, <1>1, <1>2, <1>3, link'[c] = To(type) DEF EventOK, Types, Conns
  <2> QED
    BY <2>1, <2>2
<1> QED
  BY <1>1, <1>3, <1>4, <1>5, PeerFrame

-----------------------------------------------------------------------------
(* The event loop.                                                          *)

(* A request is served: a connection that nobody knew.                      *)
LEMMA ConnectRequestInv ==
    ASSUME IInv, ConnectRequest, UNCHANGED userVars
    PROVE  IInv'
<1> USE ConnManagerAssumption DEF Conns, IInv, userVars, ConnectRequest, Takes, connVars,
       tableVars, managerVars, closeVars
<1>0. /\ events' \in Seq(Events) /\ Head(events).id \in IDs
      /\ Waits(1, "ConnectRequest", Head(events).id)
      /\ \A i \in Nat, t \in Types, d \in IDs : Waits(i, t, d)' =>
            i # 0 /\ i + 1 \in Nat /\ Waits(i + 1, t, d)
  BY TakenEvent DEF PartsOK, Types
<1>c. PICK c \in IDs : c = Head(events).id
  BY <1>0
<1>f. \A i \in Nat : ~Waits(i, "ConnectRequest", c)'
  BY <1>c, TakenOnce DEF Waits
<1>g. Grows
  <2>1. state[c] = "none" /\ state' = [state EXCEPT ![c] = "Connecting"]
    BY <1>0, <1>c DEF ConnectRequest, EventInv, EventOK
  <2>2. /\ loop = "wait" /\ loop' = "store" /\ event' = c
        /\ \A d \in Conns : link[d] = "over" => link'[d] = "over"
    BY <1>c DEF ConnectRequest, Takes, PartsOK
  <2> QED
    BY <2>1, <2>2 DEF Grows, Made, Cause, TypeOK, ConnectRequest, connVars,
       tableVars, managerVars
<1>1. TypeOK'
  BY <1>0, <1>c DEF TypeOK, States
<1>2. PartsOK'
  BY <1>0, <1>c DEF PartsOK, Links
<1>3. LoopInv'
  BY <1>0, <1>c DEF LoopInv, TypeOK, PartsOK, ConnectRequest
<1>4. EventInv'
  <2> SUFFICES ASSUME NEW d \in IDs
               PROVE  EventOK(d)'
    BY DEF EventInv
  <2>0. EventOK(d)
    BY DEF EventInv
  <2>1. \A i \in Nat, t \in Types : Waits(i, t, d)' => i + 1 \in Nat /\ Waits(i + 1, t, d)
    BY <1>0
  <2>4. \A i, j \in Nat : i + 1 = j + 1 => i = j
    OBVIOUS
  <2>2. CASE d # c
    BY <2>0, <2>1, <2>4, <2>2, <1>c DEF EventOK, Types, Findable, TypeOK, PartsOK
  <2>3. CASE d = c
    BY <2>0, <2>1, <2>4, <2>3, <1>0, <1>c, <1>f DEF EventOK, Types, Findable,
       TypeOK, PartsOK
  <2> QED
    BY <2>2, <2>3
<1>5. CallInv'
  BY <1>g, CallFrame DEF CallInv
<1>6. StateInv'
  BY <1>g, <1>c DEF StateInv, Grows, Targeted, TypeOK
<1>7. TableInv'
  BY <1>g DEF TableInv, Grows, TypeOK
<1>8. SweepInv'
  BY <1>c DEF SweepInv, Targeted, PartsOK, TypeOK
<1>d. DialedInv'
  <2>1. \A d \in Dialed : state'[d] = state[d]
    BY <1>c DEF TypeOK
  <2> QED
    BY <2>1 DEF DialedInv
<1>9. CrashInv'
  BY DEF CrashInv, CrashNeedsRace
<1> QED
  BY <1>1, <1>2, <1>3, <1>4, <1>5, <1>6, <1>7, <1>8, <1>9, <1>d

(* A request is skipped.                                                    *)
LEMMA ConnectRequestSkippedInv ==
    ASSUME IInv, ConnectRequestSkipped, UNCHANGED userVars
    PROVE  IInv'
<1>0. /\ events' \in Seq(Events)
      /\ \A i \in Nat, t \in Types, d \in IDs : Waits(i, t, d)' =>
            i + 1 \in Nat /\ Waits(i + 1, t, d)
  <2>1. events \in Seq(Events) /\ Takes("ConnectRequest")
    BY DEF ConnectRequestSkipped, IInv, PartsOK
  <2> QED
    BY <2>1, TakenEvent DEF Types
<1>1. UNCHANGED <<link, loopVars, connVars, tableVars, managerVars, closeVars, crash, userVars>>
  BY DEF ConnectRequestSkipped, loopVars
<1>2. EventInv'
  <2> SUFFICES ASSUME NEW d \in IDs
               PROVE  EventOK(d)'
    BY DEF EventInv
  <2>0. EventOK(d)
    BY DEF IInv, EventInv
  <2>1. \A i, j \in Nat : i + 1 = j + 1 => i = j
    OBVIOUS
  <2> QED
    BY <2>0, <2>1, <1>0, <1>1 DEF EventOK, Types, Findable, loopVars, connVars,
       tableVars
<1> QED
  BY <1>0, <1>1, <1>2, PeerFrame DEF IInv, PartsOK

(* The connection is stored.                                                *)
LEMMA StoreInv ==
    ASSUME IInv, Store, UNCHANGED userVars
    PROVE  IInv'
<1> USE ConnManagerAssumption DEF Conns, IInv, userVars, Store, cmVars, loopVars, connVars,
       tableVars, managerVars, closeVars
<1>g. Grows
  BY DEF Grows, Made, Cause, TypeOK
<1>1. TypeOK'
  BY DEF TypeOK, LoopInv
<1>2. PartsOK'
  BY DEF PartsOK
<1>3. LoopInv'
  BY <1>g DEF LoopInv, Grows, TypeOK, PartsOK, Store
<1>4. EventInv'
  BY <1>g, EventFrame DEF Grows, Findable
<1>5. CallInv'
  BY <1>g, CallFrame DEF CallInv
<1>6. StateInv'
  BY <1>g DEF StateInv, Grows, Targeted
<1>7. TableInv'
  BY <1>g DEF TableInv, Grows, TypeOK, LoopInv
<1>8. SweepInv'
  BY DEF SweepInv, Targeted, PartsOK, TypeOK
<1>d. DialedInv'
  BY DEF DialedInv
<1>9. CrashInv'
  BY DEF CrashInv, CrashNeedsRace
<1> QED
  BY <1>1, <1>2, <1>3, <1>4, <1>5, <1>6, <1>7, <1>8, <1>9, <1>d

(* The connection is offered, dropped, or offered to a closed channel.      *)
LEMMA OfferInv ==
    ASSUME IInv, Offer, UNCHANGED userVars
    PROVE  IInv'
<1> USE ConnManagerAssumption DEF Conns, IInv, userVars, Offer, cmVars, loopVars, connVars,
       tableVars, managerVars, closeVars
<1>g. Grows
  BY DEF Grows, Made, Cause, TypeOK
<1>e. /\ event \in IDs /\ acceptCh \in Seq(IDs) /\ Len(acceptCh) <= Backlog
      /\ \A i \in DOMAIN acceptCh : acceptCh[i] \in Made /\ acceptCh[i] \in IDs
  BY WaitingConns DEF TypeOK, LoopInv, TableInv
<1>m. \A i \in DOMAIN acceptCh : acceptCh[i] \in Made'
  BY <1>e, <1>g DEF Grows
<1>o. \/ acceptCh' = acceptCh
      \/ /\ ~chClosed /\ loop' = "wait"
         /\ Len(acceptCh) < Backlog /\ acceptCh' = Append(acceptCh, event)
  OBVIOUS
<1>n. /\ acceptCh' \in Seq(IDs) /\ Len(acceptCh') <= Backlog
      /\ \A i \in DOMAIN acceptCh' : acceptCh'[i] \in Made'
  <2>1. CASE acceptCh' = acceptCh
    BY <2>1, <1>e, <1>m
  <2>2. CASE acceptCh' # acceptCh
    <3>1. event \in Made'
      BY <2>2, <1>o DEF Made, LoopInv
    <3> QED
      BY <2>2, <3>1, <1>e, <1>m, <1>o, OfferedOne
  <2> QED
    BY <2>1, <2>2
<1>1. TypeOK'
  <2>1. loop' \in {"offer", "wait"} /\ event' \in Conns \cup {None}
    BY DEF TypeOK
  <2> QED
    BY <2>1, <1>n DEF TypeOK
<1>2. PartsOK'
  BY DEF PartsOK
<1>3. LoopInv'
  BY <1>g DEF LoopInv, Grows, TypeOK, PartsOK, Offer
<1>4. EventInv'
  BY <1>g, EventFrame DEF Grows, Findable
<1>5. CallInv'
  BY <1>g, CallFrame DEF CallInv
<1>6. StateInv'
  BY <1>g DEF StateInv, Grows, Targeted
<1>7. TableInv'
  BY <1>g, <1>n DEF TableInv, Grows, TypeOK
<1>8. SweepInv'
  BY DEF SweepInv, Targeted, PartsOK, TypeOK
<1>d. DialedInv'
  BY DEF DialedInv
<1>9. CrashInv'
  <2>1. chClosed => late \cap IDs # {}
    BY DEF SweepInv, PartsOK, LoopInv
  <2> QED
    BY <2>1 DEF CrashInv, CrashNeedsRace
<1> QED
  BY <1>1, <1>2, <1>3, <1>4, <1>5, <1>6, <1>7, <1>8, <1>9, <1>d

(* The state is set.                                                        *)
LEMMA SetStateInv ==
    ASSUME IInv, SetState, UNCHANGED userVars
    PROVE  IInv'
<1> USE ConnManagerAssumption DEF Conns, IInv, userVars, SetState, cmVars, loopVars, connVars,
       tableVars, managerVars, closeVars
<1>g. Grows
  BY DEF Grows, Made, Cause, TypeOK
<1>1. TypeOK'
  BY DEF TypeOK, States
<1>2. PartsOK'
  BY DEF PartsOK
<1>3. LoopInv'
  BY <1>g DEF LoopInv, Grows, TypeOK, PartsOK, SetState
<1>4. EventInv'
  <2>1. \A c \in IDs : state'[c] = "none" <=> state[c] = "none"
    BY DEF LoopInv, TypeOK
  <2>2. \A c \in IDs : Findable(c) => Findable(c)'
    BY DEF Findable
  <2> QED
    BY <2>1, <2>2, EventFrame
<1>5. CallInv'
  BY <1>g, CallFrame DEF CallInv
<1>6. StateInv'
  BY <1>g DEF StateInv, Grows, Targeted, TypeOK
<1>7. TableInv'
  BY <1>g DEF TableInv, Grows, TypeOK
<1>8. SweepInv'
  BY DEF LoopInv, SweepInv, Targeted, PartsOK, TypeOK
<1>d. DialedInv'
  <2>1. \A d \in Dialed : state'[d] = state[d]
    BY DEF TypeOK, LoopInv
  <2> QED
    BY <2>1 DEF DialedInv
<1>9. CrashInv'
  BY DEF CrashInv, CrashNeedsRace
<1> QED
  BY <1>1, <1>2, <1>3, <1>4, <1>5, <1>6, <1>7, <1>8, <1>9, <1>d

(* The event was one of a connection in the table, or of the first found.   *)
LEMMA CandidatesExist ==
    ASSUME IInv, NEW type \in DOMAIN Effect, Takes(type),
           NEW c \in Candidates(Head(events))
    PROVE  /\ c \in Conns /\ state[c] # "none"
           /\ type # "Disconnected" => c \in IDs
           /\ type = "Disconnected" => link[c] = "over"
<1>1. /\ Head(events).id \in IDs /\ type \in Types
      /\ Waits(1, type, Head(events).id)
  <2>1. events \in Seq(Events) /\ type \in Types
    BY DEF IInv, PartsOK, Effect, Types
  <2> QED
    BY <2>1, TakenEvent
<1>2. c \in connections \cup cmIDConns
  BY DEF Candidates
<1>3. c \in Conns /\ state[c] # "none"
  BY <1>2 DEF IInv, TypeOK, TableInv
<1>5. ASSUME type # "Disconnected"
      PROVE  c \in IDs
  <2>1. c = Head(events).id \/ state[c] = "Connecting"
    BY <1>1, <1>5 DEF Candidates, Takes, Sought, Effect
  <2> QED
    BY <2>1, <1>1, <1>3 DEF IInv, DialedInv, Conns
<1>4. ASSUME type = "Disconnected"
      PROVE  link[c] = "over"
  <2>1. link[Head(events).id] = "over" /\ Findable(Head(events).id)
    BY <1>1, <1>4 DEF IInv, EventInv, EventOK
  <2>2. Head(events).id \in cmIDConns
    BY <2>1 DEF Findable, Takes
  <2> QED
    BY <2>1, <2>2 DEF Candidates
<1> QED
  BY <1>3, <1>4, <1>5

(* An event that is no request is looked up.                                *)
LEMMA LookUpInv ==
    ASSUME IInv, NEW type \in DOMAIN Effect, LookUp(type), UNCHANGED userVars
    PROVE  IInv'
<1> USE ConnManagerAssumption DEF Conns, IInv, userVars, LookUp, connVars, managerVars, closeVars
<1>t. type \in Types /\ events \in Seq(Events) /\ Takes(type)
  BY DEF PartsOK, Effect, Types
<1>0. /\ events' \in Seq(Events) /\ Head(events).id \in IDs
      /\ Waits(1, type, Head(events).id)
      /\ \A i \in Nat, t \in Types, d \in IDs : Waits(i, t, d)' =>
            i # 0 /\ i + 1 \in Nat /\ Waits(i + 1, t, d)
  BY <1>t, TakenEvent
<1>c. PICK c \in IDs : c = Head(events).id
  BY <1>0
<1>f. type = "Disconnected" => \A i \in Nat : ~Waits(i, type, c)'
  BY <1>t, <1>c, TakenOnce DEF Waits
<1>l. \/ UNCHANGED <<loop, event>> /\ loop = "wait"
      \/ /\ loop' \in {"Connected", "Error", "close"}
         /\ event' \in Conns /\ state[event'] # "none"
         /\ loop' # "close" => event' \in IDs
         /\ loop' = "close" => link[event'] = "over"
  <2>1. CASE Candidates(Head(events)) = {}
    BY <2>1 DEF Takes
  <2>2. CASE Candidates(Head(events)) # {}
    BY <2>2, <1>t, CandidatesExist DEF Effect
  <2> QED
    BY <2>1, <2>2
<1>g. Grows
  BY <1>l DEF Grows, Made, Cause, TypeOK, Takes
<1>1. TypeOK'
  BY <1>l DEF TypeOK, Takes
<1>2. PartsOK'
  BY <1>0 DEF PartsOK
<1>3. LoopInv'
  BY <1>l DEF LoopInv, TypeOK, PartsOK
<1>4. EventInv'
  <2> SUFFICES ASSUME NEW d \in IDs
               PROVE  EventOK(d)'
    BY DEF EventInv
  <2>0. EventOK(d)
    BY DEF EventInv
  <2>1. \A i \in Nat, t \in Types : Waits(i, t, d)' => i + 1 \in Nat /\ Waits(i + 1, t, d)
    BY <1>0
  <2>4. \A i, j \in Nat : i + 1 = j + 1 => i = j
    OBVIOUS
  <2>5. CASE d \in cmIDConns' \/ d \notin cmIDConns
    <3>1. Findable(d) => Findable(d)'
      BY <2>5 DEF Findable, Takes
    <3> QED
      BY <2>0, <2>1, <2>4, <3>1 DEF EventOK, Types, connVars
  <2>6. CASE d \in cmIDConns /\ d \notin cmIDConns'
    <3>1. d = c /\ type \in {"Rejected", "Disconnected"}
      BY <2>6, <1>c DEF Effect
    <3>2. link[d] \in {"over", "rejected"} /\ \A i \in Nat : ~Waits(i, "Disconnected", d)'
      <4>1. CASE type = "Disconnected"
        BY <3>1, <4>1, <2>0, <1>0, <1>c, <1>f DEF EventOK
      <4>2. CASE type = "Rejected"
        BY <3>1, <4>2, <2>0, <2>1, <1>0, <1>c DEF EventOK, Types
      <4> QED
        BY <3>1, <4>1, <4>2
    <3> QED
      BY <2>0, <2>1, <2>4, <3>2 DEF EventOK, Types, connVars
  <2> QED
    BY <2>5, <2>6
<1>5. CallInv'
  BY <1>g, CallFrame DEF CallInv, Takes
<1>6. StateInv'
  BY <1>g DEF StateInv, Grows, Targeted
<1>7. TableInv'
  BY <1>g DEF TableInv, Grows, TypeOK
<1>8. SweepInv'
  BY <1>l DEF SweepInv, Targeted, PartsOK, TypeOK, Takes
<1>d. DialedInv'
  BY DEF DialedInv
<1>9. CrashInv'
  BY DEF CrashInv, CrashNeedsRace
<1> QED
  BY <1>1, <1>2, <1>3, <1>4, <1>5, <1>6, <1>7, <1>8, <1>9, <1>d

-----------------------------------------------------------------------------
(* Manager.Close and Accept.                                                *)

(* The manager is marked closed.                                            *)
LEMMA CloseSwapInv ==
    ASSUME IInv, crash = "no", CloseSwap, UNCHANGED userVars
    PROVE  IInv'
<1> USE ConnManagerAssumption DEF Conns, IInv, userVars, CloseSwap, cmVars, loopVars, connVars,
       tableVars, managerVars, closeVars
<1>g. Grows
  BY DEF Grows, Made, Cause, TypeOK
<1>1. TypeOK'
  BY DEF TypeOK, LoopInv
<1>2. PartsOK'
  BY DEF PartsOK
<1>3. LoopInv'
  BY <1>g DEF LoopInv, Grows, TypeOK, PartsOK
<1>4. EventInv'
  BY <1>g, EventFrame DEF Grows, Findable
<1>5. CallInv'
  BY <1>g, CallFrame DEF CallInv
<1>6. StateInv'
  BY <1>g DEF StateInv, Grows, Targeted
<1>7. TableInv'
  BY <1>g DEF TableInv, Grows, TypeOK
<1>8. SweepInv'
  BY DEF SweepInv, Targeted, PartsOK, TypeOK
<1>d. DialedInv'
  BY DEF DialedInv
<1>9. CrashInv'
  BY DEF CrashInv, CrashNeedsRace
<1> QED
  BY <1>1, <1>2, <1>3, <1>4, <1>5, <1>6, <1>7, <1>8, <1>9, <1>d

(* The channel is closed.                                                   *)
LEMMA CloseAcceptChInv ==
    ASSUME IInv, CloseAcceptCh, UNCHANGED userVars
    PROVE  IInv'
<1> USE ConnManagerAssumption DEF Conns, IInv, userVars, CloseAcceptCh, cmVars, loopVars,
       connVars, tableVars, managerVars, closeVars
<1>g. Grows
  BY DEF Grows, Made, Cause, TypeOK
<1>1. TypeOK'
  BY DEF TypeOK, States
<1>2. PartsOK'
  BY DEF PartsOK
<1>3. LoopInv'
  BY <1>g DEF LoopInv, Grows, TypeOK, PartsOK
<1>4. EventInv'
  BY <1>g, EventFrame DEF Grows, Findable
<1>5. CallInv'
  BY <1>g, CallFrame DEF CallInv
<1>6. StateInv'
  BY <1>g DEF StateInv, Grows, Targeted
<1>7. TableInv'
  BY <1>g DEF TableInv, Grows, TypeOK
<1>8. SweepInv'
  BY DEF SweepInv, Targeted, PartsOK, TypeOK
<1>d. DialedInv'
  BY DEF DialedInv
<1>9. CrashInv'
  BY DEF CrashInv, CrashNeedsRace
<1> QED
  BY <1>1, <1>2, <1>3, <1>4, <1>5, <1>6, <1>7, <1>8, <1>9, <1>d

(* Range begins.                                                            *)
LEMMA RangeBeginsInv ==
    ASSUME IInv, RangeBegins, UNCHANGED userVars
    PROVE  IInv'
<1> USE ConnManagerAssumption DEF Conns, IInv, userVars, RangeBegins, cmVars, loopVars, connVars,
       tableVars, managerVars, closeVars
<1>g. Grows
  BY DEF Grows, Made, Cause, TypeOK
<1>1. TypeOK'
  BY DEF TypeOK, States
<1>2. PartsOK'
  BY DEF PartsOK, TypeOK
<1>3. LoopInv'
  BY <1>g DEF LoopInv, Grows, TypeOK, PartsOK
<1>4. EventInv'
  BY <1>g, EventFrame DEF Grows, Findable
<1>5. CallInv'
  BY <1>g, CallFrame DEF CallInv
<1>6. StateInv'
  BY <1>g DEF StateInv, Grows, Targeted
<1>7. TableInv'
  BY <1>g DEF TableInv, Grows, TypeOK
<1>8. SweepInv'
  BY DEF SweepInv, Targeted, PartsOK, TypeOK
<1>d. DialedInv'
  BY DEF DialedInv
<1>9. CrashInv'
  BY DEF CrashInv, CrashNeedsRace
<1> QED
  BY <1>1, <1>2, <1>3, <1>4, <1>5, <1>6, <1>7, <1>8, <1>9, <1>d

(* Range has visited what it was bound to.                                  *)
LEMMA RangeEndsInv ==
    ASSUME IInv, RangeEnds, UNCHANGED userVars
    PROVE  IInv'
<1> USE ConnManagerAssumption DEF Conns, IInv, userVars, RangeEnds, Idle, cmVars, loopVars,
       connVars, tableVars, managerVars, closeVars
<1>g. Grows
  BY DEF Grows, Made, Cause, TypeOK
<1>1. TypeOK'
  BY DEF TypeOK, States
<1>2. PartsOK'
  BY DEF PartsOK
<1>3. LoopInv'
  BY <1>g DEF LoopInv, Grows, TypeOK, PartsOK
<1>4. EventInv'
  BY <1>g, EventFrame DEF Grows, Findable
<1>5. CallInv'
  BY <1>g, CallFrame DEF CallInv
<1>6. StateInv'
  BY <1>g DEF StateInv, Grows, Targeted
<1>7. TableInv'
  BY <1>g DEF TableInv, Grows, TypeOK
<1>8. SweepInv'
  BY DEF SweepInv, Targeted, PartsOK, TypeOK
<1>d. DialedInv'
  BY DEF DialedInv
<1>9. CrashInv'
  BY DEF CrashInv, CrashNeedsRace
<1> QED
  BY <1>1, <1>2, <1>3, <1>4, <1>5, <1>6, <1>7, <1>8, <1>9, <1>d

(* A connection is accepted.                                                *)
LEMMA AcceptInv ==
    ASSUME IInv, Accept
    PROVE  IInv'
<1> USE ConnManagerAssumption DEF Conns, IInv, userVars, Accept, cmVars, loopVars, connVars,
       tableVars, managerVars, closeVars
<1>g. Grows
  BY DEF Grows, Made, Cause, TypeOK
<1>1. TypeOK'
  BY DEF TypeOK, States
<1>2. PartsOK'
  BY DEF PartsOK
<1>3. LoopInv'
  BY <1>g DEF LoopInv, Grows, TypeOK, PartsOK
<1>4. EventInv'
  BY <1>g, EventFrame DEF Grows, Findable
<1>5. CallInv'
  BY <1>g, CallFrame DEF CallInv
<1>6. StateInv'
  BY <1>g DEF StateInv, Grows, Targeted
<1>7. TableInv'
  BY <1>g DEF TableInv, Grows, TypeOK
<1>8. SweepInv'
  BY DEF SweepInv, Targeted, PartsOK, TypeOK
<1>d. DialedInv'
  BY DEF DialedInv
<1>9. CrashInv'
  BY DEF CrashInv, CrashNeedsRace
<1> QED
  BY <1>1, <1>2, <1>3, <1>4, <1>5, <1>6, <1>7, <1>8, <1>9, <1>d

-----------------------------------------------------------------------------
(* Conn.Close.                                                              *)

(* A call that is over leaves the connection closed or in other hands.      *)
LEMMA GoesOnInv ==
    ASSUME IInv, crash = "no", NEW a \in Actors, NEW c \in Conns, GoesOn(a, c),
           UNCHANGED <<cmVars, done, cmIDConns, acceptCh, chClosed, managerVars, crash, userVars>>,
           target[a] \in {c, None}, target[a] = c => c \in done,
           \/ state' = state /\ target[a] = None /\ (c \in done \/ \E b \in Actors \ {a} : target[b] = c)
           \/ state' = [state EXCEPT ![c] = "Closed"] /\ c \in done,
           state[c] # "none",
           a = "loop" => loop = "close", a = "manager" => mpc = "visit",
           target[a] = None => at[a] = "idle"
    PROVE  IInv'
<1> USE ConnManagerAssumption DEF Conns, IInv, userVars, GoesOn, cmVars, loopVars, managerVars
<1>l. /\ UNCHANGED loopVars \/ (loop = "close" /\ loop' = "wait" /\ event' = None /\ a = "loop")
      /\ at' = [at EXCEPT ![a] = "idle"] /\ target' = [target EXCEPT ![a] = None]
      /\ connections' \subseteq connections /\ connections \ {c} \subseteq connections'
      /\ \A d \in Conns : state'[d] = state[d] \/ (d = c /\ state'[d] = "Closed" /\ c \in done)
      /\ a = "loop" => loop' = "wait"
      /\ overlap' \subseteq overlap
      /\ \A d \in overlap \ overlap' : d = c /\ \A b \in Actors \ {a} : target[b] # c
  BY DEF TypeOK
<1>g. Grows
  BY <1>l DEF Grows, Made, Cause
<1>1. TypeOK'
  <2>1. state' \in [Conns -> States \cup {"none"}]
    BY DEF TypeOK, States
  <2> QED
    BY <1>l, <2>1 DEF TypeOK
<1>2. PartsOK'
  BY <1>l DEF PartsOK
<1>3. LoopInv'
  BY <1>l, <1>g DEF LoopInv, Grows
<1>4. EventInv'
  BY <1>l, EventFrame DEF Findable
<1>5. CallInv'
  <2>1. ASSUME NEW b \in Actors
        PROVE  CallOK(b)'
    <3>1. CallOK(b) /\ target[b] \in Conns \cup {None}
      BY DEF CallInv, TypeOK
    <3>2. CASE b = a
      BY <1>l, <3>2 DEF CallOK, TypeOK, PartsOK
    <3>3. CASE b # a
      <4>1. at'[b] = at[b] /\ target'[b] = target[b]
        BY <1>l, <3>3 DEF TypeOK, PartsOK
      <4> QED
        BY <1>g, <1>l, <3>1, <3>3, <4>1 DEF CallOK, Grows
    <3> QED
      BY <3>2, <3>3
  <2>2. ASSUME NEW b \in Actors, NEW d \in Actors, b # d, target'[b] = target'[d], target'[b] # None
        PROVE  target'[b] \in overlap'
    <3>1. b # a /\ d # a /\ target'[b] = target[b] /\ target'[d] = target[d]
      BY <2>2, <1>l DEF TypeOK
    <3> QED
      BY <2>2, <3>1, <1>l DEF CallInv
  <2>3. (at["loop"] # "idle" => loop = "close")' /\ (at["manager"] # "idle" => mpc = "visit")'
    BY <1>l DEF CallInv, PartsOK, Actors
  <2> QED
    BY <2>1, <2>2, <2>3 DEF CallInv
<1>6. StateInv'
  <2> SUFFICES ASSUME NEW d \in Conns
               PROVE  /\ state'[d] = "Draining" => Targeted(d)'
                      /\ state'[d] = "Closed" => d \in done'
                      /\ d \in done' => Cause(d)' /\ state'[d] # "none"
                      /\ state'[d] \in {"Draining", "Closed"} => Cause(d)'
    BY DEF StateInv
  <2>1. /\ state[d] = "Draining" => Targeted(d)
        /\ state[d] = "Closed" => d \in done
        /\ d \in done => Cause(d) /\ state[d] # "none"
        /\ state[d] \in {"Draining", "Closed"} => Cause(d)
    BY DEF StateInv
  <2>2. CASE d # c
    <3>1. Targeted(d) => Targeted(d)'
      BY <1>l, <2>2 DEF Targeted, TypeOK
    <3> QED
      BY <1>l, <1>g, <2>1, <2>2, <3>1 DEF Grows
  <2>3. CASE d = c
    <3>1. (\E b \in Actors \ {a} : target[b] = c) => Targeted(c)'
      BY <1>l DEF Targeted, TypeOK
    <3>2. state'[c] = "Draining" => Targeted(c)'
      <4> SUFFICES ASSUME state'[c] = "Draining"
                   PROVE  \E b \in Actors \ {a} : target[b] = c
        BY <3>1
      <4>1. state' = state /\ target[a] = None /\ Targeted(c)
        BY <2>1, <2>3, <1>l DEF TypeOK
      <4> QED
        BY <4>1, <2>3 DEF Targeted, TypeOK
    <3> QED
      BY <1>l, <1>g, <2>1, <2>3, <3>2 DEF Grows
  <2> QED
    BY <2>2, <2>3
<1>7. TableInv'
  BY <1>l, <1>g DEF TableInv, Grows, TypeOK
<1>8. SweepInv'
  <2>1. \A d \in Conns : d # c /\ Targeted(d) => Targeted(d)'
    BY <1>l DEF Targeted, TypeOK
  <2>2. c \in done \/ Targeted(c)'
    BY <1>l DEF Targeted, TypeOK
  <2>3. \A d \in Conns : state'[d] # "none" => state[d] # "none"
    BY <1>l
  <2>4. \A d \in Conns : state'[d] # "none" =>
           \/ d \in connections' \cup done
           \/ Targeted(d)'
           \/ loop' = "store" /\ event' = d
           \/ d \in Dialed /\ dialing[d] = "store"
    BY <1>l, <2>1, <2>2, <2>3 DEF SweepInv
  <2> QED
    BY <1>l, <2>4 DEF SweepInv
<1>d. DialedInv'
  BY <1>l DEF DialedInv
<1>9. CrashInv'
  BY <1>l DEF CrashInv, CrashNeedsRace
<1> QED
  BY <1>1, <1>2, <1>3, <1>4, <1>5, <1>6, <1>7, <1>8, <1>9, <1>d

(* Close is called, by an actor that may, and does not find it under way.   *)
LEMMA CallCloseInv ==
    ASSUME IInv, crash = "no", NEW a \in Actors, NEW c \in Conns, CallClose(a, c), UNCHANGED userVars,
           state[c] # "none", Cause(c), c \in Made \/ chClosed,
           a = "loop" => loop = "close", a = "manager" => mpc = "visit"
    PROVE  IInv'
<1> USE ConnManagerAssumption DEF Conns, IInv, userVars, CallClose, Idle, cmVars, connVars,
       managerVars
<1>0. at[a] = "idle" /\ target[a] = None
  BY DEF CallInv, CallOK
<1>1. CASE state[c] \in {"Closed", "Draining"}
  <2>1. c \in done \/ \E b \in Actors \ {a} : target[b] = c
    BY <1>0, <1>1 DEF StateInv, Targeted
  <2> QED
    BY <1>0, <1>1, <2>1, GoesOnInv
<1>2. CASE state[c] \notin {"Closed", "Draining"}
  <2>0. /\ target' = [target EXCEPT ![a] = c] /\ at' = [at EXCEPT ![a] = "drain"]
        /\ overlap' = IF \E b \in Actors : target[b] = c THEN overlap \cup {c} ELSE overlap
        /\ UNCHANGED <<cmVars, loopVars, connVars, tableVars, managerVars, crash, userVars>>
    BY <1>2 DEF tableVars
  <2> USE <2>0 DEF loopVars, tableVars
  <2>g. Grows
    BY DEF Grows, Made, Cause
  <2>1. TypeOK'
    BY DEF TypeOK
  <2>2. PartsOK'
    BY DEF PartsOK
  <2>3. LoopInv'
    BY DEF LoopInv
  <2>4. EventInv'
    BY EventFrame DEF Findable
  <2>5. CallInv'
    <3>1. ASSUME NEW b \in Actors
          PROVE  CallOK(b)'
      <4>1. CallOK(b) /\ target[b] \in Conns \cup {None}
        BY DEF CallInv, TypeOK
      <4>2. CASE b = a
        BY <4>2 DEF CallOK, TypeOK, PartsOK, Cause, Made
      <4>3. CASE b # a
        <5>1. at'[b] = at[b] /\ target'[b] = target[b]
          BY <4>3 DEF TypeOK, PartsOK
        <5> QED
          BY <4>1, <5>1, <2>g DEF CallOK, Grows
      <4> QED
        BY <4>2, <4>3
    <3>2. ASSUME NEW b \in Actors, NEW d \in Actors, b # d, target'[b] = target'[d], target'[b] # None
          PROVE  target'[b] \in overlap'
      BY <3>2 DEF CallInv, TypeOK
    <3>3. (at["loop"] # "idle" => loop = "close")' /\ (at["manager"] # "idle" => mpc = "visit")'
      BY DEF CallInv, PartsOK, Actors
    <3> QED
      BY <3>1, <3>2, <3>3 DEF CallInv
  <2>t. \A d \in Conns : Targeted(d) => Targeted(d)'
    BY <1>0 DEF Targeted, TypeOK
  <2>6. StateInv'
    BY <2>t, <2>g DEF StateInv, Grows
  <2>7. TableInv'
    BY DEF TableInv, Made
  <2>8. SweepInv'
    BY <2>t DEF SweepInv
  <2>d. DialedInv'
    BY DEF DialedInv
  <2>9. CrashInv'
    BY DEF CrashInv, CrashNeedsRace
  <2> QED
    BY <2>1, <2>2, <2>3, <2>4, <2>5, <2>6, <2>7, <2>8, <2>9, <2>d
<1> QED
  BY <1>1, <1>2

(* The first steps of Close keep its target.                                *)
LEMMA CloseFrame ==
    ASSUME IInv, crash = "no", NEW a \in Actors, at[a] # "idle",
           UNCHANGED <<cmVars, loopVars, tableVars, managerVars, target, overlap, userVars>>,
           NEW p \in {"closeDone", "closed"}, at' = [at EXCEPT ![a] = p],
           \/ p = "closeDone" /\ target[a] \notin done /\ done' = done
           \/ p = "closed" /\ done' = done \cup {target[a]},
           \A b \in Actors \ {a} : target[b] = target[a] => target[a] \in overlap,
           \/ state' = state
           \/ state' = [state EXCEPT ![target[a]] = "Draining"],
           crash' = crash
    PROVE  IInv'
<1> DEFINE c == target[a]
<1> USE ConnManagerAssumption DEF Conns, IInv, userVars, cmVars, loopVars, tableVars, managerVars
<1>0. c \in Conns /\ state[c] # "none" /\ Cause(c) /\ (c \in Made \/ chClosed)
  BY DEF CallInv, CallOK, TypeOK
<1>l. /\ \A d \in Conns : state'[d] = state[d] \/ (d = c /\ state'[d] = "Draining")
      /\ done' \subseteq done \cup {c} /\ done \subseteq done'
  BY DEF TypeOK
<1>g. Grows
  BY <1>l DEF Grows, Made, Cause
<1>1. TypeOK'
  <2>1. state' \in [Conns -> States \cup {"none"}]
    BY DEF TypeOK, States
  <2> QED
    BY <1>0, <1>l, <2>1 DEF TypeOK
<1>2. PartsOK'
  BY DEF PartsOK
<1>3. LoopInv'
  BY <1>g DEF LoopInv, Grows
<1>4. EventInv'
  <2>1. \A d \in Conns : state'[d] = "none" <=> state[d] = "none"
    BY <1>0, <1>l
  <2> QED
    BY <2>1, EventFrame DEF Findable
<1>5. CallInv'
  <2>1. ASSUME NEW b \in Actors
        PROVE  CallOK(b)'
    <3>1. CallOK(b) /\ target[b] \in Conns \cup {None}
      BY DEF CallInv, TypeOK
    <3>2. CASE b = a
      BY <1>g, <1>0, <1>l, <3>1, <3>2 DEF CallOK, TypeOK, PartsOK, Grows
    <3>3. CASE b # a
      <4>1. at'[b] = at[b]
        BY <3>3 DEF PartsOK
      <4>2. target[b] \in done' => target[b] \in done \/ target[b] \in overlap
        BY <1>l, <3>3
      <4> QED
        BY <1>g, <1>l, <3>1, <4>1, <4>2 DEF CallOK, Grows
    <3> QED
      BY <3>2, <3>3
  <2>2. (at["loop"] # "idle" => loop = "close")' /\ (at["manager"] # "idle" => mpc = "visit")'
    BY DEF CallInv, PartsOK, Actors
  <2> QED
    BY <2>1, <2>2 DEF CallInv
<1>6. StateInv'
  <2> SUFFICES ASSUME NEW d \in Conns
               PROVE  /\ state'[d] = "Draining" => Targeted(d)'
                      /\ state'[d] = "Closed" => d \in done'
                      /\ d \in done' => Cause(d)' /\ state'[d] # "none"
                      /\ state'[d] \in {"Draining", "Closed"} => Cause(d)'
    BY DEF StateInv
  <2>1. /\ state[d] = "Draining" => Targeted(d)
        /\ state[d] = "Closed" => d \in done
        /\ d \in done => Cause(d) /\ state[d] # "none"
        /\ state[d] \in {"Draining", "Closed"} => Cause(d)
    BY DEF StateInv
  <2>2. Targeted(c)' /\ Targeted(d)' = Targeted(d)
    BY DEF Targeted
  <2> QED
    BY <1>0, <1>g, <1>l, <2>1, <2>2 DEF Grows
<1>7. TableInv'
  BY <1>g DEF TableInv, Grows, TypeOK
<1>8. SweepInv'
  <2>1. \A d \in Conns : Targeted(d)' = Targeted(d)
    BY DEF Targeted
  <2>2. \A d \in Conns : state'[d] # "none" => state[d] # "none"
    BY <1>0, <1>l
  <2> QED
    BY <1>l, <2>1, <2>2 DEF SweepInv
<1>d. DialedInv'
  BY <1>0, <1>l DEF DialedInv
<1>9. CrashInv'
  BY DEF CrashInv, CrashNeedsRace
<1> QED
  BY <1>1, <1>2, <1>3, <1>4, <1>5, <1>6, <1>7, <1>8, <1>9, <1>d

(* The panic of a second close of done: the calls have overlapped.          *)
LEMMA PanicInv ==
    ASSUME IInv, crash = "no", crash' = "done closed twice", overlap # {},
           UNCHANGED <<cmVars, loopVars, connVars, tableVars, managerVars, closeVars, userVars>>
    PROVE  IInv'
<1> USE DEF Conns, IInv, userVars, cmVars, loopVars, connVars, tableVars, managerVars, closeVars
<1>g. Grows
  BY DEF Grows, Made, Cause
<1>1. TypeOK' /\ PartsOK'
  BY DEF TypeOK, PartsOK
<1>3. LoopInv'
  BY DEF LoopInv
<1>4. EventInv'
  BY EventFrame DEF Findable
<1>5. CallInv'
  BY <1>g, CallFrame DEF CallInv
<1>6. StateInv'
  BY <1>g DEF StateInv, Grows, Targeted
<1>7. TableInv'
  BY DEF TableInv, Made
<1>8. SweepInv'
  BY DEF SweepInv, Targeted
<1>d. DialedInv'
  BY DEF DialedInv
<1>9. CrashInv'
  BY DEF CrashInv, CrashNeedsRace
<1> QED
  BY <1>1, <1>3, <1>4, <1>5, <1>6, <1>7, <1>8, <1>9, <1>d

(* The steps of a call of Close.                                            *)
LEMMA CloseInv ==
    ASSUME IInv, crash = "no", NEW a \in Actors, Close(a), UNCHANGED userVars
    PROVE  IInv'
<1>0. /\ UNCHANGED <<cmVars, cmIDConns, acceptCh, chClosed, managerVars, userVars>>
      /\ a = "loop" /\ at[a] # "idle" => loop = "close"
      /\ a = "manager" /\ at[a] # "idle" => mpc = "visit"
      /\ \A b \in Actors \ {a} : at[a] # "idle" /\ target[b] = target[a] => target[a] \in overlap
      /\ at[a] # "idle" => target[a] \in Conns /\ state[target[a]] # "none"
      /\ at[a] = "closed" => target[a] \in done
      /\ at[a] = "closeDone" /\ target[a] \in done => target[a] \in overlap
  BY DEF Close, IInv, CallInv, CallOK, TypeOK
<1>1. CASE Drain(a)
  <2>1. CASE target[a] \in done
    BY <1>0, <1>1, <2>1, CloseFrame DEF Drain, tableVars
  <2>2. CASE target[a] \notin done
    BY <1>0, <1>1, <2>2, CloseFrame DEF Drain, tableVars
  <2> QED
    BY <2>1, <2>2
<1>2. CASE CloseDone(a)
  <2>1. CASE target[a] \in done
    <3>1. overlap # {} /\ UNCHANGED <<at, target>>
      BY <1>0, <1>2, <2>1 DEF CloseDone
    <3> QED
      BY <1>0, <1>2, <2>1, <3>1, PanicInv DEF CloseDone, tableVars, connVars,
         closeVars
  <2>2. CASE target[a] \notin done
    BY <1>0, <1>2, <2>2, CloseFrame DEF CloseDone, tableVars
  <2> QED
    BY <2>1, <2>2
<1>3. CASE BecomeClosed(a)
  BY <1>0, <1>3, GoesOnInv DEF BecomeClosed, IInv, CallInv, CallOK,
     ConnManagerAssumption
<1> QED
  BY <1>1, <1>2, <1>3 DEF Close

-----------------------------------------------------------------------------
(* Manager.Connect.                                                         *)

(* Connect dials, and stores what it got in two steps.                      *)
LEMMA ConnectInv ==
    ASSUME IInv, NEW d \in Dialed, Connect(d)
    PROVE  IInv'
<1> USE ConnManagerAssumption DEF Conns, IInv, cmVars, loopVars, managerVars,
       closeVars, ConnectStep
<1>a. /\ UNCHANGED <<link, events, loop, event, done, acceptCh, chClosed, closed, mpc,
                     owed, late, at, target, overlap, crash>>
      /\ d \notin IDs
  BY DEF Connect, BeginConnect, ConnectFails, DialSucceeds, StoreDialed, ReturnDialed
<1>b. \/ /\ dialing[d] = "no" /\ dialing' = [dialing EXCEPT ![d] = "dial"] /\ ~closed
         /\ UNCHANGED <<state, connections, cmIDConns, accepted>>
      \/ /\ dialing[d] = "dial" /\ dialing' = [dialing EXCEPT ![d] = "failed"]
         /\ UNCHANGED <<state, connections, cmIDConns, accepted>>
      \/ /\ dialing[d] = "dial" /\ dialing' = [dialing EXCEPT ![d] = "store"]
         /\ state' = [state EXCEPT ![d] = "Connected"]
         /\ UNCHANGED <<connections, cmIDConns, accepted>>
      \/ /\ dialing[d] = "store" /\ dialing' = [dialing EXCEPT ![d] = "storeID"]
         /\ connections' = connections \cup {d}
         /\ UNCHANGED <<state, cmIDConns, accepted>>
      \/ /\ dialing[d] = "storeID" /\ dialing' = [dialing EXCEPT ![d] = "returned"]
         /\ cmIDConns' = cmIDConns \cup {d} /\ accepted' = accepted \cup {d}
         /\ UNCHANGED <<state, connections>>
  BY DEF Connect, BeginConnect, ConnectFails, DialSucceeds, StoreDialed, ReturnDialed
<1>c. /\ \A c \in Conns : state'[c] = state[c] \/ (c = d /\ state'[c] = "Connected"
                                                       /\ state[c] = "none")
      /\ \A c \in IDs : state'[c] = state[c]
      /\ accepted \subseteq accepted'
  BY <1>a, <1>b DEF TypeOK, DialedInv
<1>g. Grows
  BY <1>a, <1>c DEF Grows, Made, Cause
<1>1. TypeOK'
  BY <1>a, <1>b DEF TypeOK, States
<1>2. PartsOK'
  BY <1>a DEF PartsOK
<1>3. LoopInv'
  BY <1>a, <1>g DEF LoopInv, Grows
<1>4. EventInv'
  <2>1. \A c \in IDs : Findable(c) => Findable(c)'
    BY <1>a, <1>b DEF Findable
  <2> QED
    BY <1>a, <1>c, <2>1, EventFrame
<1>5. CallInv'
  BY <1>a, <1>g, CallFrame DEF CallInv
<1>6. StateInv'
  BY <1>a, <1>c, <1>g DEF StateInv, Grows, Targeted
<1>7. TableInv'
  <2>1. (dialing[d] \in {"store", "storeID"}) => d \in Made /\ state[d] # "none"
    BY DEF Made, DialedInv, LoopInv
  <2> QED
    BY <1>a, <1>b, <1>g, <2>1 DEF TableInv, Grows, TypeOK
<1>8. SweepInv'
  BY <1>a, <1>b, <1>c DEF SweepInv, Targeted, PartsOK, TypeOK, DialedInv
<1>d. DialedInv'
  BY <1>b, <1>c DEF DialedInv, TypeOK
<1>9. CrashInv'
  BY <1>a DEF CrashInv, CrashNeedsRace
<1> QED
  BY <1>1, <1>2, <1>3, <1>4, <1>5, <1>6, <1>7, <1>8, <1>9, <1>d

-----------------------------------------------------------------------------

(* Every step keeps the invariant.                                          *)
LEMMA NextInv == IInv /\ [Next]_vars => IInv'
<1> SUFFICES ASSUME IInv, [Next]_vars
             PROVE  IInv'
  OBVIOUS
<1>1. CASE UNCHANGED vars
  BY <1>1, PeerFrame DEF vars, cmVars, loopVars, connVars, tableVars, managerVars,
     closeVars, userVars, IInv, PartsOK, EventInv, EventOK, Waits, Findable
<1>2. CASE crash = "no" /\ Accept
  BY <1>2, AcceptInv
<1>3. CASE crash = "no" /\ Loop
  <2>1. CASE CloseByLoop
    <3>1. event \in Conns /\ state[event] # "none" /\ Cause(event) /\ event \in Made
      BY <2>1 DEF CloseByLoop, IInv, LoopInv, Cause, Made
    <3> QED
      BY <1>3, <2>1, <3>1, CallCloseInv DEF CloseByLoop, Loop, Actors
  <2>2. CASE ~CloseByLoop
    BY <1>3, <2>2, ConnectRequestInv, ConnectRequestSkippedInv, StoreInv,
       OfferInv, LookUpInv, SetStateInv, CloseInv DEF Loop, HandleCMEvent, Actors
  <2> QED
    BY <2>1, <2>2
<1>4. CASE crash = "no" /\ ManagerClose /\ UNCHANGED userVars
  <2>1. ASSUME NEW c \in Conns, Visit(c)
        PROVE  IInv'
    <3>1. state[c] # "none" /\ Cause(c) /\ chClosed /\ mpc = "visit"
      BY <2>1 DEF Visit, IInv, PartsOK, TableInv, Cause
    <3> QED
      BY <1>4, <2>1, <3>1, CallCloseInv DEF Visit, Actors
  <2> QED
    BY <1>4, <2>1, CloseSwapInv, CloseAcceptChInv, RangeBeginsInv, RangeEndsInv,
       CloseInv DEF ManagerClose, Actors
<1>5. CASE crash = "no" /\ User /\ UNCHANGED userVars
  <2>1. ASSUME NEW c \in Conns, UserCloses(c)
        PROVE  IInv'
    <3>1. c \in Made /\ Cause(c) /\ state[c] # "none"
      BY <2>1 DEF UserCloses, IInv, TableInv, Cause, Made
    <3> QED
      BY <1>5, <2>1, <3>1, CallCloseInv DEF UserCloses, Actors
  <2> QED
    BY <1>5, <2>1, CloseInv DEF User, Actors
<1>6. CASE crash = "no" /\ (\E c \in IDs : Peer(c)) /\ UNCHANGED userVars
  BY <1>6, PeerInv
<1>7. CASE crash = "no" /\ \E d \in Dialed : Connect(d)
  BY <1>7, ConnectInv
<1> QED
  BY <1>1, <1>2, <1>3, <1>4, <1>5, <1>6, <1>7 DEF Next

(* The inductive invariant holds in every state.                            *)
THEOREM Invariance == Spec => []IInv
    BY InitInv, NextInv, PTL DEF Spec

(* The state of the manager and of its connections keeps its type.          *)
THEOREM ManagerTypeCorrect == Spec => []TypeOK
<1>1. IInv => TypeOK
  BY DEF IInv
<1> QED
  BY Invariance, <1>1, PTL

(* A connection is closed for a cause of its own: the event of one          *)
(* connection closes no other, because its id is always found.              *)
THEOREM OwnCause == Spec => []ClosedForCause
<1>1. IInv => ClosedForCause
  BY DEF IInv, StateInv, Cause, ClosedForCause
<1> QED
  BY Invariance, <1>1, PTL

(* The manager panics only after two calls of Close on one connection have  *)
(* overlapped, or with a request that was being served when it was closed.  *)
THEOREM PanicNeedsRace == Spec => []CrashNeedsRace
<1>1. IInv => CrashNeedsRace
  BY DEF IInv, CrashInv
<1> QED
  BY Invariance, <1>1, PTL

(* When Manager.Close has returned every connection, accepted or dialled,   *)
(* is closed, or in the hands of another call of Close, or its request was  *)
(* being served when Manager.Close began, or the Connect that makes it had  *)
(* not stored it when Manager.Close began to look through the table.        *)
THEOREM CloseSweepsAll == Spec => []ManagerLeavesNoneOpen
<1>1. IInv => ManagerLeavesNoneOpen
  BY DEF IInv, SweepInv, PartsOK, Targeted, ManagerLeavesNoneOpen
<1> QED
  BY Invariance, <1>1, PTL

-----------------------------------------------------------------------------
(* The manager implements ConnOffers.                                       *)

(* The initial states are initial states of ConnOffers.                     *)
LEMMA InitRefines == Init => Offers!OffersInit
    BY DEF Init, Offers!OffersInit, Made

(* What the offers do not see.                                              *)
LEMMA Unseen ==
    ASSUME UNCHANGED <<acceptCh, chClosed, closed>>, (done \cap IDs)' = done \cap IDs, (Made \cap IDs)' = Made \cap IDs
    PROVE  UNCHANGED Offers!offerVars
    BY DEF Offers!offerVars

(* A step that leaves the existence of connections and the request being    *)
(* served alone leaves alone what was offered.                              *)
LEMMA MadeFrame ==
    ASSUME \A c \in IDs : state'[c] = "none" <=> state[c] = "none",
           \A c \in IDs : Storing(c)' <=> Storing(c)
    PROVE  (Made \cap IDs)' = Made \cap IDs
    BY DEF Made, Storing, Conns

(* The event loop offers, or does what the offers do not see.               *)
LEMMA LoopRefines ==
    ASSUME IInv, HandleCMEvent, ~Close("loop"), ~CloseByLoop, UNCHANGED userVars
    PROVE  [Offers!OffersNext]_Offers!offerVars
<1> USE DEF connVars, tableVars, managerVars, loopVars
<1>1. CASE ConnectRequest
  <2>1. events \in Seq(Events) /\ Takes("ConnectRequest") /\ "ConnectRequest" \in Types
    BY <1>1 DEF ConnectRequest, IInv, PartsOK, Types
  <2>2. Head(events).id \in IDs /\ Waits(1, "ConnectRequest", Head(events).id)
    BY <2>1, TakenEvent
  <2>3. state[Head(events).id] = "none"
    BY <2>2 DEF IInv, EventInv, EventOK
  <2>4. (Made \cap IDs)' = Made \cap IDs
    BY <1>1, <2>2, <2>3 DEF ConnectRequest, Takes, Made, IInv, TypeOK
  <2> QED
    BY <1>1, <2>4, Unseen DEF ConnectRequest
<1>2. CASE ConnectRequestSkipped
  BY <1>2, Unseen, MadeFrame DEF ConnectRequestSkipped, Storing
<1>3. CASE Store
  BY <1>3, Unseen, MadeFrame DEF Store, Storing
<1>4. CASE Offer
  <2>1. CASE chClosed
    BY <1>4, <2>1, Unseen, MadeFrame DEF Offer, Storing
  <2>2. CASE ~chClosed
    <3>1. event \in IDs /\ event \notin Made /\ state[event] # "none"
      BY <1>4 DEF Offer, IInv, LoopInv, Made
    <3>2. (Made \cap IDs)' = (Made \cap IDs) \cup {event}
      BY <1>4, <2>2, <3>1 DEF Offer, Made, Conns
    <3>3. Offers!OfferConn(event)
      BY <1>4, <2>2, <3>1, <3>2 DEF Offer, Offers!OfferConn
    <3> QED
      BY <3>1, <3>3 DEF Offers!OffersNext
  <2> QED
    BY <2>1, <2>2
<1>5. ASSUME NEW type \in DOMAIN Effect, LookUp(type)
      PROVE  [Offers!OffersNext]_Offers!offerVars
  BY <1>5, Unseen, MadeFrame DEF LookUp, Takes, Storing, Effect
<1>6. CASE SetState
  <2>1. \A c \in IDs : state'[c] = "none" <=> state[c] = "none"
    BY <1>6 DEF SetState, IInv, LoopInv, TypeOK
  <2> QED
    BY <1>6, <2>1, Unseen, MadeFrame DEF SetState, Storing
<1> QED
  BY <1>1, <1>2, <1>3, <1>4, <1>5, <1>6 DEF HandleCMEvent

(* A call of Conn.Close begins: seen by nobody.                             *)
LEMMA CallCloseRefines ==
    ASSUME IInv, NEW a \in Actors, NEW c \in Conns, CallClose(a, c),
           a = "loop" => loop = "close"
    PROVE  [Offers!OffersNext]_Offers!offerVars
<1>1. \A d \in IDs : Storing(d)' <=> Storing(d)
  BY DEF CallClose, GoesOn, Storing, loopVars
<1> QED
  BY <1>1, Unseen, MadeFrame DEF CallClose, connVars, managerVars

(* A call of Conn.Close ends the connection when it closes done.            *)
LEMMA CloseRefines ==
    ASSUME IInv, NEW a \in Actors, Close(a)
    PROVE  [Offers!OffersNext]_Offers!offerVars
<1>0. /\ at[a] # "idle" => /\ target[a] \in Conns /\ state[target[a]] # "none"
                           /\ target[a] \in Made \/ chClosed
      /\ a = "loop" /\ at[a] # "idle" => loop = "close"
  BY DEF IInv, CallInv, CallOK, TypeOK
<1>1. CASE Drain(a)
  <2>1. /\ \A d \in IDs : state'[d] = "none" <=> state[d] = "none"
        /\ \A d \in IDs : Storing(d)' <=> Storing(d)
    BY <1>0, <1>1 DEF Drain, Storing, loopVars, IInv, TypeOK
  <2> QED
    BY <1>1, <2>1, Unseen, MadeFrame DEF Close, Drain, managerVars
<1>2. CASE CloseDone(a)
  <2>1. (Made \cap IDs)' = Made \cap IDs /\ UNCHANGED <<acceptCh, chClosed, closed>>
    BY <1>2, MadeFrame DEF Close, CloseDone, Storing, loopVars, managerVars
  <2>2. CASE target[a] \in done
    BY <1>2, <2>1, <2>2, Unseen DEF CloseDone
  <2>4. CASE target[a] \notin done /\ target[a] \notin IDs
    <3>1. (done \cap IDs)' = done \cap IDs
      BY <1>2, <2>4 DEF CloseDone
    <3> QED
      BY <2>1, <3>1, Unseen
  <2>3. CASE target[a] \notin done /\ target[a] \in IDs
    <3>1. target[a] \in IDs /\ Offers!EndConn(target[a])
      BY <1>0, <1>2, <2>1, <2>3 DEF CloseDone, Offers!EndConn
    <3> QED
      BY <3>1 DEF Offers!OffersNext
  <2> QED
    BY <2>2, <2>3, <2>4
<1>3. CASE BecomeClosed(a)
  <2>1. /\ \A d \in IDs : state'[d] = "none" <=> state[d] = "none"
        /\ \A d \in IDs : Storing(d)' <=> Storing(d)
    BY <1>0, <1>3 DEF BecomeClosed, GoesOn, Storing, loopVars, IInv, TypeOK
  <2> QED
    BY <1>3, <2>1, Unseen, MadeFrame DEF Close, BecomeClosed, managerVars
<1> QED
  BY <1>1, <1>2, <1>3 DEF Close

(* Every step is a step of the offers, or not seen by them.                 *)
LEMMA StepRefines ==
    IInv /\ [Next]_vars => [Offers!OffersNext]_Offers!offerVars
<1> SUFFICES ASSUME IInv, [Next]_vars
             PROVE  [Offers!OffersNext]_Offers!offerVars
  OBVIOUS
<1> USE DEF cmVars, connVars, tableVars, managerVars, loopVars, closeVars
<1>1. CASE UNCHANGED vars
  BY <1>1, Unseen DEF vars, Made
<1>2. CASE Accept
  <2>1. (Made \cap IDs)' = Made \cap IDs
    BY <1>2 DEF Accept, Made
  <2>2. Offers!TakeConn
    BY <1>2, <2>1 DEF Accept, Offers!TakeConn
  <2> QED
    BY <2>2 DEF Offers!OffersNext
<1>3. CASE Loop
  <2>1. event \in Conns \/ ~CloseByLoop
    BY DEF CloseByLoop, IInv, LoopInv
  <2> QED
    BY <1>3, <2>1, LoopRefines, CallCloseRefines, CloseRefines DEF Loop,
       CloseByLoop, Actors
<1>4. CASE ManagerClose
  <2>1. CASE CloseSwap
    <3>1. (Made \cap IDs)' = Made \cap IDs /\ closed = FALSE
      BY <2>1 DEF CloseSwap, Made, IInv, PartsOK
    <3> QED
      BY <2>1, <3>1 DEF CloseSwap, Offers!BeginClose, Offers!OffersNext
  <2>2. CASE CloseAcceptCh
    <3>1. (Made \cap IDs)' = Made \cap IDs /\ closed /\ ~chClosed
      BY <2>2 DEF CloseAcceptCh, Made, IInv, PartsOK
    <3> QED
      BY <2>2, <3>1 DEF CloseAcceptCh, Offers!CloseOffers, Offers!OffersNext
  <2>3. CASE RangeBegins \/ RangeEnds
    BY <2>3, Unseen DEF RangeBegins, RangeEnds, Made
  <2>4. CASE \E c \in Conns : Visit(c)
    BY <2>4, CallCloseRefines DEF Visit, Actors
  <2>5. CASE Close("manager")
    BY <2>5, CloseRefines DEF Actors
  <2> QED
    BY <1>4, <2>1, <2>2, <2>3, <2>4, <2>5 DEF ManagerClose
<1>5. CASE User
  BY <1>5, CallCloseRefines, CloseRefines DEF User, UserCloses, Actors
<1>6. CASE \E c \in IDs : Peer(c)
  BY <1>6, Unseen DEF Peer, PeerRequests, PeerEstablishes, PeerDisconnects,
     PeerRejects, PeerStep, Made
<1>7. CASE \E d \in Dialed : Connect(d)
  <2>1. (Made \cap IDs)' = Made \cap IDs /\ UNCHANGED <<acceptCh, chClosed, closed, done>>
    BY <1>7, ConnManagerAssumption DEF Connect, BeginConnect, ConnectFails, DialSucceeds,
       StoreDialed, ReturnDialed, ConnectStep, Made, IInv, TypeOK, Conns
  <2> QED
    BY <2>1, Unseen
<1> QED
  BY <1>1, <1>2, <1>3, <1>4, <1>5, <1>6, <1>7 DEF Next

(* The manager implements ConnOffers: it offers each connection once, in    *)
(* order, ends each once, and offers nothing after it closed the channel.   *)
THEOREM ManagerImplementsOffers == Spec => ImplementsOffers
<1>1. Spec => []IInv
  BY Invariance
<1> QED
  BY <1>1, InitRefines, StepRefines, PTL DEF Spec, ImplementsOffers,
     Offers!OffersSpec
=============================================================================
