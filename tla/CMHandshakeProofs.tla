-------------------------- MODULE CMHandshakeProofs --------------------------
(***************************************************************************)
(* The ledgers of the hand-shake of internal/rdma, for every number of     *)
(* dials and of foreign connections, wherever a call fails: no clean-up    *)
(* pulls away what something else is built on, and what stays behind is    *)
(* known: a queue pair and what was made for it, and nothing else.         *)
(***************************************************************************)
EXTENDS CMHandshake, TLAPS

Answers == {"AddrResolved", "RouteResolved", "Established", "AddrError",
            "RouteError", "Rejected", "Unreachable"}
Links == {"none", "addr", "route", "resolved", "connect", "request", "accepted",
          "answered", "up", "over"}
Types == {"ConnectRequest", "Established", "ConnectError", "Disconnected"}
Events == [type : Types, id : Conns]

(* The parts of the state that TypeOK leaves out.                           *)
EventsOK ==
    /\ link \in [Conns -> Links]
    /\ answer \in [Conns -> Answers \cup {None}]
    /\ held \in [Dials -> Answers \cup {None}]
    /\ events \in Seq(Events)

-----------------------------------------------------------------------------
(* The dialling end.                                                        *)

(* What a Dial has made when this call comes next.                          *)
Made(p) ==
    CASE p \in {"idle", "channel"}                         -> {}
      [] p = "id"                                          -> {"channel"}
      [] p \in {"resolveAddr", "addrEvent", "pd"}          -> CMObject
      [] p = "sendCQ"                                      -> CMObject \cup {"pd"}
      [] p = "recvCQ"                                      -> CMObject \cup {"pd", "sendCQ"}
      [] p \in {"resolveRoute", "routeEvent", "qp"}        -> CMObject \cup {"pd", "sendCQ", "recvCQ"}
      [] p \in {"connect", "connEvent", "sendBuf"}         -> CMObject \cup Verbs
      [] p = "recvBuf"                                     -> CMObject \cup Verbs \cup {"sendBuf"}
      [] p = "sendMR"                                      -> CMObject \cup Verbs \cup {"sendBuf", "recvBuf"}
      [] p = "recvMR"                                      -> Resource \ {"recvMR"}
      [] OTHER                                             -> Resource

(* What there can be when a clean-up destroys this next: what was made      *)
(* before it, or that with the queue pair and what the queue pair pins.     *)
Left(u) ==
    CASE u = "recvMR"  -> {Resource}
      [] u = "sendMR"  -> {Resource \ {"recvMR"}}
      [] u = "recvBuf" -> {CMObject \cup Verbs \cup {"sendBuf", "recvBuf"}}
      [] u = "sendBuf" -> {CMObject \cup Verbs \cup {"sendBuf"}}
      [] u = "recvCQ"  -> {CMObject \cup {"pd", "sendCQ", "recvCQ"}, CMObject \cup Verbs}
      [] u = "sendCQ"  -> {CMObject \cup {"pd", "sendCQ"}, CMObject \cup Verbs}
      [] u = "pd"      -> {CMObject \cup {"pd"}, CMObject \cup Verbs}
      [] u = "id"      -> {CMObject, CMObject \cup Verbs}
      [] u = "channel" -> {{"channel"}, {"channel"} \cup Verbs}
      [] OTHER         -> {{}, Verbs}

DialOK(d) ==
    /\ pc[d] \in DOMAIN After \cup {"idle", "open"} => have[d] = Made(pc[d])
    /\ pc[d] \in {"failing", "closing"} => have[d] \in Left(undo[d])
    /\ pc[d] \in {"failed", "closed"} => have[d] \in {{}, Verbs}
    /\ held[d] # None => pc[d] \in DOMAIN Waits

DialInv == \A d \in Dials : DialOK(d)

-----------------------------------------------------------------------------
(* The listening end.                                                       *)

Accepting == {"pd", "sendCQ", "recvCQ", "qp", "rdmaAccept"}
Wrapping  == {"sendBuf", "recvBuf", "sendMR", "recvMR", "postRecv"}
Working(d) == current = d /\ spc \in Accepting \cup Wrapping \cup {"undo"}

ListenInv ==
    /\ spc \in {"channel", "id", "bind", "listen", "accept", "handle", "undo",
                "stopped", "closeID", "closeChannel", "closed"} \cup Accepting \cup Wrapping
    /\ spc \in Accepting \cup Wrapping \cup {"undo", "handle"} => current \in Conns
    /\ lsn = CASE spc \in {"channel", "closed"}  -> {}
               [] spc \in {"id", "closeChannel"} -> {"channel"}
               [] OTHER                          -> CMObject

(* What the listener has made for a connection when this call comes next.   *)
AccMade(p) ==
    CASE p = "pd"         -> {}
      [] p = "sendCQ"     -> {"pd"}
      [] p = "recvCQ"     -> {"pd", "sendCQ"}
      [] p = "qp"         -> {"pd", "sendCQ", "recvCQ"}
      [] p \in {"rdmaAccept", "sendBuf"} -> Verbs
      [] p = "recvBuf"    -> Verbs \cup {"sendBuf"}
      [] p = "sendMR"     -> Verbs \cup {"sendBuf", "recvBuf"}
      [] p = "recvMR"     -> Verbs \cup {"sendBuf", "recvBuf", "sendMR"}
      [] OTHER            -> Verbs \cup DataPath

(* What there can be of a connection that is being undone.                  *)
AccLeft(u) ==
    CASE u = "recvMR"  -> {Verbs \cup DataPath}
      [] u = "sendMR"  -> {Verbs \cup {"sendBuf", "recvBuf", "sendMR"}}
      [] u = "recvBuf" -> {Verbs \cup {"sendBuf", "recvBuf"}}
      [] u = "sendBuf" -> {Verbs \cup {"sendBuf"}}
      [] u = "recvCQ"  -> {{"pd", "sendCQ", "recvCQ"}, Verbs}
      [] u = "sendCQ"  -> {{"pd", "sendCQ"}, Verbs}
      [] u = "pd"      -> {{"pd"}, Verbs}
      [] OTHER         -> {{}, Verbs}

(* What there is of a connection that is being closed.                      *)
ClosingLeft(u) ==
    CASE u = "recvMR"  -> Verbs \cup DataPath
      [] u = "sendMR"  -> Verbs \cup {"sendBuf", "recvBuf", "sendMR"}
      [] u = "recvBuf" -> Verbs \cup {"sendBuf", "recvBuf"}
      [] u = "sendBuf" -> Verbs \cup {"sendBuf"}
      [] u = "qp"      -> Verbs
      [] OTHER         -> Verbs \ {"qp"}

AccOK(d) ==
    /\ conn[d] # "none" => d \notin pending /\ ~Working(d)
    /\ conn[d] = "none" /\ ~Working(d) => acc[d] \in {{}, Verbs}
    /\ d \in pending => acc[d] = Verbs /\ ~Working(d)
    /\ Working(d) => acc[d] \in IF spc = "undo" THEN AccLeft(accUndo[d])
                                ELSE {AccMade(spc)}
    /\ Working(d) /\ spc = "undo" => accUndo[d] # "qp"
    /\ conn[d] = "open" => acc[d] = Verbs \cup DataPath
    /\ conn[d] = "closing" =>
          acc[d] = ClosingLeft(accUndo[d]) /\ accUndo[d] \notin {"pd", "sendCQ", "recvCQ"}
    /\ conn[d] = "closed" => acc[d] = Verbs \ {"qp"}

AccInv == \A d \in Conns : AccOK(d)

-----------------------------------------------------------------------------
(* A connection is asked for once, so the listener makes its resources once. *)

Early == {"idle", "channel", "id", "resolveAddr", "addrEvent", "pd", "sendCQ",
          "recvCQ", "resolveRoute", "routeEvent", "qp", "connect"}

Unasked(d) ==
    \/ link[d] = "connect"
    \/ d \in Dials /\ pc[d] \in Early
    \/ d \in Strangers /\ link[d] = "none"

Requested(i, d) == i \in DOMAIN events /\ events[i] = Event("ConnectRequest", d)

(* The listener has done nothing about a connection.                        *)
Fresh(d) == acc[d] = {} /\ conn[d] = "none" /\ d \notin pending /\ ~Working(d)

RequestInv ==
    \A d \in Conns :
        /\ d \in Dials /\ pc[d] \in Early => link[d] # "connect"
        /\ Unasked(d) => Fresh(d) /\ \A i \in Nat : ~Requested(i, d)
        /\ \A i \in Nat : Requested(i, d) =>
              Fresh(d) /\ \A j \in Nat : Requested(j, d) => i = j

IInv == TypeOK /\ EventsOK /\ DialInv /\ ListenInv /\ AccInv /\ RequestInv

-----------------------------------------------------------------------------
(* Frames: what a step leaves alone.                                        *)

(* A step that touches no dial keeps what is known of them.                 *)
LEMMA DialFrame ==
    ASSUME DialInv, UNCHANGED dialVars
    PROVE  DialInv'
    BY DEF DialInv, DialOK, dialVars

(* A step that does not touch the listener keeps what is known of it.       *)
LEMMA ListenFrame ==
    ASSUME ListenInv, AccInv, UNCHANGED <<listenVars, connVars>>
    PROVE  ListenInv' /\ AccInv'
    BY DEF ListenInv, AccInv, AccOK, Working, listenVars, connVars

(* A step that asks for nothing, serves nothing, and takes no request.      *)
Quiet ==
    /\ \A d \in Conns : Fresh(d) => Fresh(d)'
    /\ \A d \in Conns : Unasked(d)' => Unasked(d)
    /\ \A d \in Dials : pc'[d] \in Early => link'[d] # "connect"
    /\ \A d \in Conns : \A i \in Nat : Requested(i, d)' => Requested(i, d)

(* Such a step keeps a connection asked for at most once.                   *)
LEMMA RequestFrame ==
    ASSUME RequestInv, Quiet
    PROVE  RequestInv'
    BY DEF RequestInv, Quiet, Conns

(* An event that is no request, appended.                                   *)
LEMMA AppendedEvent ==
    ASSUME events \in Seq(Events), NEW type \in Types, NEW c \in Conns,
           events' = Append(events, Event(type, c))
    PROVE  /\ events' \in Seq(Events)
           /\ type # "ConnectRequest" =>
                 \A d \in Conns : \A i \in Nat : Requested(i, d)' => Requested(i, d)
<1>1. Event(type, c) \in Events
  BY DEF Event, Events
<1>2. /\ events' \in Seq(Events)
      /\ Len(events') = Len(events) + 1
      /\ \A i \in 1..Len(events) : events'[i] = events[i]
      /\ events'[Len(events) + 1] = Event(type, c)
  BY <1>1
<1>3. ASSUME type # "ConnectRequest", NEW d \in Conns, NEW i \in Nat, Requested(i, d)'
      PROVE  Requested(i, d)
  <2>1. i \in 1..Len(events) + 1
    BY <1>2, <1>3 DEF Requested
  <2>2. i # Len(events) + 1
    BY <1>2, <1>3 DEF Requested, Event
  <2> QED
    BY <1>2, <1>3, <2>1, <2>2 DEF Requested
<1> QED
  BY <1>2, <1>3

-----------------------------------------------------------------------------
(* The initial states.                                                      *)
LEMMA InitInv == Init => IInv
<1> SUFFICES ASSUME Init
             PROVE  IInv
  OBVIOUS
<1>1. TypeOK
  BY DEF Init, TypeOK
<1>2. EventsOK
  BY DEF Init, EventsOK, Links, Conns
<1>3. DialInv
  BY DEF Init, DialInv, DialOK, Made
<1>4. ListenInv
  BY DEF Init, ListenInv, Accepting, Wrapping
<1>5. AccInv
  BY HandshakeAssumption DEF Init, AccInv, AccOK, Working, Accepting, Wrapping
<1>6. RequestInv
  <2>1. \A d \in Conns : Fresh(d)
    BY DEF Init, Fresh, Working, Accepting, Wrapping
  <2>2. \A d \in Conns, i \in Nat : ~Requested(i, d)
    BY DEF Init, Requested
  <2> QED
    BY <2>1, <2>2 DEF Init, RequestInv, Conns
<1> QED
  BY <1>1, <1>2, <1>3, <1>4, <1>5, <1>6 DEF IInv

-----------------------------------------------------------------------------
(* Steps of a dial.                                                         *)

Known == TypeOK /\ EventsOK /\ DialInv /\ RequestInv

(* Dial is called.                                                          *)
LEMMA DialBegins ==
    ASSUME Known, NEW d \in Dials, Dial(d)
    PROVE  Known'
<1> USE DEF Known, Dial, cmVars, listenVars, connVars
<1>1. TypeOK'
  BY DEF TypeOK, After
<1>2. EventsOK'
  BY DEF EventsOK, Conns
<1>3. DialInv'
  <2> SUFFICES ASSUME NEW e \in Dials
               PROVE  DialOK(e)'
    BY DEF DialInv
  <2>1. DialOK(e) /\ DialOK(d)
    BY DEF DialInv
  <2>2. CASE e # d
    BY <2>1, <2>2 DEF DialOK, TypeOK, EventsOK
  <2>3. CASE e = d
    BY <2>1, <2>3 DEF DialOK, TypeOK, EventsOK, Made, Left, After, Resource,
       CMObject, Verbs, DataPath, Waits
  <2> QED
    BY <2>2, <2>3
<1>4. Quiet
  BY DEF Quiet, RequestInv, Fresh, Working, Unasked, Requested, Early, Conns,
     TypeOK, EventsOK, After
<1> QED
  BY <1>1, <1>2, <1>3, <1>4, RequestFrame

(* A resource is made.                                                      *)
LEMMA MakeInv ==
    ASSUME Known, NEW d \in Dials, Make(d)
    PROVE  Known'
<1> USE DEF Known, Make, cmVars, listenVars, connVars
<1>1. TypeOK'
  BY DEF TypeOK, After, Resource, CMObject, Verbs, DataPath
<1>2. EventsOK'
  BY DEF EventsOK, Conns, After, Resource, CMObject, Verbs, DataPath
<1>3. DialInv'
  <2> SUFFICES ASSUME NEW e \in Dials
               PROVE  DialOK(e)'
    BY DEF DialInv
  <2>1. DialOK(e) /\ DialOK(d)
    BY DEF DialInv
  <2>2. CASE e # d
    BY <2>1, <2>2 DEF DialOK, TypeOK, EventsOK
  <2>3. CASE e = d
    BY <2>1, <2>3 DEF DialOK, TypeOK, EventsOK, Made, Left, After, Resource,
       CMObject, Verbs, DataPath, Waits
  <2> QED
    BY <2>2, <2>3
<1>4. Quiet
  BY DEF Quiet, RequestInv, Fresh, Working, Unasked, Requested, Early, Conns,
     TypeOK, EventsOK, After, Resource, CMObject, Verbs, DataPath
<1> QED
  BY <1>1, <1>2, <1>3, <1>4, RequestFrame

(* The CM is asked.                                                         *)
LEMMA AskInv ==
    ASSUME Known, NEW d \in Dials, Ask(d)
    PROVE  Known'
<1> USE DEF Known, Ask, cmVars, listenVars, connVars
<1>1. TypeOK'
  BY DEF TypeOK, After, Asks, Links
<1>2. EventsOK'
  BY DEF EventsOK, Conns, After, Asks, Links
<1>3. DialInv'
  <2> SUFFICES ASSUME NEW e \in Dials
               PROVE  DialOK(e)'
    BY DEF DialInv
  <2>1. DialOK(e) /\ DialOK(d)
    BY DEF DialInv
  <2>2. CASE e # d
    BY <2>1, <2>2 DEF DialOK, TypeOK, EventsOK
  <2>3. CASE e = d
    BY <2>1, <2>3 DEF DialOK, TypeOK, EventsOK, Made, Left, After, Resource,
       CMObject, Verbs, DataPath, Waits, Asks, Links
  <2> QED
    BY <2>2, <2>3
<1>4. Quiet
  BY DEF Quiet, RequestInv, Fresh, Working, Unasked, Requested, Early, Conns,
     TypeOK, EventsOK, After, Asks, Links
<1> QED
  BY <1>1, <1>2, <1>3, <1>4, RequestFrame

(* The first receive is posted.                                             *)
LEMMA PostFirstRecvInv ==
    ASSUME Known, NEW d \in Dials, PostFirstRecv(d)
    PROVE  Known'
<1> USE DEF Known, PostFirstRecv, cmVars, listenVars, connVars
<1>1. TypeOK'
  BY DEF TypeOK, After
<1>2. EventsOK'
  BY DEF EventsOK, Conns, After
<1>3. DialInv'
  <2> SUFFICES ASSUME NEW e \in Dials
               PROVE  DialOK(e)'
    BY DEF DialInv
  <2>1. DialOK(e) /\ DialOK(d)
    BY DEF DialInv
  <2>2. CASE e # d
    BY <2>1, <2>2 DEF DialOK, TypeOK, EventsOK
  <2>3. CASE e = d
    BY <2>1, <2>3 DEF DialOK, TypeOK, EventsOK, Made, Left, After, Resource,
       CMObject, Verbs, DataPath, Waits
  <2> QED
    BY <2>2, <2>3
<1>4. Quiet
  BY DEF Quiet, RequestInv, Fresh, Working, Unasked, Requested, Early, Conns,
     TypeOK, EventsOK, After
<1> QED
  BY <1>1, <1>2, <1>3, <1>4, RequestFrame

(* A call fails; what it had not made needs no undoing.                     *)
LEMMA CallFailsInv ==
    ASSUME Known, NEW d \in Dials, CallFails(d)
    PROVE  Known'
<1> USE DEF Known, CallFails, cmVars, listenVars, connVars, Fails
<1>1. TypeOK'
  BY DEF TypeOK, After, UndoFrom, UndoNext
<1>2. EventsOK'
  BY DEF EventsOK, Conns, After, UndoFrom, UndoNext
<1>3. DialInv'
  <2> SUFFICES ASSUME NEW e \in Dials
               PROVE  DialOK(e)'
    BY DEF DialInv
  <2>1. DialOK(e) /\ DialOK(d)
    BY DEF DialInv
  <2>2. CASE e # d
    BY <2>1, <2>2 DEF DialOK, TypeOK, EventsOK
  <2>3. CASE e = d
    BY <2>1, <2>3 DEF DialOK, TypeOK, EventsOK, Made, Left, After, Resource,
       CMObject, Verbs, DataPath, Waits, UndoFrom, UndoNext
  <2> QED
    BY <2>2, <2>3
<1>4. Quiet
  BY DEF Quiet, RequestInv, Fresh, Working, Unasked, Requested, Early, Conns,
     TypeOK, EventsOK, After, UndoFrom, UndoNext
<1> QED
  BY <1>1, <1>2, <1>3, <1>4, RequestFrame

(* The context is done.                                                     *)
LEMMA GiveUpInv ==
    ASSUME Known, NEW d \in Dials, GiveUp(d)
    PROVE  Known'
<1> USE DEF Known, GiveUp, cmVars, listenVars, connVars, Fails
<1>1. TypeOK'
  BY DEF TypeOK, After, Waits, UndoFrom, UndoNext
<1>2. EventsOK'
  BY DEF EventsOK, Conns, After, Waits, UndoFrom, UndoNext
<1>3. DialInv'
  <2> SUFFICES ASSUME NEW e \in Dials
               PROVE  DialOK(e)'
    BY DEF DialInv
  <2>1. DialOK(e) /\ DialOK(d)
    BY DEF DialInv
  <2>2. CASE e # d
    BY <2>1, <2>2 DEF DialOK, TypeOK, EventsOK
  <2>3. CASE e = d
    BY <2>1, <2>3 DEF DialOK, TypeOK, EventsOK, Made, Left, After, Resource,
       CMObject, Verbs, DataPath, Waits, UndoFrom, UndoNext
  <2> QED
    BY <2>2, <2>3
<1>4. Quiet
  BY DEF Quiet, RequestInv, Fresh, Working, Unasked, Requested, Early, Conns,
     TypeOK, EventsOK, After, Waits, UndoFrom, UndoNext
<1> QED
  BY <1>1, <1>2, <1>3, <1>4, RequestFrame

(* An event is acknowledged.                                                *)
LEMMA AckInv ==
    ASSUME Known, NEW d \in Dials, Ack(d)
    PROVE  Known'
<1> USE DEF Known, Ack, cmVars, listenVars, connVars, Fails
<1>0. pc[d] \in DOMAIN Waits
  BY DEF DialInv, DialOK
<1>1. TypeOK'
  BY <1>0 DEF TypeOK, After, Waits, UndoFrom, UndoNext
<1>2. EventsOK'
  BY DEF EventsOK, Conns, After, Waits, UndoFrom, UndoNext
<1>3. DialInv'
  <2> SUFFICES ASSUME NEW e \in Dials
               PROVE  DialOK(e)'
    BY DEF DialInv
  <2>1. DialOK(e) /\ DialOK(d)
    BY DEF DialInv
  <2>2. CASE e # d
    BY <2>1, <2>2 DEF DialOK, TypeOK, EventsOK
  <2>3. CASE e = d
    BY <2>1, <2>3 DEF DialOK, TypeOK, EventsOK, Made, Left, After, Resource,
       CMObject, Verbs, DataPath, Waits, UndoFrom, UndoNext
  <2> QED
    BY <2>2, <2>3
<1>4. Quiet
  BY <1>0 DEF Quiet, RequestInv, Fresh, Working, Unasked, Requested, Early, Conns,
     TypeOK, EventsOK, After, Waits, UndoFrom, UndoNext
<1> QED
  BY <1>1, <1>2, <1>3, <1>4, RequestFrame

(* A dialled connection is closed.                                          *)
LEMMA CloseDialedInv ==
    ASSUME Known, NEW d \in Dials, CloseDialed(d)
    PROVE  Known'
<1> USE DEF Known, CloseDialed, cmVars, listenVars, connVars
<1>1. TypeOK'
  BY DEF TypeOK, UndoNext
<1>2. EventsOK'
  BY DEF EventsOK, Conns, UndoNext
<1>3. DialInv'
  <2> SUFFICES ASSUME NEW e \in Dials
               PROVE  DialOK(e)'
    BY DEF DialInv
  <2>1. DialOK(e) /\ DialOK(d)
    BY DEF DialInv
  <2>2. CASE e # d
    BY <2>1, <2>2 DEF DialOK, TypeOK, EventsOK
  <2>3. CASE e = d
    BY <2>1, <2>3 DEF DialOK, TypeOK, EventsOK, Made, Left, After, Resource,
       CMObject, Verbs, DataPath, Waits, UndoNext
  <2> QED
    BY <2>2, <2>3
<1>4. Quiet
  BY DEF Quiet, RequestInv, Fresh, Working, Unasked, Requested, Early, Conns,
     TypeOK, EventsOK, After, UndoNext
<1> QED
  BY <1>1, <1>2, <1>3, <1>4, RequestFrame

(* A clean-up is through.                                                   *)
LEMMA ReturnInv ==
    ASSUME Known, NEW d \in Dials, Return(d)
    PROVE  Known'
<1> USE DEF Known, Return, cmVars, listenVars, connVars
<1>1. TypeOK'
  BY DEF TypeOK, UndoNext
<1>2. EventsOK'
  BY DEF EventsOK, Conns, UndoNext
<1>3. DialInv'
  <2> SUFFICES ASSUME NEW e \in Dials
               PROVE  DialOK(e)'
    BY DEF DialInv
  <2>1. DialOK(e) /\ DialOK(d)
    BY DEF DialInv
  <2>2. CASE e # d
    BY <2>1, <2>2 DEF DialOK, TypeOK, EventsOK
  <2>3. CASE e = d
    BY <2>1, <2>3 DEF DialOK, TypeOK, EventsOK, Made, Left, After, Resource,
       CMObject, Verbs, DataPath, Waits, UndoNext
  <2> QED
    BY <2>2, <2>3
<1>4. Quiet
  BY DEF Quiet, RequestInv, Fresh, Working, Unasked, Requested, Early, Conns,
     TypeOK, EventsOK, After, UndoNext
<1> QED
  BY <1>1, <1>2, <1>3, <1>4, RequestFrame

(* An event is taken, and the other side may hear of it.                    *)
LEMMA TakeInv ==
    ASSUME Known, NEW d \in Dials, Take(d)
    PROVE  Known'
<1> USE DEF Known, Take, listenVars, connVars
<1>0. /\ d \in Conns
      /\ \A c \in Conns : \A i \in Nat : Requested(i, c)' => Requested(i, c)
      /\ events' \in Seq(Events)
  <2>1. CASE answer[d] = "Established"
    BY <2>1, AppendedEvent DEF EventsOK, Conns, Types
  <2>2. CASE answer[d] # "Established"
    BY <2>2 DEF EventsOK, Requested, Conns
  <2> QED
    BY <2>1, <2>2
<1>1. TypeOK'
  BY DEF TypeOK
<1>2. EventsOK'
  <2>1. held' \in [Dials -> Answers \cup {None}] /\ answer' \in [Conns -> Answers \cup {None}]
    BY <1>0 DEF EventsOK
  <2>2. link' \in [Conns -> Links]
    BY <1>0 DEF EventsOK, Links
  <2> QED
    BY <1>0, <2>1, <2>2 DEF EventsOK
<1>3. DialInv'
  BY DEF DialInv, DialOK, EventsOK
<1>4. Quiet
  <2>1. \A c \in Conns : link'[c] # link[c] => link'[c] = "up"
    BY <1>0 DEF EventsOK
  <2>2. \A c \in Conns : Fresh(c) => Fresh(c)'
    BY DEF Fresh, Working
  <2> QED
    BY <1>0, <2>1, <2>2 DEF Quiet, RequestInv, Unasked, Early, Conns
<1> QED
  BY <1>1, <1>2, <1>3, <1>4, RequestFrame

(* A clean-up destroys what comes next.                                     *)
LEMMA UndoInv ==
    ASSUME Known, NEW d \in Dials, Undo(d)
    PROVE  Known'
<1> USE DEF Known, Undo, listenVars
<1>0. /\ d \in Conns
      /\ \A c \in Conns : \A i \in Nat : Requested(i, c)' => Requested(i, c)
      /\ events' \in Seq(Events)
  <2>1. CASE events' = events
    BY <2>1 DEF EventsOK, Requested, Conns
  <2>2. CASE events' = Append(events, Event("Disconnected", d))
    BY <2>2, AppendedEvent DEF EventsOK, Conns, Types
  <2> QED
    BY <2>1, <2>2 DEF DestroyID, Conns
<1>1. TypeOK'
  BY DEF TypeOK, UndoNext, Destroy, connVars
<1>2. EventsOK'
  <2>1. link' \in [Conns -> Links] /\ answer' \in [Conns -> Answers \cup {None}]
    BY <1>0 DEF EventsOK, DestroyID, cmVars, Links
  <2> QED
    BY <1>0, <2>1 DEF EventsOK
<1>3. DialInv'
  <2> SUFFICES ASSUME NEW e \in Dials
               PROVE  DialOK(e)'
    BY DEF DialInv
  <2>1. DialOK(e) /\ DialOK(d)
    BY DEF DialInv
  <2>2. CASE e # d
    BY <2>1, <2>2 DEF DialOK, TypeOK
  <2>3. CASE e = d
    <3>1. Destroy(have[d], undo[d]) \in Left(UndoNext[undo[d]])
      BY <2>1 DEF DialOK, TypeOK, Left, UndoNext, Destroy, Busy, Resource,
         CMObject, Verbs, DataPath
    <3> QED
      BY <2>1, <2>3, <3>1 DEF DialOK, TypeOK, After
  <2> QED
    BY <2>2, <2>3
<1>4. Quiet
  <2>1. \A c \in Conns : link'[c] # link[c] => link'[c] = "over"
    BY <1>0 DEF EventsOK, DestroyID, cmVars
  <2>2. \A c \in Conns : Fresh(c) => Fresh(c)'
    BY DEF Fresh, Working, connVars
  <2> QED
    BY <1>0, <2>1, <2>2 DEF Quiet, RequestInv, Unasked, Early, Conns
<1> QED
  BY <1>1, <1>2, <1>3, <1>4, RequestFrame

(* What a dial does, its Dial and Close included.                           *)
LEMMA DialSideInv ==
    ASSUME IInv, NEW d \in Dials, Dial(d) \/ DialStep(d) \/ CloseDialed(d)
    PROVE  IInv'
<1>1. UNCHANGED <<listenVars, connVars>>
  BY DEF Dial, DialStep, CloseDialed, Make, Ask, PostFirstRecv, CallFails, GiveUp,
     Take, Ack, Undo, Return
<1>2. ListenInv' /\ AccInv'
  BY <1>1, ListenFrame DEF IInv
<1>3. Known'
  BY DialBegins, MakeInv, AskInv, PostFirstRecvInv, CallFailsInv, GiveUpInv,
     TakeInv, AckInv, UndoInv, ReturnInv, CloseDialedInv DEF DialStep, IInv, Known
<1> QED
  BY <1>2, <1>3 DEF IInv, Known

-----------------------------------------------------------------------------
(* Steps of the CM and of foreign programs.                                 *)

(* A step that touches neither end, and tells of nothing but requests that  *)
(* were not told of before.                                                 *)
LEMMA OutsideFrame ==
    ASSUME IInv, EventsOK', RequestInv',
           UNCHANGED <<dialVars, listenVars, connVars>>
    PROVE  IInv'
<1>1. DialInv' /\ ListenInv' /\ AccInv'
  BY DialFrame, ListenFrame DEF IInv
<1>2. TypeOK'
  BY DEF IInv, TypeOK, dialVars, listenVars, connVars
<1> QED
  BY <1>1, <1>2 DEF IInv

(* A step of the CM that is no request moves no connection back.            *)
LEMMA QuietCM ==
    ASSUME IInv, NEW d \in Conns, NEW l \in Links \ {"connect", "none"},
           link' = [link EXCEPT ![d] = l],
           UNCHANGED <<dialVars, listenVars, connVars>>,
           \A c \in Conns : \A i \in Nat : Requested(i, c)' => Requested(i, c)
    PROVE  RequestInv'
<1>1. \A c \in Conns : link'[c] \in {link[c], l}
  BY DEF IInv, EventsOK
<1>2. Quiet
  BY <1>1 DEF Quiet, IInv, RequestInv, Unasked, Fresh, Working, Early, Conns,
     dialVars, listenVars, connVars
<1> QED
  BY <1>2, RequestFrame DEF IInv

(* The CM resolves an address or a route, or fails to.                      *)
LEMMA ResolveInv ==
    ASSUME IInv, NEW d \in Conns, Resolve(d) \/ ResolveFails(d)
    PROVE  IInv'
<1>1. EventsOK'
  BY DEF Resolve, ResolveFails, IInv, EventsOK, dialVars, Answers, Links
<1>2. RequestInv'
  BY QuietCM DEF Resolve, ResolveFails, Links, Requested
<1> QED
  BY <1>1, <1>2, OutsideFrame DEF Resolve, ResolveFails

(* The acceptance of the listener reaches the dial.                         *)
LEMMA AcceptedInv ==
    ASSUME IInv, NEW d \in Conns, Accepted(d)
    PROVE  IInv'
<1>1. EventsOK'
  BY DEF Accepted, IInv, EventsOK, dialVars, Answers, Links
<1>2. RequestInv'
  BY QuietCM DEF Accepted, Links, Requested
<1> QED
  BY <1>1, <1>2, OutsideFrame DEF Accepted

(* The CM gives a peer up.                                                  *)
LEMMA UnreachableInv ==
    ASSUME IInv, NEW d \in Conns, Unreachable(d)
    PROVE  IInv'
<1>0. /\ events' \in Seq(Events)
      /\ \A c \in Conns : \A i \in Nat : Requested(i, c)' => Requested(i, c)
  <2>1. CASE events' = events
    BY <2>1 DEF IInv, EventsOK, Requested
  <2>2. CASE events' = Append(events, Event("ConnectError", d))
    BY <2>2, AppendedEvent DEF IInv, EventsOK, Types
  <2> QED
    BY <2>1, <2>2 DEF Unreachable
<1>1. EventsOK'
  BY <1>0 DEF Unreachable, IInv, EventsOK, dialVars, Answers, Links
<1>2. RequestInv'
  BY <1>0, QuietCM DEF Unreachable, Links
<1> QED
  BY <1>1, <1>2, OutsideFrame DEF Unreachable

(* A connection of another program is completed, or ends.                   *)
LEMMA StrangerEventInv ==
    ASSUME IInv, NEW d \in Strangers, StrangerCompletes(d) \/ StrangerLeaves(d)
    PROVE  IInv'
<1>0. /\ d \in Conns
      /\ events' \in Seq(Events)
      /\ \A c \in Conns : \A i \in Nat : Requested(i, c)' => Requested(i, c)
  BY AppendedEvent DEF StrangerCompletes, StrangerLeaves, IInv, EventsOK, Types,
     Conns
<1>1. EventsOK'
  BY <1>0 DEF StrangerCompletes, StrangerLeaves, IInv, EventsOK, dialVars, Links
<1>2. RequestInv'
  BY <1>0, QuietCM DEF StrangerCompletes, StrangerLeaves, Links
<1> QED
  BY <1>1, <1>2, OutsideFrame DEF StrangerCompletes, StrangerLeaves

(* A foreign program has asked for nothing before.                          *)
LEMMA StrangerKnocksInv ==
    ASSUME IInv, NEW d \in Strangers, StrangerKnocks(d)
    PROVE  IInv'
<1>0. d \in Conns /\ d \notin Dials
  BY HandshakeAssumption DEF Conns
<1>1. EventsOK'
  BY <1>0 DEF StrangerKnocks, IInv, EventsOK, dialVars, Links
<1>2. Quiet
  <2>1. \A c \in Conns : link'[c] # link[c] => c = d /\ Unasked(c)
    BY <1>0 DEF StrangerKnocks, IInv, EventsOK, Unasked
  <2> QED
    BY <1>0, <2>1 DEF StrangerKnocks, Quiet, IInv, RequestInv, Unasked, Fresh,
       Working, Conns, Requested, dialVars, listenVars, connVars
<1>3. RequestInv'
  BY <1>2, RequestFrame DEF IInv
<1> QED
  BY <1>1, <1>3, OutsideFrame DEF StrangerKnocks

(* A request reaches the listener: the first for this connection.           *)
LEMMA RequestReaches ==
    ASSUME IInv, NEW d \in Conns, Request(d)
    PROVE  IInv'
<1>0. UNCHANGED <<dialVars, listenVars, connVars>>
  BY DEF Request
<1>1. EventsOK /\ RequestInv /\ events \in Seq(Events)
  BY DEF IInv, EventsOK
<1>2. CASE Listening
  <2>1. /\ events' = Append(events, Event("ConnectRequest", d))
        /\ link' = [link EXCEPT ![d] = "request"]
        /\ answer' = answer /\ link[d] = "connect"
    BY <1>2 DEF Request
  <2>2. EventsOK'
    BY <1>0, <1>1, <2>1, AppendedEvent DEF EventsOK, Links, Types, dialVars
  <2>3. /\ Len(events') = Len(events) + 1 /\ Len(events) \in Nat
        /\ DOMAIN events = 1..Len(events) /\ DOMAIN events' = 1..Len(events')
        /\ \A i \in 1..Len(events) : events'[i] = events[i]
        /\ events'[Len(events) + 1] = Event("ConnectRequest", d)
    BY <1>1, <2>1, <2>2, Event("ConnectRequest", d) \in Events DEF EventsOK
  <2>4. \A c \in Conns : \A i \in Nat :
            Requested(i, c)' => Requested(i, c) \/ (c = d /\ i = Len(events) + 1)
    BY <2>3 DEF Requested, Event
  <2>5. Fresh(d) /\ \A i \in Nat : ~Requested(i, d)
    BY <1>1, <2>1 DEF RequestInv, Unasked
  <2>6. \A c \in Conns : Fresh(c) => Fresh(c)'
    BY <1>0 DEF Fresh, Working, listenVars, connVars
  <2>7. \A c \in Conns : Unasked(c)' => Unasked(c) /\ c # d
    BY <1>0, <1>1, <2>1, HandshakeAssumption DEF Unasked, EventsOK, RequestInv,
       dialVars, Conns
  <2>8. RequestInv'
    <3> SUFFICES ASSUME NEW c \in Conns
                 PROVE  /\ c \in Dials /\ pc'[c] \in Early => link'[c] # "connect"
                        /\ Unasked(c)' => Fresh(c)' /\ \A i \in Nat : ~Requested(i, c)'
                        /\ \A i \in Nat : Requested(i, c)' =>
                              Fresh(c)' /\ \A j \in Nat : Requested(j, c)' => i = j
      BY DEF RequestInv
    <3>1. c \in Dials /\ pc'[c] \in Early => link'[c] # "connect"
      BY <1>0, <1>1, <2>1 DEF RequestInv, EventsOK, dialVars
    <3>2. CASE c = d
      BY <3>1, <3>2, <2>4, <2>5, <2>6, <2>7
    <3>3. CASE c # d
      BY <3>1, <3>3, <1>1, <2>4, <2>6, <2>7 DEF RequestInv
    <3> QED
      BY <3>2, <3>3
  <2> QED
    BY <1>0, <2>2, <2>8, OutsideFrame
<1>3. CASE ~Listening
  <2>1. EventsOK'
    BY <1>3 DEF Request, IInv, EventsOK, dialVars, Answers, Links
  <2>2. RequestInv'
    BY <1>0, <1>3, QuietCM DEF Request, Links, Requested
  <2> QED
    BY <1>0, <2>1, <2>2, OutsideFrame
<1> QED
  BY <1>2, <1>3

-----------------------------------------------------------------------------
(* Steps of the listener and of the owners of its connections.              *)

(* A step at the listening end that concerns one connection, and is Quiet.  *)
LEMMA AcceptFrame ==
    ASSUME IInv, TypeOK', EventsOK', ListenInv', Quiet, UNCHANGED dialVars,
           NEW c \in Conns, AccOK(c)',
           \A d \in Conns \ {c} : AccOK(d) => AccOK(d)'
    PROVE  IInv'
<1>1. DialInv' /\ RequestInv'
  BY DialFrame, RequestFrame DEF IInv
<1>2. AccInv'
  BY DEF IInv, AccInv
<1> QED
  BY <1>1, <1>2 DEF IInv

(* A step that changes what is known of one connection, not a fresh one.     *)
LEMMA QuietAccept ==
    ASSUME IInv, UNCHANGED <<dialVars, events>>,
           NEW c \in Conns, Fresh(c) => Fresh(c)',
           \A d \in Conns \ {c} :
               /\ acc'[d] = acc[d] /\ conn'[d] = conn[d]
               /\ d \in pending' => d \in pending
               /\ Working(d)' => Working(d),
           \A d \in Conns : link'[d] \in {link[d], "accepted"}
    PROVE  Quiet
<1>1. \A d \in Conns : Fresh(d) => Fresh(d)'
  BY DEF Fresh
<1>2. \A d \in Conns : Unasked(d)' => Unasked(d)
  BY DEF Unasked, dialVars
<1>3. \A d \in Dials : pc'[d] \in Early => link'[d] # "connect"
  BY DEF IInv, RequestInv, Conns, dialVars
<1>4. \A d \in Conns : \A i \in Nat : Requested(i, d)' => Requested(i, d)
  BY DEF Requested
<1> QED
  BY <1>1, <1>2, <1>3, <1>4 DEF Quiet

(* A listener that works on no connection moves between such places.        *)
LEMMA IdleFrame ==
    ASSUME IInv, ListenInv',
           spc \notin Accepting \cup Wrapping \cup {"undo"},
           spc' \notin Accepting \cup Wrapping \cup {"undo"},
           lsn' \subseteq CMObject, current' \in Conns \cup {None},
           UNCHANGED <<pending, dialVars, cmVars, connVars>>,
           events' \in Seq(Events),
           \A d \in Conns : \A i \in Nat : Requested(i, d)' => Requested(i, d)
    PROVE  IInv'
<1>1. TypeOK' /\ EventsOK'
  BY DEF IInv, TypeOK, EventsOK, dialVars, cmVars, connVars
<1>2. \A d : ~Working(d) /\ ~Working(d)'
  BY DEF Working
<1>3. AccInv'
  BY <1>2 DEF IInv, AccInv, AccOK, connVars
<1>4. Quiet
  <2>1. \A d \in Conns : Fresh(d) => Fresh(d)'
    BY <1>2 DEF Fresh, connVars
  <2>2. \A d \in Conns : Unasked(d)' => Unasked(d)
    BY DEF Unasked, dialVars, cmVars
  <2>3. \A d \in Dials : pc'[d] \in Early => link'[d] # "connect"
    BY DEF IInv, RequestInv, Conns, dialVars, cmVars
  <2> QED
    BY <2>1, <2>2, <2>3 DEF Quiet
<1> QED
  BY <1>1, <1>3, <1>4, DialFrame, RequestFrame DEF IInv

(* Listen is called and may fail; Accept returns; the listener is closed.   *)
LEMMA ListenerInv ==
    ASSUME IInv, ListenCall \/ ListenFails \/ AcceptEnds \/ CloseListener
    PROVE  IInv'
<1>1. /\ UNCHANGED <<current, pending, dialVars, cmVars, events, connVars>>
      /\ \A d \in Conns : \A i \in Nat : Requested(i, d)' => Requested(i, d)
      /\ events' \in Seq(Events) /\ current' \in Conns \cup {None}
  BY DEF ListenCall, ListenFails, AcceptEnds, CloseListener, Requested, IInv,
     EventsOK, TypeOK
<1>2. /\ ListenInv' /\ lsn' \subseteq CMObject
      /\ spc \notin Accepting \cup Wrapping \cup {"undo", "handle"}
      /\ spc' \notin Accepting \cup Wrapping \cup {"undo", "handle"}
  <2>1. CASE ListenCall
    <3>1. /\ spc \in {"channel", "id", "bind", "listen"}
          /\ spc' = CASE spc = "channel" -> "id" [] spc = "id" -> "bind"
                      [] spc = "bind" -> "listen" [] OTHER -> "accept"
          /\ lsn' = lsn \cup ({spc} \cap CMObject)
      BY <2>1 DEF ListenCall, ListenAfter
    <3>2. lsn' = CASE spc = "channel" -> {"channel"} [] OTHER -> CMObject
      BY <3>1 DEF IInv, ListenInv, CMObject
    <3> QED
      BY <3>1, <3>2 DEF ListenInv, CMObject, Accepting, Wrapping
  <2>2. CASE ListenFails
    BY <2>2 DEF ListenFails, ListenUndo, IInv, ListenInv, CMObject, Accepting,
       Wrapping
  <2>3. CASE AcceptEnds
    BY <2>3 DEF AcceptEnds, IInv, ListenInv, CMObject, Accepting, Wrapping
  <2>4. CASE CloseListener
    BY <2>4 DEF CloseListener, IInv, ListenInv, CMObject, Accepting, Wrapping
  <2> QED
    BY <2>1, <2>2, <2>3, <2>4
<1> QED
  BY <1>1, <1>2, IdleFrame

(* The event taken is gone, and the others have moved up.                   *)
LEMMA TakenEvent ==
    ASSUME events \in Seq(Events), events # <<>>, events' = Tail(events)
    PROVE  /\ events' \in Seq(Events)
           /\ Head(events) \in Events
           /\ \A d \in Conns : Head(events) = Event("ConnectRequest", d) => Requested(1, d)
           /\ \A d \in Conns : \A i \in Nat : Requested(i, d)' => i # 0 /\ Requested(i + 1, d)
<1>1. /\ events' \in Seq(Events) /\ Head(events) = events[1] /\ Head(events) \in Events
      /\ Len(events) \in Nat \ {0} /\ Len(events') = Len(events) - 1
      /\ DOMAIN events = 1..Len(events) /\ DOMAIN events' = 1..Len(events')
      /\ \A i \in 1..Len(events') : events'[i] = events[i + 1]
  OBVIOUS
<1> QED
  BY <1>1 DEF Requested

(* A request is served that was served by nobody.                           *)
LEMMA GetEventInv ==
    ASSUME IInv, GetEvent
    PROVE  IInv'
<1>c. PICK c \in Conns : c = Head(events).id
  BY TakenEvent DEF GetEvent, IInv, EventsOK, Events
<1>0. /\ spc = "accept" /\ lsn = CMObject
      /\ events' \in Seq(Events) /\ Head(events) \in Events
      /\ \A d \in Conns : \A i \in Nat : Requested(i, d)' => i # 0 /\ Requested(i + 1, d)
      /\ current' = c /\ UNCHANGED <<lsn, pending, dialVars, cmVars, connVars>>
  BY <1>c, TakenEvent DEF GetEvent, IInv, EventsOK, ListenInv, Events
<1>1. EventsOK' /\ TypeOK'
  BY <1>0 DEF IInv, TypeOK, EventsOK, dialVars, cmVars, connVars
<1>2. spc' \in {"pd", "handle"} /\ ListenInv'
  BY <1>0 DEF GetEvent, ListenInv, Accepting, Wrapping
<1>3. \A d \in Conns : ~Working(d) /\ (Working(d)' => d = c /\ spc' = "pd")
  BY <1>0, <1>2 DEF Working, Accepting, Wrapping
<1>4. spc' = "pd" => /\ Requested(1, c) /\ Fresh(c) /\ ~Unasked(c)
                     /\ \A i \in Nat : ~Requested(i, c)'
  <2> SUFFICES ASSUME spc' = "pd"
               PROVE  /\ Requested(1, c) /\ Fresh(c) /\ ~Unasked(c)
                      /\ \A i \in Nat : ~Requested(i, c)'
    OBVIOUS
  <2>1. Head(events) = Event("ConnectRequest", c)
    BY <1>0, <1>c DEF GetEvent, Event, Events
  <2>2. Requested(1, c)
    BY <1>0, <2>1, TakenEvent DEF GetEvent, IInv, EventsOK
  <2>3. Fresh(c) /\ ~Unasked(c) /\ \A j \in Nat : Requested(j, c) => 1 = j
    BY <1>0, <2>2 DEF IInv, RequestInv
  <2>4. ASSUME NEW i \in Nat, Requested(i, c)'
        PROVE  FALSE
    <3>1. Requested(i + 1, c) /\ i + 1 \in Nat /\ i # 0
      BY <1>0, <2>4
    <3>2. 1 = i + 1
      BY <2>3, <3>1
    <3> QED
      BY <3>1, <3>2
  <2> QED
    BY <2>2, <2>3, <2>4
<1>5. RequestInv'
  <2> SUFFICES ASSUME NEW d \in Conns
               PROVE  /\ d \in Dials /\ pc'[d] \in Early => link'[d] # "connect"
                      /\ Unasked(d)' => Fresh(d)' /\ \A i \in Nat : ~Requested(i, d)'
                      /\ \A i \in Nat : Requested(i, d)' =>
                            Fresh(d)' /\ \A j \in Nat : Requested(j, d)' => i = j
    BY DEF RequestInv
  <2>1. /\ Unasked(d)' => Unasked(d)
        /\ d \in Dials /\ pc'[d] \in Early => link'[d] # "connect"
    BY <1>0 DEF IInv, RequestInv, Unasked, dialVars, cmVars
  <2>2. CASE d = c /\ spc' = "pd"
    BY <1>4, <2>1, <2>2
  <2>3. CASE ~(d = c /\ spc' = "pd")
    <3>1. Fresh(d) => Fresh(d)'
      BY <1>0, <1>3, <2>3 DEF Fresh, connVars
    <3>2. /\ Unasked(d) => Fresh(d) /\ \A i \in Nat : ~Requested(i, d)
          /\ \A i \in Nat : Requested(i, d) =>
                Fresh(d) /\ \A j \in Nat : Requested(j, d) => i = j
      BY DEF IInv, RequestInv
    <3>3. \A i \in Nat : Requested(i, d)' => i + 1 \in Nat /\ Requested(i + 1, d)
      BY <1>0
    <3>4. ASSUME NEW i \in Nat, NEW j \in Nat, Requested(i, d)', Requested(j, d)'
          PROVE  i = j
      <4>1. i + 1 = j + 1
        BY <3>2, <3>3, <3>4
      <4> QED
        BY <4>1
    <3> QED
      BY <2>1, <3>1, <3>2, <3>3, <3>4
  <2> QED
    BY <2>2, <2>3
<1>6. AccInv'
  <2> SUFFICES ASSUME NEW d \in Conns
               PROVE  AccOK(d)'
    BY DEF AccInv
  <2>1. AccOK(d)
    BY DEF IInv, AccInv
  <2>2. CASE Working(d)'
    BY <1>0, <1>3, <1>4, <2>2 DEF AccOK, AccMade, Fresh, connVars
  <2>3. CASE ~Working(d)'
    BY <1>0, <1>3, <2>1, <2>3 DEF AccOK, connVars
  <2> QED
    BY <2>2, <2>3
<1> QED
  BY <1>0, <1>1, <1>2, <1>5, <1>6, DialFrame DEF IInv

(* A resource is made for a connection.                                     *)
LEMMA AcceptMakeInv ==
    ASSUME IInv, AcceptMake
    PROVE  IInv'
<1> USE DEF AcceptMake, dialVars, cmVars, listenVars
<1>0. /\ current \in Conns /\ AccOK(current)
      /\ UNCHANGED <<dialVars, events>>
  BY DEF IInv, ListenInv, AccInv, Accepting, Wrapping, AcceptAfter, AcceptUndoFrom
<1>1. TypeOK'
  BY <1>0 DEF IInv, TypeOK, AcceptAfter, AccMade, Verbs, DataPath, connVars
<1>2. EventsOK'
  BY <1>0 DEF IInv, EventsOK, Links
<1>3. ListenInv'
  BY <1>0 DEF IInv, ListenInv, Accepting, Wrapping, AcceptAfter, AccMade, Verbs,
     DataPath, connVars
<1>4. Quiet
  <2>0. PICK c \in Conns : c = current
    BY <1>0
  <2>1. ~Fresh(c)
    BY <1>0, <2>0 DEF Fresh, Working, Accepting, Wrapping, AcceptAfter,
       AcceptUndoFrom
  <2>2. \A e \in Conns \ {c} :
            /\ acc'[e] = acc[e] /\ conn'[e] = conn[e]
            /\ e \in pending' => e \in pending
            /\ Working(e)' => Working(e)
    BY <1>0, <2>0 DEF IInv, TypeOK, Working, connVars
  <2>3. \A e \in Conns : link'[e] \in {link[e], "accepted"}
    BY <1>0, <2>0 DEF IInv, EventsOK
  <2> QED
    BY <1>0, <2>1, <2>2, <2>3, QuietAccept
<1>5. AccOK(current)'
  BY <1>0 DEF IInv, TypeOK, AccOK, Working, Accepting, Wrapping, Verbs, DataPath,
     AcceptAfter, AccMade, connVars
<1>6. \A e \in Conns \ {current} : AccOK(e) => AccOK(e)'
  BY <1>0 DEF IInv, TypeOK, AccOK, Working, AcceptAfter, AccMade, Verbs, DataPath,
     connVars
<1> QED
  BY <1>0, <1>1, <1>2, <1>3, <1>4, <1>5, <1>6, AcceptFrame

(* The request is accepted and waits for its event.                         *)
LEMMA RdmaAcceptInv ==
    ASSUME IInv, RdmaAccept
    PROVE  IInv'
<1> USE DEF RdmaAccept, dialVars, cmVars, listenVars
<1>0. /\ current \in Conns /\ AccOK(current)
      /\ UNCHANGED <<dialVars, events>>
  BY DEF IInv, ListenInv, AccInv, Accepting, Wrapping, AcceptAfter, AcceptUndoFrom
<1>1. TypeOK'
  BY <1>0 DEF IInv, TypeOK, AccMade, connVars
<1>2. EventsOK'
  BY <1>0 DEF IInv, EventsOK, Links
<1>3. ListenInv'
  BY <1>0 DEF IInv, ListenInv, Accepting, Wrapping, AccMade, connVars
<1>4. Quiet
  <2>0. PICK c \in Conns : c = current
    BY <1>0
  <2>1. ~Fresh(c)
    BY <1>0, <2>0 DEF Fresh, Working, Accepting, Wrapping, AcceptAfter,
       AcceptUndoFrom
  <2>2. \A e \in Conns \ {c} :
            /\ acc'[e] = acc[e] /\ conn'[e] = conn[e]
            /\ e \in pending' => e \in pending
            /\ Working(e)' => Working(e)
    BY <1>0, <2>0 DEF IInv, TypeOK, Working, connVars
  <2>3. \A e \in Conns : link'[e] \in {link[e], "accepted"}
    BY <1>0, <2>0 DEF IInv, EventsOK
  <2> QED
    BY <1>0, <2>1, <2>2, <2>3, QuietAccept
<1>5. AccOK(current)'
  BY <1>0 DEF IInv, TypeOK, AccOK, Working, Accepting, Wrapping, Verbs, DataPath,
     AccMade, connVars
<1>6. \A e \in Conns \ {current} : AccOK(e) => AccOK(e)'
  BY <1>0 DEF IInv, TypeOK, AccOK, Working, AccMade, connVars
<1> QED
  BY <1>0, <1>1, <1>2, <1>3, <1>4, <1>5, <1>6, AcceptFrame

(* A call fails; what it had not made needs no undoing.                     *)
LEMMA AcceptFailsInv ==
    ASSUME IInv, AcceptFails
    PROVE  IInv'
<1> USE DEF AcceptFails, dialVars, cmVars, listenVars
<1>0. /\ current \in Conns /\ AccOK(current)
      /\ UNCHANGED <<dialVars, events>>
  BY DEF IInv, ListenInv, AccInv, Accepting, Wrapping, AcceptAfter, AcceptUndoFrom
<1>1. TypeOK'
  BY <1>0 DEF IInv, TypeOK, AcceptUndoFrom, AccMade, AccLeft, Verbs, DataPath,
     connVars
<1>2. EventsOK'
  BY <1>0 DEF IInv, EventsOK, Links
<1>3. ListenInv'
  BY <1>0 DEF IInv, ListenInv, Accepting, Wrapping, AcceptUndoFrom, AccMade,
     AccLeft, Verbs, DataPath, connVars
<1>4. Quiet
  <2>0. PICK c \in Conns : c = current
    BY <1>0
  <2>1. ~Fresh(c)
    BY <1>0, <2>0 DEF Fresh, Working, Accepting, Wrapping, AcceptAfter,
       AcceptUndoFrom
  <2>2. \A e \in Conns \ {c} :
            /\ acc'[e] = acc[e] /\ conn'[e] = conn[e]
            /\ e \in pending' => e \in pending
            /\ Working(e)' => Working(e)
    BY <1>0, <2>0 DEF IInv, TypeOK, Working, connVars
  <2>3. \A e \in Conns : link'[e] \in {link[e], "accepted"}
    BY <1>0, <2>0 DEF IInv, EventsOK
  <2> QED
    BY <1>0, <2>1, <2>2, <2>3, QuietAccept
<1>5. AccOK(current)'
  BY <1>0 DEF IInv, TypeOK, AccOK, Working, Accepting, Wrapping, Verbs, DataPath,
     AcceptUndoFrom, AccMade, AccLeft, connVars
<1>6. \A e \in Conns \ {current} : AccOK(e) => AccOK(e)'
  BY <1>0 DEF IInv, TypeOK, AccOK, Working, AcceptUndoFrom, AccMade, AccLeft,
     Verbs, DataPath, connVars
<1> QED
  BY <1>0, <1>1, <1>2, <1>3, <1>4, <1>5, <1>6, AcceptFrame

(* A clean-up destroys what comes next.                                     *)
LEMMA AcceptUndoInv ==
    ASSUME IInv, AcceptUndo
    PROVE  IInv'
<1> USE DEF AcceptUndo, dialVars, cmVars, listenVars
<1>0. /\ current \in Conns /\ AccOK(current)
      /\ UNCHANGED <<dialVars, events>>
  BY DEF IInv, ListenInv, AccInv, Accepting, Wrapping, AcceptAfter, AcceptUndoFrom
<1>1. TypeOK'
  BY <1>0 DEF IInv, TypeOK, AcceptUndoNext, AccLeft, Verbs, DataPath, Destroy,
     Busy, connVars
<1>2. EventsOK'
  BY <1>0 DEF IInv, EventsOK, Links
<1>3. ListenInv'
  BY <1>0 DEF IInv, ListenInv, Accepting, Wrapping, AcceptUndoNext, AccLeft,
     Verbs, DataPath, Destroy, Busy, connVars
<1>4. Quiet
  <2>0. PICK c \in Conns : c = current
    BY <1>0
  <2>1. ~Fresh(c)
    BY <1>0, <2>0 DEF Fresh, Working, Accepting, Wrapping, AcceptAfter,
       AcceptUndoFrom
  <2>2. \A e \in Conns \ {c} :
            /\ acc'[e] = acc[e] /\ conn'[e] = conn[e]
            /\ e \in pending' => e \in pending
            /\ Working(e)' => Working(e)
    BY <1>0, <2>0 DEF IInv, TypeOK, Working, connVars
  <2>3. \A e \in Conns : link'[e] \in {link[e], "accepted"}
    BY <1>0, <2>0 DEF IInv, EventsOK
  <2> QED
    BY <1>0, <2>1, <2>2, <2>3, QuietAccept
<1>5. AccOK(current)'
  BY <1>0 DEF IInv, TypeOK, AccOK, Working, Accepting, Wrapping, Verbs, DataPath,
     AcceptUndoNext, AccLeft, Destroy, Busy, connVars
<1>6. \A e \in Conns \ {current} : AccOK(e) => AccOK(e)'
  BY <1>0 DEF IInv, TypeOK, AccOK, Working
<1> QED
  BY <1>0, <1>1, <1>2, <1>3, <1>4, <1>5, <1>6, AcceptFrame

(* A clean-up is through.                                                   *)
LEMMA AcceptUndoneInv ==
    ASSUME IInv, AcceptUndone
    PROVE  IInv'
<1> USE DEF AcceptUndone, dialVars, cmVars, listenVars
<1>0. /\ current \in Conns /\ AccOK(current)
      /\ UNCHANGED <<dialVars, events>>
  BY DEF IInv, ListenInv, AccInv, Accepting, Wrapping, AcceptAfter, AcceptUndoFrom
<1>1. TypeOK'
  BY <1>0 DEF IInv, TypeOK, AccLeft, connVars
<1>2. EventsOK'
  BY <1>0 DEF IInv, EventsOK, Links
<1>3. ListenInv'
  BY <1>0 DEF IInv, ListenInv, Accepting, Wrapping, AccLeft, connVars
<1>4. Quiet
  <2>0. PICK c \in Conns : c = current
    BY <1>0
  <2>1. ~Fresh(c)
    BY <1>0, <2>0 DEF Fresh, Working, Accepting, Wrapping, AcceptAfter,
       AcceptUndoFrom
  <2>2. \A e \in Conns \ {c} :
            /\ acc'[e] = acc[e] /\ conn'[e] = conn[e]
            /\ e \in pending' => e \in pending
            /\ Working(e)' => Working(e)
    BY <1>0, <2>0 DEF IInv, TypeOK, Working, connVars
  <2>3. \A e \in Conns : link'[e] \in {link[e], "accepted"}
    BY <1>0, <2>0 DEF IInv, EventsOK
  <2> QED
    BY <1>0, <2>1, <2>2, <2>3, QuietAccept
<1>5. AccOK(current)'
  BY <1>0 DEF IInv, TypeOK, AccOK, Working, Accepting, Wrapping, Verbs, DataPath,
     AccLeft, connVars
<1>6. \A e \in Conns \ {current} : AccOK(e) => AccOK(e)'
  BY <1>0 DEF IInv, TypeOK, AccOK, Working, AccLeft, connVars
<1> QED
  BY <1>0, <1>1, <1>2, <1>3, <1>4, <1>5, <1>6, AcceptFrame

(* An event is handled; one of a pending connection goes on to wrap it.     *)
LEMMA HandleInv ==
    ASSUME IInv, Handle
    PROVE  IInv'
<1> USE DEF Handle, dialVars, cmVars, listenVars
<1>0. /\ current \in Conns /\ AccOK(current)
      /\ UNCHANGED <<dialVars, events>>
  BY DEF IInv, ListenInv, AccInv, Accepting, Wrapping, AcceptAfter, AcceptUndoFrom
<1>1. TypeOK'
  BY <1>0 DEF IInv, TypeOK, AccMade, connVars
<1>2. EventsOK'
  BY <1>0 DEF IInv, EventsOK, Links
<1>3. ListenInv'
  BY <1>0 DEF IInv, ListenInv, Accepting, Wrapping, AccMade, connVars
<1>4. Quiet
  <2>0. PICK c \in Conns : c = current
    BY <1>0
  <2>1. Fresh(c) => Fresh(c)'
    BY <1>0, <2>0 DEF Fresh, Working, Accepting, Wrapping, connVars
  <2>2. \A e \in Conns \ {c} :
            /\ acc'[e] = acc[e] /\ conn'[e] = conn[e]
            /\ e \in pending' => e \in pending
            /\ Working(e)' => Working(e)
    BY <1>0, <2>0 DEF IInv, TypeOK, Working, connVars
  <2>3. \A e \in Conns : link'[e] \in {link[e], "accepted"}
    BY <1>0, <2>0 DEF IInv, EventsOK
  <2> QED
    BY <1>0, <2>1, <2>2, <2>3, QuietAccept
<1>5. AccOK(current)'
  BY <1>0 DEF IInv, TypeOK, AccOK, Working, Accepting, Wrapping, Verbs, DataPath,
     AccMade, connVars
<1>6. \A e \in Conns \ {current} : AccOK(e) => AccOK(e)'
  BY <1>0 DEF IInv, TypeOK, AccOK, Working, AccMade, connVars
<1> QED
  BY <1>0, <1>1, <1>2, <1>3, <1>4, <1>5, <1>6, AcceptFrame

(* Accept returns the connection.                                           *)
LEMMA ReturnConnInv ==
    ASSUME IInv, ReturnConn
    PROVE  IInv'
<1> USE DEF ReturnConn, dialVars, cmVars, listenVars
<1>0. /\ current \in Conns /\ AccOK(current)
      /\ UNCHANGED <<dialVars, events>>
  BY DEF IInv, ListenInv, AccInv, Accepting, Wrapping, AcceptAfter, AcceptUndoFrom
<1>1. TypeOK'
  BY <1>0 DEF IInv, TypeOK, AccMade, connVars
<1>2. EventsOK'
  BY <1>0 DEF IInv, EventsOK, Links
<1>3. ListenInv'
  BY <1>0 DEF IInv, ListenInv, Accepting, Wrapping, AccMade, connVars
<1>4. Quiet
  <2>0. PICK c \in Conns : c = current
    BY <1>0
  <2>1. ~Fresh(c)
    BY <1>0, <2>0 DEF Fresh, Working, Accepting, Wrapping, AcceptAfter,
       AcceptUndoFrom
  <2>2. \A e \in Conns \ {c} :
            /\ acc'[e] = acc[e] /\ conn'[e] = conn[e]
            /\ e \in pending' => e \in pending
            /\ Working(e)' => Working(e)
    BY <1>0, <2>0 DEF IInv, TypeOK, Working, connVars
  <2>3. \A e \in Conns : link'[e] \in {link[e], "accepted"}
    BY <1>0, <2>0 DEF IInv, EventsOK
  <2> QED
    BY <1>0, <2>1, <2>2, <2>3, QuietAccept
<1>5. AccOK(current)'
  BY <1>0 DEF IInv, TypeOK, AccOK, Working, Accepting, Wrapping, Verbs, DataPath,
     AccMade, connVars
<1>6. \A e \in Conns \ {current} : AccOK(e) => AccOK(e)'
  BY <1>0 DEF IInv, TypeOK, AccOK, Working, AccMade, connVars
<1> QED
  BY <1>0, <1>1, <1>2, <1>3, <1>4, <1>5, <1>6, AcceptFrame

(* The owner of an accepted connection closes it.                           *)
LEMMA CloseAcceptedInv ==
    ASSUME IInv, NEW d \in Conns, CloseAccepted(d)
    PROVE  IInv'
<1> USE DEF CloseAccepted, dialVars, cmVars, listenVars
<1>0. /\ d \in Conns /\ AccOK(d)
      /\ UNCHANGED <<dialVars, events>>
  BY DEF IInv, ListenInv, AccInv, Accepting, Wrapping
<1>1. TypeOK'
  BY <1>0 DEF IInv, TypeOK, ClosingLeft, Verbs, DataPath
<1>2. EventsOK'
  BY <1>0 DEF IInv, EventsOK, Links
<1>3. ListenInv'
  BY <1>0 DEF IInv, ListenInv, Accepting, Wrapping, ClosingLeft, Verbs, DataPath
<1>4. Quiet
  <2>1. ~Fresh(d)
    BY DEF Fresh
  <2>2. \A e \in Conns \ {d} :
            /\ acc'[e] = acc[e] /\ conn'[e] = conn[e]
            /\ e \in pending' => e \in pending
            /\ Working(e)' => Working(e)
    BY DEF IInv, TypeOK, Working
  <2> QED
    BY <1>0, <2>1, <2>2, QuietAccept
<1>5. AccOK(d)'
  BY <1>0 DEF IInv, TypeOK, AccOK, Working, Accepting, Wrapping, Verbs, DataPath,
     ClosingLeft
<1>6. \A e \in Conns \ {d} : AccOK(e) => AccOK(e)'
  BY <1>0 DEF IInv, TypeOK, AccOK, Working, ClosingLeft, Verbs, DataPath
<1> QED
  BY <1>0, <1>1, <1>2, <1>3, <1>4, <1>5, <1>6, AcceptFrame

(* Its clean-up destroys what comes next, or is through.                    *)
LEMMA UndoAcceptedInv ==
    ASSUME IInv, NEW d \in Conns, UndoAccepted(d)
    PROVE  IInv'
<1> USE DEF UndoAccepted, dialVars, cmVars, listenVars
<1>0. /\ d \in Conns /\ AccOK(d)
      /\ UNCHANGED <<dialVars, events>>
  BY DEF IInv, ListenInv, AccInv, Accepting, Wrapping
<1>1. TypeOK'
  BY <1>0 DEF IInv, TypeOK, AcceptUndoNext, ClosingLeft, Verbs, DataPath, Destroy,
     Busy
<1>2. EventsOK'
  BY <1>0 DEF IInv, EventsOK, Links
<1>3. ListenInv'
  BY <1>0 DEF IInv, ListenInv, Accepting, Wrapping, AcceptUndoNext, ClosingLeft,
     Verbs, DataPath, Destroy, Busy
<1>4. Quiet
  <2>1. ~Fresh(d)
    BY DEF Fresh
  <2>2. \A e \in Conns \ {d} :
            /\ acc'[e] = acc[e] /\ conn'[e] = conn[e]
            /\ e \in pending' => e \in pending
            /\ Working(e)' => Working(e)
    BY DEF IInv, TypeOK, Working
  <2> QED
    BY <1>0, <2>1, <2>2, QuietAccept
<1>5. AccOK(d)'
  <2>1. CASE accUndo[d] = "nothing"
    BY <1>0, <2>1 DEF IInv, TypeOK, AccOK, Working, ClosingLeft
  <2>2. CASE accUndo[d] # "nothing"
    <3>1. /\ accUndo[d] \in DataPath \cup {"qp"}
          /\ acc[d] = ClosingLeft(accUndo[d])
          /\ acc' = [acc EXCEPT ![d] = Destroy(@, accUndo[d])]
          /\ accUndo' = [accUndo EXCEPT ![d] = AcceptUndoNext(d)[@]]
          /\ UNCHANGED conn /\ conn[d] = "closing"
      BY <1>0, <2>2 DEF AccOK, IInv, TypeOK, Verbs, DataPath
    <3>2. /\ Destroy(acc[d], accUndo[d]) = ClosingLeft(AcceptUndoNext(d)[accUndo[d]])
          /\ AcceptUndoNext(d)[accUndo[d]] \notin {"pd", "sendCQ", "recvCQ"}
      BY <3>1 DEF ClosingLeft, AcceptUndoNext, Destroy, Busy, Verbs, DataPath
    <3>3. acc'[d] = ClosingLeft(accUndo'[d]) /\ accUndo'[d] \notin {"pd", "sendCQ", "recvCQ"}
      BY <3>1, <3>2 DEF IInv, TypeOK
    <3> QED
      BY <1>0, <3>1, <3>3 DEF AccOK, Working
  <2> QED
    BY <2>1, <2>2
<1>6. \A e \in Conns \ {d} : AccOK(e) => AccOK(e)'
  BY <1>0 DEF IInv, TypeOK, AccOK, Working
<1> QED
  BY <1>0, <1>1, <1>2, <1>3, <1>4, <1>5, <1>6, AcceptFrame

-----------------------------------------------------------------------------

(* Every step keeps the invariant.                                          *)
LEMMA NextInv == IInv /\ [Next]_vars => IInv'
<1> SUFFICES ASSUME IInv, [Next]_vars
             PROVE  IInv'
  OBVIOUS
<1>1. CASE ListenCall \/ ListenFails \/ AcceptEnds \/ CloseListener
  BY <1>1, ListenerInv
<1>2. CASE AcceptStep
  BY <1>2, GetEventInv, AcceptMakeInv, RdmaAcceptInv, AcceptFailsInv,
     AcceptUndoInv, AcceptUndoneInv, HandleInv, ReturnConnInv DEF AcceptStep
<1>3. CASE \E d \in Dials : Dial(d) \/ DialStep(d) \/ CloseDialed(d)
  BY <1>3, DialSideInv
<1>4. CASE \E d \in Strangers : Stranger(d)
  BY <1>4, StrangerKnocksInv, StrangerEventInv DEF Stranger
<1>5. CASE \E d \in Conns : CM(d) \/ CloseAccepted(d) \/ UndoAccepted(d)
  BY <1>5, ResolveInv, RequestReaches, AcceptedInv, UnreachableInv,
     CloseAcceptedInv, UndoAcceptedInv DEF CM
<1>6. CASE UNCHANGED vars
  <2>1. UNCHANGED <<dialVars, listenVars, connVars>> /\ EventsOK' /\ Quiet
    BY <1>6 DEF vars, dialVars, cmVars, listenVars, connVars, IInv, EventsOK,
       Quiet, RequestInv, Conns, Fresh, Working, Unasked, Requested
  <2> QED
    BY <2>1, RequestFrame, OutsideFrame DEF IInv
<1> QED
  BY <1>1, <1>2, <1>3, <1>4, <1>5, <1>6 DEF Next

(* The inductive invariant holds in every state.                            *)
THEOREM Ledgers == Spec => []IInv
    BY InitInv, NextInv, PTL DEF Spec

(* The state of both ends keeps its type.                                   *)
THEOREM HandshakeTypeCorrect == Spec => []TypeOK
<1>1. IInv => TypeOK
  BY DEF IInv
<1> QED
  BY Ledgers, <1>1, PTL

(* No clean-up pulls away what something it leaves is built on: at every    *)
(* step of every clean-up a region has its buffer and its domain, a queue   *)
(* pair its domain and queues, an id its channel.                           *)
THEOREM CleanUpsLeaveNothingDangling == Spec => []NothingDangles
<1>1. IInv => NothingDangles
  <2> SUFFICES ASSUME IInv
               PROVE  NothingDangles
    OBVIOUS
  <2>1. ASSUME NEW d \in Dials
        PROVE  Founded(have[d])
    <3>1. \A p \in DOMAIN After \cup {"idle", "open"} : Founded(Made(p))
      BY DEF After, Made, Founded, Resource, CMObject, Verbs, DataPath
    <3>2. \A u \in DOMAIN UndoNext \cup {"nothing"} : \A m \in Left(u) : Founded(m)
      BY DEF UndoNext, Left, Founded, Resource, CMObject, Verbs, DataPath
    <3>3. Founded({}) /\ Founded(Verbs)
      BY DEF Founded, Verbs
    <3> QED
      BY <3>1, <3>2, <3>3 DEF IInv, TypeOK, DialInv, DialOK
  <2>2. ASSUME NEW d \in Conns
        PROVE  Founded(acc[d])
    <3>1. \A p \in Accepting \cup Wrapping : Founded(AccMade(p))
      BY DEF Accepting, Wrapping, AccMade, Founded, Verbs, DataPath
    <3>2. \A u \in DataPath \cup Verbs \cup {"nothing"} : \A m \in AccLeft(u) : Founded(m)
      BY DEF AccLeft, Founded, Verbs, DataPath
    <3>3. \A u \in DataPath \cup {"qp", "nothing"} : Founded(ClosingLeft(u))
      BY DEF ClosingLeft, Founded, Verbs, DataPath
    <3>4. /\ Founded({}) /\ Founded(Verbs) /\ Founded(Verbs \cup DataPath)
          /\ Founded(Verbs \ {"qp"})
      BY DEF Founded, Verbs, DataPath
    <3>5. conn[d] \in {"none", "open", "closing", "closed"} /\ AccOK(d)
          /\ accUndo[d] \in DataPath \cup Verbs \cup {"nothing"}
      BY DEF IInv, TypeOK, AccInv
    <3>6. CASE Working(d)
      BY <3>6, <3>1, <3>2, <3>5 DEF AccOK, Working
    <3>7. CASE ~Working(d) /\ conn[d] # "closing"
      BY <3>7, <3>4, <3>5 DEF AccOK
    <3>8. CASE ~Working(d) /\ conn[d] = "closing"
      BY <3>8, <3>3, <3>5 DEF AccOK, Verbs
    <3> QED
      BY <3>6, <3>7, <3>8
  <2>3. Founded(lsn)
    BY DEF IInv, ListenInv, Founded, CMObject
  <2> QED
    BY <2>1, <2>2, <2>3 DEF NothingDangles
<1> QED
  BY Ledgers, <1>1, PTL

(* A failed Dial and a failed AcceptConn leave nothing behind, or a queue   *)
(* pair with its domain and queues; a closed connection leaves no buffer    *)
(* and no region, and at the accepting end no queue pair.                   *)
THEOREM OnlyQueuePairsStay == Spec => []KeptOnlyWithQP
<1>1. IInv => KeptOnlyWithQP
  <2> SUFFICES ASSUME IInv
               PROVE  KeptOnlyWithQP
    OBVIOUS
  <2>1. \A d \in Dials : /\ pc[d] = "failed" => have[d] \in {{}, Verbs}
                         /\ pc[d] = "closed" => have[d] \subseteq Verbs
    BY DEF IInv, DialInv, DialOK
  <2>2. \A d \in Conns : conn[d] = "closed" => acc[d] \subseteq Verbs \ {"qp"}
    BY DEF IInv, AccInv, AccOK
  <2>3. \A d \in Conns :
           spc \in {"accept", "stopped", "closed"} /\ conn[d] = "none" =>
              acc[d] \in {{}, Verbs}
    BY DEF IInv, AccInv, AccOK, Working, Accepting, Wrapping
  <2>4. spc = "closed" => lsn = {}
    BY DEF IInv, ListenInv
  <2> QED
    BY <2>1, <2>2, <2>3, <2>4 DEF KeptOnlyWithQP
<1> QED
  BY Ledgers, <1>1, PTL
=============================================================================
