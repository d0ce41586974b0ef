--------------------------- MODULE PingPongProofs ---------------------------
(***************************************************************************)
(* Of PingPong, for all sizes and payloads: types, that every message but  *)
(* the first finds its receive posted, and that the client receives what   *)
(* it has sent.                                                            *)
(*                                                                         *)
(* The argument is that one message at most is under way.  While the       *)
(* client has its turn (it is between two round trips, its request is on   *)
(* the way, or an answer waits for it) the server has nothing in hand; and *)
(* an end that has nothing in hand has its receive posted, since postRecv  *)
(* replaces every receive that completes before the end goes on.           *)
(***************************************************************************)
EXTENDS PingPong, SequenceTheorems, TLAPS

(* The message of e is between the two ends. *)
OnItsWay(e) == wire[e] # None /\ ~wire[e].arrived

(* A completion queue of at most one completion. *)
Queue == {<<>>} \cup {<<x>> : x \in Nat \cup {Failed}}

QueueType ==
    /\ recvCQ \in [Ends -> Queue]
    /\ sendCQ \in [Ends -> Queue]

(* A receive is posted or completed, except while it is being replaced. *)
OneReceive ==
    \A e \in Ends :
        /\ pc[e] \in {"setup", "repost"} => posted[e] = 0 /\ recvCQ[e] = <<>>
        /\ pc[e] # "left" /\ recvCQ[e] = <<>> =>
              posted[e] = 1 \/ pc[e] \in {"setup", "repost"}
        /\ recvCQ[e] # <<>> => posted[e] = 0

(* A send is waited for, on the wire or completed, unless the wait was given
   up. *)
OneSend ==
    \A e \in Ends :
        /\ wire[e] # None => pc[e] \in {"poll", "left"} /\ sendCQ[e] = <<>>
        /\ sendCQ[e] # <<>> => pc[e] \in {"poll", "left"}

(* The client is between two round trips, or its request is on its way. *)
ClientTurn == pc["client"] \in {"idle", "repost"} \/ OnItsWay("client")

(* The server has a message in hand, or its answer is on its way. *)
ServerTurn == pc["server"] \in {"repost", "answer"} \/ OnItsWay("server")

TakesTurns ==
    /\ ClientTurn \/ recvCQ["client"] # <<>> =>
          ~ServerTurn /\ recvCQ["server"] \in {<<>>, <<Failed>>}
    /\ ClientTurn => recvCQ["client"] = <<>>
    /\ ClientTurn \/ recvCQ["client"] \notin {<<>>, <<Failed>>} =>
          recvCQ["server"] = <<>>
    /\ ServerTurn => recvCQ["server"] = <<>>

Ready == TypeOK /\ QueueType /\ OneReceive /\ OneSend /\ TakesTurns

------------------------------------------------------------------------------
(* What appending to and taking from a queue of at most one does. *)
LEMMA OneElement ==
    ASSUME NEW x \in Nat \cup {Failed}
    PROVE  Append(<<>>, x) = <<x>> /\ <<x>> # <<>> /\ <<x>> \in Queue
    BY DEF Queue

LEMMA TakeElement ==
    ASSUME NEW q \in Queue, q # <<>>
    PROVE  /\ Tail(q) = <<>>
           /\ Head(q) \in Nat \cup {Failed}
           /\ q = <<Head(q)>>
<1>1. PICK x \in Nat \cup {Failed} : q = <<x>>
    BY DEF Queue
<1>2. Tail(<<x>>) = <<>> /\ Head(<<x>>) = x
    OBVIOUS
<1>. QED
    BY <1>1, <1>2

LEMMA OtherEnd ==
    ASSUME NEW e \in Ends
    PROVE  Peer(e) \in Ends /\ Peer(e) # e /\ Peer(Peer(e)) = e
    BY DEF Ends, Peer

LEMMA LowerIsNat ==
    ASSUME NEW m \in Nat, NEW n \in Nat
    PROVE  Lower(m, n) \in Nat
    BY DEF Lower

(* The initial states satisfy the invariant. *)
LEMMA InitReady == Init => Ready
<1> SUFFICES ASSUME Init PROVE Ready
    OBVIOUS
<1>1. TypeOK
    <2>1. bufSize \in [Ends -> Nat \ {0}]
        BY PingPongAssumption DEF Init, PingPongAssumption
    <2>2. pc \in [Ends -> Labels] /\ posted \in [Ends -> 0 .. 1]
        BY DEF Init, Ends, Labels
    <2>3. byteLen \in [Ends -> Nat] /\ sink \in BOOLEAN /\ ctxDone \in BOOLEAN
        BY DEF Init
    <2>4. wire \in [Ends ->
                       {None} \cup [len : Nat, arrived : BOOLEAN, signaled : BOOLEAN]]
        BY DEF Init
    <2>. QED
        BY <2>1, <2>2, <2>3, <2>4 DEF TypeOK
<1>2. QueueType
    BY DEF Init, QueueType, Queue
<1>3. OneReceive /\ OneSend
    BY DEF Init, OneReceive, OneSend, Ends
<1>4. TakesTurns
    BY DEF Init, TakesTurns, ClientTurn, ServerTurn, OnItsWay, Ends
<1>. QED
    BY <1>1, <1>2, <1>3, <1>4 DEF Ready

------------------------------------------------------------------------------
(* The device's steps. *)
LEMMA DeliverStep ==
    ASSUME Ready, NEW e \in Ends, Deliver(e)
    PROVE  Ready'
<1> DEFINE o == Peer(e)
<1> USE DEF Ready
<1>0. o \in Ends /\ o # e
    BY OtherEnd
<1>1. /\ OnItsWay(e) /\ posted[o] > 0 /\ pc[o] # "left" /\ recvCQ[o] = <<>>
      /\ wire[e].len \in Nat /\ pc[e] \in {"poll", "left"} /\ sendCQ[e] = <<>>
    BY <1>0 DEF Deliver, OnItsWay, OneReceive, OneSend, TypeOK
<1>2. /\ recvCQ' = [recvCQ EXCEPT ![o] = <<wire[e].len>>]
      /\ <<wire[e].len>> \in Queue /\ <<wire[e].len>> # <<>>
    BY <1>0, <1>1, OneElement DEF Deliver, QueueType
<1>3. posted \in [Ends -> 0 .. 1] /\ posted[o] = 1
    BY <1>0, <1>1 DEF TypeOK
<1>4. posted' = [posted EXCEPT ![o] = 0] /\ posted' \in [Ends -> 0 .. 1]
    BY <1>0, <1>3 DEF Deliver
<1>8. wire' \in [Ends ->
                    {None} \cup [len : Nat, arrived : BOOLEAN, signaled : BOOLEAN]]
    <2>1. [wire[e] EXCEPT !.arrived = TRUE]
              \in [len : Nat, arrived : BOOLEAN, signaled : BOOLEAN]
        BY <1>1 DEF TypeOK, OnItsWay
    <2>. QED
        BY <2>1 DEF Deliver, TypeOK
<1>9. TypeOK' /\ QueueType'
    <2>1. UNCHANGED <<bufSize, sendCQ, byteLen, sink, pc, ctxDone>>
        BY DEF Deliver, locals
    <2>2. QueueType'
        BY <1>0, <1>2, <2>1 DEF QueueType
    <2>. QED
        BY <1>4, <1>8, <2>1, <2>2 DEF TypeOK
<1>5. OneReceive' /\ OneSend'
    BY <1>0, <1>1, <1>2, <1>9, <1>4 DEF Deliver, OneReceive, OneSend, TypeOK, QueueType
<1>6. ~OnItsWay(e)' /\ (OnItsWay(o)' <=> OnItsWay(o)) /\ UNCHANGED pc
    BY <1>0, <1>1 DEF Deliver, OnItsWay, TypeOK
<1>7. TakesTurns'
    BY <1>0, <1>1, <1>2, <1>9, <1>6 DEF TakesTurns, ClientTurn, ServerTurn, Ends, QueueType, OneReceive
<1>. QED
    BY <1>5, <1>7, <1>9

(* A send that fails, with the receives it takes along. *)
LEMMA BreakStep ==
    ASSUME Ready, NEW e \in Ends, NEW spoiled, Break(e, spoiled), OnItsWay(e),
           spoiled = {} \/ (spoiled = {Peer(e)} /\ posted[Peer(e)] > 0)
    PROVE  Ready'
<1> DEFINE o == Peer(e)
<1> USE DEF Ready
<1>0. o \in Ends /\ o # e /\ Ends = {e, o}
    BY OtherEnd DEF Ends, Peer
<1>1. pc[e] \in {"poll", "left"} /\ sendCQ[e] = <<>>
    BY DEF OnItsWay, OneSend
<1>2. /\ UNCHANGED <<bufSize, pc, byteLen, sink, ctxDone>>
      /\ wire' = [wire EXCEPT ![e] = None]
      /\ sendCQ' = [sendCQ EXCEPT ![e] = <<Failed>>]
      /\ <<Failed>> \in Queue /\ <<Failed>> # <<>>
    BY <1>1, OneElement DEF Break, buffers, locals, QueueType
<1>3. /\ posted \in [Ends -> 0 .. 1]
      /\ posted' \in [Ends -> 0 .. 1]
      /\ posted'[e] = 0
      /\ posted'[o] = IF spoiled = {} THEN posted[o] ELSE 0
    BY <1>0 DEF Break, TypeOK
<1>4. /\ recvCQ' \in [Ends -> Queue]
      /\ recvCQ'[e] = IF posted[e] > 0 THEN <<Failed>> ELSE recvCQ[e]
      /\ recvCQ'[o] = IF spoiled = {} THEN recvCQ[o] ELSE <<Failed>>
    <2>1. \A x \in Ends : posted[x] > 0 => recvCQ[x] = <<>>
        BY <1>3 DEF OneReceive
    <2>2. Append(<<>>, Failed) = <<Failed>>
        BY OneElement
    <2>3. recvCQ' = [x \in Ends |-> IF (x = e \/ x \in spoiled) /\ posted[x] > 0
                                    THEN <<Failed>> ELSE recvCQ[x]]
        BY <2>1, <2>2 DEF Break
    <2>4. recvCQ' \in [Ends -> Queue]
        BY <2>3, <1>2 DEF QueueType
    <2>. QED
        BY <2>3, <2>4, <1>0
<1>5. TypeOK' /\ QueueType'
    BY <1>2, <1>3, <1>4 DEF TypeOK, QueueType
<1>6. OneReceive' /\ OneSend'
    <2>1. pc[e] = "left" \/ posted[e] > 0 \/ recvCQ[e] # <<>>
        BY <1>1, <1>3 DEF OneReceive
    <2>2. spoiled # {} => posted[o] = 1 /\ pc[o] \notin {"setup", "repost"}
        BY <1>0, <1>3 DEF OneReceive
    <2>3. OneReceive'
        <3> SUFFICES ASSUME NEW x \in Ends
                     PROVE  /\ pc'[x] \in {"setup", "repost"} =>
                                  posted'[x] = 0 /\ recvCQ'[x] = <<>>
                            /\ pc'[x] # "left" /\ recvCQ'[x] = <<>> =>
                                  posted'[x] = 1 \/ pc'[x] \in {"setup", "repost"}
                            /\ recvCQ'[x] # <<>> => posted'[x] = 0
            BY DEF OneReceive
        <3>1. CASE x = e
            BY <3>1, <2>1, <1>1, <1>2, <1>3, <1>4
        <3>2. CASE x = o
            BY <3>2, <2>2, <1>0, <1>2, <1>3, <1>4 DEF OneReceive
        <3>. QED
            BY <3>1, <3>2, <1>0
    <2>4. OneSend'
        BY <1>0, <1>1, <1>2 DEF OneSend, TypeOK, QueueType
    <2>. QED
        BY <2>3, <2>4
<1>7. ~OnItsWay(e)' /\ (OnItsWay(o)' <=> OnItsWay(o))
    BY <1>0, <1>2 DEF OnItsWay, TypeOK
<1>8. TakesTurns'
    BY <1>0, <1>1, <1>2, <1>3, <1>4, <1>7
       DEF TakesTurns, ClientTurn, ServerTurn, Ends, OneReceive, QueueType
<1>. QED
    BY <1>5, <1>6, <1>8

LEMMA DeviceStep ==
    ASSUME Ready, NEW e \in Ends, Device(e) \/ NotReady(e)
    PROVE  Ready'
<1>1. CASE Deliver(e)
    BY <1>1, DeliverStep
<1>2. CASE Complete(e)
    <2> USE DEF Ready
    <2>1. /\ pc[e] \in {"poll", "left"} /\ sendCQ[e] = <<>> /\ ~OnItsWay(e)
          /\ wire[e].len \in Nat
        BY <1>2 DEF Complete, OneSend, OnItsWay, TypeOK
    <2>2. /\ UNCHANGED <<bufSize, pc, posted, recvCQ, byteLen, sink, ctxDone>>
          /\ wire' = [wire EXCEPT ![e] = None]
        BY <1>2 DEF Complete, buffers, locals
    <2>3. sendCQ' \in [Ends -> Queue] /\ \A x \in Ends : x # e => sendCQ'[x] = sendCQ[x]
        BY <1>2, <2>1, OneElement DEF Complete, QueueType
    <2>4. TypeOK' /\ QueueType'
        BY <2>2, <2>3 DEF TypeOK, QueueType
    <2>5. OneReceive' /\ OneSend'
        BY <2>1, <2>2, <2>3 DEF OneReceive, OneSend, TypeOK
    <2>6. \A x \in Ends : OnItsWay(x)' => OnItsWay(x)
        BY <2>2 DEF OnItsWay, TypeOK
    <2>7. TakesTurns'
        BY <2>2, <2>6 DEF TakesTurns, ClientTurn, ServerTurn, Ends
    <2>. QED
        BY <2>4, <2>5, <2>7
<1>3. CASE TooLong(e)
    BY <1>3, BreakStep DEF TooLong, OnItsWay
<1>4. CASE NotReady(e)
    BY <1>4, BreakStep DEF NotReady, OnItsWay
<1>. QED
    BY <1>1, <1>2, <1>3, <1>4 DEF Device

------------------------------------------------------------------------------
(* The steps of the two goroutines, by the operation of PingPongConn. *)
LEMMA PostSendStep ==
    ASSUME Ready, NEW e \in Ends, NEW n \in Nat, PostSend(e, n),
           pc[e] = IF e = "client" THEN "idle" ELSE "answer",
           UNCHANGED <<bufSize, posted, recvCQ, sendCQ, byteLen, sink, ctxDone>>
    PROVE  Ready'
<1> USE DEF Ready
<1>1. sendCQ[e] = <<>> /\ wire[e] = None
    BY DEF OneSend, Ends
<1>2. CASE /\ wire' = [wire EXCEPT ![e] =
                          [len |-> n, arrived |-> FALSE, signaled |-> TRUE]]
           /\ Goto(e, "poll")
    <2>1. pc' = [pc EXCEPT ![e] = "poll"] /\ "poll" \in Labels
        BY <1>2 DEF Goto, Labels
    <2>2. TypeOK' /\ QueueType'
        BY <1>2, <2>1 DEF TypeOK, QueueType
    <2>3. OneReceive' /\ OneSend'
        BY <1>1, <1>2, <2>1 DEF OneReceive, OneSend, TypeOK, Ends
    <2>4. \A x \in Ends : x # e => (OnItsWay(x)' <=> OnItsWay(x))
        BY <1>2 DEF OnItsWay, TypeOK
    <2>5. TakesTurns'
        BY <2>1, <2>4 DEF TakesTurns, ClientTurn, ServerTurn, Ends, TypeOK
    <2>. QED
        BY <2>2, <2>3, <2>5
<1>3. CASE Goto(e, "left") /\ UNCHANGED wire
    <2>1. pc' = [pc EXCEPT ![e] = "left"] /\ "left" \in Labels
        BY <1>3 DEF Goto, Labels
    <2>2. TypeOK' /\ QueueType'
        BY <1>3, <2>1 DEF TypeOK, QueueType
    <2>3. OneReceive' /\ OneSend'
        BY <1>1, <1>3, <2>1 DEF OneReceive, OneSend, TypeOK
    <2>4. \A x \in Ends : OnItsWay(x)' <=> OnItsWay(x)
        BY <1>3 DEF OnItsWay
    <2>5. TakesTurns'
        BY <2>1, <2>4 DEF TakesTurns, ClientTurn, ServerTurn, Ends, TypeOK
    <2>. QED
        BY <2>2, <2>3, <2>5
<1>. QED
    BY <1>2, <1>3 DEF PostSend

LEMMA PollSendStep ==
    ASSUME Ready, NEW e \in Ends,
           PollSendCQ(e, IF e = "client" THEN "recv" ELSE "check")
    PROVE  Ready'
<1> USE DEF Ready
<1>1. PICK next \in {"recv", "check", "left"} : pc' = [pc EXCEPT ![e] = next]
    BY DEF PollSendCQ, Goto
<1>2. /\ pc[e] = "poll" /\ sendCQ[e] # <<>> /\ wire[e] = None
      /\ UNCHANGED <<bufSize, posted, recvCQ, wire, byteLen, sink, ctxDone>>
      /\ sendCQ' = [sendCQ EXCEPT ![e] = <<>>] /\ <<>> \in Queue
    BY TakeElement DEF PollSendCQ, buffers, locals, OneSend, QueueType, Queue
<1>3. TypeOK' /\ QueueType'
    BY <1>1, <1>2 DEF TypeOK, QueueType, Labels
<1>4. OneReceive' /\ OneSend'
    BY <1>1, <1>2 DEF OneReceive, OneSend, TypeOK, QueueType
<1>5. \A x \in Ends : OnItsWay(x)' <=> OnItsWay(x)
    BY <1>2 DEF OnItsWay
<1>6. TakesTurns'
    BY <1>1, <1>2, <1>5 DEF TakesTurns, ClientTurn, ServerTurn, Ends, TypeOK
<1>. QED
    BY <1>3, <1>4, <1>6

LEMMA PollRecvStep ==
    ASSUME Ready, NEW e \in Ends, PollRecvCQ(e),
           UNCHANGED <<bufSize, posted, sendCQ, wire, sink, ctxDone>>
    PROVE  Ready'
<1> USE DEF Ready
<1>1. /\ pc[e] = "recv" /\ recvCQ[e] # <<>> /\ posted[e] = 0
      /\ recvCQ' = [recvCQ EXCEPT ![e] = <<>>] /\ <<>> \in Queue
    BY TakeElement DEF PollRecvCQ, OneReceive, QueueType, Queue
<1>2. /\ byteLen' \in [Ends -> Nat]
      /\ \/ pc' = [pc EXCEPT ![e] = "left"]
         \/ pc' = [pc EXCEPT ![e] = "repost"] /\ recvCQ[e] # <<Failed>>
    <2>1. Head(recvCQ[e]) \in Nat \cup {Failed} /\ recvCQ[e] = <<Head(recvCQ[e])>>
        BY <1>1, TakeElement DEF QueueType
    <2>2. CASE Head(recvCQ[e]) = Failed
        BY <2>2 DEF PollRecvCQ, Goto, TypeOK
    <2>3. CASE Head(recvCQ[e]) # Failed
        <3>1. Head(recvCQ[e]) \in Nat /\ recvCQ[e] # <<Failed>>
            BY <2>1, <2>3
        <3>. QED
            BY <3>1, <2>3 DEF PollRecvCQ, Goto, TypeOK
    <2>. QED
        BY <2>2, <2>3
<1>3. TypeOK' /\ QueueType'
    BY <1>1, <1>2 DEF TypeOK, QueueType, Labels
<1>4. OneReceive' /\ OneSend'
    BY <1>1, <1>2 DEF OneReceive, OneSend, TypeOK, QueueType
<1>5. \A x \in Ends : OnItsWay(x)' <=> OnItsWay(x)
    BY DEF OnItsWay
<1>6. ~OnItsWay(e)
    BY <1>1 DEF OnItsWay, OneSend
<1>7. TakesTurns'
    BY <1>1, <1>2, <1>5, <1>6 DEF TakesTurns, ClientTurn, ServerTurn, Ends, TypeOK, QueueType
<1>. QED
    BY <1>3, <1>4, <1>7

LEMMA PostRecvStep ==
    ASSUME Ready, NEW e \in Ends, NEW next, PostRecv(e, next),
           \/ e = "client" /\ pc[e] = "repost" /\ next = "idle"
           \/ e = "server" /\ pc[e] = "setup" /\ next = "check"
           \/ e = "server" /\ pc[e] = "repost" /\ next = "answer",
           UNCHANGED <<bufSize, recvCQ, sendCQ, wire, byteLen, sink, ctxDone>>
    PROVE  Ready'
<1> USE DEF Ready
<1>1. posted[e] = 0 /\ recvCQ[e] = <<>>
    BY DEF OneReceive
<1>2. \/ pc' = [pc EXCEPT ![e] = next] /\ posted' = [posted EXCEPT ![e] = 1]
      \/ pc' = [pc EXCEPT ![e] = "left"] /\ UNCHANGED posted
    BY <1>1 DEF PostRecv, Goto, TypeOK
<1>3. TypeOK' /\ QueueType'
    BY <1>2 DEF TypeOK, QueueType, Labels
<1>4. OneReceive' /\ OneSend'
    BY <1>1, <1>2 DEF OneReceive, OneSend, TypeOK, QueueType
<1>5. \A x \in Ends : OnItsWay(x)' <=> OnItsWay(x)
    BY DEF OnItsWay
<1>6. TakesTurns'
    BY <1>1, <1>2, <1>5 DEF TakesTurns, ClientTurn, ServerTurn, Ends, TypeOK
<1>. QED
    BY <1>3, <1>4, <1>6

(* A step that only moves an end, which has no message in hand or leaves. *)
LEMMA MoveStep ==
    ASSUME Ready, NEW e \in Ends, NEW next \in {"recv", "left"}, Goto(e, next),
           \/ pc[e] \in {"idle", "check"}
           \/ pc[e] \in {"poll", "recv"} /\ next = "left",
           UNCHANGED <<bufSize, queues, byteLen, sink, ctxDone>>
    PROVE  Ready'
<1> USE DEF Ready
<1>1. pc' = [pc EXCEPT ![e] = next] /\ UNCHANGED <<posted, recvCQ, sendCQ, wire>>
    BY DEF Goto, queues
<1>2. TypeOK' /\ QueueType'
    BY <1>1 DEF TypeOK, QueueType, Labels
<1>3. OneReceive' /\ OneSend'
    BY <1>1 DEF OneReceive, OneSend, TypeOK
<1>4. \A x \in Ends : OnItsWay(x)' <=> OnItsWay(x)
    BY <1>1 DEF OnItsWay
<1>5. TakesTurns'
    BY <1>1, <1>4 DEF TakesTurns, ClientTurn, ServerTurn, Ends, TypeOK
<1>. QED
    BY <1>2, <1>3, <1>5

(* A step that changes nothing the invariant speaks of. *)
LEMMA StutterStep ==
    ASSUME Ready, ctxDone' \in BOOLEAN,
           UNCHANGED <<bufSize, queues, byteLen, sink, pc>>
    PROVE  Ready'
<1> USE DEF Ready
<1>1. UNCHANGED <<posted, recvCQ, sendCQ, wire>>
    BY DEF queues
<1>2. TypeOK' /\ QueueType'
    BY <1>1 DEF TypeOK, QueueType
<1>3. OneReceive' /\ OneSend'
    BY <1>1 DEF OneReceive, OneSend
<1>4. TakesTurns'
    BY <1>1 DEF TakesTurns, ClientTurn, ServerTurn, OnItsWay
<1>. QED
    BY <1>2, <1>3, <1>4

LEMMA ClientKeepsReady ==
    ASSUME Ready,
           \/ \E name \in Payloads, n \in 0 .. MaxSize : ClientSend(name, n)
           \/ ClientStep \/ ClientLeaves
    PROVE  Ready'
<1>0. "client" \in Ends
    BY DEF Ends
<1>1. CASE \E name \in Payloads, n \in 0 .. MaxSize : ClientSend(name, n)
    <2>1. PICK name \in Payloads, n \in 0 .. MaxSize : ClientSend(name, n)
        BY <1>1
    <2>2. n \in Nat /\ bufSize["client"] \in Nat
        BY <1>0, PingPongAssumption DEF PingPongAssumption, Ready, TypeOK
    <2>3. Lower(n, bufSize["client"]) \in Nat
        BY <2>2, LowerIsNat
    <2>. QED
        BY <1>0, <2>1, <2>3, PostSendStep DEF ClientSend, Send
<1>2. CASE PollSendCQ("client", "recv")
    BY <1>0, <1>2, PollSendStep
<1>3. CASE ClientRecv
    BY <1>0, <1>3, PollRecvStep DEF ClientRecv, buffers
<1>4. CASE ClientRepost
    BY <1>0, <1>4, PostRecvStep DEF ClientRepost, buffers, locals
<1>5. CASE ClientLeaves
    BY <1>0, <1>5, MoveStep DEF ClientLeaves, buffers, locals
<1>. QED
    BY <1>1, <1>2, <1>3, <1>4, <1>5 DEF ClientStep

LEMMA ServerKeepsReady ==
    ASSUME Ready, ServerStep \/ ServerCancel
    PROVE  Ready'
<1>0. "server" \in Ends /\ "server" # "client"
    BY DEF Ends
<1>1. CASE ServerSetUp
    BY <1>0, <1>1, PostRecvStep DEF ServerSetUp, buffers, locals
<1>2. CASE ServerCheck
    <2>1. PICK next \in {"recv", "left"} : Goto("server", next)
        BY <1>2 DEF ServerCheck
    <2>. QED
        BY <1>0, <1>2, <2>1, MoveStep DEF ServerCheck, buffers, locals
<1>3. CASE ServerRecv
    BY <1>0, <1>3, PollRecvStep DEF ServerRecv, buffers
<1>4. CASE ServerRepost
    BY <1>0, <1>4, PostRecvStep DEF ServerRepost, buffers, locals
<1>5. CASE Echo
    <2>1. Lower(byteLen["server"], bufSize["server"]) \in Nat
        BY <1>0, LowerIsNat DEF Ready, TypeOK
    <2>. QED
        BY <1>0, <1>5, <2>1, PostSendStep DEF Echo, SendRaw, locals
<1>6. CASE Acknowledge
    <2>1. Lower(AckLen, bufSize["server"]) \in Nat
        BY <1>0, LowerIsNat, PingPongAssumption DEF PingPongAssumption, Ready, TypeOK
    <2>. QED
        BY <1>0, <1>6, <2>1, PostSendStep DEF Acknowledge, Send, locals
<1>7. CASE PollSendCQ("server", "check")
    BY <1>0, <1>7, PollSendStep
<1>8. CASE ServerCancel
    BY <1>8, StutterStep DEF ServerCancel, buffers, locals
<1>. QED
    BY <1>1, <1>2, <1>3, <1>4, <1>5, <1>6, <1>7, <1>8 DEF ServerStep

------------------------------------------------------------------------------
(* The invariant holds in every state. *)
THEOREM AlwaysReady == Spec => []Ready
<1>1. Ready /\ [Next]_vars => Ready'
    <2> SUFFICES ASSUME Ready, [Next]_vars PROVE Ready'
        OBVIOUS
    <2>1. CASE \E e \in Ends : Device(e) \/ NotReady(e)
        BY <2>1, DeviceStep
    <2>2. CASE \/ \E name \in Payloads, n \in 0 .. MaxSize : ClientSend(name, n)
               \/ ClientStep \/ ClientLeaves
        BY <2>2, ClientKeepsReady
    <2>3. CASE ServerStep \/ ServerCancel
        BY <2>3, ServerKeepsReady
    <2>4. CASE \E e \in Ends : PollFails(e)
        BY <2>4, MoveStep DEF PollFails, buffers, locals
    <2>5. CASE UNCHANGED vars
        BY <2>5, StutterStep DEF vars, buffers, locals, Ready, TypeOK
    <2>. QED
        BY <2>1, <2>2, <2>3, <2>4, <2>5 DEF Next
<1>. QED
    BY <1>1, InitReady, PTL DEF Spec

(* The state of the two ends has its type. *)
THEOREM PingPongTypeCorrect == Spec => []TypeOK
<1>1. Ready => TypeOK
    BY DEF Ready
<1>. QED
    BY <1>1, AlwaysReady, PTL

(* Every message finds its receive posted, but a request that overtakes the
   set-up of the server. *)
THEOREM MessagesFindReceivers == Spec => []ReceiverIsReady
<1>1. Ready => ReceiverIsReady
    <2> SUFFICES ASSUME Ready, NEW e \in Ends, OnItsWay(e)
                 PROVE  posted[Peer(e)] = 1 \/ pc[Peer(e)] \in {"setup", "left"}
        BY DEF ReceiverIsReady, OnItsWay
    <2>1. CASE e = "client"
        BY <2>1 DEF Ready, TakesTurns, ClientTurn, ServerTurn, OneReceive, Peer, Ends
    <2>2. CASE e = "server"
        BY <2>2 DEF Ready, TakesTurns, ClientTurn, ServerTurn, OneReceive, Peer, Ends
    <2>. QED
        BY <2>1, <2>2 DEF Ends
<1>. QED
    BY <1>1, AlwaysReady, PTL

------------------------------------------------------------------------------
(* What is in the buffers.  The turns say more than that a message finds its
   receive: whoever may overwrite a buffer has no message in it. *)

(* The first n cells of buf are of the message called name. *)
Holds(buf, n, name) == \A i \in 1 .. n : buf[i] = name

(* The length of the request, and the length and the name of its answer. *)
Request == Lower(ask.len, bufSize["client"])
AnswerLen == IF sink THEN Lower(AckLen, bufSize["server"]) ELSE Request
AnswerName == IF sink THEN Ack ELSE ask.name

(* The buffers have the size of their end, and the client's slice a length. *)
Memory ==
    /\ DOMAIN sendBuf = Ends /\ DOMAIN recvBuf = Ends
    /\ \A e \in Ends :
          /\ DOMAIN sendBuf[e] = 1 .. bufSize[e]
          /\ DOMAIN recvBuf[e] = 1 .. bufSize[e]
    /\ Len(dst) \in Nat /\ DOMAIN dst = 1 .. Len(dst)
    /\ ask.len \in Nat

(* The message from the client's send buffer, by way of the two buffers of the
   server, to the client's receive buffer and its slice. *)
Contents ==
    /\ OnItsWay("client") =>
          /\ wire["client"].len = Request
          /\ Holds(sendBuf["client"], Request, ask.name)
    /\ recvCQ["server"] \notin {<<>>, <<Failed>>} =>
          /\ recvCQ["server"] = <<Request>> /\ Request <= bufSize["server"]
          /\ Holds(recvBuf["server"], Request, ask.name)
    /\ pc["server"] \in {"repost", "answer"} =>
          /\ byteLen["server"] = Request /\ Request <= bufSize["server"]
          /\ Holds(recvBuf["server"], Request, ask.name)
    /\ OnItsWay("server") =>
          /\ wire["server"].len = AnswerLen
          /\ Holds(sendBuf["server"], AnswerLen, AnswerName)
    /\ recvCQ["client"] \notin {<<>>, <<Failed>>} =>
          /\ recvCQ["client"] = <<AnswerLen>>
          /\ Holds(recvBuf["client"], AnswerLen, AnswerName)
    /\ pc["client"] = "repost" =>
          /\ byteLen["client"] = AnswerLen
          /\ \A i \in DOMAIN dst : i <= AnswerLen => dst[i] = AnswerName

Faithful == Ready /\ Memory /\ Contents

(* A function on 1 .. n is a sequence of length n. *)
LEMMA LenOfBlock ==
    ASSUME NEW f, NEW n \in Nat, DOMAIN f = 1 .. n, f = [i \in DOMAIN f |-> f[i]]
    PROVE  Len(f) = n
<1> DEFINE S == {f[i] : i \in 1 .. n}
<1>1. f \in [1 .. n -> S]
    OBVIOUS
<1>2. f \in Seq(S)
    BY <1>1, SeqDef
<1>3. Len(f) \in Nat /\ DOMAIN f = 1 .. Len(f)
    BY <1>2, LenProperties
<1>. QED
    BY <1>3

(* memcpy keeps the size of its target, which holds what the source does, as
   far as it was copied. *)
LEMMA CopyDomain ==
    ASSUME NEW to, NEW from, NEW n
    PROVE  DOMAIN Copy(to, from, n) = DOMAIN to
    BY DEF Copy

LEMMA CopyLen ==
    ASSUME NEW to, NEW from, NEW n, Len(to) \in Nat, DOMAIN to = 1 .. Len(to)
    PROVE  Len(Copy(to, from, n)) = Len(to)
    BY LenOfBlock, CopyDomain DEF Copy

LEMMA CopyHolds ==
    ASSUME NEW to, NEW from, NEW n \in Nat, NEW name, NEW size \in Nat,
           DOMAIN to = 1 .. size, n <= size, Holds(from, n, name)
    PROVE  Holds(Copy(to, from, n), n, name)
    BY DEF Copy, Holds

LEMMA LowerBounds ==
    ASSUME NEW m \in Nat, NEW n \in Nat
    PROVE  /\ Lower(m, n) \in Nat /\ Lower(m, n) <= m /\ Lower(m, n) <= n
           /\ m <= n => Lower(m, n) = m
    BY DEF Lower

LEMMA Lengths ==
    ASSUME Ready, Memory
    PROVE  /\ bufSize["client"] \in Nat /\ bufSize["server"] \in Nat
           /\ Request \in Nat /\ Request <= bufSize["client"]
           /\ AnswerLen \in Nat
<1>1. bufSize["client"] \in Nat /\ bufSize["server"] \in Nat
    BY DEF Ready, TypeOK, Ends
<1>2. Request \in Nat /\ Request <= bufSize["client"]
    BY <1>1, LowerBounds DEF Memory, Request
<1>3. Lower(AckLen, bufSize["server"]) \in Nat
    BY <1>1, LowerIsNat, PingPongAssumption DEF PingPongAssumption
<1>. QED
    BY <1>1, <1>2, <1>3 DEF AnswerLen

LEMMA InitFaithful == Init => Faithful
<1> SUFFICES ASSUME Init PROVE Faithful
    OBVIOUS
<1>1. Ready
    BY InitReady
<1>2. Memory
    <2>1. PICK n \in 1 .. MaxSize : dst = Blank(n)
        BY DEF Init
    <2>2. n \in Nat
        BY PingPongAssumption DEF PingPongAssumption
    <2>3. DOMAIN dst = 1 .. n /\ dst = [i \in DOMAIN dst |-> dst[i]]
        BY <2>1 DEF Blank
    <2>4. Len(dst) = n
        BY <2>2, <2>3, LenOfBlock
    <2>. QED
        BY <2>2, <2>3, <2>4 DEF Init, Memory, Blank
<1>3. Contents
    BY DEF Init, Contents, OnItsWay, Ends
<1>. QED
    BY <1>1, <1>2, <1>3 DEF Faithful

------------------------------------------------------------------------------
(* A step that moves no message and copies nothing. *)
LEMMA ContentsKept ==
    ASSUME Faithful, UNCHANGED <<buffers, dst, ask, sink>>,
           \A e \in Ends :
              /\ OnItsWay(e)' => OnItsWay(e) /\ wire'[e].len = wire[e].len
              /\ recvCQ'[e] \in {<<>>, <<Failed>>, recvCQ[e]}
              /\ pc'[e] \in {"repost", "answer"} =>
                    /\ pc[e] = pc'[e] \/ (e = "server" /\ pc[e] = "repost")
                    /\ byteLen'[e] = byteLen[e]
    PROVE  Memory' /\ Contents'
<1>1. Memory'
    BY DEF Faithful, Memory, buffers
<1>2. "client" \in Ends /\ "server" \in Ends /\ "client" # "server"
    BY DEF Ends
<1>3. /\ UNCHANGED <<Request, AnswerLen, AnswerName>>
      /\ UNCHANGED <<bufSize, sendBuf, recvBuf>>
    BY DEF buffers, Request, AnswerLen, AnswerName
<1>4. Contents'
    BY <1>2, <1>3 DEF Faithful, Contents, Holds
<1>. QED
    BY <1>1, <1>4

(* The message goes from one memory to the other. *)
LEMMA DeliverContents ==
    ASSUME Faithful, NEW e \in Ends, Deliver(e)
    PROVE  Memory' /\ Contents'
<1> DEFINE o == Peer(e)
<1> USE DEF Faithful
<1>0. /\ o \in Ends /\ o # e /\ Ends = {e, o}
      /\ (e = "client" /\ o = "server") \/ (e = "server" /\ o = "client")
    BY OtherEnd DEF Ends, Peer
<1>1. /\ OnItsWay(e) /\ posted[o] > 0 /\ pc[o] # "left" /\ recvCQ[o] = <<>>
      /\ wire[e].len \in Nat /\ wire[e].len <= bufSize[o]
      /\ UNCHANGED <<bufSize, sendBuf, byteLen, dst, ask, sink, pc>>
    BY <1>0 DEF Deliver, OnItsWay, OneReceive, Ready, TypeOK, locals
<1>2. /\ recvCQ' = [recvCQ EXCEPT ![o] = <<wire[e].len>>]
      /\ recvBuf' = [recvBuf EXCEPT ![o] = Copy(@, sendBuf[e], wire[e].len)]
      /\ ~OnItsWay(e)' /\ OnItsWay(o)' = OnItsWay(o)
      /\ wire'[o] = wire[o]
    BY <1>0, <1>1, OneElement DEF Deliver, Ready, OnItsWay, QueueType, TypeOK
<1>3. Memory'
    BY <1>0, <1>1, <1>2, CopyDomain DEF Memory
<1>4. ASSUME NEW name, Holds(sendBuf[e], wire[e].len, name)
      PROVE  Holds(recvBuf'[o], wire[e].len, name)
    <2>1. recvBuf'[o] = Copy(recvBuf[o], sendBuf[e], wire[e].len)
        BY <1>0, <1>2 DEF Memory
    <2>2. DOMAIN recvBuf[o] = 1 .. bufSize[o] /\ bufSize[o] \in Nat
        BY <1>0 DEF Memory, Ready, TypeOK
    <2>. QED
        BY <1>1, <1>4, <2>1, <2>2, CopyHolds
<1>5. UNCHANGED <<Request, AnswerLen, AnswerName>>
    BY <1>1 DEF Request, AnswerLen, AnswerName
<1>6. recvCQ'[e] = recvCQ[e] /\ recvCQ'[o] = <<wire[e].len>> /\ recvBuf'[e] = recvBuf[e]
    BY <1>0, <1>2 DEF Memory, Ready, QueueType
<1>7. CASE e = "client"
    <2>1. /\ ~OnItsWay("server") /\ recvCQ["client"] = <<>>
          /\ pc["server"] \notin {"repost", "answer"} /\ pc["client"] # "repost"
        BY <1>0, <1>1, <1>7 DEF Ready, TakesTurns, ClientTurn, ServerTurn, OneSend, OnItsWay
    <2>2. wire[e].len = Request /\ Holds(sendBuf[e], wire[e].len, ask.name)
        BY <1>1, <1>7 DEF Contents
    <2>3. Holds(recvBuf'["server"], Request, ask.name)
        BY <1>0, <1>4, <1>7, <2>2
    <2>4. Contents'
        BY <1>0, <1>1, <1>2, <1>5, <1>6, <1>7, <2>1, <2>2, <2>3 DEF Contents
    <2>. QED
        BY <1>3, <2>4
<1>8. CASE e = "server"
    <2>1. /\ ~OnItsWay("client") /\ recvCQ["server"] = <<>>
          /\ pc["server"] \notin {"repost", "answer"} /\ pc["client"] # "repost"
        BY <1>0, <1>1, <1>8 DEF Ready, TakesTurns, ClientTurn, ServerTurn, OneSend, OnItsWay
    <2>2. wire[e].len = AnswerLen /\ Holds(sendBuf[e], wire[e].len, AnswerName)
        BY <1>1, <1>8 DEF Contents
    <2>3. Holds(recvBuf'["client"], AnswerLen, AnswerName)
        BY <1>0, <1>4, <1>8, <2>2
    <2>4. Contents'
        BY <1>0, <1>1, <1>2, <1>5, <1>6, <1>8, <2>1, <2>2, <2>3 DEF Contents
    <2>. QED
        BY <1>3, <2>4
<1>. QED
    BY <1>0, <1>7, <1>8

LEMMA DeviceContents ==
    ASSUME Faithful, NEW e \in Ends, Device(e) \/ NotReady(e)
    PROVE  Memory' /\ Contents'
<1> USE DEF Faithful
<1>1. CASE Deliver(e)
    BY <1>1, DeliverContents
<1>2. CASE Complete(e)
    <2>1. /\ wire' = [wire EXCEPT ![e] = None]
          /\ UNCHANGED <<buffers, dst, ask, sink, byteLen, recvCQ, pc>>
        BY <1>2 DEF Complete, locals
    <2>2. \A x \in Ends : OnItsWay(x)' => OnItsWay(x) /\ wire'[x].len = wire[x].len
        BY <2>1 DEF OnItsWay, Ready, TypeOK
    <2>. QED
        BY <2>1, <2>2, ContentsKept
<1>3. ASSUME NEW spoiled, Break(e, spoiled)
      PROVE  Memory' /\ Contents'
    <2>1. /\ wire' = [wire EXCEPT ![e] = None]
          /\ UNCHANGED <<buffers, dst, ask, sink, byteLen, pc>>
        BY <1>3 DEF Break, locals
    <2>2. \A x \in Ends : OnItsWay(x)' => OnItsWay(x) /\ wire'[x].len = wire[x].len
        BY <2>1 DEF OnItsWay, Ready, TypeOK
    <2>3. \A x \in Ends : posted[x] > 0 => recvCQ[x] = <<>>
        BY DEF Ready, TypeOK, OneReceive
    <2>4. \A x \in Ends : recvCQ'[x] \in {<<>>, <<Failed>>, recvCQ[x]}
        BY <1>3, <2>3, OneElement DEF Break
    <2>. QED
        BY <2>1, <2>2, <2>4, ContentsKept
<1>. QED
    BY <1>1, <1>2, <1>3 DEF Device, TooLong, NotReady

(* A completed receive is taken: its length, and at the client the copy. *)
LEMMA ServerRecvContents ==
    ASSUME Faithful, ServerRecv
    PROVE  Memory' /\ Contents'
<1> USE DEF Faithful
<1>0. "server" \in Ends /\ "client" \in Ends
    BY DEF Ends
<1> DEFINE h == Head(recvCQ["server"])
<1>1. /\ h \in Nat \cup {Failed} /\ recvCQ["server"] = <<h>>
      /\ recvCQ' = [recvCQ EXCEPT !["server"] = <<>>]
      /\ UNCHANGED <<bufSize, sendBuf, recvBuf, wire, dst, ask, sink>>
    BY <1>0, TakeElement DEF ServerRecv, PollRecvCQ, Ready, QueueType, buffers
<1>2. /\ \A e \in Ends : OnItsWay(e)' => OnItsWay(e) /\ wire'[e].len = wire[e].len
      /\ \A e \in Ends : recvCQ'[e] \in {<<>>, <<Failed>>, recvCQ[e]}
    BY <1>1 DEF OnItsWay, Ready, QueueType
<1>3. CASE h = Failed
    <2>1. pc' = [pc EXCEPT !["server"] = "left"] /\ UNCHANGED byteLen
        BY <1>3 DEF ServerRecv, PollRecvCQ, Goto
    <2>. QED
        BY <1>1, <1>2, <2>1, ContentsKept DEF Ready, TypeOK, buffers
<1>4. CASE h # Failed
    <2>1. /\ pc' = [pc EXCEPT !["server"] = "repost"]
          /\ byteLen' = [byteLen EXCEPT !["server"] = h]
        BY <1>4 DEF ServerRecv, PollRecvCQ, Goto
    <2>2. recvCQ["server"] \notin {<<>>, <<Failed>>}
        BY <1>1, <1>4
    <2>3. h = Request /\ Request <= bufSize["server"] /\ Holds(recvBuf["server"], Request, ask.name)
        BY <1>1, <2>2 DEF Contents
    <2>4. UNCHANGED <<Request, AnswerLen, AnswerName>>
        BY <1>1 DEF Request, AnswerLen, AnswerName
    <2>5. /\ pc'["client"] = pc["client"] /\ byteLen'["client"] = byteLen["client"]
          /\ byteLen'["server"] = h
          /\ recvCQ'["client"] = recvCQ["client"] /\ recvCQ'["server"] = <<>>
        BY <1>0, <1>1, <2>1 DEF Ready, TypeOK, QueueType
    <2>6. Memory'
        BY <1>1 DEF Memory
    <2>7. Contents'
        BY <1>1, <1>2, <2>3, <2>4, <2>5, <1>0 DEF Contents, OnItsWay, Holds
    <2>. QED
        BY <2>6, <2>7
<1>. QED
    BY <1>3, <1>4

LEMMA ClientRecvContents ==
    ASSUME Faithful, ClientRecv
    PROVE  Memory' /\ Contents'
<1> USE DEF Faithful
<1>0. "server" \in Ends /\ "client" \in Ends
    BY DEF Ends
<1> DEFINE h == Head(recvCQ["client"])
<1>1. /\ h \in Nat \cup {Failed} /\ recvCQ["client"] = <<h>>
      /\ recvCQ' = [recvCQ EXCEPT !["client"] = <<>>]
      /\ UNCHANGED <<bufSize, sendBuf, recvBuf, wire, ask, sink>>
    BY <1>0, TakeElement DEF ClientRecv, PollRecvCQ, Ready, QueueType, buffers
<1>2. /\ \A e \in Ends : OnItsWay(e)' => OnItsWay(e) /\ wire'[e].len = wire[e].len
      /\ \A e \in Ends : recvCQ'[e] \in {<<>>, <<Failed>>, recvCQ[e]}
    BY <1>1 DEF OnItsWay, Ready, QueueType
<1>3. CASE h = Failed
    <2>1. pc' = [pc EXCEPT !["client"] = "left"] /\ UNCHANGED <<byteLen, dst>>
        BY <1>3 DEF ClientRecv, PollRecvCQ, Goto
    <2>. QED
        BY <1>1, <1>2, <2>1, ContentsKept DEF Ready, TypeOK, buffers
<1>4. CASE h # Failed
    <2>1. /\ pc' = [pc EXCEPT !["client"] = "repost"]
          /\ byteLen' = [byteLen EXCEPT !["client"] = h]
          /\ dst' = Copy(dst, recvBuf["client"], Lower(h, Len(dst)))
        BY <1>4 DEF ClientRecv, PollRecvCQ, Goto
    <2>2. recvCQ["client"] \notin {<<>>, <<Failed>>}
        BY <1>1, <1>4
    <2>3. h = AnswerLen /\ Holds(recvBuf["client"], AnswerLen, AnswerName)
        BY <1>1, <2>2 DEF Contents
    <2>4. UNCHANGED <<Request, AnswerLen, AnswerName>>
        BY <1>1 DEF Request, AnswerLen, AnswerName
    <2>5. /\ pc'["server"] = pc["server"] /\ byteLen'["server"] = byteLen["server"]
          /\ byteLen'["client"] = h
          /\ recvCQ'["server"] = recvCQ["server"] /\ recvCQ'["client"] = <<>>
        BY <1>0, <1>1, <2>1 DEF Ready, TypeOK, QueueType
    <2>6. Memory'
        BY <1>1, <2>1, CopyDomain, CopyLen DEF Memory
    <2>7. ASSUME NEW i \in DOMAIN dst', i <= AnswerLen
          PROVE  dst'[i] = AnswerName
        <3>1. i \in DOMAIN dst /\ Len(dst) \in Nat /\ i \in 1 .. Len(dst)
            BY <2>1, CopyDomain DEF Memory
        <3>2. AnswerLen \in Nat
            BY Lengths
        <3>3. i <= Lower(h, Len(dst)) /\ i \in 1 .. AnswerLen
            BY <2>3, <2>7, <3>1, <3>2 DEF Lower
        <3>4. dst'[i] = recvBuf["client"][i]
            BY <2>1, <3>1, <3>3 DEF Copy
        <3>. QED
            BY <2>3, <3>3, <3>4 DEF Holds
    <2>8. Contents'
        BY <1>1, <1>2, <2>3, <2>4, <2>5, <2>7, <1>0 DEF Contents, OnItsWay, Holds
    <2>. QED
        BY <2>6, <2>8
<1>. QED
    BY <1>3, <1>4

(* A send is posted, or its error ends the loop of e. *)
LEMMA PostSendWire ==
    ASSUME Ready, NEW e \in Ends, NEW n \in Nat, PostSend(e, n)
    PROVE  /\ pc'[e] \in {"poll", "left"}
           /\ \A x \in Ends : x # e => pc'[x] = pc[x] /\ wire'[x] = wire[x]
           /\ wire'[e] = [len |-> n, arrived |-> FALSE, signaled |-> TRUE]
                 \/ wire'[e] = wire[e]
    BY DEF PostSend, Goto, Ready, TypeOK

LEMMA ClientSendContents ==
    ASSUME Faithful, NEW name \in Payloads, NEW n \in 0 .. MaxSize,
           ClientSend(name, n)
    PROVE  Memory' /\ Contents'
<1> USE DEF Faithful
<1>0. "server" \in Ends /\ "client" \in Ends /\ "client" # "server"
    BY DEF Ends
<1> DEFINE block == [i \in 1 .. n |-> name]
           len == Lower(n, bufSize["client"])
<1>1. /\ pc["client"] = "idle" /\ PostSend("client", len)
      /\ sendBuf' = [sendBuf EXCEPT !["client"] = Copy(@, block, len)]
      /\ ask' = [name |-> name, len |-> n]
      /\ UNCHANGED <<bufSize, recvBuf, recvCQ, byteLen, dst, sink>>
    BY DEF ClientSend, Send
<1>2. n \in Nat /\ bufSize["client"] \in Nat
    BY PingPongAssumption, Lengths DEF PingPongAssumption
<1>3. len \in Nat /\ len <= n /\ len <= bufSize["client"]
    BY <1>2, LowerBounds
<1>4. /\ ~OnItsWay("server") /\ ~OnItsWay("client") /\ wire["client"] = None
      /\ recvCQ["client"] = <<>> /\ recvCQ["server"] \in {<<>>, <<Failed>>}
      /\ pc["server"] \notin {"repost", "answer"}
    BY <1>0, <1>1 DEF Ready, TakesTurns, ClientTurn, ServerTurn, OneSend, OnItsWay
<1>5. /\ pc'["client"] \in {"poll", "left"} /\ pc'["server"] = pc["server"]
      /\ wire'["server"] = wire["server"]
      /\ wire'["client"] = [len |-> len, arrived |-> FALSE, signaled |-> TRUE]
            \/ wire'["client"] = None
    BY <1>0, <1>1, <1>3, <1>4, PostSendWire
<1>6. Memory'
    BY <1>0, <1>1, <1>2, CopyDomain DEF Memory
<1>7. Request' = len
    BY <1>1 DEF Request
<1>8. Holds(sendBuf'["client"], len, name)
    <2>1. Holds(block, len, name)
        BY <1>2, <1>3 DEF Holds
    <2>2. sendBuf'["client"] = Copy(sendBuf["client"], block, len)
        BY <1>0, <1>1 DEF Memory
    <2>3. DOMAIN sendBuf["client"] = 1 .. bufSize["client"]
        BY <1>0 DEF Memory
    <2>. QED
        BY <1>2, <1>3, <2>1, <2>2, <2>3, CopyHolds
<1>9. Contents'
    <2>1. OnItsWay("client")' => wire'["client"].len = len
        BY <1>5 DEF OnItsWay
    <2>2. ~OnItsWay("server")'
        BY <1>4, <1>5 DEF OnItsWay
    <2>3. ask'.name = name
        BY <1>1
    <2>. QED
        BY <1>1, <1>4, <1>5, <1>7, <1>8, <2>1, <2>2, <2>3 DEF Contents
<1>. QED
    BY <1>6, <1>9

(* The server's answer, of which the first n cells of the send buffer hold
   what the client is to receive. *)
LEMMA AnswerContents ==
    ASSUME Faithful, pc["server"] = "answer", NEW n \in Nat, PostSend("server", n),
           NEW block, sendBuf' = [sendBuf EXCEPT !["server"] = Copy(@, block, n)],
           n = AnswerLen, n <= bufSize["server"], Holds(block, n, AnswerName),
           UNCHANGED <<bufSize, recvBuf, recvCQ, locals, sink>>
    PROVE  Memory' /\ Contents'
<1> USE DEF Faithful
<1>0. "server" \in Ends /\ "client" \in Ends /\ "client" # "server"
    BY DEF Ends
<1>1. UNCHANGED <<byteLen, dst, ask>>
    BY DEF locals
<1>2. Memory'
    BY <1>0, <1>1, CopyDomain DEF Memory
<1>3. Holds(sendBuf'["server"], n, AnswerName)
    <2>1. sendBuf'["server"] = Copy(sendBuf["server"], block, n)
        BY <1>0 DEF Memory
    <2>2. DOMAIN sendBuf["server"] = 1 .. bufSize["server"] /\ bufSize["server"] \in Nat
        BY <1>0, Lengths DEF Memory
    <2>. QED
        BY <2>1, <2>2, CopyHolds
<1>4. /\ pc'["server"] \in {"poll", "left"} /\ pc'["client"] = pc["client"]
      /\ wire'["client"] = wire["client"]
      /\ wire'["server"] = [len |-> n, arrived |-> FALSE, signaled |-> TRUE]
            \/ wire'["server"] = wire["server"]
    BY <1>0, PostSendWire
<1>5. wire["server"] = None
    BY <1>0 DEF Ready, OneSend
<1>6. UNCHANGED <<Request, AnswerLen, AnswerName>>
    BY <1>1 DEF Request, AnswerLen, AnswerName
<1>7. sendBuf'["client"] = sendBuf["client"]
    BY <1>0 DEF Memory
<1>8. /\ OnItsWay("server")' => wire'["server"].len = n
      /\ OnItsWay("client")' = OnItsWay("client")
    BY <1>4, <1>5 DEF OnItsWay
<1>9. Contents'
    BY <1>1, <1>3, <1>4, <1>6, <1>7, <1>8 DEF Contents, Holds
<1>. QED
    BY <1>2, <1>9

LEMMA ServerAnswerContents ==
    ASSUME Faithful, Echo \/ Acknowledge
    PROVE  Memory' /\ Contents'
<1> USE DEF Faithful
<1>1. CASE Echo
    <2>1. /\ byteLen["server"] = Request /\ Request <= bufSize["server"]
          /\ Holds(recvBuf["server"], Request, ask.name)
          /\ AnswerLen = Request /\ AnswerName = ask.name
        BY <1>1 DEF Echo, Contents, AnswerLen, AnswerName
    <2>2. Request \in Nat /\ bufSize["server"] \in Nat
        BY Lengths
    <2>3. Lower(byteLen["server"], bufSize["server"]) = Request
        BY <2>1, <2>2, LowerBounds
    <2>. QED
        BY <1>1, <2>1, <2>2, <2>3, AnswerContents DEF Echo, SendRaw, CopyRecvToSend
<1>2. CASE Acknowledge
    <2> DEFINE n == Lower(AckLen, bufSize["server"])
               block == [i \in 1 .. AckLen |-> Ack]
    <2>1. /\ PostSend("server", n)
          /\ sendBuf' = [sendBuf EXCEPT !["server"] = Copy(@, block, n)]
          /\ AnswerLen = n /\ AnswerName = Ack
        BY <1>2 DEF Acknowledge, Send, AnswerLen, AnswerName
    <2>2. AckLen \in Nat /\ bufSize["server"] \in Nat
        BY Lengths, PingPongAssumption DEF PingPongAssumption
    <2>3. n \in Nat /\ n <= AckLen /\ n <= bufSize["server"]
        BY <2>2, LowerBounds
    <2>4. Holds(block, n, Ack)
        BY <2>2, <2>3 DEF Holds
    <2> HIDE DEF n, block
    <2>. QED
        BY <1>2, <2>1, <2>3, <2>4, AnswerContents DEF Acknowledge
<1>. QED
    BY <1>1, <1>2

(* The steps of the two goroutines that leave all contents where they are. *)
LEMMA QuietContents ==
    ASSUME Faithful,
           \/ ClientRepost \/ ClientLeaves \/ PollSendCQ("client", "recv")
           \/ ServerSetUp \/ ServerCheck \/ ServerRepost
           \/ PollSendCQ("server", "check") \/ ServerCancel \/ UNCHANGED vars
           \/ \E e \in Ends : PollFails(e)
    PROVE  Memory' /\ Contents'
<1> USE DEF Faithful
<1>1. UNCHANGED <<buffers, dst, ask, sink, byteLen, recvCQ, wire>>
    BY DEF ClientRepost, ClientLeaves, PollSendCQ, ServerSetUp, ServerCheck,
           ServerRepost, ServerCancel, PollFails, vars, buffers, locals, queues
<1>2. \A e \in Ends : pc'[e] \in {"repost", "answer"} =>
          pc[e] = pc'[e] \/ (e = "server" /\ pc[e] = "repost")
    <2>1. pc \in [Ends -> Labels]
        BY DEF Ready, TypeOK
    <2>2. CASE ServerRepost
        BY <2>1, <2>2 DEF ServerRepost, PostRecv, Goto, Ends
    <2>3. CASE \E e \in Ends, next \in {"idle", "check", "recv", "left"} : Goto(e, next)
        BY <2>1, <2>3 DEF Goto
    <2>4. CASE UNCHANGED pc
        BY <2>4
    <2>. QED
        BY <2>2, <2>3, <2>4
           DEF ClientRepost, ClientLeaves, PollSendCQ, ServerSetUp, ServerCheck,
               ServerCancel, PollFails, vars, PostRecv, Ends
<1>3. \A e \in Ends : OnItsWay(e)' => OnItsWay(e) /\ wire'[e].len = wire[e].len
    BY <1>1 DEF OnItsWay
<1>. QED
    BY <1>1, <1>2, <1>3, ContentsKept

(* The client's Recv returns what its Send put on the wire, or the sink's
   acknowledgement, for every size of the buffers, the payload and the slice. *)
THEOREM EchoIsFaithful == Spec => []EchoIsTheMessage
<1>1. Faithful /\ Ready' /\ [Next]_vars => Faithful'
    <2> SUFFICES ASSUME Faithful, [Next]_vars PROVE Memory' /\ Contents'
        BY DEF Faithful
    <2>1. CASE \E e \in Ends : Device(e) \/ NotReady(e)
        BY <2>1, DeviceContents
    <2>2. CASE \E name \in Payloads, n \in 0 .. MaxSize : ClientSend(name, n)
        BY <2>2, ClientSendContents
    <2>3. CASE ClientRecv
        BY <2>3, ClientRecvContents
    <2>4. CASE ServerRecv
        BY <2>4, ServerRecvContents
    <2>5. CASE Echo \/ Acknowledge
        BY <2>5, ServerAnswerContents
    <2>. QED
        BY <2>1, <2>2, <2>3, <2>4, <2>5, QuietContents
           DEF Next, ClientStep, ServerStep
<1>2. Faithful => EchoIsTheMessage
    <2> SUFFICES ASSUME Faithful, pc["client"] = "repost"
                 PROVE  LET sent == IF sink THEN AckLen
                                    ELSE Lower(ask.len, bufSize["client"])
                            size == IF sink THEN bufSize["server"]
                                    ELSE bufSize["client"]
                        IN  /\ AnswerLen = Lower(sent, size)
                            /\ byteLen["client"] = AnswerLen
                            /\ \A i \in DOMAIN dst : i <= AnswerLen => dst[i] = AnswerName
        BY DEF EchoIsTheMessage, AnswerName, Faithful
    <2>1. Lower(Request, bufSize["client"]) = Request
        BY Lengths, LowerBounds DEF Faithful
    <2>. QED
        BY <2>1 DEF Faithful, Contents, AnswerLen, Request
<1>. QED
    BY <1>1, <1>2, InitFaithful, AlwaysReady, PTL DEF Spec
==============================================================================
