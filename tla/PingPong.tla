------------------------------ MODULE PingPong ------------------------------
(***************************************************************************)
(* rdma.PingPongConn at the two ends of one connection: the client's       *)
(* closed loop (Send, then Recv), as in runPingPong and executePing, and   *)
(* the server's runEchoLoop or runSinkLoop (RecvInPlace, CopyRecvToSend,   *)
(* SendRaw or Send).                                                       *)
(*                                                                         *)
(* Each end has one send buffer and one receive buffer, of a size of its   *)
(* own choice, and one receive posted.  The device reads the send buffer   *)
(* when the message is delivered, writes the receive buffer of the peer,   *)
(* and completes the receive there before it completes the send here; so a *)
(* client may have its answer before the server's Send has returned.       *)
(* Contents are names, one cell for each byte.                             *)
(***************************************************************************)
EXTENDS Naturals, Sequences

CONSTANTS
    MaxSize,      \* the largest buffer and the longest payload
    AckLen,       \* the length of the sink's acknowledgement
    Payloads,     \* what the client may send
    Ack,          \* the sink's acknowledgement
    Zero,         \* what fresh memory holds
    None,         \* no message on the wire
    Failed        \* a completion that is an error

ASSUME PingPongAssumption ==
    /\ MaxSize \in Nat \ {0} /\ AckLen \in Nat
    /\ Ack \notin Payloads /\ Zero \notin Payloads \cup {Ack}
    /\ None \notin Nat /\ Failed \notin Nat

Ends == {"client", "server"}
Peer(e) == IF e = "client" THEN "server" ELSE "client"
Lower(m, n) == IF m <= n THEN m ELSE n

VARIABLES
    bufSize,      \* bufSize[e]: PingPongConn.bufSize
    sink,         \* the server runs runSinkLoop
    pc,           \* pc[e]: what the goroutine of e does next
    sendBuf,      \* sendBuf[e]: the cells of its send buffer
    recvBuf,      \* recvBuf[e]: the cells of its receive buffer
    posted,       \* posted[e]: its receives in the receive queue
    recvCQ,       \* recvCQ[e]: completions, the length received or Failed
    sendCQ,       \* sendCQ[e]: completions
    wire,         \* wire[e]: the send that e posted and was not completed
    byteLen,      \* byteLen[e]: what the last receive returned
    dst,          \* the caller's buffer for the client's Recv
    ask,          \* the name and the length of the payload of the last Send
    ctxDone       \* the server's context is done

buffers == <<bufSize, sendBuf, recvBuf>>
queues  == <<posted, recvCQ, sendCQ, wire>>
locals  == <<byteLen, dst, ask>>
vars == <<buffers, queues, locals, sink, pc, ctxDone>>

(* memcpy of n cells. *)
Copy(to, from, n) == [i \in DOMAIN to |-> IF i <= n THEN from[i] ELSE to[i]]

Goto(e, l) == pc' = [pc EXCEPT ![e] = l]

------------------------------------------------------------------------------
(* The device. *)

(* The receive buffer is filled and the receive completes. *)
Deliver(e) ==
    LET o == Peer(e) IN
    /\ wire[e] # None /\ ~wire[e].arrived
    /\ posted[o] > 0
    /\ pc[o] # "left"
    /\ wire[e].len <= bufSize[o]
    /\ recvBuf' = [recvBuf EXCEPT ![o] = Copy(@, sendBuf[e], wire[e].len)]
    /\ recvCQ' = [recvCQ EXCEPT ![o] = Append(@, wire[e].len)]
    /\ posted' = [posted EXCEPT ![o] = @ - 1]
    /\ wire' = [wire EXCEPT ![e].arrived = TRUE]
    /\ UNCHANGED <<bufSize, sendBuf, sendCQ, locals, sink, pc, ctxDone>>

(* The acknowledgement is back: a signaled send completes. *)
Complete(e) ==
    /\ wire[e] # None /\ wire[e].arrived
    /\ sendCQ' = [sendCQ EXCEPT
                     ![e] = IF wire[e].signaled THEN Append(@, wire[e].len) ELSE @]
    /\ wire' = [wire EXCEPT ![e] = None]
    /\ UNCHANGED <<buffers, posted, recvCQ, locals, sink, pc, ctxDone>>

(* A send that fails takes the queue pair with it: the send and the posted
   receives of e complete with errors, and so do those that a message was too
   long for. *)
Break(e, spoiled) ==
    /\ sendCQ' = [sendCQ EXCEPT ![e] = Append(@, Failed)]
    /\ wire' = [wire EXCEPT ![e] = None]
    /\ posted' = [x \in Ends |-> IF x = e \/ x \in spoiled THEN 0 ELSE posted[x]]
    /\ recvCQ' = [x \in Ends |->
                     IF (x = e \/ x \in spoiled) /\ posted[x] > 0
                     THEN Append(recvCQ[x], Failed) ELSE recvCQ[x]]
    /\ UNCHANGED <<buffers, locals, sink, pc, ctxDone>>

TooLong(e) ==
    LET o == Peer(e) IN
    /\ wire[e] # None /\ ~wire[e].arrived
    /\ posted[o] > 0
    /\ wire[e].len > bufSize[o]
    /\ Break(e, {o})

(* No receive is posted, or the peer has closed: the device tries again, and
   it may give up. *)
NotReady(e) ==
    LET o == Peer(e) IN
    /\ wire[e] # None /\ ~wire[e].arrived
    /\ posted[o] = 0 \/ pc[o] = "left"
    /\ Break(e, {})

Device(e) == Deliver(e) \/ Complete(e) \/ TooLong(e)

------------------------------------------------------------------------------
(* PingPongConn. *)

(* postRecv, or its error, which the caller returns. *)
PostRecv(e, next) ==
    \/ /\ posted' = [posted EXCEPT ![e] = @ + 1]
       /\ Goto(e, next)
    \/ /\ Goto(e, "left")
       /\ UNCHANGED posted

(* Mutant: the send is not signaled. *)
PostSendSilent(e, n) ==
    /\ wire' = [wire EXCEPT ![e] = [len |-> n, arrived |-> FALSE, signaled |-> FALSE]]
    /\ Goto(e, "poll")

(* golinker_post_send_single of the first n cells of the send buffer, or its
   error. *)
PostSend(e, n) ==
    \/ /\ wire' = [wire EXCEPT
                      ![e] = [len |-> n, arrived |-> FALSE, signaled |-> TRUE]]
       /\ Goto(e, "poll")
    \/ /\ Goto(e, "left")
       /\ UNCHANGED wire

(* Send: what does not fit in the send buffer is left out. *)
Send(e, name, n) ==
    /\ sendBuf' = [sendBuf EXCEPT
                      ![e] = Copy(@, [i \in 1 .. n |-> name], Lower(n, bufSize[e]))]
    /\ PostSend(e, Lower(n, bufSize[e]))

(* SendRaw of the first n cells, those already there. *)
SendRaw(e, n) == PostSend(e, Lower(n, bufSize[e]))

(* CopyRecvToSend. *)
CopyRecvToSend(e, n) ==
    sendBuf' = [sendBuf EXCEPT ![e] = Copy(@, recvBuf[e], Lower(n, bufSize[e]))]

(* pollSendCQ: busy-polls until one completion is there. *)
PollSendCQ(e, next) ==
    /\ pc[e] = "poll"
    /\ sendCQ[e] # <<>>
    /\ sendCQ' = [sendCQ EXCEPT ![e] = Tail(@)]
    /\ Goto(e, IF Head(sendCQ[e]) = Failed THEN "left" ELSE next)
    /\ UNCHANGED <<buffers, posted, recvCQ, wire, locals, sink, ctxDone>>

(* The receive half of Recv and RecvInPlace: busy-polls the receive queue. *)
PollRecvCQ(e) ==
    /\ pc[e] = "recv"
    /\ recvCQ[e] # <<>>
    /\ recvCQ' = [recvCQ EXCEPT ![e] = Tail(@)]
    /\ IF Head(recvCQ[e]) = Failed
       THEN Goto(e, "left") /\ UNCHANGED byteLen
       ELSE /\ byteLen' = [byteLen EXCEPT ![e] = Head(recvCQ[e])]
            /\ Goto(e, "repost")

(* ibv_poll_cq fails, on either queue: the error goes to the caller. *)
PollFails(e) ==
    /\ pc[e] \in {"poll", "recv"}
    /\ Goto(e, "left")
    /\ UNCHANGED <<buffers, queues, locals, sink, ctxDone>>

------------------------------------------------------------------------------
(* The client: Dial has returned, and its receive is posted. *)

ClientSend(name, n) ==
    /\ pc["client"] = "idle"
    /\ Send("client", name, n)
    /\ ask' = [name |-> name, len |-> n]
    /\ UNCHANGED <<bufSize, recvBuf, posted, recvCQ, sendCQ,
                   byteLen, dst, sink, ctxDone>>

(* Recv copies what it received, as far as the caller's buffer reaches, and
   then posts the receive again. *)
ClientRecv ==
    /\ PollRecvCQ("client")
    /\ dst' = IF Head(recvCQ["client"]) = Failed THEN dst
              ELSE Copy(dst, recvBuf["client"],
                        Lower(Head(recvCQ["client"]), Len(dst)))
    /\ UNCHANGED <<buffers, posted, sendCQ, wire, ask, sink, ctxDone>>

(* Mutant: the receive is not posted again. *)
ClientRepostForgets ==
    /\ pc["client"] = "repost"
    /\ Goto("client", "idle")
    /\ UNCHANGED <<buffers, queues, locals, sink, ctxDone>>

ClientRepost ==
    /\ pc["client"] = "repost"
    /\ PostRecv("client", "idle")
    /\ UNCHANGED <<buffers, recvCQ, sendCQ, wire, locals, sink, ctxDone>>

(* The benchmark is over, or the ping has its answer. *)
ClientLeaves ==
    /\ pc["client"] = "idle"
    /\ Goto("client", "left")
    /\ UNCHANGED <<buffers, queues, locals, sink, ctxDone>>

ClientStep == PollSendCQ("client", "recv") \/ ClientRecv \/ ClientRepost

------------------------------------------------------------------------------
(* The server: Accept has yet to call NewPingPongFromQP, and the client may
   be sending. *)

ServerSetUp ==
    /\ pc["server"] = "setup"
    /\ PostRecv("server", "check")
    /\ UNCHANGED <<buffers, recvCQ, sendCQ, wire, locals, sink, ctxDone>>

(* The context is looked at between two messages only. *)
ServerCheck ==
    /\ pc["server"] = "check"
    /\ Goto("server", IF ctxDone THEN "left" ELSE "recv")
    /\ UNCHANGED <<buffers, queues, locals, sink, ctxDone>>

ServerRecv ==
    /\ PollRecvCQ("server")
    /\ UNCHANGED <<buffers, posted, sendCQ, wire, dst, ask, sink, ctxDone>>

(* RecvInPlace posts the receive again before anybody has looked at the
   buffer. *)
ServerRepost ==
    /\ pc["server"] = "repost"
    /\ PostRecv("server", "answer")
    /\ UNCHANGED <<buffers, recvCQ, sendCQ, wire, locals, sink, ctxDone>>

(* Mutant: the last byte is not copied. *)
EchoShort ==
    /\ pc["server"] = "answer" /\ ~sink
    /\ LET n == byteLen["server"] IN
       /\ CopyRecvToSend("server", IF n = 0 THEN 0 ELSE n - 1)
       /\ SendRaw("server", n)
    /\ UNCHANGED <<bufSize, recvBuf, posted, recvCQ, sendCQ, locals, sink, ctxDone>>

(* What was received goes back. *)
Echo ==
    /\ pc["server"] = "answer" /\ ~sink
    /\ CopyRecvToSend("server", byteLen["server"])
    /\ SendRaw("server", byteLen["server"])
    /\ UNCHANGED <<bufSize, recvBuf, posted, recvCQ, sendCQ, locals, sink, ctxDone>>

Acknowledge ==
    /\ pc["server"] = "answer" /\ sink
    /\ Send("server", Ack, AckLen)
    /\ UNCHANGED <<bufSize, recvBuf, posted, recvCQ, sendCQ, locals, sink, ctxDone>>

ServerStep ==
    \/ ServerSetUp \/ ServerCheck \/ ServerRecv \/ ServerRepost
    \/ Echo \/ Acknowledge \/ PollSendCQ("server", "check")

ServerCancel ==
    /\ ~ctxDone
    /\ ctxDone' = TRUE
    /\ UNCHANGED <<buffers, queues, locals, sink, pc>>

------------------------------------------------------------------------------
Blank(n) == [i \in 1 .. n |-> Zero]

Init ==
    /\ bufSize \in [Ends -> 1 .. MaxSize]
    /\ sink \in BOOLEAN
    /\ pc = [e \in Ends |-> IF e = "client" THEN "idle" ELSE "setup"]
    /\ sendBuf = [e \in Ends |-> Blank(bufSize[e])]
    /\ recvBuf = [e \in Ends |-> Blank(bufSize[e])]
    /\ posted = [e \in Ends |-> IF e = "client" THEN 1 ELSE 0]
    /\ recvCQ = [e \in Ends |-> <<>>]
    /\ sendCQ = [e \in Ends |-> <<>>]
    /\ wire = [e \in Ends |-> None]
    /\ byteLen = [e \in Ends |-> 0]
    /\ dst \in {Blank(n) : n \in 1 .. MaxSize}
    /\ ask = [name |-> Zero, len |-> 0]
    /\ ctxDone = FALSE

Next ==
    \/ \E e \in Ends : Device(e) \/ NotReady(e)
    \/ \E e \in Ends : PollFails(e)
    \/ \E name \in Payloads, n \in 0 .. MaxSize : ClientSend(name, n)
    \/ ClientStep \/ ClientLeaves
    \/ ServerStep \/ ServerCancel

(* Both goroutines run, and the device delivers what it can; it need not give
   up on a peer that is not ready, no poll has to fail, nobody has to send,
   and the server's context may never be done. *)
Fairness ==
    /\ WF_vars(ClientStep)
    /\ WF_vars(ServerStep)
    /\ \A e \in Ends : WF_vars(Device(e))

Spec == Init /\ [][Next]_vars /\ Fairness

------------------------------------------------------------------------------
Labels == {"idle", "setup", "check", "recv", "repost", "answer", "poll", "left"}

TypeOK ==
    /\ bufSize \in [Ends -> Nat \ {0}]
    /\ pc \in [Ends -> Labels]
    /\ posted \in [Ends -> 0 .. 1]
    /\ wire \in [Ends -> {None} \cup [len : Nat, arrived : BOOLEAN, signaled : BOOLEAN]]
    /\ byteLen \in [Ends -> Nat]
    /\ sink \in BOOLEAN /\ ctxDone \in BOOLEAN

(* What the client's Recv returns is what it sent, cut to its send buffer,
   although both ends use one buffer for all messages and the server posts its
   receive buffer again before it has read it; from a sink it is the
   acknowledgement. *)
EchoIsTheMessage ==
    pc["client"] = "repost" =>
        LET sent == IF sink THEN AckLen ELSE Lower(ask.len, bufSize["client"])
            name == IF sink THEN Ack ELSE ask.name
            size == IF sink THEN bufSize["server"] ELSE bufSize["client"]
            n == byteLen["client"] IN
        /\ n = Lower(sent, size)
        /\ \A i \in DOMAIN dst : i <= n => dst[i] = name

(* With one receive at each end, every message that is on its way finds it
   posted, though neither end is told when the other is ready: only the first
   request, sent while Accept is still setting up, may come too early. *)
ReceiverIsReady ==
    \A e \in Ends :
        LET o == Peer(e) IN
        wire[e] # None /\ ~wire[e].arrived =>
            posted[o] = 1 \/ pc[o] \in {"setup", "left"}

(* A Send and the Recv after it come to an end, unless the server has gone,
   although neither looks at a context or a clock. *)
RoundTripEnds ==
    pc["client"] = "poll" ~> pc["client"] \in {"idle", "left"} \/ pc["server"] = "left"
==============================================================================
