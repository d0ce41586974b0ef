------------------------------ MODULE RecvPath ------------------------------
(***************************************************************************)
(* The life of a receive buffer and of the messages in it: the receive     *)
(* pool, Conn.PostRecvBuffers, the receive queue of each connection at the *)
(* NIC, the completions the poller dispatches to Conn.OnCompletion, and    *)
(* Conn.Recv.                                                              *)
(*                                                                         *)
(* A connection is set up by the goroutine in Manager.Connect, which       *)
(* registers its handler and posts QueueDepth buffers while the poller     *)
(* already dispatches.  The WRID of a receive request is the address of    *)
(* its buffer, so it names the buffer.                                     *)
(*                                                                         *)
(* The queue a manager registers and the queue a connection completes to   *)
(* are two things: the first is cfg.RecvCQ, one for all connections of the *)
(* manager, the second is the dialer's choice.  The completions of one     *)
(* queue pair keep their order; in which order the poller takes those of   *)
(* different ones is left open, also where they share a queue.             *)
(***************************************************************************)
EXTENDS Wire, FiniteSets

CONSTANTS
    Conns,          \* connections that share the receive pool
    RecvCQ,         \* the cfg.RecvCQ of the manager of each connection
    CQOf,           \* the receive queue the QP of each one completes to
    Poller,         \* the goroutine that dispatches completions
    None,           \* no connection, no buffer
    Buffers,        \* buffers of the RecvPool
    QueueDepth,     \* m.cfg.QueueDepth
    RecvDepth,      \* capacity of recvCh
    Batches,        \* what peers send: sequences of message lengths
    MaxBatches,     \* bound: buffers the peer of each connection fills
    PostErrors      \* PostRecv may fail

ASSUME RecvPathAssumption ==
    /\ DOMAIN CQOf = Conns /\ DOMAIN RecvCQ = Conns
    /\ Poller \notin Conns
    /\ None \notin Conns \union Buffers
    /\ IsFiniteSet(Buffers)
    /\ QueueDepth \in Nat \ {0}
    /\ RecvDepth \in Nat \ {0}
    /\ Batches \subseteq Seq(0..1)
    /\ MaxBatches \in [Conns -> Nat]
    /\ PostErrors \in BOOLEAN

CQs == {CQOf[c] : c \in Conns} \union {RecvCQ[c] : c \in Conns}
Procs == Conns \union {Poller}

VARIABLES
    free,       \* buffers in the pool, in the order they leave it
    handler,    \* the connection registered for each receive queue
    recvBufs,   \* the map of each connection, WRID to buffer
    posted,     \* receive requests of each QP, oldest first
    cqes,       \* completions of each QP, oldest first, with what the NIC
                \* has written to the buffer
    broken,     \* connections whose QP has reported an error
    recvCh,     \* messages that wait for Recv, for each connection
    closed,     \* connections whose done channel is closed
    pc,         \* where the goroutines are; "panicked" ends them all
    work,       \* what they work on: a connection, a buffer, messages
    left,       \* buffers each set-up has still to post
    filled,     \* buffers each peer has filled (bound)
    numbers,    \* messages each peer has sent in whole batches
    received,   \* the last message Recv has returned (history)
    dropped,    \* connections DeliverRecv has dropped messages of (history)
    shortage,   \* connections that failed to post a buffer (history)
    misrouted   \* connections with a completion that went from one to the
                \* other (history)

nicVars == <<posted, cqes, broken, filled, numbers>>
appVars == <<recvCh, closed, received, dropped>>
procVars == <<pc, work, left>>
history == <<shortage, misrouted>>
vars == <<free, handler, recvBufs, nicVars, appVars, procVars, history>>

Idle == [conn |-> None, buf |-> None, data |-> << >>]

Init ==
    /\ free = SetToSeq(Buffers)
    /\ handler = [q \in CQs |-> None]
    /\ recvBufs = [c \in Conns |-> {}]
    /\ posted = [c \in Conns |-> << >>]
    /\ cqes = [c \in Conns |-> << >>]
    /\ broken = {}
    /\ recvCh = [c \in Conns |-> << >>]
    /\ closed = {}
    /\ pc = [p \in Procs |-> IF p = Poller THEN "poll" ELSE "register"]
    /\ work = [p \in Procs |-> Idle]
    /\ left = [c \in Conns |-> QueueDepth]
    /\ filled = [c \in Conns |-> 0]
    /\ numbers = [c \in Conns |-> 0]
    /\ received = [c \in Conns |-> 0]
    /\ dropped = {}
    /\ shortage = {} /\ misrouted = {}

Running == \A p \in Procs : pc[p] # "panicked"
Goto(p, from, to) ==
    /\ Running
    /\ pc[p] = from
    /\ pc' = [pc EXCEPT ![p] = to]

-----------------------------------------------------------------------------
(* The NIC, as long as the process is there.                                *)

(* The messages of a batch are numbered; a message of length 0 carries no   *)
(* number.                                                                  *)
Messages(c, lengths) ==
    [i \in DOMAIN lengths |->
        IF lengths[i] = 0 THEN << >> ELSE <<numbers[c] + i>>]

(* A send of the peer fills the oldest request.                             *)
Fill(c, data) ==
    /\ Running
    /\ posted[c] # << >>
    /\ c \notin closed \union broken
    /\ filled[c] < MaxBatches[c]
    /\ posted' = [posted EXCEPT ![c] = Tail(@)]
    /\ cqes' = [cqes EXCEPT ![c] =
                  Append(@, [buf |-> Head(posted[c]), data |-> data])]
    /\ filled' = [filled EXCEPT ![c] = @ + 1]
    /\ UNCHANGED <<free, handler, recvBufs, broken, appVars, procVars, history>>

Arrive(c) ==
    \E lengths \in Batches :
        /\ Fill(c, PackBatch(Messages(c, lengths)))
        /\ numbers' = [numbers EXCEPT ![c] = @ + Len(lengths)]

(* A batch that is cut short, or nothing but immediate data.                *)
ArriveSpoilt(c) ==
    /\ \/ Fill(c, << >>)
       \/ \E lengths \in Batches :
              Fill(c, Front(PackBatch(Messages(c, lengths))))
    /\ numbers' = numbers

(* A request completes with an error, because the queue pair was closed or, *)
(* on an open connection, because the peer is gone or a message was longer  *)
(* than the buffer; the queue pair then takes nothing more.  OnError does   *)
(* nothing: no buffer is posted in its place.                               *)
FlushRecv(c) ==
    /\ Running
    /\ posted[c] # << >>
    /\ posted' = [posted EXCEPT ![c] = Tail(@)]
    /\ broken' = broken \union {c}
    /\ UNCHANGED <<free, handler, recvBufs, cqes, filled, numbers, appVars,
                   procVars, history>>

-----------------------------------------------------------------------------
(* PostRecvBuffers, called by the set-up with a count of QueueDepth and by  *)
(* the poller with a count of 1.                                            *)

(* wireRecvPath: AddCQ registers the connection for the manager's queue if  *)
(* the queue has no handler; its error is ignored.                          *)
Register(c) ==
    /\ Goto(c, "register", "alloc")
    /\ handler' = [handler EXCEPT ![RecvCQ[c]] = IF @ = None THEN c ELSE @]
    /\ work' = [work EXCEPT ![c].conn = c]
    /\ UNCHANGED <<free, recvBufs, nicVars, appVars, left, history>>

(* Where a failed call leads: Connect fails, replenishRecv ignores it.      *)
AfterError(p) == IF p = Poller THEN "poll" ELSE "failed"
Failed(p) ==
    /\ shortage' = shortage \union {work[p].conn}
    /\ UNCHANGED misrouted

Track(c, b) == recvBufs' = [recvBufs EXCEPT ![c] = @ \union {b}]

(* Mutant: the buffer is not in the map when it is posted.                  *)
AllocUntracked(p) ==
    /\ free # << >>
    /\ Goto(p, "alloc", "post")
    /\ free' = Tail(free)
    /\ work' = [work EXCEPT ![p].buf = Head(free)]
    /\ UNCHANGED <<handler, recvBufs, nicVars, appVars, left, history>>

(* A buffer from the pool, entered in the map before it is posted, or the   *)
(* timeout of an empty pool.                                                *)
AllocBuffer(p) ==
    \/ /\ free # << >>
       /\ Goto(p, "alloc", "post")
       /\ free' = Tail(free)
       /\ work' = [work EXCEPT ![p].buf = Head(free)]
       /\ Track(work[p].conn, Head(free))
       /\ UNCHANGED <<handler, nicVars, appVars, left, history>>
    \/ /\ free = << >>
       /\ Goto(p, "alloc", AfterError(p))
       /\ Failed(p)
       /\ work' = [work EXCEPT ![p] = Idle]
       /\ UNCHANGED <<free, handler, recvBufs, nicVars, appVars, left>>

(* The buffer is posted, and the next one follows if the count asks for it. *)
PostRecv(p) ==
    LET more == p # Poller /\ left[p] > 1 IN
    /\ Goto(p, "post", CASE p = Poller -> "poll"
                         [] more -> "alloc"
                         [] OTHER -> "connected")
    /\ posted' = [posted EXCEPT ![work[p].conn] = Append(@, work[p].buf)]
    /\ left' = IF p = Poller THEN left ELSE [left EXCEPT ![p] = @ - 1]
    /\ work' = [work EXCEPT ![p] =
                    IF more THEN [Idle EXCEPT !.conn = p] ELSE Idle]
    /\ UNCHANGED <<free, handler, recvBufs, cqes, broken, filled, numbers,
                   appVars, history>>

PostRecvFails(p) ==
    /\ PostErrors
    /\ Goto(p, "post", AfterError(p))
    /\ recvBufs' = [recvBufs EXCEPT ![work[p].conn] = @ \ {work[p].buf}]
    /\ free' = Append(free, work[p].buf)
    /\ Failed(p)
    /\ work' = [work EXCEPT ![p] = Idle]
    /\ UNCHANGED <<handler, nicVars, appVars, left>>

PostRecvBuffers(p) == AllocBuffer(p) \/ PostRecv(p) \/ PostRecvFails(p)

-----------------------------------------------------------------------------
(* OnCompletion of the connection registered for the queue.                 *)

Known(c, b) == b \in recvBufs[c]

(* The oldest completion of connection c is handed to the handler of its    *)
(* queue; a queue without one is not polled.  Without data, or with a WRID  *)
(* that is not in the map of the handler, a buffer is posted next.          *)
TakeCompletion(c, h) ==
    LET wc == Head(cqes[c]) IN
    /\ cqes[c] # << >>
    /\ h # None
    /\ Goto(Poller, "poll",
            IF wc.data # << >> /\ Known(h, wc.buf) THEN "unpack" ELSE "alloc")
    /\ work' = [work EXCEPT ![Poller] =
                    [conn |-> h, buf |-> wc.buf, data |-> wc.data]]
    /\ cqes' = [cqes EXCEPT ![c] = Tail(@)]
    /\ misrouted' = IF h = c THEN misrouted ELSE misrouted \union {h, c}
    /\ UNCHANGED <<handler, posted, broken, filled, numbers, appVars, left,
                   shortage>>

(* Mutant: the buffer is back in the pool before its batch is unpacked.     *)
PollFreesBuffer(c) ==
    LET h == handler[CQOf[c]] IN
    /\ TakeCompletion(c, h)
    /\ recvBufs' = [recvBufs EXCEPT ![h] = @ \ {Head(cqes[c]).buf}]
    /\ free' = Append(free, Head(cqes[c]).buf)

(* The entry of the WRID leaves the handler's map, except without data.     *)
Poll(c) ==
    LET h == handler[CQOf[c]]
        wc == Head(cqes[c])
    IN  /\ TakeCompletion(c, h)
        /\ recvBufs' = IF wc.data = << >> THEN recvBufs
                       ELSE [recvBufs EXCEPT ![h] = @ \ {wc.buf}]
        /\ UNCHANGED free

(* What is to be delivered takes the place of the data.                     *)
Unpacked(next) ==
    LET unpacked == UnpackBatch(work[Poller].data) IN
    /\ Goto(Poller, "unpack", IF unpacked = {} THEN next ELSE "deliver")
    /\ work' = [work EXCEPT ![Poller].buf = None,
                            ![Poller].data = IF unpacked = {} THEN << >>
                                             ELSE CHOOSE ms \in unpacked : TRUE]
    /\ UNCHANGED <<free, handler, recvBufs, nicVars, appVars, left, history>>

(* Mutant: a batch that cannot be unpacked ends the completion.             *)
UnpackEnds == Unpacked("poll")

(* The messages are copied out of the buffer, which is not freed; a batch   *)
(* that cannot be unpacked counts as an error.                              *)
Unpack == Unpacked("alloc")

(* Mutant: the send to recvCh waits for room.                               *)
DeliverBlocking(c, m) ==
    /\ Len(recvCh[c]) < RecvDepth
    /\ recvCh' = [recvCh EXCEPT ![c] = Append(@, m)]
    /\ dropped' = dropped

(* DeliverRecv: a message that finds recvCh full is dropped.                *)
DeliverRecv(c, m) ==
    IF Len(recvCh[c]) < RecvDepth
    THEN recvCh' = [recvCh EXCEPT ![c] = Append(@, m)] /\ dropped' = dropped
    ELSE dropped' = dropped \union {c} /\ recvCh' = recvCh

(* One message after the other, then a buffer is posted; the address of     *)
(* an empty message is taken, which panics.                                 *)
Deliver ==
    LET w == work[Poller]
        empty == w.data # << >> /\ Head(w.data) = << >>
    IN  /\ Goto(Poller, "deliver", CASE empty -> "panicked"
                                     [] w.data = << >> -> "alloc"
                                     [] OTHER -> "deliver")
        /\ IF empty \/ w.data = << >>
           THEN UNCHANGED <<recvCh, dropped, work>>
           ELSE /\ DeliverRecv(w.conn, Head(w.data))
                /\ work' = [work EXCEPT ![Poller].data = Tail(@)]
        /\ UNCHANGED <<free, handler, recvBufs, nicVars, closed, received,
                       left, history>>

OnCompletion == Unpack \/ Deliver

-----------------------------------------------------------------------------
(* The application.                                                         *)

(* Recv takes the oldest message, of a closed connection only if the select *)
(* does not take the done channel.                                          *)
Recv(c) ==
    /\ Running
    /\ pc[c] = "connected"
    /\ recvCh[c] # << >>
    /\ received' = [received EXCEPT ![c] = Head(recvCh[c])[1]]
    /\ recvCh' = [recvCh EXCEPT ![c] = Tail(@)]
    /\ UNCHANGED <<free, handler, recvBufs, nicVars, closed, dropped,
                   procVars, history>>

Close(c) ==
    /\ Running
    /\ pc[c] = "connected"
    /\ c \notin closed
    /\ closed' = closed \union {c}
    /\ UNCHANGED <<free, handler, recvBufs, nicVars, recvCh, received,
                   dropped, procVars, history>>

-----------------------------------------------------------------------------

PollerStep ==
    PostRecvBuffers(Poller) \/ OnCompletion \/ \E c \in Conns : Poll(c)

Next ==
    \/ \E c \in Conns :
          \/ Arrive(c) \/ ArriveSpoilt(c) \/ FlushRecv(c)
          \/ Register(c) \/ PostRecvBuffers(c)
          \/ Recv(c) \/ Close(c)
    \/ PollerStep

Spec == Init /\ [][Next]_vars

(* The poller's goroutine runs.  Nobody has to send or to call Recv.        *)
Fairness == WF_vars(PollerStep)

FairSpec == Spec /\ Fairness

-----------------------------------------------------------------------------

TypeOK ==
    /\ free \in Seq(Buffers)
    /\ handler \in [CQs -> Conns \union {None}]
    /\ recvBufs \in [Conns -> SUBSET Buffers]
    /\ posted \in [Conns -> Seq(Buffers)]
    /\ cqes \in [Conns -> Seq([buf : Buffers, data : Seq(Nat)])]
    /\ broken \subseteq Conns
    /\ recvCh \in [Conns -> Seq(Seq(Nat))]
    /\ received \in [Conns -> Nat] /\ dropped \subseteq Conns
    /\ closed \subseteq Conns
    /\ shortage \subseteq Conns /\ misrouted \subseteq Conns
    /\ \A c \in Conns :
          pc[c] \in {"register", "alloc", "post", "connected", "failed"}
    /\ pc[Poller] \in {"poll", "unpack", "deliver", "alloc", "post", "panicked"}
    /\ \A p \in Procs :
          /\ work[p].conn \in Conns \union {None}
          /\ work[p].buf \in Buffers \union {None}
          /\ work[p].data \in Seq(IF pc[p] \in {"deliver", "panicked"}
                              THEN Seq(Nat) ELSE Nat)
    /\ left \in [Conns -> 0..QueueDepth]

(* The buffer of a completion is in the map of its connection, though the   *)
(* completion may be dispatched before PostRecv has returned: the WRID is   *)
(* unknown only where it is handed to another connection.                   *)
CompletionIsKnown ==
    \A c \in Conns : \A i \in DOMAIN cqes[c] : Known(c, cqes[c][i].buf)

(* Where a receive buffer can be: in the pool, posted to a queue pair, in a *)
(* completion, or with a goroutine that is about to post it or reads it.    *)
Stores ==
    {<<"pool", None>>} \union ({"posted"} \X Conns)
        \union ({"completed"} \X Conns) \union ({"held"} \X Procs)
Store(k) ==
    CASE k[1] = "pool" -> free
      [] k[1] = "posted" -> posted[k[2]]
      [] k[1] = "completed" -> [i \in DOMAIN cqes[k[2]] |-> cqes[k[2]][i].buf]
      [] k[1] = "held" -> IF pc[k[2]] \in {"post", "unpack"}
                          THEN <<work[k[2]].buf>> ELSE << >>

(* A receive buffer is in one place at a time, though it goes from the pool *)
(* to the NIC and to the poller without a lock that all of them share.      *)
OneReceiver ==
    \A k, l \in Stores : \A i \in DOMAIN Store(k), j \in DOMAIN Store(l) :
        Store(k)[i] = Store(l)[j] => <<k, i>> = <<l, j>>

(* Recv returns the messages of whole batches in the order they were sent,  *)
(* none twice and none missing in between unless it found recvCh full, and  *)
(* nothing of a batch that was cut short or of another connection.          *)
InOrder ==
    \A c \in Conns :
        LET got == <<received[c]>> \o [i \in DOMAIN recvCh[c] |-> recvCh[c][i][1]]
        IN \A i \in 2..Len(got) :
              IF c \in dropped THEN got[i] > got[i - 1]
                               ELSE got[i] = got[i - 1] + 1

(* Every completion, also one without data or with a batch that cannot be   *)
(* unpacked, puts a buffer back in its place: the receive queue of an open  *)
(* connection keeps its depth, as long as there are buffers, the NIC takes  *)
(* them, the queue pair has reported no error and no completion has gone to *)
(* another connection or come from one.                                     *)
Outstanding(c) ==
    Len(posted[c]) + Len(cqes[c])
      + (IF pc[Poller] # "poll" /\ work[Poller].conn = c THEN 1 ELSE 0)
PipelineFull ==
    \A c \in Conns \ (closed \union broken \union shortage \union misrouted) :
        pc[c] = "connected" => Outstanding(c) = QueueDepth

(* What the comment of replenishRecv says: the pipeline is kept full.       *)
PipelineKeptFull ==
    \A c \in Conns \ (closed \union broken) :
        pc[c] = "connected" => Outstanding(c) = QueueDepth

(* What the comment of wireRecvPath says: the connection is the handler for *)
(* its RecvCQ.                                                              *)
HandlesOwnCompletions ==
    \A c \in Conns : cqes[c] # << >> => handler[CQOf[c]] = c

(* Every completion is dispatched: neither a full recvCh nor an empty pool  *)
(* stops the poller, though nobody ever calls Recv.  It needs a dialer that *)
(* completes to the queue the manager registers.                            *)
CompletionsAreHandled ==
    \A c \in Conns : (cqes[c] # << >> /\ Running)
                        ~> (cqes[c] = << >> \/ ~Running)
=============================================================================
