----------------------------- MODULE Aggregator -----------------------------
(***************************************************************************)
(* pkg/message/aggregator.go: goroutines that call Send and Flush, the     *)
(* poller goroutine that calls OnSendComplete, and below them the send     *)
(* pool, the connection and the NIC as far as the aggregator sees them.    *)
(*                                                                         *)
(* Message m is the m-th one handed to Send; Size[m] is its length framed  *)
(* with the application header.  A batch is a sequence of messages in one  *)
(* buffer.  Buffers are counted, not named: SendPath follows each of them. *)
(* The pool is shared with other connections, which take buffers from it   *)
(* and give them back.                                                     *)
(***************************************************************************)
EXTENDS Integers, Sequences, FiniteSets

CONSTANTS
    Callers,        \* goroutines that call Send and Flush
    Poller,         \* the goroutine that dispatches send completions
    Nobody,         \* holds a.mu when it is free
    Size,           \* framed size of each message, in order of the calls
    HeaderSize,     \* CmdHeaderSize
    BufferSize,     \* a.bufferSize, and the length of a pool buffer
    SendThreshold,  \* a.sendThreshold
    BufferCount,    \* buffers of the send pool
    OthersMax,      \* buffers the pool's other users hold at most
    EnableAggregate,
    Failures        \* kinds of failure of the layers below, see below

FailureKinds ==
    { "notConnected",   \* Conn.Send returns ErrNotConnected
      "postError",      \* PostSend fails and the buffer is given back
      "wcError" }       \* a send completes with an error status

ASSUME AggregatorAssumption ==
    /\ Poller \notin Callers
    /\ Nobody \notin Callers \union {Poller}
    /\ Size \in Seq(Nat \ {0})
    /\ HeaderSize \in Nat
    /\ BufferSize \in Nat
    /\ SendThreshold \in Nat
    /\ BufferCount \in Nat \ {0}
    /\ OthersMax \in Nat
    /\ EnableAggregate \in BOOLEAN
    /\ Failures \subseteq FailureKinds

Messages == DOMAIN Size

BatchSize(b) ==
    LET total[i \in 0..Len(b)] == IF i = 0 THEN 0 ELSE total[i - 1] + Size[b[i]]
    IN total[Len(b)]
Fits(b) == HeaderSize + BatchSize(b) <= BufferSize
Procs == Callers \union {Poller}

VARIABLES
    busy,           \* the shared isBusy flag
    mu,             \* who holds a.mu
    pending,        \* a.pending
    pendingSize,    \* a.pendingSize
    ongoing,        \* a.ongoingSends
    free,           \* buffers in the pool
    others,         \* buffers its other users have
    posted,         \* batches the NIC has
    wire,           \* every message posted so far, in order (history)
    next,           \* the next message to be handed to Send
    pc,             \* where each goroutine is
    msg,            \* the message its Send is for; 0 in Flush
    batch,          \* the batch it is about to post
    result,         \* what Send returned for each message (history)
    failed,         \* the kinds of failure there have been (history)
    starved         \* the last idle flush found no buffer (history)

pendVars == <<pending, pendingSize>>
env == <<busy, others>>
out == <<posted, wire, failed, starved>>
vars == <<env, mu, pendVars, ongoing, free, out, next, pc, msg,
          batch, result>>

Init ==
    /\ busy \in BOOLEAN
    /\ mu = Nobody
    /\ pending = << >> /\ pendingSize = 0
    /\ ongoing = 0
    /\ free = BufferCount /\ others = 0
    /\ posted = {} /\ wire = << >>
    /\ next = 1
    /\ pc = [p \in Procs |-> "idle"]
    /\ msg = [p \in Procs |-> 0]
    /\ batch = [p \in Procs |-> << >>]
    /\ result = [m \in Messages |-> "none"]
    /\ failed = {} /\ starved = FALSE

At(p, loc) == pc[p] = loc
Goto(p, loc) == pc' = [pc EXCEPT ![p] = loc]

(* Mutant: the lock is kept.                                                *)
ReturnLocked(p, r) ==
    /\ Goto(p, "idle")
    /\ msg' = [msg EXCEPT ![p] = 0]
    /\ batch' = [batch EXCEPT ![p] = << >>]
    /\ mu' = mu
    /\ result' = IF msg[p] = 0 THEN result ELSE [result EXCEPT ![msg[p]] = r]

(* The call of p returns r; the lock is released if p holds it.             *)
Return(p, r) ==
    /\ Goto(p, "idle")
    /\ msg' = [msg EXCEPT ![p] = 0]
    /\ batch' = [batch EXCEPT ![p] = << >>]
    /\ mu' = IF mu = p THEN Nobody ELSE mu
    /\ result' = IF msg[p] = 0 THEN result ELSE [result EXCEPT ![msg[p]] = r]

(* The shared flag belongs to a monitor outside the aggregator.             *)
SetBusy ==
    /\ busy' = ~busy
    /\ UNCHANGED <<others, mu, pendVars, ongoing, free, out, next, pc, msg,
                   batch, result>>

(* The other connections use the same SendPool.                             *)
OthersAcquire ==
    /\ free > 0 /\ others < OthersMax
    /\ free' = free - 1 /\ others' = others + 1
    /\ UNCHANGED <<busy, mu, pendVars, ongoing, out, next, pc, msg,
                   batch, result>>

OthersComplete ==
    /\ others > 0
    /\ free' = free + 1 /\ others' = others - 1
    /\ UNCHANGED <<busy, mu, pendVars, ongoing, out, next, pc, msg,
                   batch, result>>

-----------------------------------------------------------------------------
(* Send and Flush are called.                                               *)

Send(p) ==
    /\ At(p, "idle")
    /\ next \in Messages
    /\ next' = next + 1
    /\ msg' = [msg EXCEPT ![p] = next]
    /\ Goto(p, IF EnableAggregate /\ busy THEN "lock" ELSE "acquire")
    /\ UNCHANGED <<env, mu, pendVars, ongoing, free, out, batch, result>>

CallFlush(p) ==
    /\ At(p, "idle")
    /\ mu = Nobody
    /\ pending # << >>
    /\ mu' = p
    /\ Goto(p, "flush")
    /\ UNCHANGED <<env, pendVars, ongoing, free, out, next, msg,
                   batch, result>>

-----------------------------------------------------------------------------
(* immediateSend, without the lock.                                         *)

(* AcquireForSend waits for a buffer and gives up after a timeout.          *)
Acquire(p) ==
    /\ At(p, "acquire")
    /\ \/ free > 0 /\ free' = free - 1 /\ Goto(p, "fit")
                   /\ UNCHANGED <<mu, msg, batch, result>>
       \/ free = 0 /\ free' = free /\ Return(p, "error")
    /\ UNCHANGED <<env, pendVars, ongoing, out, next>>

TooLarge(p) == HeaderSize + Size[msg[p]] > BufferSize

(* Too large a message gives the buffer back; any other is counted.         *)
ImmediateFit(p) ==
    /\ At(p, "fit")
    /\ IF TooLarge(p)
       THEN /\ free' = free + 1
            /\ Return(p, "error")
            /\ ongoing' = ongoing
       ELSE /\ ongoing' = ongoing + 1
            /\ batch' = [batch EXCEPT ![p] = <<msg[p]>>]
            /\ Goto(p, "post")
            /\ UNCHANGED <<mu, msg, free, result>>
    /\ UNCHANGED <<env, pendVars, out, next>>

-----------------------------------------------------------------------------
(* aggregateSend, under the lock from Lock to Return.                       *)

(* The message joins the batch; a batch above the threshold is flushed.     *)
AppendMessage(p) ==
    /\ pending' = Append(pending, msg[p])
    /\ pendingSize' = pendingSize + Size[msg[p]]
    /\ Goto(p, IF HeaderSize + pendingSize' > SendThreshold
               THEN "flush" ELSE "idleTest")

(* Mutant: the command header is left out of the sum.                       *)
OverflowsWithoutHeader(p) ==
    pendingSize > 0 /\ pendingSize + Size[msg[p]] > BufferSize

Overflows(p) ==
    pendingSize > 0 /\ HeaderSize + pendingSize + Size[msg[p]] > BufferSize

(* Overflow: the batch is flushed first if the message would not fit in.    *)
Lock(p) ==
    /\ At(p, "lock")
    /\ mu = Nobody
    /\ mu' = p
    /\ IF Overflows(p)
       THEN Goto(p, "overflow") /\ UNCHANGED pendVars
       ELSE AppendMessage(p)
    /\ UNCHANGED <<env, ongoing, free, out, next, msg, batch, result>>

AfterOverflow(p) ==
    /\ At(p, "append")
    /\ AppendMessage(p)
    /\ UNCHANGED <<env, mu, ongoing, free, out, next, msg, batch, result>>

IdleTest(p) ==
    /\ At(p, "idleTest")
    /\ IF ongoing = 0
       THEN Goto(p, "flush") /\ UNCHANGED <<mu, msg, batch, result>>
       ELSE Return(p, "ok")
    /\ UNCHANGED <<env, pendVars, ongoing, free, out, next>>

(* Mutant: the messages stay pending while they are sent.                   *)
FlushKeepsPending(p, from, to) ==
    /\ At(p, from)
    /\ free > 0
    /\ free' = free - 1
    /\ batch' = [batch EXCEPT ![p] = pending]
    /\ ongoing' = ongoing + 1
    /\ Goto(p, to)
    /\ UNCHANGED <<env, mu, pendVars, out, next, msg, result>>

(* flushLocked up to conn.Send.  Without a buffer the messages are put back *)
(* and the caller gets the error; OnSendComplete discards it.               *)
FlushAcquire(p, from, to) ==
    /\ At(p, from)
    /\ \/ /\ free > 0
          /\ free' = free - 1
          /\ batch' = [batch EXCEPT ![p] = pending]
          /\ pending' = << >> /\ pendingSize' = 0
          /\ ongoing' = ongoing + 1
          /\ Goto(p, to)
          /\ starved' = FALSE
          /\ UNCHANGED <<mu, msg, result>>
       \/ /\ free = 0
          /\ Return(p, "error")
          /\ starved' = (starved \/ p = Poller)
          /\ UNCHANGED <<pendVars, ongoing, free>>
    /\ UNCHANGED <<env, posted, wire, failed, next>>

OverflowFlush(p) == FlushAcquire(p, "overflow", "overflowPost")
FlushLocked(p) == FlushAcquire(p, "flush", "post")

-----------------------------------------------------------------------------
(* conn.Send.  What it returns is what the caller of Send gets, but for the *)
(* overflow flush, after which aggregateSend goes on.                       *)

Post(p) ==
    /\ posted' = posted \union {batch[p]}
    /\ wire' = wire \o batch[p]
    /\ UNCHANGED <<free, failed, starved>>

PostFails(p) ==
    /\ \E kind \in Failures \ {"wcError"} :
          /\ failed' = failed \union {kind}
          /\ free' = IF kind = "postError" THEN free + 1 ELSE free
    /\ UNCHANGED <<posted, wire, starved>>

ConnSend(p) ==
    /\ At(p, "post")
    /\ \/ Post(p) /\ Return(p, "ok")
       \/ PostFails(p) /\ Return(p, "error")
    /\ UNCHANGED <<env, pendVars, ongoing, next>>

OverflowConnSend(p) ==
    /\ At(p, "overflowPost")
    /\ \/ /\ Post(p)
          /\ Goto(p, "append")
          /\ batch' = [batch EXCEPT ![p] = << >>]
          /\ UNCHANGED <<mu, msg, result>>
       \/ PostFails(p) /\ Return(p, "error")
    /\ UNCHANGED <<env, pendVars, ongoing, next>>

-----------------------------------------------------------------------------
(* A send completes: the buffer is freed, and after a success, and only     *)
(* then, OnSendComplete is called.  A request that is longer than the       *)
(* memory region of its buffer completes with an error.                     *)
SendCompletion(b) ==
    /\ At(Poller, "idle")
    /\ b \in posted
    /\ posted' = posted \ {b}
    /\ free' = free + 1
    /\ \/ Fits(b) /\ Goto(Poller, "complete") /\ failed' = failed
       \/ /\ "wcError" \in Failures \/ ~Fits(b)
          /\ failed' = failed \union {"wcError"}
          /\ pc' = pc
    /\ UNCHANGED <<env, mu, pendVars, ongoing, wire, starved, next, msg, batch,
                   result>>

(* Mutant: nobody looks for pending messages after the last completion.     *)
OnSendCompleteCountsOnly ==
    /\ At(Poller, "complete")
    /\ ongoing' = ongoing - 1
    /\ Goto(Poller, "idle")
    /\ UNCHANGED <<env, mu, pendVars, free, out, next, msg, batch, result>>

(* The last completion takes the lock to look for pending messages.         *)
OnSendComplete ==
    /\ At(Poller, "complete")
    /\ ongoing' = ongoing - 1
    /\ Goto(Poller, IF ongoing' = 0 THEN "idleFlush" ELSE "idle")
    /\ UNCHANGED <<env, mu, pendVars, free, out, next, msg, batch, result>>

IdleFlush ==
    /\ At(Poller, "idleFlush")
    /\ mu = Nobody
    /\ IF pending = << >>
       THEN Goto(Poller, "idle") /\ mu' = mu
       ELSE Goto(Poller, "flush") /\ mu' = Poller
    /\ UNCHANGED <<env, pendVars, ongoing, free, out, next, msg, batch, result>>

-----------------------------------------------------------------------------

FlushStep(p) == FlushLocked(p) \/ ConnSend(p)

CallerStep(p) ==
    \/ Acquire(p) \/ ImmediateFit(p)
    \/ Lock(p) \/ OverflowFlush(p) \/ OverflowConnSend(p) \/ AfterOverflow(p)
    \/ IdleTest(p) \/ FlushStep(p)

PollerStep == OnSendComplete \/ IdleFlush \/ FlushStep(Poller)

Next ==
    \/ SetBusy \/ OthersAcquire \/ OthersComplete
    \/ \E p \in Callers : Send(p) \/ CallFlush(p) \/ CallerStep(p)
    \/ \E b \in posted : SendCompletion(b)
    \/ PollerStep

Spec == Init /\ [][Next]_vars

(* Goroutines run, sync.Mutex starves nobody, and the NIC completes what it *)
(* was given.  Nobody has to call Send or Flush.                            *)
Fairness ==
    /\ \A p \in Callers : WF_vars(CallerStep(p)) /\ SF_vars(Lock(p))
    /\ WF_vars(PollerStep) /\ SF_vars(IdleFlush)
    /\ WF_vars(\E b \in posted : SendCompletion(b))

FairSpec == Spec /\ Fairness

(* The sends of the other connections complete as well.                     *)
SharedFairSpec == FairSpec /\ WF_vars(OthersComplete)

-----------------------------------------------------------------------------

Locations == {"idle", "lock", "acquire", "fit", "overflow", "overflowPost",
              "append", "idleTest", "flush", "post", "complete", "idleFlush"}

TypeOK ==
    /\ busy \in BOOLEAN
    /\ mu \in Procs \union {Nobody}
    /\ pending \in Seq(Messages) /\ pendingSize \in Nat
    /\ ongoing \in Nat
    /\ free \in 0..BufferCount /\ others \in 0..OthersMax
    /\ posted \subseteq Seq(Messages) /\ wire \in Seq(Messages)
    /\ next \in Nat
    /\ pc \in [Procs -> Locations]
    /\ msg \in [Procs -> Messages \union {0}]
    /\ batch \in [Procs -> Seq(Messages)]
    /\ result \in [Messages -> {"none", "ok", "error"}]
    /\ failed \subseteq FailureKinds /\ starved \in BOOLEAN

(* A batch fits the buffer it is packed into: pendingSize and the overflow  *)
(* trigger account for every message, also after flushes that failed.  The  *)
(* exception is a message that no buffer holds.                             *)
BatchFits ==
    \A p \in Procs :
        batch[p] # << >> /\ (\A i \in DOMAIN batch[p] : Fits(<<batch[p][i]>>))
            => Fits(batch[p])

(* The places a message can be in: pending, in the batch of a goroutine, on *)
(* the wire.                                                                *)
Stores ==
    {<<"pending", Nobody>>, <<"wire", Nobody>>} \union ({"batch"} \X Procs)
Store(k) ==
    CASE k[1] = "pending" -> pending
      [] k[1] = "wire" -> wire
      [] k[1] = "batch" -> batch[k[2]]
Places(m) ==
    UNION {{<<k, i>> : i \in {j \in DOMAIN Store(k) : Store(k)[j] = m}} : k \in Stores}

(* A message is never there twice, and until a post or a completion fails,  *)
(* one whose Send returned nil is not lost: it is pending, in a batch about *)
(* to be posted, or on the wire.                                            *)
AcceptedOnce ==
    \A m \in Messages :
        /\ Cardinality(Places(m)) <= 1
        /\ result[m] = "ok" => failed # {} \/ Cardinality(Places(m)) = 1

(* Every accepted message is posted in the end, without another Send or a   *)
(* Flush to push it out, unless something fails or the idle flush after the *)
(* last completion finds that other connections have all the buffers.       *)
OnWire(m) == \E i \in DOMAIN wire : wire[i] = m
AcceptedIsPosted ==
    \A m \in Messages :
        (result[m] = "ok") ~> (failed # {} \/ starved \/ OnWire(m))

(* What the comment of OnSendComplete says of it: the last completion       *)
(* flushes what is pending, so an accepted message is posted whatever the   *)
(* other connections do.                                                    *)
IdleTriggerFlushes ==
    \A m \in Messages : (result[m] = "ok") ~> (failed # {} \/ OnWire(m))

(* Every call of Send and Flush returns: the lock is always given back, and *)
(* the poller and the senders do not wait for each other.                   *)
CallsReturn == \A p \in Callers : ~At(p, "idle") ~> At(p, "idle")
=============================================================================
