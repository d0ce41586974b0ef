# TLA+ models of golinker

golinker is an RDMA messaging library in Go: connections are set up through the
RDMA connection manager (CM), messages are packed into registered buffers and
posted to a queue pair, and a poller takes the completions off the completion
queues and hands them to handlers. This directory holds models of its
concurrent core, TLC runs that check them on small instances, and proofs, for
every value of the constants, about the parts where a mistake is least likely
to show in a test.

`PROJECT.json` is the index: the components with what models them, the runs,
the source lines of every definition, the findings, the hazards and the
theorems.

## The system

| Component | Source | State | Operations | Talks to |
|---|---|---|---|---|
| CQ poller | `pkg/cq/poller.go` | entries (queue, handler, dup'ed file, cancel), started flag, context, wait group, token channel | Start, AddCQ, RemoveCQ, Notify, Close; a poll loop, a waiter goroutine per queue | device queues; calls handlers |
| Send completion dispatch | `pkg/cq/dispatcher.go` | WRID → buffer map under a mutex | TrackSend, OnCompletion, OnError | called by Conn.Send and by the poller; calls SendPool |
| Poller pool | `pkg/cq/pool.go` | pollers, their load, the queue's poller | Assign, Release, Close | owns several pollers |
| Buffer pool | `pkg/buffer/pool.go` | free channel, all buffers and memory regions, closed flag | NewPool, Alloc, Free, Close | device registrations |
| Send pool | `pkg/buffer/send_pool.go` | set and count of buffers in flight | AcquireForSend, CompleteSend, IsBusy | Buffer pool |
| Receive pool | `pkg/buffer/recv_pool.go` | none of its own | Alloc, Free, PostRecvBuffers, Replenish | Buffer pool |
| Aggregation | `pkg/message/aggregator.go`, `immediate.go` | pending messages and size, sends under way, busy flag | Send, Flush, OnSendComplete | Send pool, Conn.Send |
| Wire format | `pkg/message/wire.go` | none | PackBatch, UnpackBatch, BatchSize | pure |
| Connection | `pkg/connection/conn.go` | state, WRID counter, receive buffers by WRID, receive channel, done channel | Send, Recv, Close, PostRecvBuffers, OnCompletion, state callbacks | pools, verbs, dispatcher |
| Connection manager | `pkg/connection/manager.go`, `cm_events.go` | connections by id and by CM id, accept channel, closed flag | Connect, Accept, Close, CM events | dialer, poller, Conn |
| Server | `pkg/server` | connections, wait group of the goroutines, context, started flag | Start, Stop, accept loop, handler per connection | Connection manager |
| CM dialer, listener | `internal/rdma/*cm.go`, `listener.go`, `dial.go` | CM ids, event channels, connections accepted but not established | Dial, Listen, Accept, Close, Disconnect | librdmacm; hands a queue pair to the transport |
| Ping-pong transport | `internal/rdma/pingpong.go` | a send and a receive buffer with their regions | Send, Recv, SendRaw, RecvInPlace, CopyRecvToSend, Close | verbs; driven by the loops of `golinker-bench` |
| Verbs, API, configuration, commands | the rest of `internal/rdma`, `api`, `pkg/config`, `cmd` | none worth a model | bindings, interfaces, records, programs | |

How they interact. A send takes a buffer from the send pool, is numbered and
tracked in the dispatcher, and is posted; the device completes it; a goroutine of
the poller calls the dispatcher, which gives the buffer back and may run the
aggregator's idle trigger *on the poller's goroutine*. A receive completes into a
buffer posted earlier; the poller calls `Conn.OnCompletion`, which unpacks,
delivers to a bounded channel and posts another buffer, again on the poller's
goroutine. Set-up (`Manager.Connect`) and tear-down (`Close` of everything)
run on callers' goroutines while the poller dispatches.

What is hard, and the property each part stands or falls by:

- *Poller.* Edge-triggered wake-ups: a completion that lands between the last empty
  poll and the arming of the queue raises no event. Start, AddCQ, RemoveCQ and
  Close overlap with the scan of the loop and with each other; Close waits
  for goroutines that are parked in a read. *No waiter sleeps on work; each
  queue has exactly one waiter; Close ends everything.*
- *Buffers.* A buffer is written by a caller, read by the NIC, and given back by a
  completion that may arrive before the call that posted it returns. *A buffer
  has one user; every buffer comes back.* The pool's Close races Alloc and Free.
- *Aggregation.* Three triggers, a lock that is given up before posting, and an
  idle trigger on another goroutine. *An accepted message is posted, once,
  without another call to push it out; a batch fits its buffer.*
- *Receiving.* A full channel or an empty pool must not stop the poller. *Messages come
  out whole and in order; each completion is answered with a new request.*
- *Connection life cycle.* CM events, Manager.Close and the owner of a connection all
  call `Conn.Close`, which takes no lock. *A connection is closed for a cause of its
  own; a panic needs a race; Close leaves nothing open; a disconnect is noticed.*
- *Server.* Goroutines of one run may outlive a Stop that met its deadline. *A Stop
  that did not give up leaves nobody behind; Stop returns; handlers end.*
- *Hand-shake.* Each of some thirty calls may fail, each with a clean-up of its own,
  and three waits depend on the peer. *Nothing is destroyed under what is built on
  it; nothing stays behind that need not; Dial returns.*
- *Ping-pong.* One buffer and one posted receive per direction, and no flow control.
  *The answer is the message; a message finds its receive posted.*

## Modules

| Module | Models | State ↔ code |
|---|---|---|
| `PollerConfig` | the settings that both loops below share | constants only |
| `CQWaiter` | one queue and the goroutine of `eventWaiterLoop` or `smartWaiterLoop` | `cq`, `armed`, `events`: the device's queue, its notification flag, the events in the channel; `pc` the line of the loop; `cancelled`, `fileOpen` the context and the file |
| `PollLoops` | a waiter and the fallback loop of one poller, each looked at when the other has ended: they share settings and no state | the variables of the two |
| `Poller` | Start, AddCQ, RemoveCQ, Close, `pollLoop`, the life of the waiters, in all four poll modes | `entries`, `fileOf`, `cancelOf` are `p.cqs` with `entry.file` and `entry.cancel`; `waiters` every goroutine started; `toScan`, `toPoll`, `toSweep` the loops under the read lock |
| `FallbackLoop` | `pollNonEventCQs`, Notify and the token channel, for queues without a channel | `queued` the device's queues, `eventCh` the one-slot channel, `owed` the calls of Notify still to come, `unpolled` what is left of the round's snapshot |
| `BufferLoan` | what the send path promises: a buffer goes pool → sender → NIC → completion → pool, with the short cuts the code has, until a completion goes to another connection's handler | abstract; `place`, `misrouted` |
| `SendPath` | SendPool, Conn.Send, SendCompletionHandler, ImmediateSender, the send part of Connect | `free`, `inFlight`, `inFlightN` the pools; `tracked` the handlers' maps; `handler` the poller's registrations; `SendCQ` the queue the manager registers, `CQOf` the one the queue pair completes to |
| `Aggregator` | Send, Flush, OnSendComplete over a pool that other connections use too and a connection that may refuse | `others`: what those have of the pool; `pending`, `pendingSize`, `ongoing`, `busy`, `mu` as in the code; `batch` what a goroutine is about to post |
| `BufferPool` | NewPool with its clean-up, step by step and with DeregMR failing, Alloc, Free, Close | `freeCh` the channel, `allBuffers` the list a clean-up goes through, `allocated` and `registered` memory and regions, `callPc` the calls under way |
| `Wire` | PackBatch, UnpackBatch on cells in the place of bytes | operators only; a header field is one cell |
| `RecvPath` | PostRecvBuffers, OnCompletion, DeliverRecv, Recv, the receive part of Connect, over `Wire` | `free` the pool's channel, `recvBufs` the map of each connection, `posted`, `cqes`, `broken` the NIC, `RecvCQ` and `CQOf` the queue registered and the one completed to, `recvCh` and `closed` the channels of the connection |
| `ConnOffers` | what a manager promises to whom accepts from it: connections offered once, in order, through a bounded channel that closes, each ending once | abstract; `offered`, `acceptCh`, `closed`, `chClosed`, `done` |
| `ConnManager` | RunCMEventLoop and its handlers, Accept, Connect with its stores, Manager.Close, Conn.Close step by step | `connections`, `cmIDConns`, `acceptCh`, `closed` are the fields; `state`, `done` those of each Conn; `at`, `target` the calls of Conn.Close under way; `loop`, `event` the handler's place; `dialing` the calls of Connect |
| `Server` | Start, acceptLoop, handleConn, Stop, over `ConnOffers` | `conns`, `mu`, `wg` the fields; `apc`, `hpc`, `spc` the goroutines; `cancelled` the contexts of the runs; `waiters`, `woken` what earlier Stops left in `wg.Wait` |
| `CMHandshake` | rdma.Dial, rdma.Listen, Listener.Accept, NewPingPongFromQP, Conn.Close at both ends | `have`, `acc`, `lsn` the ledgers of what was made; `undo`, `accUndo` the place in a clean-up; `held`, `sheld` the events not acknowledged; `pending` the field of Listener |
| `PingPong` | PingPongConn at both ends, with the loops of the benchmark that drive it | `sendBuf`, `recvBuf` cell by cell; `posted`, `recvCQ`, `sendCQ`, `wire` the device |
| `PollerProofs` | proofs about `Poller`, and about the loops a poller runs, `CQWaiter` and `FallbackLoop` | |
| `SendPathProofs` | proofs about `SendPath`: its invariants, and that it implements `BufferLoan` | |
| `RecvPathProofs` | proofs about `Wire` and `RecvPath` | |
| `AggregatorProofs` | proofs about `Aggregator`, and about `BufferPool`, which lends it its buffers | |
| `ConnManagerProofs`, `ServerProofs`, `CMHandshakeProofs`, `PingPongProofs` | proofs about the module of that name | |
| `MC...` | values of the constants for TLC | |

`SendPath` composes the pool, the connection, the dispatcher and the poller's
dispatch, and `RecvPath` composes the receive side with `Wire`. `Poller`
keeps of a waiter only what its life needs; `CQWaiter` looks inside. `Server` EXTENDS
`ConnOffers` and is checked against everything that module allows; `ConnManager`
is checked to allow no more, so the two are composed through it. `CMHandshake` ends where
`PingPong` begins: with a receive posted at the dialling end and none yet at the other. An action
is one step between two points where another goroutine can be seen: a critical
section is one step, a loop under the *read* lock is one step per element, and
a read of an atomic followed by its use is two steps. Definitions commented
`Mutant:` are wrong on purpose: a plausible slip in the definition that follows
them (a missing guard, a swapped order), kept to show which property notices.
No specification uses them.

### Which queue a completion goes to

`Manager.Connect` registers the handlers of every connection for `cfg.SendCQ` and `cfg.RecvCQ` of its manager
(`manager.go:156`, `:165`) and drops the error of a second registration; which queue a queue pair completes to
is the dialer's business. The interface hands it the manager's queues; `RealCMDialer` ignores them and makes two of its own
(`real_cm.go:295-318`). `SendPath` and `RecvPath` keep the two apart (`SendCQ`, `RecvCQ` and `CQOf`), so that every wiring is an instance.
The invariants are proved for all of them. The passing runs have a manager and a queue for each connection and a
dialer that uses what it is given: this is the only wiring in which the liveness properties hold. With one manager for both connections a completion may be
`misrouted`, and with queues of the dialer's own nobody ever polls: see Findings.

### History variables and where the code falls short

Some properties exclude a situation in which the code does not do what one would
hope. Each exclusion is narrow, and is a fact about the code:

- `CQWaiter`: a poll that returns an error counts as empty, so a waiter may park on
  completions after a failed poll (`callFailed`). It is still woken by the next
  completion (`ParkedIsReachable`, which is proved).
- `CQWaiter`: the drain loops do not look at the context. `LateArrivals = FALSE` keeps
  completions from arriving for ever after the cancellation; with it
  TRUE `CancelledWaiterExits` fails under steady traffic.
- `Poller`, `Races`: what the callers and the system do in each mode. Of the races that overlap Start, AddCQ and Close, event mode stands
  none (see Findings), smart mode two that leak descriptors, and the modes without waiters all but Close before Start,
  which waits for ever for a loop that never closes `done`. In every mode the parent context may be cancelled; the loop of event and smart mode then waits
  for waiters that are parked, which only Close wakes (`CancelReachesAll` says that these are all it waits for). In event and smart mode ReqNotify may fail: the waiter returns without
  a word (`"gaveUp"`), its entry and file stay and its queue is polled by nobody. `OneWaiterEach` counts it as the waiter of its queue, for the code
  starts no other. A failed `Dup` leaves a queue unserved, and is left out of the runs.
- `FallbackLoop`, `dropped`: in smart mode the loop empties the token channel right before it
  blocks on it, and with the token goes the news of a completion, although `smart-cq-polling/spec.md:21-26` has such queues busy-polled and never parked on
  (`SmartParksOnNoWork`, which the loop violates). `leftover`: a round takes one batch of each queue, and of a queue
  whose last poll filled its batch or failed something may be left, while the token is used up.
- `SendPath`, `lost`: when the connection is not open, `Conn.Send` returns an error
  without giving back the buffer its caller acquired. `misrouted`: a completion was given to the handler of another connection,
  whose map knows its WRID as one of its own.
- `Aggregator`, `failed`: a failed post or send leaves `ongoingSends` too high, so the idle
  trigger never fires again; messages pending then wait for the threshold or for Flush. `starved`: the last idle flush found
  that others have all buffers of the SendPool. OnSendComplete drops the error, and with `ongoingSends` at 0 nothing tries again.
- `BufferPool`, `calm`: an Alloc or Free that Close overtakes receives nil from, or panics on,
  the closed channel. `stuck`: Close, and the clean-up of NewPool, free the memory of a region that could not be deregistered.
- `RecvPath`, `shortage`: a consumed receive buffer never goes back to the pool, so
  the pool runs dry (`RecvStarves`). `broken`: a completion with an error goes to `OnError`, also on an open connection, and nothing is posted in its place.
  `misrouted`: as in `SendPath`; the map of the other connection does not know the buffer, and what was received is thrown away.
  `"panicked"`: a message of length 0 is packed and unpacked, and delivering it takes the address of its first byte; the properties hold up to there.
  `dropped`: a full `recvCh` drops messages, as the comment in the code says.

- `ConnManager`, `overlap` and `late`: two calls of Conn.Close that overlap may both find
  `done` open, and the second panics; a request that is being served while the manager closes is sent
  on the closed `acceptCh`, which panics, or stored after the sweep, where it stays open, and so is what a Connect stores that looked at `closed` before. The properties
  say that nothing else leads there. `ClosedForCause` is about closing only: a Rejected whose request was skipped falls back on the first connecting connection and may set another's state to Error. `handleRejected` sets the state to Error and leaves `done` open, so
  a Recv on such a connection goes on waiting; `SetState(Connected)` brings a connection that was closed
  while its ESTABLISHED was under way back to Connected, with `done` closed. Neither is excluded: no property denies it.
- `Server`, `abandoned`: a Stop that meets its deadline leaves its goroutine in `wg.Wait` and perhaps a connection's
  handler behind, and a Start after it may use the wait group too early. A graceful Stop closes no connection at
  all: the handlers have taken them out of the table before Stop sweeps it, and `removeConn` does not close.
- `CMHandshake`, `Verbs`: once the queue pair is made nothing on the dialling side destroys it, so
  its domain and its two completion queues cannot go either (the clean-ups try, and look at no result). Closing an
  accepted connection destroys the queue pair and leaves the domain and the queues (`AcceptedLeak`); closing one that was dialled leaves all four. `KeptOnlyWithQP` is no
  statement that this is right: it bounds what can stay. Connections that were accepted and never became established stay in
  `Listener.pending` with all they own.
- `PingPong`, `"setup"` and `"left"`: the first request may reach the server before its first receive is posted; the device
  then tries again, and may give up. A client whose server has gone spins in `pollSendCQ` or `Recv` unless the
  device reports it, and a server in `RecvInPlace` does not see that its context was cancelled: the polls look at no context. A poll that fails ends the loop that made it; that a program uses its connection again after an error is not modelled.

Outside the models: a connection the event loop accepts gets no receive buffers and no send
handler, because only `Connect` calls the two wire functions.

## Runs

Each run is one `.cfg`; TLC is run on the module named in `PROJECT.json`.
Deadlock checking is off where the callers may simply stop: every model here
has callers that need not do anything more.

| Run | Question | Bounds, and why they suffice |
|---|---|---|
| `PollLoops` | Does a waiter, or the loop without channels, ever sleep on work, or not return? | Batches of 2, spin count 2, 4 completions in a queue, 2 events, two queues without a channel: a poll can be empty, short or full, two full batches fit, and an event can be left over from an earlier arming. Polls and ReqNotify may fail. Both modes. |
| `Poller` | Do Start, AddCQ, RemoveCQ and Close fit together in every mode? | Two queues with a channel and one without, two AddCQ, so that one can come before and one after Start, and a queue can be removed and added again. |
| `SendPath` | Has a buffer one user, does it come back? Is `BufferLoan` implemented? | Two connections, a manager and a queue each, two buffers, two senders, two sends each: both compete for the buffers and a connection closes under a send, fails to be set up, or refuses a message that is too large. |
| `Aggregator` | Are accepted messages posted, once, in batches that fit? | Four messages whose sizes reach each trigger: one of the size of a buffer, two that overflow it together, one that passes the threshold with either; two buffers, of which other connections take one at a time, so that every acquire, also that of the idle flush, may find none. |
| `BufferPool` | Does Close leave anything behind; does anybody get a buffer twice? | Two buffers, three users: one waits while two hold; Close at any time, deregistrations that fail in it and in NewPool. |
| `RecvPath` | Do messages arrive whole and in order, and is the queue kept full? | Two connections of depth 2 on three buffers, `recvCh` of 1: the pool runs dry, a channel is full, set-up overlaps with dispatch. Batches with two messages, or an empty one, or cut short, or nothing, and completions that are errors, on open connections too. |
| `RecvStarves` | *Violation:* one connection alone drains the pool. | Depth 1, three buffers, no failing posts. |
| `CMHandshake` | Does a failure leave something behind or pull something away; does Dial return; is it served? | One dial and one connection of a foreign program, the two kinds of peer a listener has: it can hold either in `pending` while it serves the other, whose owner breaks off at any time; every call fails somewhere. |
| `AcceptedLeak` | *Violation:* an accepted connection is closed and its domain and queues stay. | As above. |
| `ConnManager` | Which connections get closed, and by whom; when does it panic; is `ConnOffers` implemented? | Two ids that peers ask for and two that Connect dials, of which two are used in a behaviour (`MaxConns`), and an `acceptCh` of one: the channel is full, one event can be taken for the other's, three actors close, a Connect overlaps with Close. |
| `Server` | Is Stop complete, does it return, do handlers end? | Two connections, a channel of one, two runs: a goroutine of the first run meets the second. |
| `PingPong` | Is the answer the message, and is there a receive for it? Do round trips end? | Sizes 1 to 3 of each buffer and 0 to 3 of the payload, in every combination: shorter, equal and longer; two contents and an acknowledgement of two cells; several messages in a row; posts and polls may fail. |

`CQDepth`, `MaxEvents`, `MaxAdds`, `MaxWRID`, `MaxBatches`, `MaxConns`, `OthersMax` and `MaxRuns` bound counters
that have no bound in the code; each is a guard of the action that counts. `MaxSize` bounds the sizes
the `PingPong` run tries. The type invariants are not among the properties of the runs: all eleven
are theorems instead.

### Fairness

Weak fairness of a goroutine's steps is what the Go scheduler gives a runnable
goroutine. Strong fairness is used for acquiring `a.mu`
(sync.Mutex is starvation-free) and for a `select` whose context or channel `done` is ready, in the poller and in `Recv`
(Go chooses among ready cases at random, so the case is taken in the end). The NIC completes what
it was given. Nobody is made to call anything: no fairness for Send, Recv, Notify's
callers beyond the one that saw a completion, Start, RemoveCQ or Close; a Close
or RemoveCQ that has begun goes on. In `RecvPath` only the
poller is fair, so `CompletionsAreHandled` shows that the poller gets on
even if nobody ever calls Recv. In `CMHandshake` the CM owes nobody an answer: `DialReturns` rests on the
deadline that Dial puts on its context (`real_cm.go:247`). In `PingPong` the device delivers and completes what it
can, but need not give up on a peer that is not ready, and no poll has to fail. In `Aggregator` the other connections owe nobody a buffer.

## Findings

Two disagreements between the code and its comments are runs of their own, expected to be violated:

- `RecvStarves`: a consumed receive buffer never returns to the pool (`conn.go:327`),
  so the receive queue runs dry, although the comment above `replenishRecv` promises a full pipeline.
- `AcceptedLeak`: closing an accepted connection leaves its protection domain and its queues (`listener.go:116`), although the comment at
  `listener.go:110` says that they are freed when the queue pair is destroyed.

The others follow from constants the passing runs do not use, or are said by a property that is stated in its module and
that no run checks. Each is reproduced by the `.cfg` of the component with the changes named; TLC finds each violation within a minute.

| Where | What happens | Module, property, constants |
|---|---|---|
| `poller.go:243` | AddCQ between Start and the scan of the loop gives a queue two waiters, of which Close wakes one; it then waits for ever. | `MCPoller`, `CloseReturns`, `Races <- AddRace`, `CQs = {c1, c2}`, `MaxAdds = 1` |
| `poller.go:253` | The cancellation of the parent's context does not end the loop while a waiter is parked, although `poller.go:87` says that it runs until the context is cancelled. | `MCPoller`, `CancelEndsLoop`, `Races <- CancelRace` |
| `poller.go:290` | The smart loop throws a token away and parks on a queue that has completions, although `smart-cq-polling/spec.md:21-26` has it busy-polled. | `PollLoops`, `SmartParksOnNoWork` |
| `manager.go:156` | Connections of one manager share its send queue and count WRIDs from 1 each: a completion releases the buffer of another connection. | `MCSendPath`, `SharingIsHarmless`, `SendCQ <- SharedQueue`, `CQOf <- SharedQueue` |
| `real_cm.go:295-318` | The real dialer's queue pair completes to queues the dialer made, which no poller knows: no send buffer comes back, and nothing that is received is dispatched. | `MCSendPath`, `PostedIsReleased`, `SendCQ <- SharedQueue`, `CQOf <- OwnQueue`; `MCRecvPath`, `CompletionsAreHandled`, `RecvStarves.cfg` with `SPECIFICATION FairSpec`, `RecvCQ <- ManagerQueue` |
| `manager.go:165` | The one receive queue of a manager has the handler of its first connection, which does not know the buffers of the others and throws away what they received. | `MCRecvPath`, `HandlesOwnCompletions`, `RecvCQ <- SharedQueue`, `CQOf <- SharedQueue` |
| `aggregator.go:201` | The idle flush finds no buffer in the shared SendPool, its error is dropped, and the messages stay pending with no send under way. | `MCAggregator`, `IdleTriggerFlushes`, `SPECIFICATION SharedFairSpec` (the other connections give back what they have) |
| `real_cm.go:434` | Closing a dialled connection leaves its queue pair, domain and queues, although `internal/rdma/conn.go:10` counts them among what is released. | `CMHandshake`, `DialedIsFreed` |
| `manager.go:127` | A Connect that dials while the manager closes stores its connection after the sweep, and it stays open, although `manager.go:187` says that Close shuts down all connections. | `ConnManager`, `NoneOpenAfterClose` |

Two more are steps of the models that no property denies:

- `aggregator.go:121`: the overflow test is skipped when nothing is pending and there is no other size test,
  so a message larger than a buffer is accepted as a batch of its own. PackBatch does not refuse it: it cuts the copy short and
  returns a length past the end of the buffer (`wire.go:69-87`). `BatchFits` speaks only of batches whose messages fit one by one.
- `conn.go:306`: an empty message makes the poller's goroutine panic.

## Proofs

Every safety invariant that a run checks is a theorem, and so are both refinements and every type invariant. A theorem of a component
is stated over the constants of its module and rests on the assumptions named there. Where one module of proofs is about
several components it EXTENDS them all, which is why `CQWaiter`, `FallbackLoop` and `BufferPool` have names of their own for what
the others call `Init`, `Next`, `Spec` and `TypeOK` (`WaiterSpec`, `LoopSpec`, `PoolSpec` and so on). One hypothesis says
something of how the code is used, `WaitersStand`; it is explained below. Where the code only does right while something has not happened (a completion
misrouted, a region stuck), that is a condition in the property, not an assumption of the theorem.

*The poller.* `EachQueueHasOneWaiter` and `CloseClosesFiles` are about `Poller`, for every set of queues, every number of calls of AddCQ and every set
of races, waiters that give up and a parent's context that is cancelled among them. The invariant follows the place of Start, the loop and Close (`PhaseInv`, `CloserInv`) and says, until Close sweeps,
what an entry knows (`EntryKnows`: the file and the cancel function it remembers are those of one live waiter of its queue, and it has
one exactly if the scan has passed it or AddCQ came later) and that no waiter that lives is unknown to its entry (`WaiterKnown`). Once Close has begun
it says instead which files are still to be swept (`Unswept`). Both are needed because one Close runs while RemoveCQ closes files of
its own. A waiter that gave up is still known to its entry, and so is its file. `WaitersStand` is what the runs assume of event and smart mode: no AddCQ between Start's flag and the end of the scan, no Close before Start
has its context, no failing `dup`. The finding at `poller.go:243` is what becomes of the first when it is dropped.

*Waiters.* The proofs about `CQWaiter` assume only `PollerConfigAssumption` and `WaiterAssumption`: batch size, spin count and the
bounds are positive numbers. The invariant of interest, `NoLostWakeup`, is not inductive: nothing
in it says why a waiter that is about to park has polled the queue empty. `WaiterIInv`
adds `ArmedBeforePark` (from the arming to the park the queue is
armed or an event is there already) and `SpinBelowLimit`; then a completion that comes
after the arming poll raises an event because the queue is armed, and one that came before
was seen by that poll (`PollLeavesQueue`: a successful poll of 0 leaves nothing).
Steps are split into flags and core to keep Boolean variables and arithmetic apart.

*The fallback loop.* The proof of `WorkIsAnnounced` assumes `PollerConfigAssumption`. What is missing from the invariant is what happens between a
token and the next wait: `LoopSeen` is the set of queues polled since the last token was taken or thrown away, and a queue seen
and not in `leftover` holds only completions that came after its poll, so that their call of Notify is still to come or has left a token.

*The send path.* `SendPathProofs` assumes only `SendPathAssumption`: queues may be registered and shared in any way. `OneUser` needs
more facts, together `Inv`. Three hold always: what a sender holds fits its place in the code (`SenderInv`); a number is given out once in each
connection (`NumberInv`); and no two entries of a map have one key (`KeyInv`). Two hold until a completion is misrouted:
each request that a sender is about to post, the NIC has or the queue holds is in the map of its connection (`RequestInv`), and a buffer is free, held by one
sender, or in one entry (`OwnerInv`). The step from one to the next is Dispatch: the handler of the connection takes out its own entry, that of another, if it takes out any,
sets `misrouted`. `SendPathImplementsLoan` maps every step to a step of `BufferLoan`
or a stutter, by evaluating the refinement mapping under `Inv`; once a completion is misrouted `BufferLoan` allows everything.

*The buffer pool.* `AggregatorProofs` also proves, from `BufferPoolAssumption` alone,
the three invariants of the `BufferPool` run, with `PoolTypeOK` and `RegionHasMemory`. `PoolInv` adds that whatever is allocated is in `allBuffers`, but for the buffer NewPool has at hand (`ListedInv`), what each call holds where (`CallInv`), that what Close has drained
stays empty, because a late Free panics instead of sending (`DrainedInv`), and that a call can only go
wrong after the flag was set over its head (`CalmInv`). `NothingKept` then needs no
argument about who holds buffers: Close releases them all the same, and the clean-up of NewPool, which goes through the same list, releases what was made so far; what stays
are the regions DeregMR has failed for. `RegionHasMemory` holds at every step of both loops.

*Aggregation.* `AggregatorProofs` assumes `AggregatorAssumption`. `BatchesFit` needs that `pendingSize` is the size of what is pending
(`SizeInv`) at every step, also where a batch has just been taken out under the lock or put back for want of a buffer, and that what is pending
either fits or is a single message; the rest of the invariant, `ProcAt`, says who holds `a.mu`, which message it is about to store and what is pending
then. The size of a batch is a recursive function of its length: `BatchSizeFacts` says what one more message adds to it. `NoMessageLost` counts
the places of a message. No step of the aggregator copies a message: one that a batch gains leaves `pending` in the same step, one that
is posted leaves the batch; so two places for one message would have been two before (`Apart`), and a message whose Send is still under way is
found nowhere, or where its goroutine has put it. `AggregatorTypeCorrect` is a matter of book-keeping: the free buffers, those other connections have, those with a goroutine and those posted are
never more than there are, and `ongoing` counts at least the requests that are posted, about to be, or being counted down; so it never goes below zero,
which the code does not test.

*Wire format.* What `PackBatch` and `UnpackBatch` compute is proved for batches of every number of messages of every length. `UnpackUndoesPack`: unpacking
gives back the batch. `CutBatchIsSpoilt`: a batch without its last cell gives no message, not even those that are whole. Both walk the buffer
backwards from its end: `MessageAt` says where in the buffer a message and its header are, and the messages from there on are
the rest of the batch. Induction in the library takes a predicate, which the provers cannot instantiate; `SetInduction`, derived from
the well-foundedness of the numbers, says the same of a set, and is enough for all recursive functions here.

*The receive path.* `RecvPathProofs` proves the four invariants of the `RecvPath` run, one on top of the other, whichever way queues are registered and shared. `EachBufferHasOneReceiver`
needs no more than the types: every step hands a buffer from one store to another, drops it, or leaves all of them alone (`MovedApart`, `DroppedApart`).
`CompletionsAreKnown` adds `Tracked`: what is posted or completed is in the `recvBufs` of its connection; that nobody takes out an entry which
is still needed is where `OneReceiver` comes in. `PipelinesAreFull` counts, for a connection that is not impaired (closed, broken, short of buffers, or with a completion misrouted), what is posted, what has completed, what
the poller has in hand for it and what the set-up has still to post (`DepthInv`): every other step keeps the sum. `MessagesInOrder` follows
the numbers of the messages from the packed batch through the completions, the poller and `recvCh` to `Recv` (`OrderInv`), with `UnpackUndoesPack` where a buffer is
unpacked and `CutBatchIsSpoilt` where it was cut. A connection whose queue has the handler of another gets no message at all (`Lost`): the maps of two
connections have no buffer in common, and none that is in the pool (`MapsInv`), so a completion handed to another connection finds nothing there.

*The server.* `ServerProofs` assumes `ServerAssumption` (there are finitely many connections, `None` is none of them) and proves
`GracefulStopIsComplete` and `ReuseNeedsRestart`. The heart is an invariant that ties the counter to the goroutines: `wg` is the number
of accept loops that have not ended plus the number of handlers that have not, both cardinalities of finite sets. From
it a Stop that found `wg = 0` found nobody; that nobody comes after it holds because an accept loop that could add a handler is itself counted, and
a connection in the table has a handler. The panic needs a goroutine left in `wg.Wait`, which only an abandoned run leaves, and a
count above zero after it was released, which only a later Start brings about.

*Ping-pong.* `PingPongProofs` assumes `PingPongAssumption` and proves `ReceiverIsReady` and `EchoIsTheMessage`. That a message finds its receive is a matter of where
the *other* end stands: the invariant says for each pair of places what is posted, on the wire and in the two receive queues, so
that there is one message or token between the ends at any time until one of them breaks. `EchoIsFaithful` follows the contents along it: the message is in the
client's buffer, on the wire, in the server's receive buffer, in its copy, and on the wire again, each time cut to the shorter of two buffers; that the server posts
its receive buffer again before it has copied it does no harm because the client sends nothing until it has the answer.

*The hand-shake.* `CMHandshakeProofs` assumes `HandshakeAssumption` and proves `NothingDangles` and `KeptOnlyWithQP`. The invariant is
a ledger: for each place in Dial, in AcceptConn and in Close it says what has been made (`Made`, `AccMade`), and for each place in a clean-up what may
be left (`Left`, `AccLeft`, `ClosingLeft`); the two properties are then read off the tables. The ledger of an accepted connection also
needs that the listener serves a connection only once, which is a fact about the other end: a connection is asked for
once, its request is queued once, and until it is taken nothing has been made for it (`RequestInv`).

*The connection manager.* `ConnManagerProofs` assumes `ConnManagerAssumption` and proves the three invariants of the `ConnManager` run and that `ConnManager`
implements `ConnOffers`, for every set of accepted and of dialled connections. `ClosedForCause` rests on `EventInv`: a connection that was accepted is found by its CM id until its own
end is handled, so the search that takes the first connected connection never runs. `CrashNeedsRace` rests on `CallInv`: of two calls
of Close past the swap of the state on one connection both are recorded as overlapping. `ManagerLeavesNoneOpen` rests on `SweepInv`: what the sweep has not visited
and is not bound to visit was stored while it ran, by the one request the event loop was serving or by a Connect that had not stored yet when the sweep
began; `DialedInv` says that a connection has a state once its dial has succeeded, which no handler but the one that closes touches.

Only model-checked: the liveness properties, that is every temporal property of a run but `ImplementsLoan` and `ImplementsOffers`. They rest on
fairness and on ENABLED, which the provers do not handle. In particular `BufferComesBack`, `AcceptedIsPosted` and `CompletionsAreHandled` say that what
the invariants keep in order also moves.

## Not modelled

- The poller pool (`pkg/cq/pool.go`): a table and a round-robin counter under one lock; what can go wrong in it
  is AddCQ, RemoveCQ and Close of a poller, which `Poller` models.
- `ChannelHandler`, `RecvPool.PostRecvBuffers` and `Replenish`, `Disconnect`, `GetCMEvent`, `AckCMEvent`: called by tests and benchmarks only, or not at all.
- The rest of the verbs bindings (device discovery, state changes of a queue pair, batch posts), which are single calls into
  libibverbs, and the mock implementations, which replace them in tests.
- Interfaces and records (`api`), configuration, statistics, logging, immediate data, reports, and the commands but for their loops.

## Plan

1. *Done:* the poller, the send path with its abstract specification, aggregation, the buffer pool, the receive
   path and the wire format; the connection manager and the server with the specification between them; the hand-shake
   and the ping-pong transport; proofs of every safety invariant of every run, of every type invariant, and of both refinements.
2. An abstract specification of a connection seen from its two users, a sequence of messages that may lose some and reorders none, implemented
   by `RecvPath`; with `MessagesInOrder` most of the refinement is there.
3. `CQPool` over an abstract poller, if Release or Close ever get a caller that runs on a poller's goroutine.
