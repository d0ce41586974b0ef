------------------------------- MODULE Poller -------------------------------
(***************************************************************************)
(* The life of a Poller of pkg/cq/poller.go: Start, AddCQ, RemoveCQ and    *)
(* Close called by other goroutines, the pollLoop goroutine, and one       *)
(* waiter goroutine for each queue with a completion channel in event and  *)
(* smart mode.  What a waiter does with completions is CQWaiter's subject; *)
(* here it checks its context, serves its queue, parks on its file, drains *)
(* and starts again, and calls the handler while it serves or drains.      *)
(*                                                                         *)
(* p.mu is held for reading by the scan of pollLoop and by the sweep of    *)
(* Close, which take a step per entry and may overlap; AddCQ and RemoveCQ  *)
(* hold it for writing and are one step each.                              *)
(***************************************************************************)
EXTENDS Integers, Sequences

CONSTANTS
    CQs,        \* queues the callers register
    Channel,    \* those with CompChannelFD() >= 0
    MaxAdds,    \* bound: calls of AddCQ
    Races       \* what callers and system may do in each mode, see below

Modes == {"busy", "event", "smart", "user"}     \* config.PollMode

RaceKinds ==
    { "addDuringStart",     \* AddCQ after Start's swap, before the scan ends
      "addAfterClose",      \* AddCQ once Close has been called
      "closeBeforeStart",   \* Close before Start has set p.cancel
      "closeDuringStart",   \* Close before pollLoop has made its scan
      "parentCancel",       \* the context given to Start is cancelled
      "armError",           \* ReqNotify fails
      "dupError" }          \* syscall.Dup fails

ASSUME PollerAssumption ==
    /\ Channel \subseteq CQs
    /\ MaxAdds \in Nat
    /\ Races \in [Modes -> SUBSET RaceKinds]

VARIABLES
    mode,       \* p.cfg.PollMode
    starter,    \* the goroutine in Start: "idle", "swapped", "context", "done"
    ctx,        \* p.ctx: "nil", "live" or "cancelled"
    entries,    \* the registered queues
    fileOf,     \* entry.file, as the index of the waiter reading it; 0 is nil
    cancelOf,   \* entry.cancel, as the index of the waiter it stops; 0 is nil
    waiters,    \* every waiter ever started, in order
    loop,       \* the pollLoop goroutine
    toScan,     \* entries its scan has yet to visit
    toPoll,     \* entries of its snapshot it has yet to poll
    closer,     \* the goroutine in Close
    toSweep,    \* entries its sweep has yet to visit
    adds        \* calls of AddCQ so far (bound)

scanVars == <<toScan, toPoll>>
startVars == <<mode, starter>>
loopVars == <<loop, toScan, toPoll>>
closeVars == <<closer, toSweep>>
entryVars == <<entries, fileOf, cancelOf>>
vars == <<startVars, ctx, entryVars, waiters, loopVars, closeVars, adds>>

HasWaiters == mode \in {"event", "smart"}
WaiterOf(c) == [cq |-> c, cancelled |-> FALSE, open |-> TRUE, pc |-> "check"]

Init ==
    /\ mode \in Modes
    /\ starter = "idle" /\ ctx = "nil"
    /\ entries = {}
    /\ fileOf = [c \in CQs |-> 0]
    /\ cancelOf = [c \in CQs |-> 0]
    /\ waiters = << >>
    /\ loop = "off" /\ toScan = {} /\ toPoll = {}
    /\ closer = "idle" /\ toSweep = {}
    /\ adds = 0

(* A write lock waits for the readers: the scan and the sweep.              *)
WriteLock == loop # "scan" /\ closer # "sweep"

ScanPending == loop \in {"off", "init", "scan"}

-----------------------------------------------------------------------------
(* Start.  The started flag, p.cancel and p.ctx, and the goroutine are      *)
(* three steps; a second call returns an error and changes nothing.         *)

StartSwap ==
    /\ starter = "idle"
    /\ starter' = "swapped"
    /\ UNCHANGED <<mode, ctx, entryVars, waiters, loopVars, closeVars, adds>>

StartContext ==
    /\ starter = "swapped"
    /\ starter' = "context"
    /\ ctx' = "live"
    /\ UNCHANGED <<mode, entryVars, waiters, loopVars, closeVars, adds>>

StartGo ==
    /\ starter = "context"
    /\ starter' = "done"
    /\ loop' = "init"
    /\ UNCHANGED <<mode, ctx, entryVars, waiters, scanVars, closeVars, adds>>

Start == StartSwap \/ StartContext \/ StartGo

ParentCancel ==
    /\ "parentCancel" \in Races[mode]
    /\ ctx = "live"
    /\ ctx' = "cancelled"
    /\ UNCHANGED <<startVars, entryVars, waiters, loopVars, closeVars, adds>>

-----------------------------------------------------------------------------
(* startEventWaiter: a new file and a new context replace the entry's.      *)

Dup(c) ==
    /\ waiters' = Append(waiters, WaiterOf(c))
    /\ fileOf' = [fileOf EXCEPT ![c] = Len(waiters) + 1]
    /\ cancelOf' = [cancelOf EXCEPT ![c] = Len(waiters) + 1]

StartEventWaiter(c) ==
    \/ c \in Channel /\ Dup(c)
    \/ /\ c \in Channel => "dupError" \in Races[mode]
       /\ UNCHANGED <<waiters, fileOf, cancelOf>>

(* Mutant: a queue added to a running poller waits for a scan.              *)
NoWaiterWhenRunning == FALSE

(* AddCQ starts the waiter if the poller runs in event or smart mode.       *)
StartsWaiter == starter # "idle" /\ ctx # "nil" /\ HasWaiters

AddCQ(c) ==
    /\ adds < MaxAdds
    /\ "addDuringStart" \notin Races[mode] => (starter = "idle" \/ ~ScanPending)
    /\ "addAfterClose" \notin Races[mode] => closer = "idle"
    /\ WriteLock
    /\ c \notin entries
    /\ entries' = entries \union {c}
    /\ IF StartsWaiter
       THEN StartEventWaiter(c)
       ELSE UNCHANGED <<waiters, fileOf, cancelOf>>
    /\ adds' = adds + 1
    /\ UNCHANGED <<startVars, ctx, loopVars, closeVars>>

(* Mutant: the waiter's context is cancelled and its file stays open.       *)
CancelWaiter(c) ==
    waiters' = [i \in DOMAIN waiters |->
                  [waiters[i] EXCEPT !.cancelled = @ \/ i = cancelOf[c]]]

(* RemoveCQ cancels the context of the entry's waiter and closes its file.  *)
StopWaiter(c) ==
    waiters' = [i \in DOMAIN waiters |->
                  [waiters[i] EXCEPT !.cancelled = @ \/ i = cancelOf[c],
                                     !.open = @ /\ i # fileOf[c]]]

RemoveCQ(c) ==
    /\ WriteLock
    /\ c \in entries
    /\ entries' = entries \ {c}
    /\ StopWaiter(c)
    /\ fileOf' = [fileOf EXCEPT ![c] = 0]
    /\ cancelOf' = [cancelOf EXCEPT ![c] = 0]
    /\ UNCHANGED <<startVars, ctx, loopVars, closeVars, adds>>

-----------------------------------------------------------------------------
(* pollLoop.                                                                *)

(* eventPollLoop and smartPollLoop first start a waiter for every entry.    *)
LoopBegin ==
    /\ loop = "init"
    /\ IF HasWaiters
       THEN loop' = "scan" /\ toScan' = entries
       ELSE loop' = "top" /\ toScan' = toScan
    /\ UNCHANGED <<startVars, ctx, entryVars, waiters, toPoll, closeVars, adds>>

LoopScan ==
    /\ loop = "scan"
    /\ \/ \E c \in toScan :
             /\ StartEventWaiter(c)
             /\ toScan' = toScan \ {c}
             /\ loop' = loop
       \/ /\ toScan = {}
          /\ loop' = "top"
          /\ UNCHANGED <<toScan, fileOf, cancelOf, waiters>>
    /\ UNCHANGED <<startVars, ctx, entries, toPoll, closeVars, adds>>

(* A round polls a snapshot of the entries, or of those without a channel   *)
(* where the others have waiters.  In event mode eventCh starts it, and the *)
(* select may take eventCh though the context is cancelled as well.         *)
LoopSnapshot ==
    /\ loop = "top"
    /\ mode # "user"
    /\ mode # "event" => ctx = "live"
    /\ toPoll' = IF HasWaiters THEN entries \ Channel ELSE entries
    /\ loop' = "poll"
    /\ UNCHANGED <<startVars, ctx, entryVars, waiters, toScan, closeVars, adds>>

LoopPoll ==
    /\ loop = "poll"
    /\ \/ \E c \in toPoll : toPoll' = toPoll \ {c} /\ loop' = loop
       \/ toPoll = {} /\ toPoll' = toPoll /\ loop' = "top"
    /\ UNCHANGED <<startVars, ctx, entryVars, waiters, toScan, closeVars, adds>>

(* ctx.Done(): event and smart mode wait for the waiters, then the deferred *)
(* close(p.done) runs.                                                      *)
LoopStop ==
    /\ loop = "top"
    /\ ctx = "cancelled"
    /\ loop' = IF HasWaiters THEN "wgWait" ELSE "exited"
    /\ UNCHANGED <<startVars, ctx, entryVars, waiters, scanVars, closeVars, adds>>

Ended(i) == waiters[i].pc \in {"exited", "gaveUp"}

LoopWaitGroup ==
    /\ loop = "wgWait"
    /\ \A i \in DOMAIN waiters : Ended(i)
    /\ loop' = "exited"
    /\ UNCHANGED <<startVars, ctx, entryVars, waiters, scanVars, closeVars, adds>>

PollLoop == LoopBegin \/ LoopScan \/ LoopPoll \/ LoopStop \/ LoopWaitGroup

-----------------------------------------------------------------------------
(* A waiter.  Its context is cancelled with the entry's or with p.ctx.      *)

(* Mutant: the waiter's context is not derived from p.ctx.                  *)
CancelledAlone(i) == waiters[i].cancelled

Cancelled(i) == waiters[i].cancelled \/ ctx = "cancelled"

Goto(i, from, to) ==
    /\ waiters[i].pc = from
    /\ waiters' = [waiters EXCEPT ![i].pc = to]
    /\ UNCHANGED <<startVars, ctx, entryVars, loopVars, closeVars, adds>>

WaiterCheck(i) == Goto(i, "check", IF Cancelled(i) THEN "exited" ELSE "serve")

(* Serving ends in the read, back at the top (smart mode found something),  *)
(* or, where ReqNotify fails, in a silent return: the entry stays, its file *)
(* stays open, and nobody serves the queue any more.                        *)
WaiterServe(i) ==
    \/ Goto(i, "serve", "park")
    \/ mode = "smart" /\ Goto(i, "serve", "check")
    \/ "armError" \in Races[mode] /\ Goto(i, "serve", "gaveUp")

WaiterWake(i) == waiters[i].open /\ Goto(i, "park", "drain")
WaiterReadFails(i) == ~waiters[i].open /\ Goto(i, "park", "exited")
WaiterDrain(i) == Goto(i, "drain", "check")

WaiterStep(i) ==
    WaiterCheck(i) \/ WaiterServe(i) \/ WaiterReadFails(i) \/ WaiterDrain(i)

-----------------------------------------------------------------------------
(* Close.                                                                   *)

CloseCancel ==
    /\ closer = "idle"
    /\ ctx = "nil" => "closeBeforeStart" \in Races[mode]
    /\ (ctx # "nil" /\ ScanPending) => "closeDuringStart" \in Races[mode]
    /\ ctx' = IF ctx = "nil" THEN "nil" ELSE "cancelled"
    /\ closer' = "cancelled"
    /\ UNCHANGED <<startVars, entryVars, waiters, loopVars, toSweep, adds>>

CloseLock ==
    /\ closer = "cancelled"
    /\ closer' = "sweep"
    /\ toSweep' = entries
    /\ UNCHANGED <<startVars, ctx, entryVars, waiters, loopVars, adds>>

(* Mutant: the files stay open.                                             *)
ForgetFile(c) == waiters' = waiters

CloseFile(c) ==
    waiters' = [i \in DOMAIN waiters |->
                  [waiters[i] EXCEPT !.open = @ /\ i # fileOf[c]]]

CloseSweep ==
    /\ closer = "sweep"
    /\ \/ \E c \in toSweep :
             /\ CloseFile(c)
             /\ fileOf' = [fileOf EXCEPT ![c] = 0]
             /\ toSweep' = toSweep \ {c}
             /\ closer' = closer
       \/ /\ toSweep = {}
          /\ closer' = "wait"
          /\ UNCHANGED <<toSweep, fileOf, waiters>>
    /\ UNCHANGED <<startVars, ctx, entries, cancelOf, loopVars, adds>>

CloseWait ==
    /\ closer = "wait"
    /\ loop = "exited"
    /\ closer' = "done"
    /\ UNCHANGED <<startVars, ctx, entryVars, waiters, loopVars, toSweep, adds>>

CloseRest == CloseLock \/ CloseSweep \/ CloseWait

-----------------------------------------------------------------------------

Callers == CloseCancel \/ \E c \in CQs : AddCQ(c) \/ RemoveCQ(c)

Next ==
    \/ Start \/ ParentCancel \/ Callers
    \/ PollLoop \/ LoopSnapshot
    \/ CloseRest
    \/ \E i \in DOMAIN waiters : WaiterStep(i) \/ WaiterWake(i)

Spec == Init /\ [][Next]_vars

(* Runnable goroutines run.  Events, notifications and callers are free to  *)
(* stay away.  Go's select is random between ready cases, so a cancelled    *)
(* context is not passed over for ever.                                     *)
Fairness ==
    /\ WF_vars(StartContext \/ StartGo)
    /\ WF_vars(PollLoop)
    /\ SF_vars(LoopStop)
    /\ WF_vars(CloseRest)
    /\ \A i \in 1..(2 * MaxAdds) :
          WF_vars(i \in DOMAIN waiters /\ WaiterStep(i))

FairSpec == Spec /\ Fairness

-----------------------------------------------------------------------------

WaiterType ==
    [cq : Channel, cancelled : BOOLEAN, open : BOOLEAN,
     pc : {"check", "serve", "park", "drain", "exited", "gaveUp"}]

TypeOK ==
    /\ mode \in Modes
    /\ starter \in {"idle", "swapped", "context", "done"}
    /\ ctx \in {"nil", "live", "cancelled"}
    /\ entries \subseteq CQs
    /\ fileOf \in [CQs -> 0..Len(waiters)]
    /\ cancelOf \in [CQs -> 0..Len(waiters)]
    /\ waiters \in Seq(WaiterType)
    /\ loop \in {"off", "init", "scan", "top", "poll", "wgWait", "exited"}
    /\ toScan \subseteq CQs /\ toPoll \subseteq CQs /\ toSweep \subseteq CQs
    /\ closer \in {"idle", "cancelled", "sweep", "wait", "done"}
    /\ adds \in 0..MaxAdds

LiveWaitersOf(c) ==
    {i \in DOMAIN waiters : waiters[i].cq = c /\ ~waiters[i].cancelled
                            /\ waiters[i].pc # "exited"}

(* While the poller runs, every registered queue with a channel has a       *)
(* waiter of its own, exactly one, whichever of AddCQ and the scan started  *)
(* it: with none its completions are never polled, with two Close knows the *)
(* file of one of them only.  The one may have given up since, its          *)
(* ReqNotify having failed (see WaiterServe): the code replaces it by none. *)
OneWaiterEach ==
    (loop \in {"top", "poll"} /\ ctx = "live" /\ HasWaiters) =>
        \A c \in entries \cap Channel : \E i \in DOMAIN waiters :
            LiveWaitersOf(c) = {i}

(* When Close has returned every duplicated descriptor is closed, unless    *)
(* AddCQ, the scan or Close got in each other's way.  Neither a waiter that *)
(* gave up nor a parent context cancelled before Close changes that.        *)
RaceFree == Races[mode] \subseteq {"parentCancel", "armError"}
NoDescriptorLeak ==
    (RaceFree /\ closer = "done") =>
        \A i \in DOMAIN waiters : ~waiters[i].open

(* A call of Close returns.                                                 *)
CloseReturns == (closer # "idle") ~> (closer = "done")

(* Whoever cancels the context, Close or the owner of the one given to      *)
(* Start, the loop ends, or is left waiting for waiters that are parked on  *)
(* files nobody has closed: every other waiter has ended.                   *)
OnlyParkedRemain ==
    /\ loop = "wgWait"
    /\ \A i \in DOMAIN waiters : Ended(i) \/ (waiters[i].pc = "park" /\ waiters[i].open)
CancelReachesAll == (ctx = "cancelled") ~> (loop = "exited" \/ OnlyParkedRemain)

(* What poller.go:87 says of Start: the loop runs until the context is      *)
(* cancelled or Close is called.  It does not end for a cancelled parent    *)
(* as long as a waiter is parked, which no cancellation wakes.              *)
CancelEndsLoop == (ctx = "cancelled") ~> (loop = "exited")
=============================================================================
