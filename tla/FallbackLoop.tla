---------------------------- MODULE FallbackLoop ----------------------------
(***************************************************************************)
(* The queues without a completion channel, which the pollLoop goroutine   *)
(* of pkg/cq/poller.go polls itself in event and smart mode (the loops of  *)
(* eventPollLoop and smartPollLoop after their scan).  Nobody but a caller *)
(* of Notify can wake the loop: a call is due for every completion, at     *)
(* some time after it, and leaves at most one token in eventCh.            *)
(***************************************************************************)
EXTENDS PollerConfig

CONSTANT NonEventCQs    \* queues with CompChannelFD() = -1

VARIABLES
    queued,         \* completions in each queue
    owed,           \* completions whose Notify is still to be called
    eventCh,        \* the one-place channel holds a token
    loopCancelled,  \* the context is cancelled
    at,             \* "top", "poll", "token", "block" or "exited"
    unpolled,       \* queues of the round still to be polled
    roundFound,     \* the round has found a completion
    emptyRounds,    \* empty rounds in a row (smart)
    leftover,       \* queues whose last poll may have left some (history)
    dropped,        \* the loop blocks having thrown a token away (history)
    smartLoop       \* smartPollLoop or eventPollLoop

roundVars == <<at, unpolled, roundFound, emptyRounds>>
history == <<leftover, dropped, smartLoop>>
fallbackVars == <<queued, owed, eventCh, loopCancelled, roundVars, history>>

LoopInit ==
    /\ queued = [c \in NonEventCQs |-> 0]
    /\ owed = 0
    /\ eventCh = FALSE
    /\ loopCancelled = FALSE
    /\ at = "top"
    /\ unpolled = {}
    /\ roundFound = FALSE
    /\ emptyRounds = 0
    /\ leftover = {}
    /\ dropped = FALSE
    /\ smartLoop \in BOOLEAN

-----------------------------------------------------------------------------

ArriveUnnotified(c) ==
    /\ queued[c] < CQDepth
    /\ owed < CQDepth
    /\ queued' = [queued EXCEPT ![c] = @ + 1]
    /\ owed' = owed + 1
    /\ UNCHANGED <<eventCh, loopCancelled, roundVars, history>>

(* Mutant: a channel without a buffer, so a token needs a loop that waits.  *)
NotifyUnbuffered ==
    /\ owed > 0
    /\ owed' = owed - 1
    /\ eventCh' = (eventCh \/ at \in {"top", "block"})
    /\ UNCHANGED <<queued, loopCancelled, roundVars, history>>

(* A send that does not block: a token already there absorbs it.            *)
Notify ==
    /\ owed > 0
    /\ owed' = owed - 1
    /\ eventCh' = TRUE
    /\ UNCHANGED <<queued, loopCancelled, roundVars, history>>

CancelLoop ==
    /\ ~loopCancelled
    /\ loopCancelled' = TRUE
    /\ UNCHANGED <<queued, owed, eventCh, roundVars, history>>

-----------------------------------------------------------------------------
(* The steps of the loop.                                                   *)

(* Mutant: only the first select of the smart loop looks at the context.    *)
ExitAtSmartTop ==
    /\ loopCancelled /\ smartLoop /\ at = "top"
    /\ at' = "exited"
    /\ UNCHANGED <<queued, owed, eventCh, loopCancelled, unpolled, roundFound, emptyRounds, history>>

Exit ==
    /\ loopCancelled
    /\ at' = "exited"
    /\ UNCHANGED <<queued, owed, eventCh, loopCancelled, unpolled, roundFound, emptyRounds, history>>

BeginRound ==
    /\ at' = "poll"
    /\ unpolled' = NonEventCQs
    /\ roundFound' = FALSE

(* eventPollLoop: every round is started by a token.                        *)
EventSelect ==
    /\ ~smartLoop
    /\ at = "top"
    /\ \/ Exit
       \/ /\ eventCh
          /\ eventCh' = FALSE
          /\ BeginRound
          /\ UNCHANGED <<queued, owed, loopCancelled, emptyRounds, history>>

(* smartPollLoop: rounds follow each other until the context is cancelled.  *)
SmartTop ==
    /\ smartLoop
    /\ at = "top"
    /\ \/ Exit
       \/ /\ ~loopCancelled
          /\ BeginRound
          /\ UNCHANGED <<queued, owed, eventCh, loopCancelled, emptyRounds, history>>

Batch(c) == IF queued[c] < MaxBatchSize THEN queued[c] ELSE MaxBatchSize

(* A poll takes a batch, or fails, which counts as finding nothing.         *)
PollSucceeds(c) ==
    /\ queued' = [queued EXCEPT ![c] = @ - Batch(c)]
    /\ roundFound' = (roundFound \/ Batch(c) > 0)
    /\ leftover' = IF Batch(c) = MaxBatchSize THEN leftover \union {c}
                                              ELSE leftover \ {c}

PollFails(c) ==
    /\ leftover' = leftover \union {c}
    /\ UNCHANGED <<queued, roundFound>>

(* pollNonEventCQs and pollNonEventCQsCount poll each queue once.           *)
PollNonEventCQs ==
    /\ at = "poll"
    /\ \E c \in unpolled :
          /\ PollSucceeds(c) \/ PollFails(c)
          /\ unpolled' = unpolled \ {c}
    /\ UNCHANGED <<owed, eventCh, loopCancelled, at, emptyRounds, dropped, smartLoop>>

EventRoundEnds ==
    /\ ~smartLoop
    /\ at = "poll"
    /\ unpolled = {}
    /\ at' = "top"
    /\ UNCHANGED <<queued, owed, eventCh, loopCancelled, unpolled, roundFound, emptyRounds, history>>

SmartRoundEnds ==
    /\ smartLoop
    /\ at = "poll"
    /\ unpolled = {}
    /\ emptyRounds' = IF roundFound THEN 0 ELSE emptyRounds + 1
    /\ at' = IF emptyRounds' >= SpinCount THEN "token" ELSE "top"
    /\ UNCHANGED <<queued, owed, eventCh, loopCancelled, unpolled, roundFound, history>>

(* Before it blocks the smart loop throws away a token that is there.       *)
DropToken ==
    /\ at = "token"
    /\ eventCh' = FALSE
    /\ dropped' = eventCh
    /\ at' = "block"
    /\ UNCHANGED <<queued, owed, loopCancelled, unpolled, roundFound, emptyRounds, leftover, smartLoop>>

SmartBlock ==
    /\ at = "block"
    /\ \/ Exit
       \/ /\ eventCh
          /\ eventCh' = FALSE
          /\ emptyRounds' = 0
          /\ at' = "top"
          /\ dropped' = FALSE
          /\ UNCHANGED <<queued, owed, loopCancelled, unpolled, roundFound, leftover, smartLoop>>

EventLoop == EventSelect \/ EventRoundEnds
SmartLoop == SmartTop \/ SmartRoundEnds \/ DropToken \/ SmartBlock
Loop == PollNonEventCQs \/ EventLoop \/ SmartLoop

LoopNext ==
    \/ \E c \in NonEventCQs : ArriveUnnotified(c)
    \/ Notify \/ CancelLoop \/ Loop

LoopSpec == LoopInit /\ [][LoopNext]_fallbackVars

(* The loop goroutine runs and whoever saw a completion calls Notify.  A    *)
(* select whose context is done takes that case sooner or later.            *)
LoopFairness == WF_fallbackVars(Loop) /\ SF_fallbackVars(Loop /\ at' = "exited") /\ WF_fallbackVars(Notify)

FairLoopSpec == LoopSpec /\ LoopFairness

-----------------------------------------------------------------------------

LoopTypeOK ==
    /\ queued \in [NonEventCQs -> 0..CQDepth]
    /\ owed \in 0..CQDepth
    /\ eventCh \in BOOLEAN /\ loopCancelled \in BOOLEAN /\ roundFound \in BOOLEAN
    /\ at \in {"top", "poll", "token", "block", "exited"}
    /\ unpolled \subseteq NonEventCQs /\ leftover \subseteq NonEventCQs
    /\ emptyRounds \in 0..SpinCount
    /\ dropped \in BOOLEAN /\ smartLoop \in BOOLEAN

Waiting == at = IF smartLoop THEN "block" ELSE "top"

(* A loop that can only be woken by Notify does not sleep on work: a queue  *)
(* with completions has a token or a call of Notify to come.  Three things  *)
(* in the code break this, and the property excuses them: a round takes one *)
(* batch, so a last poll that filled its batch may have left some; a last   *)
(* poll that failed left all; and the smart loop throws a token away right  *)
(* before it blocks (SmartParksOnNoWork shows what comes of that).          *)
WorkIsAnnounced ==
    (Waiting /\ ~dropped) =>
        \A c \in NonEventCQs \ leftover : queued[c] > 0 => eventCh \/ owed > 0

(* What smart-cq-polling/spec.md:21-22 asks of smart mode: a queue without  *)
(* a channel is busy-polled and never parked on, so that the loop is at     *)
(* least never parked with work in one and no token or call to wake it,     *)
(* polls that failed or filled their batch apart.                           *)
SmartParksOnNoWork ==
    (smartLoop /\ at = "block") =>
        \A c \in NonEventCQs \ leftover : queued[c] > 0 => eventCh \/ owed > 0

(* The loop ends when its context is cancelled, tokens or not.              *)
LoopEnds == loopCancelled ~> (at = "exited")
=============================================================================
