----------------------------- MODULE PollLoops -----------------------------
(***************************************************************************)
(* The two kinds of goroutine that poll in event and smart mode, in one    *)
(* poller: a waiter of a queue with a completion channel, and the loop     *)
(* that serves the queues without one.  They share the settings of their   *)
(* poller and touch no state of each other, so each is looked at with the  *)
(* other in the state in which it has ended.                               *)
(***************************************************************************)
EXTENDS CQWaiter, FallbackLoop

(* The waiter has returned, its file is closed and its queue is gone.       *)
WaiterIsOver ==
    /\ cq = 0 /\ armed = FALSE /\ events = 0
    /\ pc = "exited" /\ emptyRuns = 0 /\ callFailed = FALSE
    /\ cancelled = TRUE /\ fileOpen = FALSE
    /\ smart = smartLoop

(* The loop has returned; its queues may still fill up.                     *)
LoopIsOver ==
    /\ queued = [c \in NonEventCQs |-> 0]
    /\ owed = 0 /\ eventCh = FALSE /\ loopCancelled = TRUE
    /\ at = "exited" /\ unpolled = {} /\ roundFound = FALSE
    /\ emptyRounds = 0 /\ leftover = {} /\ dropped = FALSE
    /\ smartLoop = smart

PollInit ==
    \/ WaiterInit /\ LoopIsOver
    \/ LoopInit /\ WaiterIsOver

PollNext ==
    \/ WaiterNext /\ UNCHANGED fallbackVars
    \/ LoopNext /\ UNCHANGED waiterVars

PollSpec ==
    /\ PollInit
    /\ [][PollNext]_<<waiterVars, fallbackVars>>
    /\ WaiterFairness
    /\ LoopFairness
=============================================================================
