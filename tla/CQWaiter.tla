------------------------------ MODULE CQWaiter ------------------------------
(***************************************************************************)
(* One completion queue of pkg/cq/poller.go with a completion channel, and *)
(* the goroutine that serves it: eventWaiterLoop in event mode,            *)
(* smartWaiterLoop in smart mode.                                          *)
(*                                                                         *)
(* The hardware is the environment.  A completion lands in the queue       *)
(* whenever it likes; if the queue is armed, and only then, it also puts   *)
(* one event on the completion channel and disarms the queue.  A           *)
(* completion that was already queued when the queue is armed raises no    *)
(* event, which is why both loops poll once more between arming and        *)
(* parking.                                                                *)
(***************************************************************************)
EXTENDS PollerConfig

CONSTANTS
    MaxEvents,      \* bound: unread events on the channel
    PollErrors,     \* PollFunc may return an error
    NotifyErrors,   \* ReqNotify may return an error
    LateArrivals    \* completions still arrive once the waiter is cancelled

ASSUME WaiterAssumption ==
    /\ PollErrors \in BOOLEAN
    /\ NotifyErrors \in BOOLEAN
    /\ LateArrivals \in BOOLEAN
    /\ MaxEvents \in Nat \ {0}

VARIABLES
    cq,         \* completions in the hardware queue
    armed,      \* the next arrival raises an event
    events,     \* events on the completion channel that nobody has read
    pc,         \* where the waiter goroutine is
    emptyRuns,  \* the smart loop's count of empty polls in a row
    callFailed, \* the last poll or ReqNotify returned an error (history)
    cancelled,  \* the waiter's context is cancelled
    fileOpen,   \* entry.file is open
    smart       \* p.cfg.PollMode: PollModeSmart or PollModeEvent

lifeVars == <<cancelled, fileOpen, smart>>
waiterVars == <<cq, armed, events, pc, emptyRuns, callFailed, lifeVars>>

Locations == {"check", "spin", "arm", "armDrain", "park", "drain", "exited"}

(* startEventWaiter: the descriptor is duplicated and opened, the goroutine *)
(* starts; completions may have been queued before.                        *)
WaiterInit ==
    /\ cq \in 0..CQDepth
    /\ armed = FALSE
    /\ events = 0
    /\ pc = "check"
    /\ emptyRuns = 0
    /\ callFailed = FALSE
    /\ cancelled = FALSE
    /\ fileOpen = TRUE
    /\ smart \in BOOLEAN

-----------------------------------------------------------------------------
(* The hardware and the callers of RemoveCQ and Close.                      *)

Arrive ==
    /\ cq < CQDepth
    /\ armed => events < MaxEvents
    /\ cancelled => LateArrivals
    /\ cq' = cq + 1
    /\ armed' = FALSE
    /\ events' = IF armed THEN events + 1 ELSE events
    /\ UNCHANGED <<pc, emptyRuns, callFailed, lifeVars>>

(* RemoveCQ and Close cancel the context first and close the file second.   *)
Cancel ==
    /\ ~cancelled
    /\ cancelled' = TRUE
    /\ UNCHANGED <<cq, armed, events, pc, emptyRuns, callFailed, fileOpen, smart>>

CloseWaiterFile ==
    /\ cancelled
    /\ fileOpen
    /\ fileOpen' = FALSE
    /\ UNCHANGED <<cq, armed, events, pc, emptyRuns, callFailed, cancelled, smart>>

-----------------------------------------------------------------------------
(* Steps the two loops share.                                               *)

(* A poll takes a batch off the queue and hands every completion to the     *)
(* handler; an error takes nothing and returns 0, as an empty queue does.   *)
PollSingleCQ(found) ==
    \/ /\ found = IF cq < MaxBatchSize THEN cq ELSE MaxBatchSize
       /\ cq' = cq - found
       /\ callFailed' = FALSE
    \/ /\ PollErrors
       /\ found = 0
       /\ cq' = cq
       /\ callFailed' = TRUE

CheckContext(next) ==
    /\ pc = "check"
    /\ pc' = IF cancelled THEN "exited" ELSE next
    /\ UNCHANGED <<cq, armed, events, emptyRuns, callFailed, lifeVars>>

(* Mutants: the queue is never armed; an error of ReqNotify is ignored.     *)
ReqNotifyArmsNothing ==
    /\ pc = "arm"
    /\ pc' = "armDrain"
    /\ callFailed' = FALSE
    /\ UNCHANGED <<cq, armed, events, emptyRuns, lifeVars>>

(* An error of ReqNotify ends the goroutine.                                *)
ReqNotify ==
    /\ pc = "arm"
    /\ \/ armed' = TRUE /\ pc' = "armDrain" /\ callFailed' = FALSE
       \/ NotifyErrors /\ armed' = armed /\ pc' = "exited" /\ callFailed' = TRUE
    /\ UNCHANGED <<cq, events, emptyRuns, lifeVars>>

(* Mutant: closing the file wakes nobody.                                   *)
ReadIgnoresClose ==
    /\ pc = "park"
    /\ events > 0
    /\ events' = events - 1
    /\ pc' = "drain"
    /\ UNCHANGED <<cq, armed, emptyRuns, callFailed, lifeVars>>

(* f.Read parks until there is an event or the file is closed.              *)
ReadEvent ==
    /\ pc = "park"
    /\ \/ /\ fileOpen
          /\ events > 0
          /\ events' = events - 1
          /\ pc' = "drain"
       \/ /\ ~fileOpen
          /\ events' = events
          /\ pc' = "exited"
    /\ UNCHANGED <<cq, armed, emptyRuns, callFailed, lifeVars>>

(* The drain after a wake polls until a poll returns nothing.               *)
Drain ==
    /\ pc = "drain"
    /\ \E found \in 0..MaxBatchSize :
          /\ PollSingleCQ(found)
          /\ pc' = IF found > 0 THEN "drain" ELSE "check"
          /\ emptyRuns' = IF found > 0 THEN emptyRuns ELSE 0
    /\ UNCHANGED <<armed, events, lifeVars>>

-----------------------------------------------------------------------------
(* eventWaiterLoop: check, arm, drain, park, drain.                         *)

(* Mutant: the loop parks right after arming.                               *)
EventParksAtOnce ==
    /\ pc = "armDrain"
    /\ pc' = "park"
    /\ UNCHANGED <<cq, armed, events, emptyRuns, callFailed, lifeVars>>

EventArmDrain ==
    /\ pc = "armDrain"
    /\ \E found \in 0..MaxBatchSize :
          /\ PollSingleCQ(found)
          /\ pc' = IF found > 0 THEN "armDrain" ELSE "park"
    /\ UNCHANGED <<armed, events, emptyRuns, lifeVars>>

EventWaiterLoop ==
    /\ ~smart
    /\ \/ CheckContext("arm")
       \/ ReqNotify
       \/ EventArmDrain
       \/ ReadEvent
       \/ Drain

-----------------------------------------------------------------------------
(* smartWaiterLoop: busy-poll, and arm and park after SpinCount empty polls.*)

SpinPoll ==
    /\ pc = "spin"
    /\ \E found \in 0..MaxBatchSize :
          /\ PollSingleCQ(found)
          /\ emptyRuns' = IF found > 0 THEN 0 ELSE emptyRuns + 1
          /\ pc' = IF emptyRuns' < SpinCount THEN "check" ELSE "arm"
    /\ UNCHANGED <<armed, events, lifeVars>>

(* A single poll after arming; completions send the loop back to spinning   *)
(* with the queue armed, and an event it raises stays unread for now.       *)
SmartArmPoll ==
    /\ pc = "armDrain"
    /\ \E found \in 0..MaxBatchSize :
          /\ PollSingleCQ(found)
          /\ pc' = IF found > 0 THEN "check" ELSE "park"
          /\ emptyRuns' = IF found > 0 THEN 0 ELSE emptyRuns
    /\ UNCHANGED <<armed, events, lifeVars>>

SmartWaiterLoop ==
    /\ smart
    /\ \/ CheckContext("spin")
       \/ SpinPoll
       \/ ReqNotify
       \/ SmartArmPoll
       \/ ReadEvent
       \/ Drain

-----------------------------------------------------------------------------

Waiter == EventWaiterLoop \/ SmartWaiterLoop

(* The goroutine has returned and its file is closed: nothing is left.      *)
Finished == pc = "exited" /\ ~fileOpen /\ UNCHANGED waiterVars

WaiterNext == Arrive \/ Cancel \/ CloseWaiterFile \/ Waiter \/ Finished

WaiterSpec == WaiterInit /\ [][WaiterNext]_waiterVars

(* The Go scheduler runs a runnable goroutine, and whoever cancelled the    *)
(* waiter goes on to close its file.  Nothing makes the hardware complete   *)
(* anything, and nobody has to remove the queue.                            *)
WaiterFairness == WF_waiterVars(Waiter) /\ WF_waiterVars(CloseWaiterFile)

FairWaiterSpec == WaiterSpec /\ WaiterFairness

-----------------------------------------------------------------------------

WaiterTypeOK ==
    /\ cq \in 0..CQDepth
    /\ armed \in BOOLEAN
    /\ events \in 0..MaxEvents
    /\ pc \in Locations
    /\ emptyRuns \in 0..SpinCount
    /\ callFailed \in BOOLEAN
    /\ cancelled \in BOOLEAN
    /\ fileOpen \in BOOLEAN
    /\ smart \in BOOLEAN

(* No lost wakeup (poller.go, arm-then-poll).  A waiter that parks while    *)
(* completions are queued has an event to wake it, unless the poll before   *)
(* parking failed.  The hazard is the completion that lands between the     *)
(* last empty poll and the arming, which never raises an event itself.      *)
NoLostWakeup ==
    (pc = "park" /\ cq > 0 /\ ~callFailed) => events > 0

(* A parked waiter can be woken by the next completion, whatever the last   *)
(* poll returned: the queue is armed, or an event is waiting already.       *)
ParkedIsReachable == pc = "park" => armed \/ events > 0

(* A registered queue that stays non-empty is polled with success again and *)
(* again, unless calls keep failing or a ReqNotify that failed has ended    *)
(* the waiter: it neither sleeps on work nor dies while it is needed.       *)
CompletionsAreDelivered ==
    <>[](cq > 0 /\ ~cancelled /\ ~callFailed) => []<><<cq' < cq>>_waiterVars

(* Once its context is cancelled and its file is closed the waiter returns, *)
(* which Close waits for through wg.Wait.                                   *)
CancelledWaiterExits == (cancelled /\ ~fileOpen) ~> (pc = "exited")
=============================================================================
