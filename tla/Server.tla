------------------------------- MODULE Server -------------------------------
(***************************************************************************)
(* server.Server: Start, acceptLoop, handleConn, Stop, with Manager.Accept *)
(* and Conn.Recv, on top of what the connection manager promises           *)
(* (ConnOffers, which ConnManager implements).                             *)
(*                                                                         *)
(* One goroutine calls Start and Stop, in turn, as often as it likes up to *)
(* the number of runs; the goroutines of a run that Stop gave up waiting   *)
(* for live on into the next.  s.conns is guarded by s.mu, which Stop      *)
(* holds while it closes what is left.                                     *)
(***************************************************************************)
EXTENDS ConnOffers, FiniteSets

CONSTANTS
    MaxRuns,      \* calls of Start
    None          \* no connection

ASSUME ServerAssumption ==
    MaxRuns \in Nat /\ IsFiniteSet(IDs) /\ None \notin IDs

Runs == 1 .. MaxRuns

VARIABLES
    run,          \* the run that was started last, 0 before
    cancelled,    \* the runs whose context is done
    apc,          \* apc[r]: what the accept loop of run r does next
    taken,        \* taken[r]: the connection it has accepted
    hpc,          \* hpc[c]: what the handler of connection c does next
    hrun,         \* hrun[c]: the run it belongs to
    conns,        \* Server.conns
    mu,           \* Stop holds s.mu
    wg,           \* the counter of s.wg
    waiters,      \* goroutines left in wg.Wait by a Stop that gave up
    woken,        \* those of them that were released and have not yet run
    spc,          \* what the caller of Start and Stop does next
    crash,        \* the wait group panicked
    abandoned     \* history: the runs whose Stop gave up waiting

wgVars     == <<wg, waiters, woken>>
serverVars == <<run, cancelled, apc, taken, hpc, hrun, 
                conns, mu, wgVars, spc, crash, abandoned>>
vars == <<offerVars, serverVars>>

loopState    == <<apc, taken>>
handlerState == <<hpc, hrun>>
stopState    == <<run, cancelled, spc, crash, abandoned>>

------------------------------------------------------------------------------
(* Start, and its context. *)

StartServer ==
    /\ spc = "stopped"
    /\ run < MaxRuns
    /\ run' = run + 1
    /\ spc' = "started"
    /\ wg' = wg + 1
    /\ apc' = [apc EXCEPT ![run'] = "check"]
    /\ UNCHANGED <<cancelled, taken, handlerState, conns, mu, waiters, woken,
                   crash, abandoned, offerVars>>

(* The context the caller gave to Start is cancelled. *)
ParentCancel ==
    /\ spc = "started"
    /\ cancelled' = cancelled \cup {run}
    /\ UNCHANGED <<run, loopState, handlerState, conns, mu, wgVars,
                   spc, crash, abandoned, offerVars>>

(* wg.Done: the last one releases who waits, and they have yet to run. *)
WgDone ==
    /\ wg' = wg - 1
    /\ woken' = IF wg = 1 THEN woken + waiters ELSE woken
    /\ waiters' = IF wg = 1 THEN 0 ELSE waiters

(* wg.Wait returns, and panics when the wait group is in use again. *)
WaiterWakes ==
    /\ woken > 0
    /\ woken' = woken - 1
    /\ crash' = (wg # 0)
    /\ UNCHANGED <<run, cancelled, spc, abandoned, loopState, handlerState, 
                   conns, mu, wg, waiters, offerVars>>

------------------------------------------------------------------------------
(* acceptLoop of run r. *)

(* An error ends the loop when its context is done; else it tries again. *)
AcceptError(r) == IF r \in cancelled THEN "leave" ELSE "check"

(* Manager.Accept: a closed manager is an error at once. *)
AcceptCheck(r) ==
    /\ apc[r] = "check"
    /\ apc' = [apc EXCEPT ![r] = IF closed THEN AcceptError(r) ELSE "select"]
    /\ UNCHANGED <<taken, handlerState, conns, mu, wgVars,
                   stopState, offerVars>>

AcceptConnection(r) ==
    /\ apc[r] = "select"
    /\ TakeConn
    /\ taken' = [taken EXCEPT ![r] = Head(acceptCh)]
    /\ apc' = [apc EXCEPT ![r] = "track"]
    /\ UNCHANGED <<handlerState, conns, mu, wgVars, stopState>>

(* acceptCh is closed and empty, or the context is done. *)
AcceptFails(r) ==
    /\ apc[r] = "select"
    /\ (chClosed /\ acceptCh = <<>>) \/ r \in cancelled
    /\ apc' = [apc EXCEPT ![r] = AcceptError(r)]
    /\ UNCHANGED <<taken, handlerState, conns, mu, wgVars,
                   stopState, offerVars>>

(* Mutant: the handler is not counted. *)
SpawnUncounted(r) ==
    /\ apc[r] = "track"
    /\ ~mu
    /\ conns' = conns \cup {taken[r]}
    /\ hpc' = [hpc EXCEPT ![taken[r]] = "recv"]
    /\ hrun' = [hrun EXCEPT ![taken[r]] = r]
    /\ taken' = [taken EXCEPT ![r] = None]
    /\ apc' = [apc EXCEPT ![r] = "check"]
    /\ UNCHANGED <<mu, wgVars, stopState, offerVars>>

(* The connection is put in the table, under the lock; then wg.Add, and the
   handler begins.  In between only Stop could see the connection, and it
   would do to it what it does to one whose handler has just begun. *)
Spawn(r) ==
    /\ apc[r] = "track"
    /\ ~mu
    /\ conns' = conns \cup {taken[r]}
    /\ wg' = wg + 1
    /\ hpc' = [hpc EXCEPT ![taken[r]] = "recv"]
    /\ hrun' = [hrun EXCEPT ![taken[r]] = r]
    /\ taken' = [taken EXCEPT ![r] = None]
    /\ apc' = [apc EXCEPT ![r] = "check"]
    /\ UNCHANGED <<mu, waiters, woken, stopState, offerVars>>

(* The deferred wg.Done. *)
AcceptLoopEnds(r) ==
    /\ apc[r] = "leave"
    /\ WgDone
    /\ apc' = [apc EXCEPT ![r] = "ended"]
    /\ UNCHANGED <<taken, handlerState, conns, mu, stopState,
                   offerVars>>

AcceptLoop(r) ==
    \/ AcceptCheck(r) \/ AcceptConnection(r) \/ AcceptFails(r)
    \/ Spawn(r) \/ AcceptLoopEnds(r)

------------------------------------------------------------------------------
(* handleConn of connection c. *)

(* Recv returns a message.  What is in recvCh is left open: it may hold a
   message at any time, and some when the connection has ended. *)
RecvMessage(c) ==
    /\ hpc[c] = "recv"
    /\ hpc' = [hpc EXCEPT ![c] = "handle"]
    /\ UNCHANGED <<loopState, hrun, conns, mu, wgVars, stopState, offerVars>>

(* Mutant: Recv looks at no context. *)
RecvEndsOnDone(c) ==
    /\ hpc[c] = "recv"
    /\ c \in done
    /\ hpc' = [hpc EXCEPT ![c] = "remove"]
    /\ UNCHANGED <<loopState, hrun, conns, mu, wgVars,
                   stopState, offerVars>>

(* Mutant: Recv does not look at the connection's done channel. *)
RecvEndsOnContext(c) ==
    /\ hpc[c] = "recv"
    /\ hrun[c] \in cancelled
    /\ hpc' = [hpc EXCEPT ![c] = "remove"]
    /\ UNCHANGED <<loopState, hrun, conns, mu, wgVars, stopState, offerVars>>

(* Recv returns an error: the context or the connection is done. *)
RecvEnds(c) ==
    /\ hpc[c] = "recv"
    /\ c \in done \/ hrun[c] \in cancelled
    /\ hpc' = [hpc EXCEPT ![c] = "remove"]
    /\ UNCHANGED <<loopState, hrun, conns, mu, wgVars,
                   stopState, offerVars>>

(* The handler's Handle and the Send of its answer, whose errors it ignores. *)
HandleMessage(c) ==
    /\ hpc[c] = "handle"
    /\ hpc' = [hpc EXCEPT ![c] = "recv"]
    /\ UNCHANGED <<loopState, hrun, conns, mu, wgVars,
                   stopState, offerVars>>

(* removeConn forgets the connection and does not close it. *)
RemoveConn(c) ==
    /\ hpc[c] = "remove"
    /\ ~mu
    /\ conns' = conns \ {c}
    /\ hpc' = [hpc EXCEPT ![c] = "leave"]
    /\ UNCHANGED <<loopState, hrun, mu, wgVars, stopState,
                   offerVars>>

HandlerEnds(c) ==
    /\ hpc[c] = "leave"
    /\ WgDone
    /\ hpc' = [hpc EXCEPT ![c] = "ended"]
    /\ hrun' = [hrun EXCEPT ![c] = 0]
    /\ UNCHANGED <<loopState, conns, mu, stopState,
                   offerVars>>

HandleConn(c) ==
    \/ RecvMessage(c) \/ RecvEnds(c) \/ HandleMessage(c) \/ RemoveConn(c)
    \/ HandlerEnds(c)

------------------------------------------------------------------------------
(* Stop. *)

StopCancels ==
    /\ spc = "started"
    /\ cancelled' = cancelled \cup {run}
    /\ spc' = "wait"
    /\ UNCHANGED <<run, crash, abandoned, loopState, handlerState, conns,
                   mu, wgVars, offerVars>>

StopDone ==
    /\ spc = "wait"
    /\ wg = 0
    /\ spc' = "lock"
    /\ UNCHANGED <<run, cancelled, crash, abandoned, loopState, handlerState, conns, mu, wgVars, offerVars>>

(* Its context is done; the goroutine in wg.Wait stays behind. *)
StopDeadline ==
    /\ spc = "wait"
    /\ wg > 0
    /\ waiters' = waiters + 1
    /\ abandoned' = abandoned \cup {run}
    /\ spc' = "lock"
    /\ UNCHANGED <<run, cancelled, crash, loopState, handlerState, conns,
                   mu, wg, woken, offerVars>>

StopLocks ==
    /\ spc = "lock"
    /\ mu' = TRUE
    /\ spc' = "sweep"
    /\ UNCHANGED <<run, cancelled, crash, abandoned, loopState, handlerState, 
                   conns, wgVars, offerVars>>

(* Conn.Close on a tracked connection, which may have ended before. *)
StopCloses(c) ==
    /\ spc = "sweep"
    /\ c \in conns
    /\ conns' = conns \ {c}
    /\ IF c \in done THEN UNCHANGED offerVars ELSE EndConn(c)
    /\ UNCHANGED <<stopState, loopState, handlerState, mu, wgVars>>

StopReturn ==
    /\ spc = "sweep"
    /\ conns = {}
    /\ mu' = FALSE
    /\ spc' = "stopped"
    /\ UNCHANGED <<run, cancelled, crash, abandoned, loopState, handlerState, conns, wgVars, offerVars>>

StopStep ==
    StopDone \/ StopLocks \/ (\E c \in IDs : StopCloses(c)) \/ StopReturn

------------------------------------------------------------------------------
Init ==
    /\ OffersInit
    /\ run = 0
    /\ cancelled = {}
    /\ apc = [r \in Runs |-> "off"]
    /\ taken = [r \in Runs |-> None]
    /\ hpc = [c \in IDs |-> "off"]
    /\ hrun = [c \in IDs |-> 0]
    /\ conns = {}
    /\ mu = FALSE
    /\ wg = 0
    /\ waiters = 0
    /\ woken = 0
    /\ spc = "stopped"
    /\ abandoned = {}
    /\ crash = FALSE

(* What the connection manager does of itself. *)
Manager ==
    /\ (\E c \in IDs : OfferConn(c) \/ EndConn(c)) \/ BeginClose \/ CloseOffers
    /\ UNCHANGED serverVars

(* After a panic nothing happens any more. *)
Next ==
    /\ ~crash
    /\ \/ Manager
       \/ StartServer \/ ParentCancel \/ StopCancels \/ StopDeadline \/ StopStep
       \/ WaiterWakes
       \/ \E r \in Runs : AcceptLoop(r)
       \/ \E c \in IDs : HandleConn(c)

(* Every goroutine that can go on does; a context may never be done, and
   nobody is made to call anything.  A select chooses among what is ready
   with equal chances, so Recv does not take messages for ever. *)
Fairness ==
    /\ WF_vars(~crash /\ StopStep)
    /\ \A r \in Runs : WF_vars(~crash /\ AcceptLoop(r))
    /\ \A c \in IDs : /\ WF_vars(~crash /\ HandleConn(c))
                      /\ SF_vars(~crash /\ RecvEnds(c))

Spec == Init /\ [][Next]_vars /\ Fairness

------------------------------------------------------------------------------
(* The handlers that have begun and not ended. *)
Handled == {c \in IDs : hpc[c] \notin {"off", "ended"}}

(* The server's state has its type. *)
TypeOK ==
    /\ offered \subseteq IDs
    /\ acceptCh \in Seq(IDs)
    /\ run \in 0 .. MaxRuns
    /\ abandoned \subseteq Runs
    /\ apc \in [Runs -> {"off", "check", "select", "track", "leave", "ended"}]
    /\ taken \in [Runs -> IDs \cup {None}]
    /\ hpc \in [IDs -> {"off", "recv", "handle", "remove", "leave", "ended"}]
    /\ spc \in {"stopped", "started", "wait", "lock", "sweep"}
    /\ wg \in Nat /\ waiters \in Nat /\ woken \in Nat

(* A Stop that did not give up leaves no goroutine of any run behind, and no
   connection in the table. *)
GracefulStopIsComplete ==
    spc = "stopped" /\ run \notin abandoned =>
        /\ Handled = {}
        /\ conns = {}
        /\ \A r \in Runs : apc[r] \in {"off", "ended"}

(* The wait group panics, if ever, when Start is called after a Stop that
   gave up, whose goroutine has not yet seen the group empty: within a run the
   accept loop is counted as long as it may add to the group. *)
ReuseNeedsRestart == crash => \E r \in abandoned : r < run

(* Stop returns even when its context is never done: Accept and Recv look at
   the context that Stop cancels, and a handler that runs comes back. *)
StopReturns == spc = "wait" ~> spc = "stopped" \/ crash

(* The handler of a connection that ends, or whose run is stopped, comes to
   its end. *)
HandlersEnd ==
    \A c \in IDs :
        c \in Handled /\ (c \in done \/ hrun[c] \in cancelled) ~>
            c \notin Handled \/ crash
==============================================================================
