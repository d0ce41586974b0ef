---------------------------- MODULE ServerProofs ----------------------------
(***************************************************************************)
(* Of Server, for any number of runs and connections: what a graceful Stop *)
(* leaves behind, and when the wait group can panic.                       *)
(*                                                                         *)
(* The argument is that s.wg counts exactly the goroutines that live: no   *)
(* handler is counted that was there before, because a connection is taken *)
(* from acceptCh once.                                                     *)
(***************************************************************************)
EXTENDS Server, FiniteSetTheorems, TLAPS

(* The accept loops that have begun and not ended. *)
Loops == {r \in Runs : apc[r] \notin {"off", "ended"}}

Counted == wg = Cardinality(Loops) + Cardinality(Handled)

(* Only the runs that were started have done anything. *)
History ==
    /\ run = 0 => spc = "stopped"
    /\ \A r \in abandoned : r <= run
    /\ \A r \in Runs : r > run => apc[r] = "off"

(* A connection waits in acceptCh or in an accept loop before it has a
   handler, in one place only. *)
TakenOnce ==
    /\ \A i \in 1 .. Len(acceptCh) :
          acceptCh[i] \in offered /\ hpc[acceptCh[i]] = "off"
    /\ \A i, j \in 1 .. Len(acceptCh) : acceptCh[i] = acceptCh[j] => i = j
    /\ \A r \in Runs : apc[r] = "track" <=> taken[r] # None
    /\ \A r \in Runs : taken[r] # None =>
          /\ taken[r] \in offered /\ hpc[taken[r]] = "off"
          /\ \A i \in 1 .. Len(acceptCh) : acceptCh[i] # taken[r]
          /\ \A q \in Runs : taken[q] = taken[r] => q = r
    /\ \A c \in IDs : hpc[c] # "off" => c \in offered

(* A Stop that saw the wait group empty finds it empty until the next Start. *)
StoppedIsEmpty ==
    /\ spc \in {"lock", "sweep", "stopped"} /\ run \notin abandoned => wg = 0
    /\ spc = "stopped" /\ run \notin abandoned => conns = {}

(* Who waits was left there by a Stop; and a waiter that was released finds the
   group in use only after a later Start. *)
WaitersAreOld ==
    /\ waiters + woken > 0 => abandoned # {}
    /\ woken > 0 /\ wg > 0 => \E r \in abandoned : r < run

Stoppable ==
    /\ TypeOK /\ Counted /\ History /\ TakenOnce /\ StoppedIsEmpty
    /\ WaitersAreOld /\ ReuseNeedsRestart

------------------------------------------------------------------------------
LEMMA FiniteCounts ==
    /\ IsFiniteSet(Loops) /\ Cardinality(Loops) \in Nat
    /\ IsFiniteSet(Handled) /\ Cardinality(Handled) \in Nat
<1>1. IsFiniteSet(Runs)
    BY ServerAssumption, FS_Interval DEF ServerAssumption, Runs
<1>2. IsFiniteSet(Loops) /\ IsFiniteSet(Handled)
    BY <1>1, ServerAssumption, FS_Subset DEF ServerAssumption, Loops, Handled
<1>. QED
    BY <1>2, FS_CardinalityType

(* The group is empty when nothing lives, and the other way round. *)
LEMMA EmptyGroup ==
    ASSUME Counted
    PROVE  wg = 0 <=> Loops = {} /\ Handled = {}
    BY FiniteCounts, FS_EmptySet DEF Counted

(* A goroutine that begins or ends is counted. *)
LEMMA CountOneMore ==
    ASSUME NEW S, IsFiniteSet(S), NEW x, x \notin S
    PROVE  Cardinality(S \cup {x}) = Cardinality(S) + 1
    BY FS_AddElement

LEMMA CountOneLess ==
    ASSUME NEW S, IsFiniteSet(S), NEW x \in S
    PROVE  Cardinality(S \ {x}) = Cardinality(S) - 1
    BY FS_RemoveElement

LEMMA InitStoppable == Init => Stoppable
<1> SUFFICES ASSUME Init PROVE Stoppable
    OBVIOUS
<1>1. TypeOK
    BY ServerAssumption DEF Init, OffersInit, TypeOK, Runs, ServerAssumption
<1>2. Counted
    <2>1. Loops = {} /\ Handled = {}
        BY DEF Init, Loops, Handled
    <2>. QED
        BY <2>1, FS_EmptySet DEF Counted, Init
<1>3. History
    BY DEF Init, History
<1>4. TakenOnce
    BY DEF Init, OffersInit, TakenOnce
<1>5. StoppedIsEmpty /\ WaitersAreOld /\ ReuseNeedsRestart
    BY DEF Init, StoppedIsEmpty, WaitersAreOld, ReuseNeedsRestart
<1>. QED
    BY <1>1, <1>2, <1>3, <1>4, <1>5 DEF Stoppable

------------------------------------------------------------------------------
(* A step that leaves the goroutines alone: nothing begins or ends. *)
LEMMA SameGoroutines ==
    ASSUME Stoppable, UNCHANGED <<apc, hpc, wg>>
    PROVE  Counted'
    BY DEF Stoppable, Counted, Loops, Handled

(* What the connection manager does. *)
LEMMA ManagerStep ==
    ASSUME Stoppable, Manager
    PROVE  Stoppable'
<1> USE DEF Stoppable
<1>1. /\ UNCHANGED <<run, cancelled, apc, taken, hpc, hrun, conns, mu, wg,
                     waiters, woken, spc, crash, abandoned>>
    BY DEF Manager, serverVars, wgVars
<1>2. Counted' /\ History' /\ StoppedIsEmpty' /\ WaitersAreOld' /\ ReuseNeedsRestart'
    BY <1>1, SameGoroutines DEF History, StoppedIsEmpty, WaitersAreOld, ReuseNeedsRestart
<1>3. CASE UNCHANGED <<offered, acceptCh>>
    BY <1>1, <1>2, <1>3 DEF TypeOK, TakenOnce
<1>4. CASE \E c \in IDs : OfferConn(c) /\ Len(acceptCh) < Backlog
    <2>1. PICK c \in IDs : /\ c \notin offered /\ offered' = offered \cup {c}
                           /\ acceptCh' = Append(acceptCh, c)
        BY <1>4 DEF OfferConn
    <2>2. TypeOK'
        BY <1>1, <2>1 DEF TypeOK
    <2>3. /\ Len(acceptCh) \in Nat /\ Len(acceptCh') = Len(acceptCh) + 1
          /\ \A i \in 1 .. Len(acceptCh) : acceptCh'[i] = acceptCh[i]
          /\ acceptCh'[Len(acceptCh) + 1] = c
        BY <2>1 DEF TypeOK
    <2>4. hpc[c] = "off" /\ \A r \in Runs : taken[r] # c
        BY <2>1, ServerAssumption DEF TakenOnce, ServerAssumption
    <2>5. TakenOnce'
        BY <1>1, <2>1, <2>3, <2>4 DEF TakenOnce
    <2>. QED
        BY <1>2, <2>2, <2>5
<1>5. CASE \E c \in IDs : OfferConn(c) /\ ~(Len(acceptCh) < Backlog)
    <2>1. PICK c \in IDs : offered' = offered \cup {c} /\ acceptCh' = acceptCh
        BY <1>5 DEF OfferConn
    <2>. QED
        BY <1>1, <1>2, <2>1 DEF TypeOK, TakenOnce
<1>. QED
    BY <1>3, <1>4, <1>5 DEF Manager, EndConn, BeginClose, CloseOffers

------------------------------------------------------------------------------
(* The caller of Start and Stop. *)
LEMMA StartStep ==
    ASSUME Stoppable, StartServer
    PROVE  Stoppable'
<1> USE DEF Stoppable
<1> DEFINE r == run + 1
<1>1. /\ r \in Runs /\ apc[r] = "off"
      /\ run' = r /\ spc' = "started" /\ wg' = wg + 1
      /\ apc' = [apc EXCEPT ![r] = "check"]
      /\ UNCHANGED <<offered, acceptCh, taken, hpc, conns, waiters, woken,
                     crash, abandoned>>
    BY ServerAssumption
       DEF StartServer, handlerState, offerVars, TypeOK, Runs, History, ServerAssumption
<1>2. TypeOK'
    BY <1>1 DEF TypeOK, Runs
<1>3. Counted'
    <2>1. Loops' = Loops \cup {r} /\ r \notin Loops /\ Handled' = Handled
        BY <1>1 DEF Loops, Handled, TypeOK
    <2>2. Cardinality(Loops') = Cardinality(Loops) + 1
        BY <2>1, FiniteCounts, CountOneMore
    <2>. QED
        BY <1>1, <2>1, <2>2, FiniteCounts DEF Counted
<1>4. History'
    BY <1>1 DEF History, TypeOK, Runs
<1>5. TakenOnce'
    BY <1>1 DEF TakenOnce, TypeOK
<1>6. StoppedIsEmpty'
    BY <1>1 DEF StoppedIsEmpty
<1>7. WaitersAreOld' /\ ReuseNeedsRestart'
    <2>1. \A x \in abandoned : x <= run /\ x \in Nat /\ x < r
        BY DEF History, TypeOK, Runs
    <2>2. woken > 0 => abandoned # {}
        BY DEF WaitersAreOld, TypeOK
    <2>. QED
        BY <1>1, <2>1, <2>2 DEF WaitersAreOld, ReuseNeedsRestart
<1>. QED
    BY <1>2, <1>3, <1>4, <1>5, <1>6, <1>7

LEMMA StopSteps ==
    ASSUME Stoppable,
           \/ ParentCancel \/ StopCancels \/ StopDeadline \/ StopStep \/ WaiterWakes
    PROVE  Stoppable'
<1> USE DEF Stoppable
<1>1. /\ UNCHANGED <<run, apc, taken, hpc, wg, offered, acceptCh>>
    BY DEF ParentCancel, StopCancels, StopDeadline, StopStep, WaiterWakes, StopDone,
           StopLocks, StopCloses, StopReturn, EndConn, loopState, handlerState,
           stopState, wgVars, offerVars
<1>2. Counted' /\ TakenOnce'
    BY <1>1, SameGoroutines DEF TakenOnce
<1>3. CASE StopDeadline
    <2>1. /\ spc = "wait" /\ wg > 0 /\ spc' = "lock"
          /\ waiters' = waiters + 1 /\ abandoned' = abandoned \cup {run}
          /\ UNCHANGED <<conns, crash, woken>>
        BY <1>3 DEF StopDeadline
    <2>2. run \in Runs
        BY <2>1 DEF History, TypeOK, Runs
    <2>3. TypeOK' /\ History'
        BY <1>1, <2>1, <2>2 DEF TypeOK, History, Runs
    <2>4. StoppedIsEmpty' /\ WaitersAreOld' /\ ReuseNeedsRestart'
        BY <1>1, <2>1, <2>2 DEF StoppedIsEmpty, WaitersAreOld, ReuseNeedsRestart, TypeOK
    <2>. QED
        BY <1>2, <2>3, <2>4
<1>4. CASE WaiterWakes
    <2>1. /\ woken > 0 /\ woken' = woken - 1 /\ crash' = (wg # 0)
          /\ UNCHANGED <<spc, abandoned, conns, waiters>>
        BY <1>4 DEF WaiterWakes
    <2>2. TypeOK' /\ History'
        BY <1>1, <2>1 DEF TypeOK, History
    <2>3. StoppedIsEmpty' /\ WaitersAreOld'
        BY <1>1, <2>1 DEF StoppedIsEmpty, WaitersAreOld, TypeOK
    <2>4. wg # 0 => \E r \in abandoned : r < run
        BY <2>1 DEF WaitersAreOld, TypeOK
    <2>5. crash' => wg # 0
        BY <2>1, Zenon
    <2>6. ReuseNeedsRestart'
        BY <1>1, <2>1, <2>4, <2>5 DEF ReuseNeedsRestart
    <2>. QED
        BY <1>2, <2>2, <2>3, <2>6
<1>5. CASE StopDone
    <2>1. /\ wg = 0 /\ spc = "wait" /\ spc' = "lock"
          /\ UNCHANGED <<abandoned, conns, waiters, woken, crash>>
        BY <1>5 DEF StopDone, wgVars
    <2>. QED
        BY <1>1, <1>2, <2>1
           DEF TypeOK, History, StoppedIsEmpty, WaitersAreOld, ReuseNeedsRestart
<1>6. CASE ParentCancel \/ StopCancels
    <2>1. /\ spc = "started" /\ spc' \in {"started", "wait"}
          /\ UNCHANGED <<abandoned, conns, waiters, woken, crash>>
        BY <1>6 DEF ParentCancel, StopCancels, wgVars
    <2>. QED
        BY <1>1, <1>2, <2>1
           DEF TypeOK, History, StoppedIsEmpty, WaitersAreOld, ReuseNeedsRestart
<1>7. CASE StopLocks \/ (\E c \in IDs : StopCloses(c)) \/ StopReturn
    <2>1. /\ \/ spc = "lock" /\ spc' = "sweep"
             \/ spc = "sweep" /\ spc' = "sweep"
             \/ spc = "sweep" /\ spc' = "stopped" /\ conns' = {}
          /\ UNCHANGED <<abandoned, waiters, woken, crash>>
        BY <1>7 DEF StopLocks, StopCloses, StopReturn, wgVars, stopState
    <2>. QED
        BY <1>1, <1>2, <2>1
           DEF TypeOK, History, StoppedIsEmpty, WaitersAreOld, ReuseNeedsRestart
<1>. QED
    BY <1>3, <1>4, <1>5, <1>6, <1>7 DEF StopStep

------------------------------------------------------------------------------
(* The accept loops. *)
LEMMA AcceptStep ==
    ASSUME Stoppable, NEW r \in Runs, AcceptLoop(r)
    PROVE  Stoppable'
<1> USE DEF Stoppable
<1>0. r \in Loops /\ wg > 0
    <2>1. r \in Loops
        BY DEF AcceptLoop, AcceptCheck, AcceptConnection, AcceptFails, Spawn,
               AcceptLoopEnds, Loops
    <2>. QED
        BY <2>1, EmptyGroup DEF TypeOK
<1>1. CASE AcceptCheck(r) \/ AcceptFails(r)
    <2>1. PICK next \in {"check", "select", "leave"} :
              /\ apc' = [apc EXCEPT ![r] = next] /\ apc[r] \in {"check", "select"}
              /\ UNCHANGED <<run, spc, crash, abandoned, wg, waiters, woken, offered,
                             acceptCh, taken, hpc, conns>>
        BY <1>1 DEF AcceptCheck, AcceptFails, AcceptError, stopState, wgVars,
                    offerVars, handlerState
    <2>2. Loops' = Loops /\ Handled' = Handled
        BY <2>1 DEF Loops, Handled, TypeOK
    <2>3. TypeOK' /\ Counted' /\ History'
        BY <2>1, <2>2 DEF TypeOK, Counted, History
    <2>4. TakenOnce'
        BY <2>1 DEF TakenOnce, TypeOK
    <2>5. StoppedIsEmpty' /\ WaitersAreOld' /\ ReuseNeedsRestart'
        BY <2>1 DEF StoppedIsEmpty, WaitersAreOld, ReuseNeedsRestart
    <2>. QED
        BY <2>3, <2>4, <2>5
<1>2. CASE AcceptConnection(r)
    <2> DEFINE c == Head(acceptCh)
    <2>1. /\ apc[r] = "select" /\ acceptCh # <<>> /\ acceptCh' = Tail(acceptCh)
          /\ taken' = [taken EXCEPT ![r] = c] /\ apc' = [apc EXCEPT ![r] = "track"]
          /\ UNCHANGED <<run, spc, crash, abandoned, wg, waiters, woken, offered, hpc, conns>>
        BY <1>2 DEF AcceptConnection, TakeConn, stopState, wgVars, handlerState
    <2>2. /\ Len(acceptCh) \in Nat \ {0} /\ c = acceptCh[1] /\ c \in IDs
          /\ Len(acceptCh') = Len(acceptCh) - 1 /\ acceptCh' \in Seq(IDs)
          /\ \A i \in 1 .. Len(acceptCh') : acceptCh'[i] = acceptCh[i + 1]
        BY <2>1 DEF TypeOK
    <2>3. Loops' = Loops /\ Handled' = Handled
        BY <2>1 DEF Loops, Handled, TypeOK
    <2>4. TypeOK' /\ Counted' /\ History'
        BY <2>1, <2>2, <2>3 DEF TypeOK, Counted, History
    <2>5. TakenOnce'
        <3>1. c # None /\ c \in offered /\ hpc[c] = "off"
            BY <2>2, ServerAssumption DEF TakenOnce, ServerAssumption
        <3>2. \A i \in 1 .. Len(acceptCh') :
                  i + 1 \in 1 .. Len(acceptCh) /\ acceptCh'[i] = acceptCh[i + 1]
            BY <2>2
        <3>3. \A i \in 1 .. Len(acceptCh') :
                  /\ acceptCh'[i] \in offered /\ hpc[acceptCh'[i]] = "off"
                  /\ acceptCh'[i] # c
            BY <2>2, <3>2 DEF TakenOnce
        <3>4. \A i, j \in 1 .. Len(acceptCh') : acceptCh'[i] = acceptCh'[j] => i = j
            BY <2>2, <3>2 DEF TakenOnce
        <3>5. \A q \in Runs : taken[q] # c
            BY <2>2, <3>1 DEF TakenOnce
        <3>6. \A q \in Runs : taken'[q] = IF q = r THEN c ELSE taken[q]
            BY <2>1 DEF TypeOK
        <3>7. \A q \in Runs : apc'[q] = "track" <=> taken'[q] # None
            BY <2>1, <3>1, <3>6 DEF TakenOnce, TypeOK
        <3>8. \A q \in Runs : taken'[q] # None =>
                  /\ taken'[q] \in offered /\ hpc[taken'[q]] = "off"
                  /\ \A i \in 1 .. Len(acceptCh') : acceptCh'[i] # taken'[q]
                  /\ \A p \in Runs : taken'[p] = taken'[q] => p = q
            BY <3>1, <3>2, <3>3, <3>5, <3>6 DEF TakenOnce
        <3>. QED
            BY <2>1, <3>3, <3>4, <3>7, <3>8 DEF TakenOnce
    <2>6. StoppedIsEmpty' /\ WaitersAreOld' /\ ReuseNeedsRestart'
        BY <2>1 DEF StoppedIsEmpty, WaitersAreOld, ReuseNeedsRestart
    <2>. QED
        BY <2>4, <2>5, <2>6
<1>3. CASE Spawn(r)
    <2> DEFINE c == taken[r]
    <2>1. /\ apc[r] = "track" /\ conns' = conns \cup {c} /\ wg' = wg + 1
          /\ hpc' = [hpc EXCEPT ![c] = "recv"] /\ taken' = [taken EXCEPT ![r] = None]
          /\ apc' = [apc EXCEPT ![r] = "check"]
          /\ UNCHANGED <<run, spc, crash, abandoned, waiters, woken, offered, acceptCh>>
        BY <1>3 DEF Spawn, stopState, offerVars
    <2>2. c # None /\ c \in IDs /\ hpc[c] = "off" /\ c \in offered
        BY <2>1 DEF TakenOnce, TypeOK
    <2>3. TypeOK' /\ History'
        BY <2>1, <2>2 DEF TypeOK, History
    <2>4. Counted'
        <3>1. Loops' = Loops /\ Handled' = Handled \cup {c} /\ c \notin Handled
            BY <2>1, <2>2 DEF Loops, Handled, TypeOK
        <3>2. Cardinality(Handled') = Cardinality(Handled) + 1
            BY <3>1, FiniteCounts, CountOneMore
        <3>. QED
            BY <2>1, <3>1, <3>2, FiniteCounts DEF Counted
    <2>5. TakenOnce'
        <3>1. \A i \in 1 .. Len(acceptCh) :
                  acceptCh[i] \in offered /\ acceptCh[i] # c /\ hpc'[acceptCh[i]] = "off"
            BY <2>1, <2>2 DEF TakenOnce, TypeOK
        <3>2. \A q \in Runs : taken'[q] = IF q = r THEN None ELSE taken[q]
            BY <2>1 DEF TypeOK
        <3>3. \A q \in Runs : apc'[q] = "track" <=> taken'[q] # None
            BY <2>1, <2>2, <3>2 DEF TakenOnce, TypeOK
        <3>4. \A q \in Runs : taken'[q] # None => taken'[q] # c /\ hpc'[taken'[q]] = "off"
            BY <2>1, <2>2, <3>2 DEF TakenOnce, TypeOK
        <3>5. \A x \in IDs : hpc'[x] # "off" => x \in offered
            BY <2>1, <2>2 DEF TakenOnce, TypeOK
        <3>. QED
            BY <2>1, <3>1, <3>2, <3>3, <3>4, <3>5 DEF TakenOnce
    <2>6. StoppedIsEmpty' /\ WaitersAreOld' /\ ReuseNeedsRestart'
        BY <2>1, <1>0 DEF StoppedIsEmpty, WaitersAreOld, ReuseNeedsRestart
    <2>. QED
        BY <2>3, <2>4, <2>5, <2>6
<1>4. CASE AcceptLoopEnds(r)
    <2>1. /\ apc[r] = "leave" /\ wg' = wg - 1 /\ apc' = [apc EXCEPT ![r] = "ended"]
          /\ woken' = (IF wg = 1 THEN woken + waiters ELSE woken)
          /\ waiters' = (IF wg = 1 THEN 0 ELSE waiters)
          /\ UNCHANGED <<run, spc, crash, abandoned, offered, acceptCh, taken, hpc, conns>>
        BY <1>4 DEF AcceptLoopEnds, WgDone, stopState, offerVars, handlerState
    <2>2. TypeOK' /\ History'
        BY <2>1, <1>0 DEF TypeOK, History
    <2>3. Counted'
        <3>1. Loops' = Loops \ {r} /\ Handled' = Handled
            BY <2>1 DEF Loops, Handled, TypeOK
        <3>2. Cardinality(Loops') = Cardinality(Loops) - 1
            BY <1>0, <3>1, FiniteCounts, CountOneLess
        <3>. QED
            BY <2>1, <3>1, <3>2, FiniteCounts DEF Counted
    <2>4. TakenOnce'
        BY <2>1 DEF TakenOnce, TypeOK
    <2>5. StoppedIsEmpty' /\ WaitersAreOld' /\ ReuseNeedsRestart'
        BY <2>1, <1>0 DEF StoppedIsEmpty, WaitersAreOld, ReuseNeedsRestart, TypeOK
    <2>. QED
        BY <2>2, <2>3, <2>4, <2>5
<1>. QED
    BY <1>1, <1>2, <1>3, <1>4 DEF AcceptLoop

(* The handlers. *)
LEMMA HandlerStep ==
    ASSUME Stoppable, NEW c \in IDs, HandleConn(c)
    PROVE  Stoppable'
<1> USE DEF Stoppable
<1>0. c \in Handled /\ wg > 0
    <2>1. c \in Handled
        BY DEF HandleConn, RecvMessage, RecvEnds, HandleMessage, RemoveConn,
               HandlerEnds, Handled
    <2>. QED
        BY <2>1, EmptyGroup DEF TypeOK
<1>1. CASE HandlerEnds(c)
    <2>1. /\ hpc[c] = "leave" /\ wg' = wg - 1 /\ hpc' = [hpc EXCEPT ![c] = "ended"]
          /\ woken' = (IF wg = 1 THEN woken + waiters ELSE woken)
          /\ waiters' = (IF wg = 1 THEN 0 ELSE waiters)
          /\ UNCHANGED <<run, spc, crash, abandoned, offered, acceptCh, apc, taken, conns>>
        BY <1>1 DEF HandlerEnds, WgDone, stopState, offerVars, loopState
    <2>2. TypeOK' /\ History'
        BY <2>1, <1>0 DEF TypeOK, History
    <2>3. Counted'
        <3>1. Handled' = Handled \ {c} /\ Loops' = Loops
            BY <2>1 DEF Loops, Handled, TypeOK
        <3>2. Cardinality(Handled') = Cardinality(Handled) - 1
            BY <1>0, <3>1, FiniteCounts, CountOneLess
        <3>. QED
            BY <2>1, <3>1, <3>2, FiniteCounts DEF Counted
    <2>4. TakenOnce'
        BY <2>1 DEF TakenOnce, TypeOK
    <2>5. StoppedIsEmpty' /\ WaitersAreOld' /\ ReuseNeedsRestart'
        BY <2>1, <1>0 DEF StoppedIsEmpty, WaitersAreOld, ReuseNeedsRestart, TypeOK
    <2>. QED
        BY <2>2, <2>3, <2>4, <2>5
<1>2. CASE ~HandlerEnds(c)
    <2>1. PICK next \in {"recv", "handle", "remove", "leave"} :
              /\ hpc' = [hpc EXCEPT ![c] = next] /\ conns' \subseteq conns
              /\ UNCHANGED <<run, spc, crash, abandoned, wg, waiters, woken, offered,
                             acceptCh, apc, taken>>
        BY <1>2 DEF HandleConn, RecvMessage, RecvEnds, HandleMessage, RemoveConn,
                    stopState, wgVars, offerVars, loopState
    <2>2. Loops' = Loops /\ Handled' = Handled /\ hpc[c] # "off"
        BY <2>1, <1>0 DEF Loops, Handled, TypeOK
    <2>3. TypeOK' /\ Counted' /\ History'
        BY <2>1, <2>2 DEF TypeOK, Counted, History
    <2>4. TakenOnce'
        BY <2>1, <2>2 DEF TakenOnce, TypeOK
    <2>5. StoppedIsEmpty' /\ WaitersAreOld' /\ ReuseNeedsRestart'
        BY <2>1 DEF StoppedIsEmpty, WaitersAreOld, ReuseNeedsRestart
    <2>. QED
        BY <2>3, <2>4, <2>5
<1>. QED
    BY <1>1, <1>2

------------------------------------------------------------------------------
(* The invariant holds in every state. *)
THEOREM AlwaysStoppable == Spec => []Stoppable
<1>1. Stoppable /\ [Next]_vars => Stoppable'
    <2> SUFFICES ASSUME Stoppable, [Next]_vars PROVE Stoppable'
        OBVIOUS
    <2>1. CASE Manager
        BY <2>1, ManagerStep
    <2>2. CASE StartServer
        BY <2>2, StartStep
    <2>3. CASE \/ ParentCancel \/ StopCancels \/ StopDeadline \/ StopStep
               \/ WaiterWakes
        BY <2>3, StopSteps
    <2>4. CASE \E r \in Runs : AcceptLoop(r)
        BY <2>4, AcceptStep
    <2>5. CASE \E c \in IDs : HandleConn(c)
        BY <2>5, HandlerStep
    <2>6. CASE UNCHANGED vars
        BY <2>6, SameGoroutines
           DEF vars, offerVars, serverVars, wgVars, Stoppable, TypeOK, History,
               TakenOnce, StoppedIsEmpty, WaitersAreOld, ReuseNeedsRestart
    <2>. QED
        BY <2>1, <2>2, <2>3, <2>4, <2>5, <2>6 DEF Next
<1>. QED
    BY <1>1, InitStoppable, PTL DEF Spec

(* The server's state has its type. *)
THEOREM ServerTypeCorrect == Spec => []TypeOK
<1>1. Stoppable => TypeOK
    BY DEF Stoppable
<1>. QED
    BY <1>1, AlwaysStoppable, PTL

(* A Stop whose context is not done first leaves no goroutine of any run and
   no tracked connection behind. *)
THEOREM GracefulStop == Spec => []GracefulStopIsComplete
<1>1. Stoppable => GracefulStopIsComplete
    <2> SUFFICES ASSUME Stoppable, spc = "stopped", run \notin abandoned
                 PROVE  /\ Handled = {} /\ conns = {}
                        /\ \A r \in Runs : apc[r] \in {"off", "ended"}
        BY DEF GracefulStopIsComplete
    <2>1. wg = 0 /\ conns = {}
        BY DEF Stoppable, StoppedIsEmpty
    <2>2. Loops = {} /\ Handled = {}
        BY <2>1, EmptyGroup DEF Stoppable
    <2>. QED
        BY <2>1, <2>2 DEF Loops
<1>. QED
    BY <1>1, AlwaysStoppable, PTL

(* The wait group panics only when Start follows a Stop that gave up. *)
THEOREM PanicNeedsRestart == Spec => []ReuseNeedsRestart
<1>1. Stoppable => ReuseNeedsRestart
    BY DEF Stoppable
<1>. QED
    BY <1>1, AlwaysStoppable, PTL
==============================================================================
