---------------------------- MODULE PollerProofs ----------------------------
(***************************************************************************)
(* The poller of pkg/cq/poller.go for every set of queues, number of calls *)
(* of AddCQ and set of races: while it runs each registered queue with a   *)
(* channel has one waiter, and Close leaves no descriptor open.            *)
(*                                                                         *)
(* At the end, the two loops a poller runs: the waiter of one queue        *)
(* (CQWaiter), and the loop over the queues without a channel              *)
(* (FallbackLoop).                                                         *)
(***************************************************************************)
EXTENDS Poller, CQWaiter, FallbackLoop, SequenceTheorems, TLAPS

(* The races that take a queue its waiter, or give it a second one.         *)
Breaking == {"addDuringStart", "dupError", "closeBeforeStart"}
Stands == Races[mode] \cap Breaking = {}

(* How far Start, the loop and the context are.                             *)
PhaseInv ==
    /\ ctx = "nil" <=> starter \in {"idle", "swapped"}
    /\ loop = "off" <=> starter # "done"
    /\ loop \in {"wgWait", "exited"} => ctx = "cancelled"
    /\ loop = "scan" => HasWaiters /\ toScan \subseteq entries

(* How far Close is, and what it does not overlap without a race.           *)
CloserInv ==
    /\ "closeBeforeStart" \notin Races[mode] /\ closer # "idle" => ctx = "cancelled"
    /\ RaceFree /\ closer # "idle" => ~ScanPending

(* The entries for which a waiter has been started.                         *)
Started ==
    CASE loop \in {"off", "init"} -> {}
      [] loop = "scan" -> entries \ toScan
      [] OTHER -> entries

(* Until Close sweeps, an entry knows its waiter, by its file and by its    *)
(* cancel function, and every waiter that no RemoveCQ has cancelled is the  *)
(* one its entry knows.  It returns only for a cancelled context or, a way  *)
(* the property allows for, when ReqNotify fails.                           *)
EntryKnows(c) ==
    /\ fileOf[c] = cancelOf[c]
    /\ fileOf[c] # 0 <=> c \in Started \cap Channel
    /\ fileOf[c] # 0 =>
          waiters[fileOf[c]].cq = c /\ ~waiters[fileOf[c]].cancelled
WaiterKnown(i) ==
    /\ fileOf[waiters[i].cq] = i /\ waiters[i].open
    /\ waiters[i].pc = "exited" => ctx = "cancelled"
Unclosed == closer \in {"idle", "cancelled"}
LiveInv ==
    (HasWaiters /\ Stands /\ Unclosed) =>
        /\ \A c \in CQs : EntryKnows(c)
        /\ \A i \in DOMAIN waiters : ~waiters[i].cancelled => WaiterKnown(i)

(* An open file is the one its entry knows, and Close has yet to come to    *)
(* that entry.                                                              *)
Unswept ==
    CASE closer = "sweep" -> toSweep
      [] closer \in {"wait", "done"} -> {}
      [] OTHER -> entries
FileInv ==
    RaceFree => \A i \in DOMAIN waiters :
        waiters[i].open => fileOf[waiters[i].cq] = i /\ waiters[i].cq \in Unswept

IInv == TypeOK /\ PhaseInv /\ CloserInv /\ LiveInv /\ FileInv

-----------------------------------------------------------------------------

(* A function on the indices of a sequence is a sequence of its length.     *)
LEMMA SameDomainIsSeq ==
    ASSUME NEW S, NEW T, NEW s \in Seq(S), NEW f \in [DOMAIN s -> T]
    PROVE  f \in Seq(T) /\ Len(f) = Len(s) /\ DOMAIN f = DOMAIN s
<1>1. DOMAIN s = 1..Len(s) /\ Len(s) \in Nat
  BY LenProperties
<1>2. f \in Seq(T)
  BY <1>1, SeqDef
<1>3. DOMAIN f = 1..Len(f) /\ Len(f) \in Nat
  BY <1>2, LenProperties
<1> QED
  BY <1>1, <1>2, <1>3

(* A waiter in the sequence, and the ends of its type.                      *)
LEMMA WaiterTyped ==
    ASSUME TypeOK, NEW i \in DOMAIN waiters
    PROVE  /\ waiters[i] \in WaiterType
           /\ i \in Nat /\ i # 0
           /\ waiters[i].cq \in CQs /\ waiters[i].cq \in Channel
           /\ i \in 1..Len(waiters)
<1>1. waiters \in Seq(WaiterType)
  BY DEF TypeOK
<1>2. DOMAIN waiters = 1..Len(waiters) /\ Len(waiters) \in Nat
  BY <1>1, LenProperties
<1>3. waiters[i] \in WaiterType
  BY <1>1, <1>2, ElementOfSeq
<1> QED
  BY <1>2, <1>3, PollerAssumption DEF PollerAssumption, WaiterType

(* What Dup does to the waiters and to the entry.                           *)
LEMMA DupEffect ==
    ASSUME TypeOK, NEW c \in Channel, Dup(c)
    PROVE  /\ waiters' \in Seq(WaiterType)
           /\ Len(waiters) \in Nat
           /\ Len(waiters') = Len(waiters) + 1
           /\ DOMAIN waiters' = DOMAIN waiters \union {Len(waiters) + 1}
           /\ Len(waiters) + 1 \notin DOMAIN waiters
           /\ \A i \in DOMAIN waiters : waiters'[i] = waiters[i]
           /\ waiters'[Len(waiters) + 1] = WaiterOf(c)
           /\ c \in CQs
           /\ fileOf' \in [CQs -> 0..Len(waiters')]
           /\ cancelOf' \in [CQs -> 0..Len(waiters')]
           /\ fileOf'[c] = Len(waiters) + 1 /\ cancelOf'[c] = Len(waiters) + 1
           /\ \A d \in CQs \ {c} : fileOf'[d] = fileOf[d] /\ cancelOf'[d] = cancelOf[d]
<1>1. waiters \in Seq(WaiterType) /\ WaiterOf(c) \in WaiterType
  BY DEF TypeOK, WaiterOf, WaiterType
<1>2. DOMAIN waiters = 1..Len(waiters) /\ Len(waiters) \in Nat
  BY <1>1, LenProperties
<1>3. /\ waiters' \in Seq(WaiterType) /\ Len(waiters') = Len(waiters) + 1
      /\ waiters'[Len(waiters) + 1] = WaiterOf(c)
      /\ \A i \in 1..Len(waiters) : waiters'[i] = waiters[i]
  BY <1>1, AppendProperties DEF Dup
<1>4. DOMAIN waiters' = 1..Len(waiters')
  BY <1>3, LenProperties
<1>5. c \in CQs
  BY PollerAssumption DEF PollerAssumption
<1>6. /\ fileOf' = [fileOf EXCEPT ![c] = Len(waiters) + 1]
      /\ cancelOf' = [cancelOf EXCEPT ![c] = Len(waiters) + 1]
      /\ fileOf \in [CQs -> 0..Len(waiters)] /\ cancelOf \in [CQs -> 0..Len(waiters)]
  BY DEF Dup, TypeOK
<1> QED
  BY <1>2, <1>3, <1>4, <1>5, <1>6

(* StopWaiter and CloseFile rewrite fields of the waiters.                  *)
LEMMA StopEffect ==
    ASSUME TypeOK, NEW c \in CQs, StopWaiter(c)
    PROVE  /\ waiters' \in Seq(WaiterType) /\ Len(waiters') = Len(waiters)
           /\ DOMAIN waiters' = DOMAIN waiters
           /\ \A i \in DOMAIN waiters :
                /\ waiters'[i].cq = waiters[i].cq /\ waiters'[i].pc = waiters[i].pc
                /\ waiters'[i].cancelled <=> waiters[i].cancelled \/ i = cancelOf[c]
                /\ waiters'[i].open <=> waiters[i].open /\ i # fileOf[c]
<1> DEFINE w(i) == [waiters[i] EXCEPT !.cancelled = @ \/ i = cancelOf[c],
                                      !.open = @ /\ i # fileOf[c]]
<1>1. ASSUME NEW i \in DOMAIN waiters
      PROVE  /\ w(i) \in WaiterType
             /\ w(i).cq = waiters[i].cq /\ w(i).pc = waiters[i].pc
             /\ w(i).cancelled <=> waiters[i].cancelled \/ i = cancelOf[c]
             /\ w(i).open <=> waiters[i].open /\ i # fileOf[c]
  <2>1. waiters[i] \in WaiterType
    BY WaiterTyped
  <2> QED
    BY <2>1 DEF WaiterType
<1>2. waiters' = [i \in DOMAIN waiters |-> w(i)]
  BY DEF StopWaiter
<1> HIDE DEF w
<1>3. waiters' \in [DOMAIN waiters -> WaiterType]
  BY <1>1, <1>2
<1>4. waiters \in Seq(WaiterType)
  BY DEF TypeOK
<1>5. /\ waiters' \in Seq(WaiterType) /\ Len(waiters') = Len(waiters)
      /\ DOMAIN waiters' = DOMAIN waiters
  BY <1>3, <1>4, SameDomainIsSeq
<1> QED
  BY <1>1, <1>2, <1>5

LEMMA CloseFileEffect ==
    ASSUME TypeOK, NEW c \in CQs, CloseFile(c)
    PROVE  /\ waiters' \in Seq(WaiterType) /\ Len(waiters') = Len(waiters)
           /\ DOMAIN waiters' = DOMAIN waiters
           /\ \A i \in DOMAIN waiters :
                /\ waiters'[i].cq = waiters[i].cq
                /\ waiters'[i].open <=> waiters[i].open /\ i # fileOf[c]
<1> DEFINE w(i) == [waiters[i] EXCEPT !.open = @ /\ i # fileOf[c]]
<1>1. ASSUME NEW i \in DOMAIN waiters
      PROVE  /\ w(i) \in WaiterType
             /\ w(i).cq = waiters[i].cq
             /\ w(i).open <=> waiters[i].open /\ i # fileOf[c]
  <2>1. waiters[i] \in WaiterType
    BY WaiterTyped
  <2> QED
    BY <2>1 DEF WaiterType
<1>2. waiters' = [i \in DOMAIN waiters |-> w(i)]
  BY DEF CloseFile
<1> HIDE DEF w
<1>3. waiters' \in [DOMAIN waiters -> WaiterType]
  BY <1>1, <1>2
<1>4. waiters \in Seq(WaiterType)
  BY DEF TypeOK
<1>5. /\ waiters' \in Seq(WaiterType) /\ Len(waiters') = Len(waiters)
      /\ DOMAIN waiters' = DOMAIN waiters
  BY <1>3, <1>4, SameDomainIsSeq
<1> QED
  BY <1>1, <1>2, <1>5

(* Goto moves one waiter.                                                   *)
LEMMA GotoEffect ==
    ASSUME TypeOK, NEW i \in DOMAIN waiters, NEW from,
           NEW to \in {"check", "serve", "park", "drain", "exited", "gaveUp"}, Goto(i, from, to)
    PROVE  /\ waiters' \in Seq(WaiterType) /\ Len(waiters') = Len(waiters)
           /\ DOMAIN waiters' = DOMAIN waiters
           /\ \A j \in DOMAIN waiters :
                /\ waiters'[j].cq = waiters[j].cq
                /\ waiters'[j].open = waiters[j].open
                /\ waiters'[j].cancelled = waiters[j].cancelled
                /\ waiters'[j].pc = IF j = i THEN to ELSE waiters[j].pc
<1>1. /\ waiters \in Seq(WaiterType) /\ waiters \in [DOMAIN waiters -> WaiterType]
      /\ waiters' = [waiters EXCEPT ![i].pc = to]
  <2>1. waiters \in Seq(WaiterType)
    BY DEF TypeOK
  <2> QED
    BY <2>1, LenProperties DEF Goto
<1>2. waiters' \in [DOMAIN waiters -> WaiterType]
  BY <1>1 DEF WaiterType
<1>3. /\ waiters' \in Seq(WaiterType) /\ Len(waiters') = Len(waiters)
      /\ DOMAIN waiters' = DOMAIN waiters
  BY <1>1, <1>2, SameDomainIsSeq
<1> QED
  BY <1>1, <1>3 DEF WaiterType

-----------------------------------------------------------------------------

(* The initial states satisfy the invariant.                                *)
LEMMA InitInv == Init => IInv
<1> SUFFICES ASSUME Init
             PROVE  IInv
  OBVIOUS
<1> USE PollerAssumption DEF Init, PollerAssumption
<1>1. TypeOK
  <2>1. waiters \in Seq(WaiterType) /\ Len(waiters) = 0
    OBVIOUS
  <2> QED
    BY <2>1 DEF TypeOK
<1>2. PhaseInv /\ CloserInv
  BY DEF PhaseInv, CloserInv, ScanPending
<1>3. LiveInv /\ FileInv
  BY DEF LiveInv, FileInv, EntryKnows, Started
<1> QED
  BY <1>1, <1>2, <1>3 DEF IInv

(* The steps that touch no entry and no waiter: of Start, of the loop but   *)
(* for its scan, and of Close but for its sweep.                            *)
Quiet ==
    \/ StartSwap \/ StartContext \/ StartGo \/ ParentCancel
    \/ LoopBegin \/ LoopSnapshot \/ LoopPoll \/ LoopStop \/ LoopWaitGroup
    \/ CloseCancel \/ CloseLock \/ CloseWait
    \/ UNCHANGED vars

LEMMA QuietFrame ==
    ASSUME Quiet
    PROVE  UNCHANGED <<mode, entries, fileOf, cancelOf, waiters, adds>>
    BY DEF Quiet, StartSwap, StartContext, StartGo, ParentCancel, LoopBegin,
           LoopSnapshot, LoopPoll, LoopStop, LoopWaitGroup, CloseCancel,
           CloseLock, CloseWait, vars, entryVars, startVars

LEMMA QuietTypes ==
    ASSUME TypeOK, Quiet
    PROVE  TypeOK'
<1>1. UNCHANGED <<mode, entries, fileOf, cancelOf, waiters, adds>>
  BY QuietFrame
<1>2. starter' \in {"idle", "swapped", "context", "done"} /\ ctx' \in {"nil", "live", "cancelled"}
  BY DEF TypeOK, Quiet, StartSwap, StartContext, StartGo, ParentCancel, LoopBegin,
           LoopSnapshot, LoopPoll, LoopStop, LoopWaitGroup, CloseCancel,
           CloseLock, CloseWait, vars, startVars
<1>3. /\ loop' \in {"off", "init", "scan", "top", "poll", "wgWait", "exited"}
      /\ toScan' \subseteq CQs /\ toPoll' \subseteq CQs
  BY DEF TypeOK, Quiet, StartSwap, StartContext, StartGo, ParentCancel, LoopBegin,
           LoopSnapshot, LoopPoll, LoopStop, LoopWaitGroup, CloseCancel,
           CloseLock, CloseWait, vars, loopVars, scanVars
<1>4. toSweep' \subseteq CQs /\ closer' \in {"idle", "cancelled", "sweep", "wait", "done"}
  BY DEF TypeOK, Quiet, StartSwap, StartContext, StartGo, ParentCancel, LoopBegin,
           LoopSnapshot, LoopPoll, LoopStop, LoopWaitGroup, CloseCancel,
           CloseLock, CloseWait, vars, closeVars
<1> QED
  BY <1>1, <1>2, <1>3, <1>4 DEF TypeOK

LEMMA QuietPhases ==
    ASSUME IInv, Quiet
    PROVE  PhaseInv' /\ CloserInv'
<1> USE DEF IInv, PhaseInv, CloserInv, ScanPending, RaceFree, HasWaiters
<1>1. CASE StartSwap \/ StartContext \/ StartGo
  BY <1>1 DEF StartSwap, StartContext, StartGo, startVars, loopVars, closeVars, entryVars, scanVars
<1>2. CASE ParentCancel
  BY <1>2 DEF ParentCancel, startVars, loopVars, closeVars, entryVars
<1>3. CASE LoopBegin \/ LoopSnapshot \/ LoopPoll \/ LoopStop \/ LoopWaitGroup
  BY <1>3 DEF LoopBegin, LoopSnapshot, LoopPoll, LoopStop, LoopWaitGroup, startVars, closeVars, entryVars, scanVars, TypeOK
<1>4. CASE CloseCancel \/ CloseLock \/ CloseWait
  BY <1>4 DEF CloseCancel, CloseLock, CloseWait, startVars, loopVars, entryVars, TypeOK
<1>5. CASE UNCHANGED vars
  BY <1>5 DEF vars, startVars, loopVars, closeVars, entryVars
<1> QED
  BY <1>1, <1>2, <1>3, <1>4, <1>5 DEF Quiet

LEMMA QuietStarted ==
    ASSUME IInv, Quiet, HasWaiters
    PROVE  Started' = Started
<1> USE DEF IInv, PhaseInv, Started, HasWaiters, TypeOK
<1>1. CASE StartSwap \/ StartContext \/ StartGo \/ ParentCancel
  BY <1>1 DEF StartSwap, StartContext, StartGo, ParentCancel, loopVars, entryVars, scanVars
<1>2. CASE LoopBegin \/ LoopSnapshot \/ LoopPoll \/ LoopStop \/ LoopWaitGroup
  BY <1>2 DEF LoopBegin, LoopSnapshot, LoopPoll, LoopStop, LoopWaitGroup, entryVars, scanVars
<1>3. CASE CloseCancel \/ CloseLock \/ CloseWait \/ UNCHANGED vars
  BY <1>3 DEF CloseCancel, CloseLock, CloseWait, vars, loopVars, entryVars
<1> QED
  BY <1>1, <1>2, <1>3 DEF Quiet

LEMMA QuietWaiters ==
    ASSUME IInv, Quiet
    PROVE  LiveInv' /\ FileInv'
<1> USE DEF IInv
<1>1. UNCHANGED <<mode, entries, fileOf, cancelOf, waiters, adds>>
  BY QuietFrame
<1>2. ctx = "cancelled" => ctx' = "cancelled"
  BY DEF Quiet, StartSwap, StartContext, StartGo, ParentCancel, LoopBegin,
         LoopSnapshot, LoopPoll, LoopStop, LoopWaitGroup, CloseCancel,
         CloseLock, CloseWait, vars, PhaseInv
<1>3. HasWaiters => Started' = Started
  BY QuietStarted
<1>c. Unclosed' => Unclosed
  BY DEF Unclosed, Quiet, StartSwap, StartContext, StartGo, ParentCancel, LoopBegin,
         LoopSnapshot, LoopPoll, LoopStop, LoopWaitGroup, CloseCancel,
         CloseLock, CloseWait, vars, closeVars
<1>4. LiveInv'
  BY <1>1, <1>2, <1>3, <1>c DEF LiveInv, EntryKnows, WaiterKnown, HasWaiters, Stands
<1>5. Unswept' = Unswept
  <2>1. CASE UNCHANGED closeVars
    BY <1>1, <2>1 DEF Unswept, closeVars
  <2>2. CASE CloseCancel \/ CloseLock \/ CloseWait
    BY <1>1, <2>2 DEF CloseCancel, CloseLock, CloseWait, Unswept
  <2> QED
    BY <2>1, <2>2 DEF Quiet, StartSwap, StartContext, StartGo, ParentCancel,
         LoopBegin, LoopSnapshot, LoopPoll, LoopStop, LoopWaitGroup, vars
<1>6. FileInv'
  BY <1>1, <1>5 DEF FileInv, RaceFree
<1> QED
  BY <1>4, <1>6

-----------------------------------------------------------------------------

(* The waiter that Dup starts becomes the one its entry knows, if the entry *)
(* has no other.                                                            *)
LEMMA DupLive ==
    ASSUME IInv, NEW c \in Channel, Dup(c), UNCHANGED <<mode, ctx, closer>>,
           HasWaiters /\ Stands /\ Unclosed =>
               c \notin Started /\ Started' = Started \union {c}
    PROVE  LiveInv'
<1> USE DEF IInv
<1> DEFINE n == Len(waiters) + 1
<1> SUFFICES ASSUME HasWaiters, Stands, Unclosed
             PROVE  /\ \A d \in CQs : EntryKnows(d)'
                    /\ \A i \in DOMAIN waiters' : ~waiters'[i].cancelled => WaiterKnown(i)'
  BY DEF LiveInv, HasWaiters, Stands, Unclosed
<1>1. /\ \A d \in CQs : EntryKnows(d)
      /\ \A i \in DOMAIN waiters : ~waiters[i].cancelled => WaiterKnown(i)
  BY DEF LiveInv
<1>0. Len(waiters) \in Nat
  BY DupEffect
<1>n. n \in Nat /\ n # 0
  BY <1>0
<1>2. /\ n \notin DOMAIN waiters
      /\ DOMAIN waiters' = DOMAIN waiters \union {n}
      /\ \A i \in DOMAIN waiters : waiters'[i] = waiters[i]
      /\ waiters'[n] = WaiterOf(c)
      /\ c \in CQs
      /\ fileOf'[c] = n /\ cancelOf'[c] = n
      /\ \A d \in CQs \ {c} : fileOf'[d] = fileOf[d] /\ cancelOf'[d] = cancelOf[d]
  BY DupEffect
<1>3. fileOf[c] = 0
  BY <1>1, <1>2 DEF EntryKnows
<1>4. ASSUME NEW d \in CQs
      PROVE  EntryKnows(d)'
  <2>1. CASE d = c
    BY <1>n, <1>2, <2>1 DEF EntryKnows, WaiterOf
  <2>2. CASE d # c
    <3>1. fileOf[d] # 0 => fileOf[d] \in DOMAIN waiters
      <4>1. waiters \in Seq(WaiterType) /\ fileOf[d] \in 0..Len(waiters)
        BY DEF TypeOK
      <4> QED
        BY <4>1, LenProperties
    <3> QED
      BY <1>1, <1>2, <2>2, <3>1 DEF EntryKnows
  <2> QED
    BY <2>1, <2>2
<1>5. ASSUME NEW i \in DOMAIN waiters', ~waiters'[i].cancelled
      PROVE  WaiterKnown(i)'
  <2>1. CASE i = n
    BY <1>2, <2>1 DEF WaiterKnown, WaiterOf
  <2>2. CASE i \in DOMAIN waiters
    <3>1. WaiterKnown(i) /\ i # 0 /\ waiters[i].cq \in CQs
      BY <1>1, <1>2, <1>5, <2>2, WaiterTyped
    <3>2. waiters[i].cq # c
      BY <1>3, <3>1 DEF WaiterKnown
    <3> QED
      BY <1>2, <2>2, <3>1, <3>2 DEF WaiterKnown
  <2> QED
    BY <1>2, <2>1, <2>2
<1> QED
  BY <1>4, <1>5

(* Its file is the open one, if no other file of the entry is.              *)
LEMMA DupFiles ==
    ASSUME IInv, NEW c \in Channel, Dup(c), UNCHANGED mode,
           RaceFree => /\ Unswept \subseteq Unswept' /\ c \in Unswept'
                       /\ fileOf[c] = 0 \/ c \notin Unswept
    PROVE  FileInv'
<1> USE DEF IInv
<1> DEFINE n == Len(waiters) + 1
<1> SUFFICES ASSUME RaceFree, NEW i \in DOMAIN waiters', waiters'[i].open
             PROVE  fileOf'[waiters'[i].cq] = i /\ waiters'[i].cq \in Unswept'
  BY DEF FileInv, RaceFree
<1>2. /\ n \notin DOMAIN waiters
      /\ DOMAIN waiters' = DOMAIN waiters \union {n}
      /\ \A j \in DOMAIN waiters : waiters'[j] = waiters[j]
      /\ waiters'[n] = WaiterOf(c)
      /\ c \in CQs
      /\ fileOf'[c] = n
      /\ \A d \in CQs \ {c} : fileOf'[d] = fileOf[d]
  BY DupEffect
<1>3. CASE i = n
  BY <1>2, <1>3 DEF WaiterOf
<1>4. CASE i \in DOMAIN waiters
  <2>1. fileOf[waiters[i].cq] = i /\ waiters[i].cq \in Unswept /\ i # 0 /\ waiters[i].cq \in CQs
    BY <1>2, <1>4, WaiterTyped DEF FileInv
  <2> QED
    BY <1>2, <1>4, <2>1
<1> QED
  BY <1>2, <1>3, <1>4

(* AddCQ before Start and after the scan.                                   *)
LEMMA AddInv ==
    ASSUME IInv, NEW c \in CQs, AddCQ(c)
    PROVE  IInv'
<1> USE DEF IInv
<1>1. /\ entries' = entries \union {c} /\ c \notin entries /\ WriteLock
      /\ UNCHANGED <<mode, starter, ctx, loop, toScan, toPoll, closer, toSweep>>
      /\ adds \in 0..MaxAdds /\ MaxAdds \in Nat /\ adds < MaxAdds /\ adds' = adds + 1
  BY PollerAssumption DEF AddCQ, startVars, loopVars, closeVars, PollerAssumption, TypeOK
<1>2. UNCHANGED HasWaiters /\ UNCHANGED Stands /\ UNCHANGED RaceFree
  BY <1>1 DEF HasWaiters, Stands, RaceFree
<1>3. PhaseInv' /\ CloserInv'
  BY <1>1 DEF PhaseInv, CloserInv, HasWaiters, RaceFree, ScanPending
<1>4. RaceFree => closer = "idle"
  BY DEF AddCQ, RaceFree
<1>5. \/ loop \notin {"off", "init", "scan"} /\ Started' = Started \union {c} /\ c \notin Started
      \/ loop \in {"off", "init"} /\ Started' = Started /\ Started = {}
  BY <1>1 DEF WriteLock, Started, TypeOK
<1>6. Stands /\ loop \in {"off", "init"} => starter = "idle"
  BY DEF AddCQ, Stands, Breaking, ScanPending
<1>7. Unswept \subseteq Unswept' /\ (closer = "idle" => c \in Unswept' /\ c \notin Unswept)
  BY <1>1 DEF Unswept
<1>8. CASE StartsWaiter /\ c \in Channel /\ Dup(c)
  <2>1. TypeOK'
    BY <1>1, <1>8, DupEffect DEF TypeOK
  <2>2. HasWaiters /\ Stands /\ Unclosed =>
            c \notin Started /\ Started' = Started \union {c}
    BY <1>5, <1>6, <1>8 DEF StartsWaiter
  <2>3. LiveInv'
    BY <1>1, <1>8, <2>2, DupLive
  <2>4. FileInv'
    BY <1>1, <1>4, <1>7, <1>8, DupFiles
  <2> QED
    BY <1>3, <2>1, <2>3, <2>4
<1>9. CASE UNCHANGED <<waiters, fileOf, cancelOf>>
  <2>1. TypeOK'
    BY <1>1, <1>9 DEF TypeOK
  <2>2. ASSUME HasWaiters, Stands, Unclosed,
               ~(StartsWaiter /\ c \in Channel /\ Dup(c))
        PROVE  Started' \cap Channel = Started \cap Channel
    <3>1. CASE StartsWaiter
      <4>1. StartEventWaiter(c)
        BY <3>1 DEF AddCQ
      <4>2. c \notin Channel
        BY <2>2, <3>1, <4>1 DEF StartEventWaiter, Stands, Breaking
      <4> QED
        BY <1>5, <4>2
    <3>2. CASE ~StartsWaiter
      <4>1. loop \in {"off", "init"}
        BY <2>2, <3>2 DEF StartsWaiter, PhaseInv, TypeOK
      <4> QED
        BY <1>5, <4>1
    <3> QED
      BY <3>1, <3>2
  <2>3. CASE ~(StartsWaiter /\ c \in Channel /\ Dup(c))
    <3>1. LiveInv'
      BY <1>1, <1>2, <1>9, <2>2, <2>3 DEF LiveInv, EntryKnows, WaiterKnown, Unclosed
    <3>2. FileInv'
      BY <1>2, <1>7, <1>9 DEF FileInv
    <3> QED
      BY <1>3, <2>1, <3>1, <3>2
  <2> QED
    BY <1>8, <2>3
<1> QED
  BY <1>8, <1>9 DEF AddCQ, StartEventWaiter

(* The scan, which starts a waiter for each entry that Start has found.     *)
LEMMA ScanInv ==
    ASSUME IInv, LoopScan
    PROVE  IInv'
<1> USE DEF IInv
<1>1. /\ loop = "scan" /\ HasWaiters /\ toScan \subseteq entries
      /\ UNCHANGED <<mode, starter, ctx, entries, toPoll, closer, toSweep, adds>>
  BY DEF LoopScan, PhaseInv, startVars, closeVars
<1>2. UNCHANGED <<HasWaiters, Stands, RaceFree, Unswept>>
  BY <1>1 DEF HasWaiters, Stands, RaceFree, Unswept
<1>3. CASE /\ toScan = {} /\ loop' = "top"
           /\ UNCHANGED <<toScan, fileOf, cancelOf, waiters>>
  <2>1. TypeOK' /\ PhaseInv' /\ CloserInv'
    BY <1>1, <1>3 DEF TypeOK, PhaseInv, CloserInv, ScanPending, RaceFree
  <2>2. Started' = Started
    BY <1>1, <1>3 DEF Started
  <2>3. LiveInv' /\ FileInv'
    BY <1>1, <1>2, <1>3, <2>2 DEF LiveInv, FileInv, EntryKnows, WaiterKnown, Unclosed
  <2> QED
    BY <2>1, <2>3
<1>4. ASSUME NEW c \in toScan, StartEventWaiter(c), toScan' = toScan \ {c}, loop' = loop
      PROVE  IInv'
  <2>1. PhaseInv' /\ CloserInv'
    BY <1>1, <1>4 DEF PhaseInv, CloserInv, ScanPending, RaceFree, HasWaiters
  <2>2. c \in entries /\ c \in CQs /\ c \notin Started /\ Started' = Started \union {c}
    BY <1>1, <1>4 DEF Started, TypeOK
  <2>3. CASE c \in Channel /\ Dup(c)
    <3>1. TypeOK'
      BY <1>1, <1>4, <2>3, DupEffect DEF TypeOK
    <3>2. LiveInv'
      BY <1>1, <2>2, <2>3, DupLive
    <3>3. RaceFree => c \in Unswept /\ fileOf[c] = 0
      <4> SUFFICES ASSUME RaceFree PROVE c \in Unswept /\ fileOf[c] = 0
        OBVIOUS
      <4>1. closer = "idle" /\ Stands
        BY <1>1 DEF CloserInv, ScanPending, RaceFree, Stands, Breaking
      <4> QED
        BY <1>1, <2>2, <4>1 DEF LiveInv, Unclosed, EntryKnows, Unswept
    <3>4. FileInv'
      BY <1>1, <1>2, <2>3, <3>3, DupFiles
    <3> QED
      BY <2>1, <3>1, <3>2, <3>4
  <2>4. CASE /\ c \in Channel => "dupError" \in Races[mode]
             /\ UNCHANGED <<waiters, fileOf, cancelOf>>
    <3>1. TypeOK'
      BY <1>1, <1>4, <2>4 DEF TypeOK
    <3>2. Stands => Started' \cap Channel = Started \cap Channel
      BY <2>2, <2>4 DEF Stands, Breaking
    <3>3. LiveInv' /\ FileInv'
      BY <1>1, <1>2, <2>4, <3>2 DEF LiveInv, FileInv, EntryKnows, WaiterKnown, Unclosed
    <3> QED
      BY <2>1, <3>1, <3>3
  <2> QED
    BY <1>4, <2>3, <2>4 DEF StartEventWaiter
<1> QED
  BY <1>3, <1>4 DEF LoopScan

(* RemoveCQ stops the waiter the entry knows.                               *)
LEMMA RemoveInv ==
    ASSUME IInv, NEW c \in CQs, RemoveCQ(c)
    PROVE  IInv'
<1> USE DEF IInv
<1>1. /\ entries' = entries \ {c} /\ c \in entries /\ WriteLock
      /\ fileOf' = [fileOf EXCEPT ![c] = 0] /\ cancelOf' = [cancelOf EXCEPT ![c] = 0]
      /\ UNCHANGED <<mode, starter, ctx, loop, toScan, toPoll, closer, toSweep, adds>>
      /\ StopWaiter(c)
  BY DEF RemoveCQ, startVars, loopVars, closeVars
<1>2. UNCHANGED <<HasWaiters, Stands, RaceFree>>
  BY <1>1 DEF HasWaiters, Stands, RaceFree
<1>3. /\ waiters' \in Seq(WaiterType) /\ Len(waiters') = Len(waiters)
      /\ DOMAIN waiters' = DOMAIN waiters
      /\ \A i \in DOMAIN waiters :
           /\ waiters'[i].cq = waiters[i].cq /\ waiters'[i].pc = waiters[i].pc
           /\ waiters'[i].cancelled <=> waiters[i].cancelled \/ i = cancelOf[c]
           /\ waiters'[i].open <=> waiters[i].open /\ i # fileOf[c]
  BY <1>1, StopEffect
<1>4. Len(waiters) \in Nat /\ DOMAIN waiters = 1..Len(waiters)
  BY LenProperties DEF TypeOK
<1>5. TypeOK'
  BY <1>1, <1>3, <1>4 DEF TypeOK
<1>6. PhaseInv' /\ CloserInv'
  BY <1>1 DEF PhaseInv, CloserInv, HasWaiters, RaceFree, ScanPending, WriteLock
<1>7. /\ fileOf'[c] = 0 /\ cancelOf'[c] = 0
      /\ \A d \in CQs \ {c} : fileOf'[d] = fileOf[d] /\ cancelOf'[d] = cancelOf[d]
  BY <1>1 DEF TypeOK
<1>8. LiveInv'
  <2> SUFFICES ASSUME HasWaiters, Stands, Unclosed
               PROVE  /\ \A d \in CQs : EntryKnows(d)'
                      /\ \A i \in DOMAIN waiters' : ~waiters'[i].cancelled => WaiterKnown(i)'
    BY <1>1, <1>2 DEF LiveInv, Unclosed
  <2>1. /\ \A d \in CQs : EntryKnows(d)
        /\ \A i \in DOMAIN waiters : ~waiters[i].cancelled => WaiterKnown(i)
    BY DEF LiveInv
  <2>2. Started' = Started \ {c}
    BY <1>1 DEF Started, WriteLock
  <2>3. ASSUME NEW d \in CQs PROVE EntryKnows(d)'
    <3>1. CASE d = c
      BY <1>7, <2>2, <3>1 DEF EntryKnows
    <3>2. CASE d # c
      <4>1. fileOf[d] # 0 => fileOf[d] \in DOMAIN waiters /\ fileOf[d] # cancelOf[c]
        <5>1. fileOf[d] \in 0..Len(waiters)
          BY DEF TypeOK
        <5>2. fileOf[d] # 0 => fileOf[d] \in DOMAIN waiters
          BY <1>4, <5>1
        <5> QED
          BY <2>1, <3>2, <5>2 DEF EntryKnows
      <4> QED
        BY <1>3, <1>7, <2>1, <2>2, <3>2, <4>1 DEF EntryKnows
    <3> QED
      BY <3>1, <3>2
  <2>4. ASSUME NEW i \in DOMAIN waiters', ~waiters'[i].cancelled
        PROVE  WaiterKnown(i)'
    <3>1. i \in DOMAIN waiters /\ ~waiters[i].cancelled /\ i # cancelOf[c] /\ WaiterKnown(i)
      BY <1>3, <2>1, <2>4
    <3>2. waiters[i].cq \in CQs /\ fileOf[c] = cancelOf[c]
      BY <2>1, <3>1, WaiterTyped DEF EntryKnows
    <3>3. waiters[i].cq # c
      BY <3>1, <3>2 DEF WaiterKnown
    <3> QED
      BY <1>1, <1>3, <1>7, <3>1, <3>2, <3>3 DEF WaiterKnown
  <2> QED
    BY <2>3, <2>4
<1>9. FileInv'
  <2> SUFFICES ASSUME RaceFree, NEW i \in DOMAIN waiters', waiters'[i].open
               PROVE  fileOf'[waiters'[i].cq] = i /\ waiters'[i].cq \in Unswept'
    BY <1>2 DEF FileInv
  <2>1. i \in DOMAIN waiters /\ waiters[i].open /\ i # fileOf[c]
    BY <1>3
  <2>2. fileOf[waiters[i].cq] = i /\ waiters[i].cq \in Unswept /\ waiters[i].cq \in CQs
    BY <2>1, WaiterTyped DEF FileInv
  <2>3. waiters[i].cq # c /\ waiters'[i].cq = waiters[i].cq
    BY <1>3, <2>1, <2>2
  <2>4. Unswept \ {c} \subseteq Unswept'
    BY <1>1 DEF Unswept, WriteLock
  <2> QED
    BY <1>7, <2>2, <2>3, <2>4
<1> QED
  BY <1>5, <1>6, <1>8, <1>9

(* The sweep of Close closes the file the entry knows.                      *)
LEMMA SweepInv ==
    ASSUME IInv, CloseSweep
    PROVE  IInv'
<1> USE DEF IInv
<1>1. /\ closer = "sweep"
      /\ UNCHANGED <<mode, starter, ctx, entries, cancelOf, loop, toScan, toPoll, adds>>
  BY DEF CloseSweep, startVars, loopVars
<1>2. UNCHANGED <<HasWaiters, Stands, RaceFree, Started, ScanPending>>
  BY <1>1 DEF HasWaiters, Stands, RaceFree, Started, ScanPending
<1>3. ~Unclosed'
  BY <1>1 DEF CloseSweep, Unclosed
<1>4. PhaseInv' /\ LiveInv'
  BY <1>1, <1>2, <1>3 DEF PhaseInv, LiveInv
<1>5. ASSUME NEW c \in toSweep, CloseFile(c), fileOf' = [fileOf EXCEPT ![c] = 0],
             toSweep' = toSweep \ {c}, closer' = closer
      PROVE  IInv'
  <2>1. c \in CQs
    BY DEF TypeOK
  <2>2. /\ waiters' \in Seq(WaiterType) /\ Len(waiters') = Len(waiters)
        /\ DOMAIN waiters' = DOMAIN waiters
        /\ \A i \in DOMAIN waiters :
             /\ waiters'[i].cq = waiters[i].cq
             /\ waiters'[i].open <=> waiters[i].open /\ i # fileOf[c]
    BY <1>5, <2>1, CloseFileEffect
  <2>3. TypeOK'
    <3>1. Len(waiters) \in Nat
      BY LenProperties DEF TypeOK
    <3> QED
      BY <1>1, <1>5, <2>2, <3>1 DEF TypeOK
  <2>4. CloserInv'
    BY <1>1, <1>2, <1>5 DEF CloserInv
  <2>5. FileInv'
    <3> SUFFICES ASSUME RaceFree, NEW i \in DOMAIN waiters', waiters'[i].open
                 PROVE  fileOf'[waiters'[i].cq] = i /\ waiters'[i].cq \in Unswept'
      BY <1>2 DEF FileInv
    <3>1. i \in DOMAIN waiters /\ waiters[i].open /\ i # fileOf[c]
      BY <2>2
    <3>2. fileOf[waiters[i].cq] = i /\ waiters[i].cq \in Unswept /\ waiters[i].cq \in CQs
      BY <3>1, WaiterTyped DEF FileInv
    <3>3. waiters[i].cq # c /\ waiters'[i].cq = waiters[i].cq
      BY <2>2, <3>1, <3>2
    <3>4. Unswept' = Unswept \ {c}
      BY <1>1, <1>5 DEF Unswept
    <3> QED
      BY <1>5, <3>2, <3>3, <3>4 DEF TypeOK
  <2> QED
    BY <1>4, <2>3, <2>4, <2>5
<1>6. CASE toSweep = {} /\ closer' = "wait" /\ UNCHANGED <<toSweep, fileOf, waiters>>
  <2>1. TypeOK' /\ CloserInv'
    BY <1>1, <1>2, <1>6 DEF TypeOK, CloserInv
  <2>2. Unswept' = Unswept
    BY <1>1, <1>6 DEF Unswept
  <2>3. FileInv'
    BY <1>2, <1>6, <2>2 DEF FileInv
  <2> QED
    BY <1>4, <2>1, <2>3
<1> QED
  BY <1>5, <1>6 DEF CloseSweep

(* A waiter exits when its context is done or its file is closed.           *)
LEMMA WaiterInv ==
    ASSUME IInv, NEW i \in DOMAIN waiters, WaiterStep(i) \/ WaiterWake(i)
    PROVE  IInv'
<1> USE DEF IInv
<1>1. PICK from, to \in {"check", "serve", "park", "drain", "exited", "gaveUp"} :
          /\ Goto(i, from, to)
          /\ to = "exited" => Cancelled(i) \/ ~waiters[i].open
  BY DEF WaiterStep, WaiterCheck, WaiterServe, WaiterReadFails, WaiterDrain, WaiterWake
<1>2. UNCHANGED <<mode, starter, ctx, entries, fileOf, cancelOf, loop, toScan, toPoll,
                  closer, toSweep, adds>>
  BY <1>1 DEF Goto, startVars, entryVars, loopVars, closeVars
<1>3. /\ waiters' \in Seq(WaiterType) /\ Len(waiters') = Len(waiters)
      /\ DOMAIN waiters' = DOMAIN waiters
      /\ \A j \in DOMAIN waiters :
           /\ waiters'[j].cq = waiters[j].cq
           /\ waiters'[j].open = waiters[j].open
           /\ waiters'[j].cancelled = waiters[j].cancelled
           /\ waiters'[j].pc = IF j = i THEN to ELSE waiters[j].pc
  BY <1>1, GotoEffect
<1>4. TypeOK'
  BY <1>2, <1>3 DEF TypeOK
<1>5. PhaseInv' /\ CloserInv'
  BY <1>2 DEF PhaseInv, CloserInv, HasWaiters, RaceFree, ScanPending
<1>6. UNCHANGED <<HasWaiters, Stands, RaceFree, Started, Unswept>>
  BY <1>2 DEF HasWaiters, Stands, RaceFree, Started, Unswept
<1>7. LiveInv'
  <2> SUFFICES ASSUME HasWaiters, Stands, Unclosed
               PROVE  /\ \A d \in CQs : EntryKnows(d)'
                      /\ \A j \in DOMAIN waiters' : ~waiters'[j].cancelled => WaiterKnown(j)'
    BY <1>2, <1>6 DEF LiveInv, Unclosed
  <2>1. /\ \A d \in CQs : EntryKnows(d)
        /\ \A j \in DOMAIN waiters : ~waiters[j].cancelled => WaiterKnown(j)
    BY DEF LiveInv
  <2>2. ASSUME NEW d \in CQs PROVE EntryKnows(d)'
    <3>1. fileOf[d] # 0 => fileOf[d] \in DOMAIN waiters
      <4>1. waiters \in Seq(WaiterType) /\ fileOf[d] \in 0..Len(waiters)
        BY DEF TypeOK
      <4> QED
        BY <4>1, LenProperties
    <3> QED
      BY <1>2, <1>3, <1>6, <2>1, <3>1 DEF EntryKnows
  <2>3. ASSUME NEW j \in DOMAIN waiters', ~waiters'[j].cancelled
        PROVE  WaiterKnown(j)'
    <3>1. j \in DOMAIN waiters /\ ~waiters[j].cancelled /\ WaiterKnown(j)
      BY <1>3, <2>1, <2>3
    <3>2. j = i /\ to = "exited" => ctx = "cancelled"
      BY <1>1, <3>1 DEF Cancelled, WaiterKnown
    <3> QED
      BY <1>2, <1>3, <3>1, <3>2 DEF WaiterKnown
  <2> QED
    BY <2>2, <2>3
<1>8. FileInv'
  BY <1>2, <1>3, <1>6 DEF FileInv
<1> QED
  BY <1>4, <1>5, <1>7, <1>8

-----------------------------------------------------------------------------

(* The invariant holds in every state.                                      *)
THEOREM PollerInvariant == Spec => []IInv
<1>1. IInv /\ [Next]_vars => IInv'
  <2> SUFFICES ASSUME IInv, [Next]_vars
               PROVE  IInv'
    OBVIOUS
  <2>1. CASE Quiet
    BY <2>1, QuietTypes, QuietPhases, QuietWaiters DEF IInv
  <2>2. CASE \E c \in CQs : AddCQ(c) \/ RemoveCQ(c)
    BY <2>2, AddInv, RemoveInv
  <2>3. CASE LoopScan
    BY <2>3, ScanInv
  <2>4. CASE CloseSweep
    BY <2>4, SweepInv
  <2>5. CASE \E i \in DOMAIN waiters : WaiterStep(i) \/ WaiterWake(i)
    BY <2>5, WaiterInv
  <2> QED
    BY <2>1, <2>2, <2>3, <2>4, <2>5
       DEF Next, Start, Callers, PollLoop, CloseRest, Quiet
<1> QED
  BY <1>1, InitInv, PTL DEF Spec

(* The state of the poller keeps its type.                                  *)
THEOREM PollerTypeCorrect == Spec => []TypeOK
<1>1. IInv => TypeOK
  BY DEF IInv
<1> QED
  BY <1>1, PollerInvariant, PTL

(* What Poller's runs keep out in event and smart mode: AddCQ does not come *)
(* between Start's flag and the end of the scan, Close not before Start has *)
(* its context, and dup succeeds.                                           *)
WaitersStand ==
    \A m \in {"event", "smart"} : Races[m] \cap Breaking = {}

(* While the poller runs, every registered queue with a channel has one     *)
(* waiter, if only one whose ReqNotify has failed: AddCQ and the scan never *)
(* both start one, and never neither.                                       *)
THEOREM EachQueueHasOneWaiter ==
    ASSUME WaitersStand
    PROVE  Spec => []OneWaiterEach
<1>1. IInv => OneWaiterEach
  <2> SUFFICES ASSUME IInv, loop \in {"top", "poll"}, ctx = "live", HasWaiters,
                      NEW c \in entries \cap Channel
               PROVE  \E i \in DOMAIN waiters : LiveWaitersOf(c) = {i}
    BY DEF OneWaiterEach
  <2>1. /\ \A d \in CQs : EntryKnows(d)
        /\ \A i \in DOMAIN waiters : ~waiters[i].cancelled => WaiterKnown(i)
    <3>1. Stands
      BY DEF WaitersStand, HasWaiters, Stands
    <3>2. Unclosed
      BY <3>1 DEF IInv, CloserInv, TypeOK, Stands, Breaking, Unclosed
    <3> QED
      BY <3>1, <3>2 DEF IInv, LiveInv
  <2>2. c \in CQs /\ c \in Started
    BY DEF IInv, TypeOK, Started
  <2>3. fileOf[c] \in DOMAIN waiters
    <3>1. waiters \in Seq(WaiterType) /\ fileOf[c] \in 0..Len(waiters) /\ fileOf[c] # 0
      BY <2>1, <2>2 DEF IInv, TypeOK, EntryKnows
    <3> QED
      BY <3>1, LenProperties
  <2>4. LiveWaitersOf(c) = {fileOf[c]}
    BY <2>1, <2>2, <2>3 DEF LiveWaitersOf, EntryKnows, WaiterKnown
  <2> QED
    BY <2>3, <2>4
<1> QED
  BY <1>1, PollerInvariant, PTL

(* When Close has returned no duplicated descriptor is open, unless AddCQ,  *)
(* the scan or Close got in each other's way.                               *)
THEOREM CloseClosesFiles == Spec => []NoDescriptorLeak
<1>1. IInv => NoDescriptorLeak
  BY DEF IInv, FileInv, Unswept, NoDescriptorLeak
<1> QED
  BY <1>1, PollerInvariant, PTL

-----------------------------------------------------------------------------
(***************************************************************************)
(* One waiter and its queue, step by step: CQWaiter for both modes, every  *)
(* queue depth, batch size and spin count, with failing polls and failing  *)
(* arms.  The waiter never parks on work it could not be woken for.        *)
(***************************************************************************)

(* NoLostWakeup alone is not inductive: an arrival at a parked waiter must  *)
(* find the queue armed or an event already waiting, and that is settled    *)
(* earlier, when ReqNotify moves the waiter to the poll before parking.     *)
ArmedBeforePark == pc \in {"armDrain", "park"} => armed \/ events > 0

(* The smart loop reaches "spin" and "check" with the count below its limit.*)
SpinBelowLimit == pc \in {"check", "spin"} => emptyRuns < SpinCount

WaiterIInv == WaiterTypeOK /\ ArmedBeforePark /\ NoLostWakeup /\ SpinBelowLimit

-----------------------------------------------------------------------------

(* The flags keep their type.  They are apart because they need no          *)
(* arithmetic, and the counters need no case split on Booleans.             *)
WaiterFlags ==
    /\ armed \in BOOLEAN
    /\ callFailed \in BOOLEAN
    /\ cancelled \in BOOLEAN
    /\ fileOpen \in BOOLEAN
    /\ smart \in BOOLEAN

WaiterCounters ==
    /\ cq \in 0..CQDepth
    /\ events \in 0..MaxEvents
    /\ pc \in Locations
    /\ emptyRuns \in 0..SpinCount

LEMMA WaiterTypeParts == WaiterTypeOK <=> WaiterCounters /\ WaiterFlags
    BY Zenon DEF WaiterTypeOK, WaiterCounters, WaiterFlags

(* The assumption on the constants as the steps below use it.               *)
LEMMA WaiterSizes ==
    /\ MaxBatchSize \in Nat /\ MaxBatchSize > 0
    /\ SpinCount \in Nat /\ SpinCount > 0
    /\ CQDepth \in Nat
    /\ MaxEvents \in Nat
    BY PollerConfigAssumption, WaiterAssumption DEF PollerConfigAssumption, WaiterAssumption

(* What one poll does to the queue: it stays within its depth, and a poll   *)
(* that found nothing without failing leaves it empty.                      *)
LEMMA PollLeavesQueue ==
    ASSUME cq \in 0..CQDepth, NEW found \in 0..MaxBatchSize, PollSingleCQ(found)
    PROVE  /\ cq' \in 0..CQDepth
           /\ (found = 0 /\ ~callFailed') => cq' = 0
    BY WaiterSizes DEF PollSingleCQ

(* The initial states satisfy the inductive invariant.                      *)
LEMMA WaiterInitInv == WaiterInit => WaiterIInv
<1>1. WaiterInit => WaiterCounters
    BY WaiterSizes DEF WaiterInit, WaiterCounters, Locations
<1>2. WaiterInit => WaiterFlags
    BY Zenon DEF WaiterInit, WaiterFlags
<1>3. WaiterInit => ArmedBeforePark /\ NoLostWakeup /\ SpinBelowLimit
    BY WaiterSizes DEF WaiterInit, ArmedBeforePark, NoLostWakeup, SpinBelowLimit
<1> QED
    BY <1>1, <1>2, <1>3, WaiterTypeParts DEF WaiterIInv

(* A flag is only ever set to a flag.                                       *)
LEMMA WaiterNextFlags == WaiterFlags /\ [WaiterNext]_waiterVars => WaiterFlags'
<1> SUFFICES ASSUME WaiterFlags, [WaiterNext]_waiterVars PROVE WaiterFlags'
    OBVIOUS
<1> USE DEF WaiterFlags, lifeVars
<1>1. ASSUME NEW found \in 0..MaxBatchSize, PollSingleCQ(found),
             UNCHANGED <<armed, cancelled, fileOpen, smart>>
      PROVE  WaiterFlags'
    BY <1>1, Zenon DEF PollSingleCQ
<1>2. CASE Arrive \/ Cancel \/ CloseWaiterFile
    BY <1>2, Zenon DEF Arrive, Cancel, CloseWaiterFile
<1>3. ASSUME NEW next, CheckContext(next) PROVE WaiterFlags'
    BY <1>3, Zenon DEF CheckContext
<1>4. CASE ReqNotify \/ ReadEvent
    BY <1>4, Zenon DEF ReqNotify, ReadEvent
<1>5. CASE Drain \/ EventArmDrain \/ SpinPoll \/ SmartArmPoll
    BY <1>5, <1>1, Zenon DEF Drain, EventArmDrain, SpinPoll, SmartArmPoll
<1>6. CASE UNCHANGED waiterVars
    BY <1>6, Zenon DEF waiterVars
<1> QED
    BY <1>2, <1>3, <1>4, <1>5, <1>6, Zenon
    DEF WaiterNext, Waiter, EventWaiterLoop, SmartWaiterLoop, Finished

WaiterCore == WaiterCounters /\ ArmedBeforePark /\ NoLostWakeup /\ SpinBelowLimit

(* Every step of the hardware, the callers and the goroutine keeps the rest.*)
LEMMA WaiterNextCore == WaiterCore /\ [WaiterNext]_waiterVars => WaiterCore'
<1> SUFFICES ASSUME WaiterCore, [WaiterNext]_waiterVars PROVE WaiterCore'
    OBVIOUS
<1> USE WaiterSizes DEF WaiterCore, WaiterCounters, ArmedBeforePark, NoLostWakeup,
        SpinBelowLimit, Locations
<1>1. CASE Arrive
    BY <1>1 DEF Arrive
<1>2. CASE Cancel \/ CloseWaiterFile
    BY <1>2 DEF Cancel, CloseWaiterFile
<1>3. ASSUME NEW next \in {"arm", "spin"}, CheckContext(next) PROVE WaiterCore'
    BY <1>3 DEF CheckContext
<1>4. CASE ReqNotify
    BY <1>4 DEF ReqNotify
<1>5. CASE ReadEvent
    BY <1>5 DEF ReadEvent
<1>6. CASE Drain
  <2>1. PICK found \in 0..MaxBatchSize :
            /\ PollSingleCQ(found)
            /\ pc' = IF found > 0 THEN "drain" ELSE "check"
            /\ emptyRuns' = IF found > 0 THEN emptyRuns ELSE 0
    BY <1>6 DEF Drain
  <2> QED
    BY <1>6, <2>1, PollLeavesQueue DEF Drain
<1>7. CASE EventArmDrain
  <2>1. PICK found \in 0..MaxBatchSize :
            /\ PollSingleCQ(found)
            /\ pc' = IF found > 0 THEN "armDrain" ELSE "park"
    BY <1>7 DEF EventArmDrain
  <2> QED
    BY <1>7, <2>1, PollLeavesQueue DEF EventArmDrain
<1>8. CASE SpinPoll
  <2>1. PICK found \in 0..MaxBatchSize :
            /\ PollSingleCQ(found)
            /\ emptyRuns' = IF found > 0 THEN 0 ELSE emptyRuns + 1
            /\ pc' = IF emptyRuns' < SpinCount THEN "check" ELSE "arm"
    BY <1>8 DEF SpinPoll
  <2> QED
    BY <1>8, <2>1, PollLeavesQueue DEF SpinPoll
<1>9. CASE SmartArmPoll
  <2>1. PICK found \in 0..MaxBatchSize :
            /\ PollSingleCQ(found)
            /\ pc' = IF found > 0 THEN "check" ELSE "park"
            /\ emptyRuns' = IF found > 0 THEN 0 ELSE emptyRuns
    BY <1>9 DEF SmartArmPoll
  <2> QED
    BY <1>9, <2>1, PollLeavesQueue DEF SmartArmPoll
<1>10. CASE UNCHANGED waiterVars
    BY <1>10 DEF waiterVars
<1> QED
    BY <1>1, <1>2, <1>3, <1>4, <1>5, <1>6, <1>7, <1>8, <1>9, <1>10
    DEF WaiterNext, Waiter, EventWaiterLoop, SmartWaiterLoop, Finished

(* Together: every step keeps the inductive invariant.                      *)
LEMMA WaiterNextInv == WaiterIInv /\ [WaiterNext]_waiterVars => WaiterIInv'
<1>1. WaiterIInv <=> WaiterCore /\ WaiterFlags
    BY Zenon DEF WaiterIInv, WaiterCore, WaiterTypeOK, WaiterCounters, WaiterFlags
<1>2. WaiterIInv' <=> WaiterCore' /\ WaiterFlags'
    BY Zenon DEF WaiterIInv, WaiterCore, WaiterTypeOK, WaiterCounters, WaiterFlags
<1> QED
    BY <1>1, <1>2, WaiterNextFlags, WaiterNextCore, Zenon

(* The inductive invariant holds in every reachable state.                  *)
THEOREM WaiterInvariant == WaiterSpec => []WaiterIInv
    BY WaiterInitInv, WaiterNextInv, PTL DEF WaiterSpec

(* Type correctness of the waiter.                                          *)
THEOREM WaiterTypeCorrect == WaiterSpec => []WaiterTypeOK
<1>1. WaiterIInv => WaiterTypeOK
    BY DEF WaiterIInv
<1> QED
    BY WaiterInvariant, <1>1, PTL

(* eventWaiterLoop and smartWaiterLoop lose no wakeup: whoever parks with   *)
(* completions queued, after a poll that did not fail, has an event to read.*)
THEOREM WaiterLosesNoWakeup == WaiterSpec => []NoLostWakeup
<1>1. WaiterIInv => NoLostWakeup
    BY DEF WaiterIInv
<1> QED
    BY WaiterInvariant, <1>1, PTL

(* A parked waiter is reachable by the next completion even when the poll   *)
(* before parking, or an earlier one, failed.                               *)
THEOREM ParkedWaiterIsReachable == WaiterSpec => []ParkedIsReachable
<1>1. WaiterIInv => ParkedIsReachable
    BY DEF WaiterIInv, ArmedBeforePark, ParkedIsReachable
<1> QED
    BY WaiterInvariant, <1>1, PTL

-----------------------------------------------------------------------------
(***************************************************************************)
(* The queues without a channel, which the loop polls itself: FallbackLoop *)
(* for every set of queues, batch size and spin count.  Where the loop     *)
(* waits for a token, a queue with work has a token or a call of Notify to *)
(* come.                                                                   *)
(***************************************************************************)

(* The queues the loop has polled since it last took or dropped a token.    *)
LoopSeen ==
    CASE at = "top"                  -> IF smartLoop THEN {} ELSE NonEventCQs
      [] at = "poll"                 -> NonEventCQs \ unpolled
      [] at = "token"                -> NonEventCQs
      [] at = "block" /\ ~dropped    -> NonEventCQs
      [] OTHER                         -> {}

(* A queue whose poll left none got what it holds since then, so that its   *)
(* completion is announced.                                                 *)
Announced(c) == queued[c] > 0 => eventCh \/ owed > 0

LoopSeenInv == \A c \in LoopSeen \ leftover : Announced(c)

(* Only the smart loop blocks, and only after SpinCount empty rounds.       *)
LoopRoundInv ==
    /\ at \in {"token", "block"} => smartLoop
    /\ at \in {"top", "poll"} => emptyRounds < SpinCount

LoopIInv == LoopTypeOK /\ LoopRoundInv /\ LoopSeenInv

-----------------------------------------------------------------------------

(* The invariant holds at first.                                            *)
LEMMA LoopInitInv == LoopInit => LoopIInv
<1> SUFFICES ASSUME LoopInit
             PROVE  LoopIInv
  OBVIOUS
<1> USE PollerConfigAssumption DEF LoopInit
<1>1. LoopTypeOK
  <2>1. queued \in [NonEventCQs -> 0..CQDepth] /\ owed \in 0..CQDepth /\ emptyRounds \in 0..SpinCount
    OBVIOUS
  <2>2. unpolled \subseteq NonEventCQs /\ leftover \subseteq NonEventCQs
    OBVIOUS
  <2>3. /\ eventCh \in BOOLEAN /\ loopCancelled \in BOOLEAN /\ roundFound \in BOOLEAN
        /\ dropped \in BOOLEAN /\ smartLoop \in BOOLEAN
    BY Zenon
  <2> QED
    BY <2>1, <2>2, <2>3 DEF LoopTypeOK
<1>2. LoopRoundInv
  BY DEF LoopRoundInv
<1>3. ASSUME NEW c \in LoopSeen
      PROVE  Announced(c)
  <2>1. c \in NonEventCQs
    BY DEF LoopSeen
  <2> QED
    BY <2>1 DEF Announced
<1> QED
  BY <1>1, <1>2, <1>3 DEF LoopIInv, LoopSeenInv

(* A completion brings a call of Notify with it.                            *)
LEMMA ArriveInv ==
    ASSUME LoopIInv, NEW c \in NonEventCQs, ArriveUnnotified(c)
    PROVE  LoopIInv'
<1> USE PollerConfigAssumption DEF LoopIInv, ArriveUnnotified, roundVars, history, LoopTypeOK
<1>1. LoopTypeOK'
  OBVIOUS
<1>2. LoopRoundInv'
  BY DEF LoopRoundInv
<1>3. LoopSeenInv'
  <2>1. owed' > 0
    OBVIOUS
  <2> QED
    BY <2>1 DEF LoopSeenInv, Announced
<1> QED
  BY <1>1, <1>2, <1>3

(* A call of Notify becomes a token.                                        *)
LEMMA NotifyInv ==
    ASSUME LoopIInv, Notify
    PROVE  LoopIInv'
<1> USE PollerConfigAssumption DEF LoopIInv, Notify, roundVars, history, LoopTypeOK
<1>1. LoopTypeOK'
  OBVIOUS
<1>2. LoopRoundInv'
  BY DEF LoopRoundInv
<1>3. LoopSeenInv'
  BY DEF LoopSeenInv, Announced
<1> QED
  BY <1>1, <1>2, <1>3

(* The context is cancelled.                                                *)
LEMMA CancelInv ==
    ASSUME LoopIInv, CancelLoop
    PROVE  LoopIInv'
<1> USE DEF LoopIInv, CancelLoop, roundVars, history
<1>1. LoopTypeOK'
  BY DEF LoopTypeOK
<1>2. LoopRoundInv'
  BY DEF LoopRoundInv
<1>3. LoopSeenInv'
  BY DEF LoopSeenInv, Announced, LoopSeen
<1> QED
  BY <1>1, <1>2, <1>3

(* A loop that has ended has seen nothing.                                  *)
LEMMA ExitInv ==
    ASSUME LoopIInv, Exit
    PROVE  LoopIInv'
<1> USE DEF LoopIInv, Exit, history
<1>1. LoopTypeOK'
  BY DEF LoopTypeOK
<1>2. LoopRoundInv'
  BY DEF LoopRoundInv
<1>3. LoopSeenInv'
  <2>1. LoopSeen' = {}
    BY DEF LoopSeen
  <2> QED
    BY <2>1 DEF LoopSeenInv
<1> QED
  BY <1>1, <1>2, <1>3

(* A round begins with every queue unseen.                                  *)
LEMMA RoundBegins ==
    ASSUME LoopIInv, at = "top", BeginRound,
           UNCHANGED <<queued, owed, loopCancelled, emptyRounds, history>>,
           eventCh' \in BOOLEAN
    PROVE  LoopIInv'
<1> USE DEF LoopIInv, BeginRound, history
<1>1. LoopTypeOK'
  BY DEF LoopTypeOK
<1>2. LoopRoundInv'
  BY DEF LoopRoundInv
<1>3. LoopSeenInv'
  <2>1. LoopSeen' = {}
    BY DEF LoopSeen
  <2> QED
    BY <2>1 DEF LoopSeenInv
<1> QED
  BY <1>1, <1>2, <1>3

(* A token starts a round of the event loop, or the context ends it.        *)
LEMMA EventSelectInv ==
    ASSUME LoopIInv, EventSelect
    PROVE  LoopIInv'
    BY ExitInv, RoundBegins DEF EventSelect

(* The smart loop looks at the context and starts a round.                  *)
LEMMA SmartTopInv ==
    ASSUME LoopIInv, SmartTop
    PROVE  LoopIInv'
<1>1. CASE Exit
  BY <1>1, ExitInv
<1>2. CASE BeginRound /\ UNCHANGED <<queued, owed, eventCh, loopCancelled, emptyRounds, history>>
  BY <1>2, RoundBegins DEF SmartTop, LoopIInv, LoopTypeOK
<1> QED
  BY <1>1, <1>2 DEF SmartTop

(* A poll that succeeds and does not fill its batch leaves its queue empty, *)
(* and any other poll is written down in leftover.                          *)
LEMMA PollInv ==
    ASSUME LoopIInv, PollNonEventCQs
    PROVE  LoopIInv'
<1>0. PICK c \in unpolled :
        /\ PollSucceeds(c) \/ PollFails(c)
        /\ unpolled' = unpolled \ {c}
  BY DEF PollNonEventCQs
<1>c. c \in NonEventCQs /\ queued[c] \in 0..CQDepth
  BY <1>0 DEF LoopIInv, LoopTypeOK
<1>b. /\ queued[c] - Batch(c) \in 0..CQDepth
      /\ Batch(c) # MaxBatchSize => queued[c] - Batch(c) = 0
  BY <1>c, PollerConfigAssumption DEF Batch
<1>u. UNCHANGED <<owed, eventCh, loopCancelled, at, emptyRounds, dropped, smartLoop>> /\ at = "poll"
  BY DEF PollNonEventCQs
<1>1. LoopTypeOK'
  <2>1. queued' \in [NonEventCQs -> 0..CQDepth]
    BY <1>0, <1>c, <1>b DEF LoopIInv, LoopTypeOK, PollSucceeds, PollFails
  <2>2. roundFound' \in BOOLEAN
    BY <1>0 DEF LoopIInv, LoopTypeOK, PollSucceeds, PollFails
  <2>3. unpolled' \subseteq NonEventCQs /\ leftover' \subseteq NonEventCQs
    BY <1>0, <1>c DEF LoopIInv, LoopTypeOK, PollSucceeds, PollFails
  <2> QED
    BY <2>1, <2>2, <2>3, <1>u DEF LoopIInv, LoopTypeOK
<1>2. LoopRoundInv'
  BY <1>u DEF LoopIInv, LoopRoundInv
<1>3. LoopSeenInv'
  <2> SUFFICES ASSUME NEW d \in NonEventCQs, d \notin unpolled', d \notin leftover'
               PROVE  Announced(d)'
    BY <1>u DEF LoopSeenInv, LoopSeen
  <2>1. CASE d = c
    <3>1. PollSucceeds(c) /\ Batch(c) # MaxBatchSize
      BY <2>1, <1>0 DEF PollSucceeds, PollFails
    <3>2. queued'[d] = 0
      BY <3>1, <2>1, <1>c, <1>b DEF LoopIInv, LoopTypeOK, PollSucceeds
    <3> QED
      BY <3>2 DEF Announced
  <2>2. CASE d # c
    <3>1. d \in LoopSeen \ leftover
      BY <2>2, <1>0, <1>u DEF LoopSeen, PollSucceeds, PollFails
    <3>2. queued'[d] = queued[d]
      BY <2>2, <1>0, <1>c DEF LoopIInv, LoopTypeOK, PollSucceeds, PollFails
    <3> QED
      BY <3>1, <3>2, <1>u DEF LoopIInv, LoopSeenInv, Announced
  <2> QED
    BY <2>1, <2>2
<1> QED
  BY <1>1, <1>2, <1>3 DEF LoopIInv

(* At the end of a round every queue has been seen.                         *)
LEMMA EventRoundEndsInv ==
    ASSUME LoopIInv, EventRoundEnds
    PROVE  LoopIInv'
<1> USE DEF LoopIInv, EventRoundEnds, history
<1>1. LoopTypeOK'
  BY DEF LoopTypeOK
<1>2. LoopRoundInv'
  BY DEF LoopRoundInv
<1>3. LoopSeenInv'
  <2>1. LoopSeen' = LoopSeen
    BY DEF LoopSeen
  <2> QED
    BY <2>1 DEF LoopSeenInv, Announced
<1> QED
  BY <1>1, <1>2, <1>3

(* A round of the smart loop ends: it spins on, or prepares to block.         *)
LEMMA SmartRoundEndsInv ==
    ASSUME LoopIInv, SmartRoundEnds
    PROVE  LoopIInv'
<1> USE DEF LoopIInv, SmartRoundEnds, history
<1>e. /\ emptyRounds' \in 0..SpinCount
      /\ at' = "top" => emptyRounds' < SpinCount
      /\ at' \in {"top", "token"}
  BY PollerConfigAssumption DEF LoopTypeOK, LoopRoundInv
<1>1. LoopTypeOK'
  BY <1>e DEF LoopTypeOK
<1>2. LoopRoundInv'
  BY <1>e DEF LoopRoundInv
<1>3. LoopSeenInv'
  <2>1. LoopSeen' \subseteq LoopSeen
    BY <1>e DEF LoopSeen
  <2> QED
    BY <2>1 DEF LoopSeenInv, Announced
<1> QED
  BY <1>1, <1>2, <1>3

(* The loop drops a token and says so, or there was none.                   *)
LEMMA DropTokenInv ==
    ASSUME LoopIInv, DropToken
    PROVE  LoopIInv'
<1> USE DEF LoopIInv, DropToken
<1>1. LoopTypeOK'
  BY DEF LoopTypeOK
<1>2. LoopRoundInv'
  BY DEF LoopRoundInv
<1>3. LoopSeenInv'
  <2>1. CASE eventCh
    <3>1. LoopSeen' = {}
      BY <2>1 DEF LoopSeen
    <3> QED
      BY <3>1 DEF LoopSeenInv
  <2>2. CASE ~eventCh
    <3>1. LoopSeen' = LoopSeen
      BY <2>2 DEF LoopSeen
    <3> QED
      BY <2>2, <3>1 DEF LoopSeenInv, Announced
  <2> QED
    BY <2>1, <2>2
<1> QED
  BY <1>1, <1>2, <1>3

(* The armed smart loop waits for a token.                                  *)
LEMMA SmartBlockInv ==
    ASSUME LoopIInv, SmartBlock
    PROVE  LoopIInv'
<1>1. CASE Exit
  BY <1>1, ExitInv
<1>2. CASE /\ eventCh
           /\ eventCh' = FALSE
           /\ emptyRounds' = 0
           /\ at' = "top"
           /\ dropped' = FALSE
           /\ UNCHANGED <<queued, owed, loopCancelled, unpolled, roundFound, leftover, smartLoop>>
  <2>1. LoopTypeOK'
    <3>1. emptyRounds' \in 0..SpinCount
      BY <1>2, PollerConfigAssumption
    <3>2. eventCh' \in BOOLEAN /\ dropped' \in BOOLEAN
      BY <1>2, Zenon
    <3> QED
      BY <1>2, <3>1, <3>2 DEF LoopIInv, LoopTypeOK
  <2>2. LoopRoundInv'
    BY <1>2, PollerConfigAssumption DEF LoopRoundInv
  <2>3. smartLoop
    BY DEF SmartBlock, LoopIInv, LoopRoundInv
  <2>4. LoopSeen' = {}
    BY <1>2, <2>3 DEF LoopSeen
  <2> QED
    BY <2>1, <2>2, <2>4 DEF LoopIInv, LoopSeenInv
<1> QED
  BY <1>1, <1>2 DEF SmartBlock

-----------------------------------------------------------------------------

(* Every step keeps the invariant.                                          *)
LEMMA LoopNextInv == LoopIInv /\ [LoopNext]_fallbackVars => LoopIInv'
<1> SUFFICES ASSUME LoopIInv, [LoopNext]_fallbackVars
             PROVE  LoopIInv'
  OBVIOUS
<1>1. CASE \E c \in NonEventCQs : ArriveUnnotified(c)
  BY <1>1, ArriveInv
<1>2. CASE Notify
  BY <1>2, NotifyInv
<1>3. CASE CancelLoop
  BY <1>3, CancelInv
<1>4. CASE Loop
  BY <1>4, PollInv, EventSelectInv, EventRoundEndsInv, SmartTopInv,
     SmartRoundEndsInv, DropTokenInv, SmartBlockInv DEF Loop, EventLoop, SmartLoop
<1>5. CASE UNCHANGED fallbackVars
  <2> USE <1>5 DEF fallbackVars, roundVars, history, LoopIInv
  <2>1. LoopTypeOK'
    BY DEF LoopTypeOK
  <2>2. LoopRoundInv'
    BY DEF LoopRoundInv
  <2>3. LoopSeenInv'
    <3>1. LoopSeen' = LoopSeen
      BY DEF LoopSeen
    <3> QED
      BY <3>1 DEF LoopSeenInv, Announced
  <2> QED
    BY <2>1, <2>2, <2>3
<1> QED
  BY <1>1, <1>2, <1>3, <1>4, <1>5 DEF LoopNext

(* The inductive invariant holds in every state.                            *)
THEOREM LoopInvariance == LoopSpec => []LoopIInv
    BY LoopInitInv, LoopNextInv, PTL DEF LoopSpec

(* The state of the loop keeps its type; its counter of empty rounds stays  *)
(* within SpinCount.                                                        *)
THEOREM FallbackTypeCorrect == LoopSpec => []LoopTypeOK
<1>1. LoopIInv => LoopTypeOK
  BY DEF LoopIInv
<1> QED
  BY LoopInvariance, <1>1, PTL

(* Where the loop waits for a token, a queue with completions has a token   *)
(* or a call of Notify to come, unless its last poll filled a batch or      *)
(* failed, or the smart loop has just thrown a token away.                  *)
THEOREM FallbackWorkIsAnnounced == LoopSpec => []WorkIsAnnounced
<1>1. LoopIInv => WorkIsAnnounced
  <2> SUFFICES ASSUME LoopIInv, Waiting, ~dropped,
                      NEW c \in NonEventCQs \ leftover, queued[c] > 0
               PROVE  eventCh \/ owed > 0
    BY DEF WorkIsAnnounced
  <2>1. LoopSeen = NonEventCQs
    BY DEF Waiting, LoopSeen, LoopIInv, LoopRoundInv, LoopTypeOK
  <2> QED
    BY <2>1 DEF LoopIInv, LoopSeenInv, Announced
<1> QED
  BY LoopInvariance, <1>1, PTL
=============================================================================
