-------------------------- MODULE AggregatorProofs --------------------------
(***************************************************************************)
(* The aggregator of pkg/message for every set of messages and of their    *)
(* sizes, every number of goroutines and every number of buffers: a batch  *)
(* fits its buffer, and no accepted message is lost or there twice.        *)
(*                                                                         *)
(* The size of a batch is a recursive function of its length; what it is   *)
(* for a longer batch and for a part of one is proved by induction over    *)
(* sets of numbers.  That a message is in one place follows from the moves *)
(* of the messages between pending, the batches and the wire.  Last, the   *)
(* counters: what free and ongoing say of the buffers and of the requests, *)
(* which is what keeps them within their type.                             *)
(*                                                                         *)
(* At the end, the pool that lends the aggregator its buffers              *)
(* (BufferPool).                                                           *)
(***************************************************************************)
EXTENDS Aggregator, BufferPool, FiniteSetTheorems, SequenceTheorems, WellFoundedInduction,
        TLAPS

(* Induction over the natural numbers, for a set instead of a predicate.    *)
LEMMA SetInduction ==
    ASSUME NEW S, 0 \in S, \A n \in Nat : n \in S => n + 1 \in S
    PROVE  Nat \subseteq S
<1> SUFFICES ASSUME Nat \ S # {}
             PROVE  FALSE
  OBVIOUS
<1> DEFINE R == {ss \in Nat \X Nat : ss[1] < ss[2]}
           T == Nat \ S
<1>1. IsWellFoundedOn(R, Nat)
  BY NatLessThanWellFounded DEF OpToRel
<1>2. T \subseteq Nat /\ T # {}
  OBVIOUS
<1>3. \E x \in T : \A y \in T : ~ (<<y, x>> \in R)
  <2> HIDE DEF R, T
  <2> QED
    BY <1>1, <1>2, WFMin
<1>4. PICK x \in T : \A y \in T : ~ (<<y, x>> \in R)
  BY <1>3
<1>5. x # 0 /\ x \in Nat /\ x \notin S
  OBVIOUS
<1>6. x - 1 \in Nat /\ x - 1 < x /\ x = (x - 1) + 1
  BY <1>5
<1>7. <<x - 1, x>> \in R
  BY <1>5, <1>6
<1>8. x - 1 \in S
  BY <1>4, <1>6, <1>7
<1> QED
  BY <1>5, <1>6, <1>8

LEMMA SizeIsNat ==
    /\ \A m \in Messages : Size[m] \in Nat /\ Size[m] > 0 /\ m \in Nat /\ m # 0
    /\ HeaderSize \in Nat /\ BufferSize \in Nat /\ BufferCount \in Nat
<1>1. Size \in Seq(Nat \ {0})
  BY AggregatorAssumption
<1>2. Len(Size) \in Nat /\ DOMAIN Size = 1..Len(Size)
  BY <1>1, LenProperties
<1>3. \A m \in 1..Len(Size) : Size[m] \in Nat \ {0}
  BY <1>1, <1>2, ElementOfSeq
<1> QED
  BY <1>2, <1>3, AggregatorAssumption DEF Messages

(* The sums of the first messages of a batch, by their number.              *)
Sum(b, f, i) == IF i = 0 THEN 0 ELSE f[i - 1] + Size[b[i]]
Sums(b, f) ==
    /\ f \in [0..Len(b) -> Nat]
    /\ \A i \in 0..Len(b) : f[i] = Sum(b, f, i)

LEMMA SumsExist ==
    ASSUME NEW b \in Seq(Messages)
    PROVE  \E f : Sums(b, f)
<1> DEFINE L == Len(b)
           S == {n \in Nat : n <= L => \E f \in [0..n -> Nat] :
                                          \A i \in 0..n : f[i] = Sum(b, f, i)}
<1>0. L \in Nat /\ \A i \in 1..L : b[i] \in Messages
  BY LenProperties, ElementOfSeq
<1>1. 0 \in S
  <2> DEFINE f == [i \in 0..0 |-> 0]
  <2>1. f \in [0..0 -> Nat] /\ \A i \in 0..0 : f[i] = Sum(b, f, i)
    BY DEF Sum
  <2> QED
    BY <2>1
<1>2. ASSUME NEW n \in Nat, n \in S
      PROVE  n + 1 \in S
  <2> SUFFICES ASSUME n + 1 <= L
               PROVE  \E g \in [0..n + 1 -> Nat] : \A i \in 0..n + 1 : g[i] = Sum(b, g, i)
    OBVIOUS
  <2>1. PICK f \in [0..n -> Nat] : \A i \in 0..n : f[i] = Sum(b, f, i)
    BY <1>0, <1>2
  <2>2. n \in 0..n /\ f[n] \in Nat /\ n + 1 \in 1..L
    BY <1>0
  <2>3. Size[b[n + 1]] \in Nat
    BY <1>0, <2>2, SizeIsNat
  <2> DEFINE fl == f[n] + Size[b[n + 1]]
           g == [i \in 0..n + 1 |-> IF i = n + 1 THEN fl ELSE f[i]]
  <2>4. fl \in Nat
    BY <2>2, <2>3
  <2>5. \A i \in 0..n + 1 : i # n + 1 => i \in 0..n
    OBVIOUS
  <2>6. g \in [0..n + 1 -> Nat]
    BY <2>4, <2>5
  <2>7. g[n + 1] = fl /\ \A i \in 0..n : g[i] = f[i]
    BY <2>5
  <2> HIDE DEF g
  <2>8. ASSUME NEW i \in 0..n + 1
        PROVE  g[i] = Sum(b, g, i)
    <3>1. CASE i = n + 1
      <4>1. Sum(b, g, n + 1) = g[n + 1 - 1] + Size[b[n + 1]] /\ n + 1 - 1 = n
        BY DEF Sum
      <4>2. Sum(b, g, n + 1) = fl
        BY <2>2, <2>7, <4>1
      <4> QED
        BY <2>7, <3>1, <4>2
    <3>2. CASE i # n + 1
      <4>1. i \in 0..n /\ (i # 0 => i - 1 \in 0..n)
        BY <3>2
      <4> QED
        BY <2>1, <2>7, <4>1 DEF Sum
    <3> QED
      BY <3>1, <3>2
  <2> QED
    BY <2>6, <2>8
<1>3. L \in S
  <2> HIDE DEF S
  <2> QED
    BY <1>0, <1>1, <1>2, SetInduction
<1> QED
  BY <1>0, <1>3 DEF Sums

LEMMA BatchSizeIsSum ==
    ASSUME NEW b \in Seq(Messages)
    PROVE  \E f : Sums(b, f) /\ BatchSize(b) = f[Len(b)]
<1> DEFINE IsTotal(f) == f = [i \in 0..Len(b) |-> IF i = 0 THEN 0 ELSE f[i - 1] + Size[b[i]]]
           total == CHOOSE f : IsTotal(f)
<1>1. BatchSize(b) = total[Len(b)]
  BY DEF BatchSize
<1>2. PICK f : Sums(b, f)
  BY SumsExist
<1>3. IsTotal(f)
  BY <1>2 DEF Sums, Sum
<1>4. IsTotal(total)
  <2> HIDE DEF IsTotal
  <2> QED
    BY <1>3
<1>5. \A i \in 0..Len(b) : total[i] = Sum(b, total, i)
  BY <1>4 DEF Sum
<1>6. Len(b) \in Nat /\ \A i \in 1..Len(b) : Size[b[i]] \in Nat
  BY LenProperties, ElementOfSeq, SizeIsNat
<1> DEFINE S == {n \in Nat : n <= Len(b) => total[n] \in Nat}
<1>7. 0 \in S
  BY <1>5, <1>6 DEF Sum
<1>8. ASSUME NEW n \in Nat, n \in S
      PROVE  n + 1 \in S
  <2> SUFFICES ASSUME n + 1 <= Len(b)
               PROVE  total[n + 1] \in Nat
    OBVIOUS
  <2> HIDE DEF total
  <2>1. n + 1 \in 0..Len(b) /\ n + 1 \in 1..Len(b) /\ n + 1 - 1 = n /\ n + 1 # 0
    BY <1>6
  <2>2. total[n + 1] = total[n + 1 - 1] + Size[b[n + 1]]
    BY <1>5, <2>1 DEF Sum
  <2>3. total[n] \in Nat
    BY <1>6, <1>8
  <2> QED
    BY <1>6, <2>1, <2>2, <2>3
<1>9. \A n \in Nat : n \in S
  <2> HIDE DEF S
  <2> QED
    BY <1>7, <1>8, SetInduction
<1>10. total \in [0..Len(b) -> Nat]
  <2>1. \A n \in 0..Len(b) : total[n] \in Nat
    BY <1>6, <1>9
  <2> HIDE DEF total
  <2> QED
    BY <1>4, <2>1
<1> HIDE DEF total
<1> QED
  BY <1>1, <1>5, <1>10 DEF Sums

LEMMA BatchSizeFacts ==
    /\ BatchSize(<< >>) = 0
    /\ \A b \in Seq(Messages) : BatchSize(b) \in Nat
    /\ \A b \in Seq(Messages), m \in Messages :
          BatchSize(Append(b, m)) = BatchSize(b) + Size[m]
    /\ \A m \in Messages : BatchSize(<<m>>) = Size[m]
<1>1. BatchSize(<< >>) = 0
  <2>1. << >> \in Seq(Messages) /\ Len(<< >>) = 0
    OBVIOUS
  <2>2. PICK f : Sums(<< >>, f) /\ BatchSize(<< >>) = f[0]
    BY <2>1, BatchSizeIsSum
  <2> QED
    BY <2>1, <2>2 DEF Sums, Sum
<1>2. ASSUME NEW b \in Seq(Messages)
      PROVE  BatchSize(b) \in Nat
  <2>1. PICK f : Sums(b, f) /\ BatchSize(b) = f[Len(b)]
    BY BatchSizeIsSum
  <2>2. Len(b) \in Nat
    BY LenProperties
  <2>3. Len(b) \in 0..Len(b)
    BY <2>2
  <2> QED
    BY <2>1, <2>3 DEF Sums
<1>3. ASSUME NEW b \in Seq(Messages), NEW m \in Messages
      PROVE  BatchSize(Append(b, m)) = BatchSize(b) + Size[m]
  <2> DEFINE c == Append(b, m)
             L == Len(b)
  <2>1. c \in Seq(Messages) /\ Len(c) = L + 1 /\ L \in Nat
        /\ (\A i \in 1..L : c[i] = b[i]) /\ c[L + 1] = m
    BY AppendProperties, LenProperties
  <2>2. PICK f : Sums(b, f) /\ BatchSize(b) = f[L]
    BY BatchSizeIsSum
  <2> HIDE DEF c
  <2>3. PICK g : Sums(c, g) /\ BatchSize(c) = g[Len(c)]
    BY <2>1, BatchSizeIsSum
  <2>4. /\ \A i \in 0..L : f[i] = Sum(b, f, i)
        /\ \A i \in 0..L + 1 : g[i] = Sum(c, g, i)
    BY <2>1, <2>2, <2>3 DEF Sums
  <2> HIDE DEF L
  <2> DEFINE S == {n \in Nat : n <= L => f[n] = g[n]}
  <2>5. 0 \in S
    BY <2>1, <2>4 DEF Sum
  <2>6. ASSUME NEW n \in Nat, n \in S
        PROVE  n + 1 \in S
    <3> SUFFICES ASSUME n + 1 <= L
                 PROVE  f[n + 1] = g[n + 1]
      OBVIOUS
    <3>1. n + 1 \in 0..L /\ n + 1 \in 0..L + 1 /\ n + 1 \in 1..L /\ n + 1 # 0 /\ n + 1 - 1 = n
      BY <2>1
    <3>2. f[n + 1] = f[n] + Size[b[n + 1]] /\ g[n + 1] = g[n] + Size[c[n + 1]]
      BY <2>4, <3>1 DEF Sum
    <3>3. f[n] = g[n]
      BY <2>1, <2>6
    <3> QED
      BY <2>1, <3>1, <3>2, <3>3
  <2>7. L \in S
    <3> HIDE DEF S
    <3> QED
      BY <2>1, <2>5, <2>6, SetInduction
  <2>8. f[L] = g[L]
    BY <2>1, <2>7
  <2>9. g[L + 1] = g[L] + Size[m]
    <3>1. L + 1 \in 0..L + 1 /\ L + 1 # 0 /\ L + 1 - 1 = L
      BY <2>1
    <3> QED
      BY <2>1, <2>4, <3>1 DEF Sum
  <2> QED
    BY <2>1, <2>2, <2>3, <2>8, <2>9 DEF c, L
<1>4. ASSUME NEW m \in Messages
      PROVE  BatchSize(<<m>>) = Size[m]
  <2>1. << >> \in Seq(Messages) /\ Append(<< >>, m) = <<m>>
    OBVIOUS
  <2>2. BatchSize(<<m>>) = BatchSize(<< >>) + Size[m]
    BY <1>3, <2>1
  <2> QED
    BY <1>1, <2>2, SizeIsNat
<1> QED
  BY <1>1, <1>2, <1>3, <1>4

-----------------------------------------------------------------------------
(* The locations at which a.mu is held, those at which a message has not    *)
(* been stored yet, and those of the poller.                                *)
Locked == {"overflow", "overflowPost", "append", "idleTest", "flush"}
Unstored == {"lock", "acquire", "fit", "overflow", "overflowPost", "append"}
PollerLocations == {"idle", "complete", "idleFlush", "flush", "post"}

ProcTypes ==
    /\ pc \in [Procs -> Locations]
    /\ msg \in [Procs -> Messages \union {0}]
    /\ batch \in [Procs -> Seq(Messages)]

StoreTypes ==
    /\ mu \in Procs \union {Nobody}
    /\ pending \in Seq(Messages) /\ pendingSize \in Nat
    /\ posted \subseteq Seq(Messages) /\ wire \in Seq(Messages)
    /\ next \in Nat /\ next > 0
    /\ result \in [Messages -> {"none", "ok", "error"}]
    /\ busy \in BOOLEAN /\ starved \in BOOLEAN /\ failed \subseteq FailureKinds

(* What the location of a goroutine says of the lock and of its message.    *)
ProcAt(p) ==
    /\ pc[p] \in Locked => mu = p
    /\ pc[p] \in Unstored => msg[p] # 0
    /\ msg[p] # 0 => msg[p] < next /\ pc[p] # "idle"
    /\ batch[p] # << >> <=> pc[p] \in {"post", "overflowPost"}
    /\ pc[p] \in {"overflow", "idleTest", "flush"} => pending # << >>
    /\ pc[p] \in {"append", "overflowPost"} => pending = << >>
    /\ p = Poller => msg[p] = 0 /\ pc[p] \in PollerLocations
    /\ p # Poller => pc[p] \notin {"complete", "idleFlush"}

OwnMessages ==
    \A p, q \in Procs : msg[p] = msg[q] /\ msg[p] # 0 => p = q

(* What has been collected fits into a buffer, but for a single message     *)
(* that no buffer holds.                                                    *)
Small(b) == b = << >> \/ Fits(b) \/ Len(b) = 1
SizeInv ==
    /\ pendingSize = BatchSize(pending)
    /\ pending # << >> => pendingSize > 0
    /\ Small(pending)
    /\ \A p \in Procs : Small(batch[p])

Base == ProcTypes /\ StoreTypes /\ (\A p \in Procs : ProcAt(p)) /\ OwnMessages /\ SizeInv

LEMMA Names ==
    /\ Poller \in Procs /\ Poller \notin Callers /\ Nobody \notin Procs
    /\ \A p \in Callers : p \in Procs /\ p # Poller
    /\ \A p \in Procs : p # Poller => p \in Callers
  BY AggregatorAssumption DEF Procs

(* What the environment has to itself.                                      *)
USE DEF env

LEMMA BaseInit == Init => Base
<1> SUFFICES ASSUME Init
             PROVE  Base
  OBVIOUS
<1> USE DEF Init
<1>0. starved \in BOOLEAN
  OBVIOUS
<1>1. ProcTypes /\ StoreTypes
  BY <1>0, Names DEF ProcTypes, StoreTypes, Locations
<1>2. (\A p \in Procs : ProcAt(p)) /\ OwnMessages
  BY Names DEF ProcAt, OwnMessages, Locked, Unstored, PollerLocations
<1>3. SizeInv
  BY BatchSizeFacts DEF SizeInv, Small
<1> QED
  BY <1>1, <1>2, <1>3 DEF Base

(* A step of p, by where p gets, its message and its batch.                 *)
Moves(p, loc, m, b) ==
    /\ loc \in Locations /\ m \in Messages \union {0} /\ b \in Seq(Messages)
    /\ pc' = [pc EXCEPT ![p] = loc]
    /\ msg' = [msg EXCEPT ![p] = m]
    /\ batch' = [batch EXCEPT ![p] = b]

LEMMA MovedProc ==
    ASSUME Base, NEW p \in Procs, NEW loc, NEW m, NEW b, Moves(p, loc, m, b)
    PROVE  /\ ProcTypes'
           /\ pc'[p] = loc /\ msg'[p] = m /\ batch'[p] = b
           /\ \A q \in Procs : q # p => pc'[q] = pc[q] /\ msg'[q] = msg[q] /\ batch'[q] = batch[q]
  BY DEF Base, ProcTypes, Moves

(* A step of one goroutine that passes the lock on as a mutex is, and       *)
(* changes the pending messages only while it holds the lock.               *)
Locking(p) ==
    /\ \/ mu' = mu
       \/ mu = Nobody /\ mu' = p
       \/ mu = p /\ mu' = Nobody
    /\ pending' = pending \/ mu = p \/ mu' = p

LEMMA OneProcSteps ==
    ASSUME Base, NEW p \in Procs, NEW loc, NEW m, NEW b, Moves(p, loc, m, b),
           StoreTypes', Locking(p), next' >= next,
           m = 0 \/ m = msg[p] \/ (m = next /\ next' > next),
           ProcAt(p)', Small(b),
           pendingSize' = BatchSize(pending'), Small(pending)',
           pending' # << >> => pendingSize' > 0
    PROVE  Base'
<1>1. /\ ProcTypes'
      /\ pc'[p] = loc /\ msg'[p] = m /\ batch'[p] = b
      /\ \A q \in Procs : q # p => pc'[q] = pc[q] /\ msg'[q] = msg[q] /\ batch'[q] = batch[q]
  BY MovedProc
<1>2. ASSUME NEW q \in Procs, q # p
      PROVE  ProcAt(q)'
  <2>1. pc'[q] = pc[q] /\ msg'[q] = msg[q] /\ batch'[q] = batch[q] /\ ProcAt(q)
    BY <1>1, <1>2 DEF Base
  <2>2. pc[q] \in Locked => mu' = q /\ pending' = pending
    BY <1>2, <2>1, Names DEF ProcAt, Locking
  <2>3. msg[q] # 0 => msg[q] < next'
    <3>1. msg[q] # 0 => msg[q] \in Nat
      BY SizeIsNat DEF Base, ProcTypes
    <3> QED
      BY <2>1, <3>1 DEF ProcAt, Base, StoreTypes
  <2> QED
    BY <2>1, <2>2, <2>3 DEF ProcAt, Locked
<1>3. OwnMessages'
  <2> SUFFICES ASSUME NEW q \in Procs, NEW r \in Procs, msg'[q] = msg'[r], msg'[q] # 0
               PROVE  q = r
    BY DEF OwnMessages
  <2>1. \A x \in Procs : msg[x] # 0 => msg[x] # next
    BY SizeIsNat DEF Base, ProcAt, StoreTypes, ProcTypes
  <2> QED
    BY <1>1, <2>1 DEF Base, OwnMessages
<1>4. SizeInv'
  <2>1. ASSUME NEW q \in Procs
        PROVE  Small(batch'[q])
    BY <1>1 DEF Base, SizeInv
  <2>2. \A q \in Procs : Small(batch'[q])
    BY <2>1
  <2> QED
    BY <2>2 DEF SizeInv, Small, Fits
<1>5. \A q \in Procs : ProcAt(q)'
  BY <1>2
<1> QED
  BY <1>1, <1>3, <1>4, <1>5 DEF Base

LEMMA ReturnMoves ==
    ASSUME Base, NEW p \in Procs, NEW r \in {"ok", "error"}, Return(p, r)
    PROVE  /\ Moves(p, "idle", 0, << >>)
           /\ mu' = mu \/ (mu = p /\ mu' = Nobody)
           /\ mu' \in Procs \union {Nobody}
           /\ result' \in [Messages -> {"none", "ok", "error"}]
           /\ ProcAt(p)'
<1>1. Moves(p, "idle", 0, << >>)
  BY DEF Return, Moves, Goto, Locations
<1>2. result' \in [Messages -> {"none", "ok", "error"}]
  BY DEF Return, Base, ProcTypes, StoreTypes
<1>3. mu' \in Procs \union {Nobody} /\ (mu' = mu \/ (mu = p /\ mu' = Nobody))
  BY DEF Return, Base, StoreTypes
<1>4. pc'[p] = "idle" /\ msg'[p] = 0 /\ batch'[p] = << >>
  BY <1>1, MovedProc
<1>5. ProcAt(p)'
  BY <1>4 DEF ProcAt, Locked, Unstored, PollerLocations
<1> QED
  BY <1>1, <1>2, <1>3, <1>5

-----------------------------------------------------------------------------
(* What a step that does not touch some of the state leaves in place.       *)
LEMMA Stays ==
    ASSUME Base, NEW p \in Procs
    PROVE  /\ UNCHANGED msg => msg' = [msg EXCEPT ![p] = msg[p]]
           /\ UNCHANGED batch => batch' = [batch EXCEPT ![p] = batch[p]]
           /\ msg[p] \in Messages \union {0} /\ batch[p] \in Seq(Messages)
           /\ Small(batch[p]) /\ Small(<< >>) /\ \A m : Small(<<m>>)
           /\ UNCHANGED pendVars =>
                 /\ pendingSize' = BatchSize(pending') /\ Small(pending)'
                 /\ pending' # << >> => pendingSize' > 0
<1>1. UNCHANGED pendVars =>
        /\ pendingSize' = BatchSize(pending') /\ Small(pending)'
        /\ pending' # << >> => pendingSize' > 0
  BY DEF Base, SizeInv, pendVars, Small, Fits
<1>2. Small(batch[p]) /\ Small(<< >>) /\ \A m : Small(<<m>>)
  BY DEF Base, SizeInv, Small
<1> QED
  BY <1>1, <1>2 DEF Base, ProcTypes

LEMMA SendBase ==
    ASSUME Base, NEW p \in Callers, Send(p)
    PROVE  Base'
<1> DEFINE loc == IF EnableAggregate /\ busy THEN "lock" ELSE "acquire"
<1>0. p \in Procs /\ p # Poller /\ next \in Messages /\ next # 0 /\ next \in Nat
  BY Names, SizeIsNat DEF Send
<1>1. Moves(p, loc, next, batch[p])
  BY <1>0, Stays DEF Send, Goto, Moves, Locations
<1> HIDE DEF loc
<1>2. pc'[p] = loc /\ msg'[p] = next /\ batch'[p] = batch[p]
  BY <1>0, <1>1, MovedProc
<1>3. ProcAt(p)'
  <2>1. loc \in {"lock", "acquire"} /\ batch[p] = << >>
    BY <1>0 DEF loc, Send, At, Base, ProcAt
  <2> QED
    BY <1>0, <1>2, <2>1 DEF ProcAt, Locked, Unstored, Send
<1>4. StoreTypes' /\ Locking(p) /\ next' > next /\ next' >= next
  BY <1>0 DEF Base, StoreTypes, Send, pendVars, out, Locking
<1> QED
  BY <1>0, <1>1, <1>3, <1>4, Stays, OneProcSteps DEF Send

LEMMA CallFlushBase ==
    ASSUME Base, NEW p \in Callers, CallFlush(p)
    PROVE  Base'
<1>0. p \in Procs /\ p # Poller
  BY Names
<1>1. Moves(p, "flush", msg[p], batch[p])
  BY <1>0, Stays DEF CallFlush, Goto, Moves, Locations
<1>2. pc'[p] = "flush" /\ msg'[p] = msg[p] /\ batch'[p] = batch[p]
  BY <1>0, <1>1, MovedProc
<1>3. ProcAt(p)'
  BY <1>0, <1>2 DEF Base, ProcAt, Locked, Unstored, CallFlush, At, pendVars
<1>4. StoreTypes' /\ Locking(p) /\ next' >= next
  BY <1>0 DEF Base, StoreTypes, CallFlush, pendVars, out, Locking
<1> QED
  BY <1>0, <1>1, <1>3, <1>4, Stays, OneProcSteps DEF CallFlush

(* A call that returns and leaves the pending messages alone.               *)
LEMMA ReturnBase ==
    ASSUME Base, NEW p \in Procs, NEW r \in {"ok", "error"}, Return(p, r),
           UNCHANGED <<busy, pendVars, next>>,
           posted' \subseteq Seq(Messages), wire' \in Seq(Messages),
           failed' \subseteq FailureKinds, starved' \in BOOLEAN
    PROVE  Base'
<1>1. /\ Moves(p, "idle", 0, << >>)
      /\ mu' = mu \/ (mu = p /\ mu' = Nobody)
      /\ mu' \in Procs \union {Nobody}
      /\ result' \in [Messages -> {"none", "ok", "error"}]
      /\ ProcAt(p)'
  BY ReturnMoves
<1>2. StoreTypes' /\ Locking(p) /\ next' >= next
  BY <1>1 DEF Base, StoreTypes, pendVars, Locking
<1> QED
  BY <1>1, <1>2, Stays, OneProcSteps

(* A step that leaves the lock, the pending messages and the results alone. *)
LEMMA QuietBase ==
    ASSUME Base, NEW p \in Procs, NEW loc, NEW m, NEW b, Moves(p, loc, m, b),
           m = msg[p], Small(b), ProcAt(p)',
           UNCHANGED <<busy, mu, pendVars, next, result>>,
           posted' \subseteq Seq(Messages), wire' \in Seq(Messages),
           failed' \subseteq FailureKinds, starved' \in BOOLEAN
    PROVE  Base'
<1>1. StoreTypes' /\ Locking(p) /\ next' >= next
  BY DEF Base, StoreTypes, pendVars, Locking
<1> QED
  BY <1>1, Stays, OneProcSteps

LEMMA OutStays ==
    ASSUME Base, UNCHANGED out
    PROVE  /\ posted' \subseteq Seq(Messages) /\ wire' \in Seq(Messages)
           /\ failed' \subseteq FailureKinds /\ starved' \in BOOLEAN
  BY DEF Base, StoreTypes, out

LEMMA AcquireBase ==
    ASSUME Base, NEW p \in Callers, Acquire(p)
    PROVE  Base'
<1>0. p \in Procs /\ p # Poller
  BY Names
<1>1. CASE Goto(p, "fit") /\ UNCHANGED <<mu, msg, batch, result>>
  <2>1. Moves(p, "fit", msg[p], batch[p])
    BY <1>0, <1>1, Stays DEF Goto, Moves, Locations
  <2>2. pc'[p] = "fit" /\ msg'[p] = msg[p] /\ batch'[p] = batch[p]
    BY <1>0, <2>1, MovedProc
  <2>3. ProcAt(p)'
    BY <1>0, <2>2 DEF Base, ProcAt, Locked, Unstored, Acquire, At
  <2> QED
    BY <1>0, <1>1, <2>1, <2>3, Stays, OutStays, QuietBase DEF Acquire
<1>2. CASE Return(p, "error")
  BY <1>0, <1>2, OutStays, ReturnBase DEF Acquire
<1> QED
  BY <1>1, <1>2 DEF Acquire

LEMMA ImmediateFitBase ==
    ASSUME Base, NEW p \in Callers, ImmediateFit(p)
    PROVE  Base'
<1>0. p \in Procs /\ p # Poller
  BY Names
<1>1. CASE TooLarge(p)
  BY <1>0, <1>1, OutStays, ReturnBase DEF ImmediateFit
<1>2. CASE ~TooLarge(p)
  <2>0. msg[p] \in Messages /\ msg[p] # 0
    BY <1>0 DEF ImmediateFit, At, Base, ProcTypes, ProcAt, Unstored
  <2>1. Moves(p, "post", msg[p], <<msg[p]>>)
    BY <1>0, <1>2, <2>0, Stays DEF ImmediateFit, Goto, Moves, Locations
  <2>2. pc'[p] = "post" /\ msg'[p] = msg[p] /\ batch'[p] = <<msg[p]>>
    BY <1>0, <2>1, MovedProc
  <2>3. ProcAt(p)'
    BY <1>0, <2>2 DEF Base, ProcAt, Locked, Unstored, ImmediateFit, At
  <2> QED
    BY <1>0, <1>2, <2>1, <2>3, Stays, OutStays, QuietBase DEF ImmediateFit
<1> QED
  BY <1>1, <1>2

(* The message fits into what is pending, or is the first.                  *)
LEMMA AppendBase ==
    ASSUME Base, NEW p \in Callers, AppendMessage(p), msg[p] # 0, batch[p] = << >>,
           pending = << >> \/ HeaderSize + pendingSize + Size[msg[p]] <= BufferSize,
           mu = p \/ mu = Nobody, mu' = p,
           UNCHANGED <<busy, out, next, msg, batch, result>>
    PROVE  Base'
<1> DEFINE m == msg[p]
           loc == IF HeaderSize + pendingSize' > SendThreshold THEN "flush" ELSE "idleTest"
<1>0. p \in Procs /\ p # Poller /\ m \in Messages /\ Size[m] \in Nat /\ Size[m] > 0
      /\ m # 0 /\ m < next
  BY Names, SizeIsNat DEF Base, ProcTypes, ProcAt
<1>1. Moves(p, loc, m, batch[p])
  BY <1>0, Stays DEF AppendMessage, Goto, Moves, Locations
<1>2. loc \in {"flush", "idleTest"}
  OBVIOUS
<1> HIDE DEF loc, m
<1>3. pc'[p] = loc /\ msg'[p] = m /\ batch'[p] = << >>
  BY <1>0, <1>1, MovedProc
<1>4. /\ pending' = Append(pending, m) /\ pendingSize' = pendingSize + Size[m]
      /\ pending' \in Seq(Messages) /\ pendingSize' \in Nat /\ pendingSize' > 0
      /\ pending' # << >> /\ Len(pending') = Len(pending) + 1
  <2>1. pending \in Seq(Messages) /\ pendingSize \in Nat
    BY DEF Base, StoreTypes
  <2>2. pending' = Append(pending, m) /\ pendingSize' = pendingSize + Size[m]
    BY DEF AppendMessage, m
  <2>3. Append(pending, m) \in Seq(Messages) /\ Len(Append(pending, m)) = Len(pending) + 1
        /\ Append(pending, m) # << >>
    BY <1>0, <2>1
  <2> QED
    BY <1>0, <2>1, <2>2, <2>3
<1>5. pendingSize' = BatchSize(pending')
  BY <1>0, <1>4, BatchSizeFacts DEF Base, StoreTypes, SizeInv
<1>6. Small(pending')
  <2>1. CASE pending = << >>
    BY <1>4, <2>1 DEF Small
  <2>2. CASE HeaderSize + pendingSize + Size[m] <= BufferSize
    <3>1. HeaderSize + BatchSize(pending') <= BufferSize
      BY <1>0, <1>4, <1>5, <2>2, SizeIsNat DEF Base, StoreTypes
    <3> QED
      BY <3>1 DEF Small, Fits
  <2> QED
    BY <2>1, <2>2 DEF m
<1>7. Small(pending)'
  BY <1>6 DEF Small, Fits
<1>8. ProcAt(p)'
  BY <1>0, <1>2, <1>3, <1>4 DEF ProcAt, Locked, Unstored
<1>9. StoreTypes' /\ Locking(p) /\ next' >= next
  BY <1>0, <1>4 DEF Base, StoreTypes, Locking, out
<1> QED
  BY <1>0, <1>1, <1>4, <1>5, <1>7, <1>8, <1>9, Stays, OneProcSteps DEF m

LEMMA LockBase ==
    ASSUME Base, NEW p \in Callers, Lock(p)
    PROVE  Base'
<1>0. p \in Procs /\ p # Poller /\ msg[p] \in Messages /\ msg[p] # 0 /\ batch[p] = << >>
  BY Names DEF Lock, At, Base, ProcTypes, ProcAt, Unstored
<1>1. CASE Overflows(p)
  <2>1. Moves(p, "overflow", msg[p], batch[p])
    BY <1>0, <1>1, Stays DEF Lock, Goto, Moves, Locations
  <2>2. pc'[p] = "overflow" /\ msg'[p] = msg[p] /\ batch'[p] = batch[p]
    BY <1>0, <2>1, MovedProc
  <2>3. pending # << >>
    BY <1>1, BatchSizeFacts DEF Overflows, Base, SizeInv
  <2>4. ProcAt(p)'
    BY <1>0, <1>1, <2>2, <2>3 DEF Base, ProcAt, Locked, Unstored, Lock, At, pendVars
  <2>5. StoreTypes' /\ Locking(p) /\ next' >= next
    BY <1>0, <1>1 DEF Base, StoreTypes, Lock, pendVars, Locking, out
  <2> QED
    BY <1>0, <1>1, <2>1, <2>4, <2>5, Stays, OneProcSteps DEF Lock
<1>2. CASE ~Overflows(p)
  <2>1. pending = << >> \/ HeaderSize + pendingSize + Size[msg[p]] <= BufferSize
    <3>1. pending # << >> => pendingSize > 0
      BY DEF Base, SizeInv
    <3> QED
      BY <1>0, <1>2, <3>1, SizeIsNat DEF Overflows, Base, StoreTypes
  <2> QED
    BY <1>0, <1>2, <2>1, AppendBase DEF Lock
<1> QED
  BY <1>1, <1>2

LEMMA AfterOverflowBase ==
    ASSUME Base, NEW p \in Callers, AfterOverflow(p)
    PROVE  Base'
<1>1. msg[p] # 0 /\ batch[p] = << >> /\ mu = p /\ pending = << >>
  BY Names DEF AfterOverflow, At, Base, ProcAt, Unstored, Locked
<1> QED
  BY <1>1, AppendBase DEF AfterOverflow

LEMMA IdleTestBase ==
    ASSUME Base, NEW p \in Callers, IdleTest(p)
    PROVE  Base'
<1>0. p \in Procs /\ p # Poller
  BY Names
<1>1. CASE Goto(p, "flush") /\ UNCHANGED <<mu, msg, batch, result>>
  <2>1. Moves(p, "flush", msg[p], batch[p])
    BY <1>0, <1>1, Stays DEF Goto, Moves, Locations
  <2>2. pc'[p] = "flush" /\ msg'[p] = msg[p] /\ batch'[p] = batch[p]
    BY <1>0, <2>1, MovedProc
  <2>3. ProcAt(p)'
    BY <1>0, <1>1, <2>2 DEF Base, ProcAt, Locked, Unstored, IdleTest, At, pendVars
  <2> QED
    BY <1>0, <1>1, <2>1, <2>3, Stays, OutStays, QuietBase DEF IdleTest
<1>2. CASE Return(p, "ok")
  BY <1>0, <1>2, OutStays, ReturnBase DEF IdleTest
<1> QED
  BY <1>1, <1>2 DEF IdleTest

-----------------------------------------------------------------------------
LEMMA FlushAcquireBase ==
    ASSUME Base, NEW p \in Procs, NEW from, NEW to, FlushAcquire(p, from, to),
           \/ from = "overflow" /\ to = "overflowPost" /\ p # Poller
           \/ from = "flush" /\ to = "post"
    PROVE  Base'
<1>0. starved' \in BOOLEAN
  BY DEF FlushAcquire, Base, StoreTypes
<1>a. /\ UNCHANGED <<busy, next>>
      /\ posted' \subseteq Seq(Messages) /\ wire' \in Seq(Messages)
      /\ failed' \subseteq FailureKinds
  BY DEF FlushAcquire, Base, StoreTypes
<1>1. CASE Return(p, "error") /\ UNCHANGED <<pendVars, ongoing, free>>
  BY <1>0, <1>1, <1>a, ReturnBase DEF pendVars
<1>2. CASE /\ batch' = [batch EXCEPT ![p] = pending]
           /\ pending' = << >> /\ pendingSize' = 0
           /\ Goto(p, to)
           /\ UNCHANGED <<mu, msg, result>>
  <2>0. mu = p /\ pending # << >> /\ pending \in Seq(Messages) /\ Small(pending)
    BY DEF FlushAcquire, At, Base, ProcAt, Locked, StoreTypes, SizeInv
  <2>1. Moves(p, to, msg[p], pending)
    BY <1>2, <2>0, Stays DEF Goto, Moves, Locations
  <2>2. pc'[p] = to /\ msg'[p] = msg[p] /\ batch'[p] = pending
    BY <2>1, MovedProc
  <2>3. ProcAt(p)'
    BY <1>2, <2>0, <2>2 DEF Base, ProcAt, Locked, Unstored, PollerLocations, FlushAcquire, At
  <2>4. StoreTypes' /\ Locking(p) /\ next' >= next
    BY <1>0, <1>2, <1>a, <2>0 DEF Base, StoreTypes, FlushAcquire, Locking
  <2>5. pendingSize' = BatchSize(pending') /\ Small(pending)'
    BY <1>2, BatchSizeFacts DEF Small
  <2> QED
    BY <1>2, <2>0, <2>1, <2>3, <2>4, <2>5, Stays, OneProcSteps
<1> QED
  BY <1>1, <1>2 DEF FlushAcquire

LEMMA PostTypes ==
    ASSUME Base, NEW p \in Procs, Post(p) \/ PostFails(p)
    PROVE  /\ posted' \subseteq Seq(Messages) /\ wire' \in Seq(Messages)
           /\ failed' \subseteq FailureKinds /\ starved' \in BOOLEAN
<1>1. batch[p] \in Seq(Messages)
  BY DEF Base, ProcTypes
<1>2. CASE Post(p)
  <2>1. wire \o batch[p] \in Seq(Messages)
    BY <1>1, ConcatProperties DEF Base, StoreTypes
  <2> QED
    BY <1>1, <1>2, <2>1 DEF Post, Base, StoreTypes
<1>3. CASE PostFails(p)
  BY <1>3, AggregatorAssumption DEF PostFails, Base, StoreTypes
<1> QED
  BY <1>2, <1>3

LEMMA ConnSendBase ==
    ASSUME Base, NEW p \in Procs, ConnSend(p)
    PROVE  Base'
<1>1. PICK r \in {"ok", "error"} : Return(p, r)
  BY DEF ConnSend
<1>2. Post(p) \/ PostFails(p)
  BY DEF ConnSend
<1> QED
  BY <1>1, <1>2, PostTypes, ReturnBase DEF ConnSend

LEMMA OverflowConnSendBase ==
    ASSUME Base, NEW p \in Callers, OverflowConnSend(p)
    PROVE  Base'
<1>0. p \in Procs /\ p # Poller
  BY Names
<1>1. CASE Return(p, "error")
  <2>1. Post(p) \/ PostFails(p)
    BY DEF OverflowConnSend
  <2> QED
    BY <1>0, <1>1, <2>1, PostTypes, ReturnBase DEF OverflowConnSend
<1>2. CASE /\ Post(p)
           /\ Goto(p, "append")
           /\ batch' = [batch EXCEPT ![p] = << >>]
           /\ UNCHANGED <<mu, msg, result>>
  <2>1. Moves(p, "append", msg[p], << >>)
    <3>1. msg' = [msg EXCEPT ![p] = msg[p]] /\ msg[p] \in Messages \union {0}
      BY <1>0, <1>2, Stays
    <3>2. << >> \in Seq(Messages)
      OBVIOUS
    <3> QED
      BY <1>2, <3>1, <3>2 DEF Goto, Moves, Locations
  <2>2. pc'[p] = "append" /\ msg'[p] = msg[p] /\ batch'[p] = << >>
    BY <1>0, <2>1, MovedProc
  <2>3. ProcAt(p)'
    BY <1>0, <1>2, <2>2 DEF Base, ProcAt, Locked, Unstored, OverflowConnSend, At, pendVars
  <2> QED
    BY <1>0, <1>2, <2>1, <2>3, PostTypes, Stays, QuietBase DEF OverflowConnSend
<1> QED
  BY <1>1, <1>2 DEF OverflowConnSend

(* The poller goes from one of its locations to another, or stays.          *)
LEMMA PollerBase ==
    ASSUME Base, NEW loc \in {"idle", "complete", "idleFlush"},
           Moves(Poller, loc, msg[Poller], batch[Poller]),
           pc[Poller] \in {"idle", "complete", "idleFlush"},
           UNCHANGED <<busy, mu, pendVars, next, result>>,
           posted' \subseteq Seq(Messages), wire' \in Seq(Messages),
           failed' \subseteq FailureKinds, starved' \in BOOLEAN
    PROVE  Base'
<1>1. Poller \in Procs
  BY Names
<1>2. pc'[Poller] = loc /\ msg'[Poller] = msg[Poller] /\ batch'[Poller] = batch[Poller]
  BY <1>1, MovedProc
<1>3. ProcAt(Poller)'
  BY <1>1, <1>2 DEF Base, ProcAt, Locked, Unstored, PollerLocations
<1> QED
  BY <1>1, <1>3, Stays, QuietBase

LEMMA SendCompletionBase ==
    ASSUME Base, NEW b \in posted, SendCompletion(b)
    PROVE  Base'
<1>1. Poller \in Procs /\ pc[Poller] = "idle"
  BY Names DEF SendCompletion, At
<1>2. /\ posted' \subseteq Seq(Messages) /\ wire' \in Seq(Messages)
      /\ failed' \subseteq FailureKinds /\ starved' \in BOOLEAN
  BY DEF SendCompletion, Base, StoreTypes, FailureKinds
<1>3. PICK loc \in {"idle", "complete"} : pc' = [pc EXCEPT ![Poller] = loc]
  BY <1>1 DEF SendCompletion, Goto, Base, ProcTypes
<1>4. Moves(Poller, loc, msg[Poller], batch[Poller])
  BY <1>1, <1>3, Stays DEF SendCompletion, Moves, Locations
<1> QED
  BY <1>1, <1>2, <1>3, <1>4, PollerBase DEF SendCompletion

LEMMA OnSendCompleteBase ==
    ASSUME Base, OnSendComplete
    PROVE  Base'
<1>1. Poller \in Procs /\ pc[Poller] = "complete"
  BY Names DEF OnSendComplete, At
<1>2. PICK loc \in {"idle", "idleFlush"} : pc' = [pc EXCEPT ![Poller] = loc]
  BY DEF OnSendComplete, Goto
<1>3. Moves(Poller, loc, msg[Poller], batch[Poller])
  BY <1>1, <1>2, Stays DEF OnSendComplete, Moves, Locations
<1> QED
  BY <1>1, <1>2, <1>3, OutStays, PollerBase DEF OnSendComplete

LEMMA IdleFlushBase ==
    ASSUME Base, IdleFlush
    PROVE  Base'
<1>1. Poller \in Procs /\ pc[Poller] = "idleFlush" /\ mu = Nobody
  BY Names DEF IdleFlush, At
<1>2. CASE pending = << >>
  <2>1. Moves(Poller, "idle", msg[Poller], batch[Poller])
    BY <1>1, <1>2, Stays DEF IdleFlush, Goto, Moves, Locations
  <2> QED
    BY <1>1, <1>2, <2>1, OutStays, PollerBase DEF IdleFlush
<1>3. CASE pending # << >>
  <2>1. Moves(Poller, "flush", msg[Poller], batch[Poller])
    BY <1>1, <1>3, Stays DEF IdleFlush, Goto, Moves, Locations
  <2>2. pc'[Poller] = "flush" /\ msg'[Poller] = msg[Poller] /\ batch'[Poller] = batch[Poller]
    BY <1>1, <2>1, MovedProc
  <2>3. ProcAt(Poller)'
    BY <1>1, <1>3, <2>2 DEF Base, ProcAt, Locked, Unstored, PollerLocations, IdleFlush, pendVars
  <2>4. StoreTypes' /\ Locking(Poller) /\ next' >= next
    BY <1>1, <1>3 DEF Base, StoreTypes, IdleFlush, pendVars, out, Locking
  <2> QED
    BY <1>1, <1>3, <2>1, <2>3, <2>4, Stays, OneProcSteps DEF IdleFlush
<1> QED
  BY <1>2, <1>3

LEMMA FlushStepBase ==
    ASSUME Base, NEW p \in Procs, FlushStep(p)
    PROVE  Base'
  BY FlushAcquireBase, ConnSendBase DEF FlushStep, FlushLocked

LEMMA BaseStays ==
    ASSUME Base, UNCHANGED <<mu, pendVars, out, next, pc, msg, batch, result>>,
           busy' \in BOOLEAN
    PROVE  Base'
<1>1. ProcTypes' /\ StoreTypes'
  BY DEF Base, ProcTypes, StoreTypes, pendVars, out
<1>2. (\A p \in Procs : ProcAt(p))' /\ OwnMessages'
  BY DEF Base, ProcAt, OwnMessages, pendVars
<1>3. SizeInv'
  BY DEF Base, SizeInv, pendVars, Small, Fits
<1> QED
  BY <1>1, <1>2, <1>3 DEF Base

LEMMA NextBase ==
    ASSUME Base, [Next]_vars
    PROVE  Base'
<1>1. CASE SetBusy \/ OthersAcquire \/ OthersComplete \/ UNCHANGED vars
  BY <1>1, BaseStays DEF SetBusy, OthersAcquire, OthersComplete, vars, Base, StoreTypes
<1>2. ASSUME NEW p \in Callers, Send(p) \/ CallFlush(p) \/ CallerStep(p)
      PROVE  Base'
  <2>1. CASE Send(p)
    BY <2>1, SendBase
  <2>2. CASE CallFlush(p)
    BY <2>2, CallFlushBase
  <2>3. CASE Acquire(p)
    BY <2>3, AcquireBase
  <2>4. CASE ImmediateFit(p)
    BY <2>4, ImmediateFitBase
  <2>5. CASE Lock(p)
    BY <2>5, LockBase
  <2>6. CASE OverflowFlush(p)
    BY <2>6, Names, FlushAcquireBase DEF OverflowFlush
  <2>7. CASE OverflowConnSend(p)
    BY <2>7, OverflowConnSendBase
  <2>8. CASE AfterOverflow(p)
    BY <2>8, AfterOverflowBase
  <2>9. CASE IdleTest(p)
    BY <2>9, IdleTestBase
  <2>10. CASE FlushStep(p)
    BY <2>10, Names, FlushStepBase
  <2> QED
    BY <1>2, <2>1, <2>2, <2>3, <2>4, <2>5, <2>6, <2>7, <2>8, <2>9, <2>10 DEF CallerStep
<1>3. ASSUME NEW b \in posted, SendCompletion(b)
      PROVE  Base'
  BY <1>3, SendCompletionBase
<1>4. CASE PollerStep
  BY <1>4, Names, OnSendCompleteBase, IdleFlushBase, FlushStepBase DEF PollerStep
<1> QED
  BY <1>1, <1>2, <1>3, <1>4 DEF Next

LEMMA BaseInvariant == Spec => []Base
  BY BaseInit, NextBase, PTL DEF Spec

LEMMA SmallBatches ==
    ASSUME Base
    PROVE  BatchFits
<1> SUFFICES ASSUME NEW p \in Procs, batch[p] # << >>,
                    \A i \in DOMAIN batch[p] : Fits(<<batch[p][i]>>)
             PROVE  Fits(batch[p])
  BY DEF BatchFits
<1>1. Small(batch[p]) /\ batch[p] \in Seq(Messages)
  BY DEF Base, SizeInv, ProcTypes
<1>2. CASE Len(batch[p]) = 1
  <2>1. batch[p] = <<batch[p][1]>> /\ 1 \in DOMAIN batch[p]
    BY <1>1, <1>2
  <2> QED
    BY <2>1
<1> QED
  BY <1>1, <1>2 DEF Small

(* What is handed to conn.Send as one batch fits into the buffer it is      *)
(* packed into, whatever the order of the calls, the flushes that find no   *)
(* buffer and the posts that fail; but for a message no buffer holds.       *)
THEOREM BatchesFit == Spec => []BatchFits
  BY SmallBatches, BaseInvariant, PTL

-----------------------------------------------------------------------------
(* No message is twice in the sequences s[k], and whether one is there.     *)
Apart(K, s) ==
    \A k, l \in K : \A i \in DOMAIN s[k], j \in DOMAIN s[l] :
        s[k][i] = s[l][j] => k = l /\ i = j
Holds(K, s, m) == \E k \in K : \E i \in DOMAIN s[k] : s[k][i] = m

(* All of one sequence goes to the end of another one.                      *)
Joins(K, s, t, from, to) ==
    /\ from \in K /\ to \in K /\ from # to
    /\ t[from] = << >> /\ t[to] = s[to] \o s[from]
    /\ \A k \in K : k # from /\ k # to => t[k] = s[k]

(* All of one sequence is thrown away.                                      *)
Empties(K, s, t, from) ==
    /\ from \in K /\ t[from] = << >>
    /\ \A k \in K : k # from => t[k] = s[k]

(* A new message is appended to a sequence.                                 *)
Gains(K, s, t, to, m) ==
    /\ to \in K /\ t[to] = Append(s[to], m) /\ ~ Holds(K, s, m)
    /\ \A k \in K : k # to => t[k] = s[k]

LEMMA Joined ==
    ASSUME NEW K, NEW B, NEW s \in [K -> Seq(B)], NEW t,
           NEW from, NEW to, Joins(K, s, t, from, to)
    PROVE  /\ Apart(K, s) => Apart(K, t)
           /\ \A m : Holds(K, t, m) <=> Holds(K, s, m)
<1> USE DEF Joins
<1> DEFINE n == Len(s[to])
           f == Len(s[from])
           Was(k, i) == IF k = to /\ i > n THEN <<from, i - n>> ELSE <<k, i>>
<1>1. /\ n \in Nat /\ DOMAIN s[to] = 1..n /\ f \in Nat /\ DOMAIN s[from] = 1..f
      /\ DOMAIN t[to] = 1..n + f /\ DOMAIN t[from] = {}
      /\ \A i \in 1..n : t[to][i] = s[to][i]
      /\ \A i \in 1..n + f : i > n => t[to][i] = s[from][i - n]
  <2>1. s[to] \in Seq(B) /\ s[from] \in Seq(B)
    OBVIOUS
  <2>2. /\ s[to] \o s[from] \in Seq(B)
        /\ Len(s[to] \o s[from]) = n + f
        /\ \A i \in 1..n + f : (s[to] \o s[from])[i] =
              IF i <= n THEN s[to][i] ELSE s[from][i - n]
    BY <2>1, ConcatProperties
  <2>3. n \in Nat /\ f \in Nat /\ DOMAIN s[to] = 1..n /\ DOMAIN s[from] = 1..f
        /\ DOMAIN (s[to] \o s[from]) = 1..n + f /\ DOMAIN << >> = {}
    BY <2>1, <2>2, LenProperties
  <2> HIDE DEF n, f
  <2>4. \A i \in 1..n : i \in 1..n + f /\ i <= n
    BY <2>3
  <2>5. \A i \in 1..n + f : i > n => ~ (i <= n)
    BY <2>3
  <2> QED
    BY <2>2, <2>3, <2>4, <2>5
<1> HIDE DEF n, f
<1>2. ASSUME NEW k \in K, NEW i \in DOMAIN t[k]
      PROVE  \E h \in K : \E j \in DOMAIN s[h] :
                Was(k, i) = <<h, j>> /\ t[k][i] = s[h][j]
  <2>1. CASE k = to /\ i > n
    <3>1. i - n \in DOMAIN s[from] /\ t[k][i] = s[from][i - n]
      <4>1. i \in 1..n + f
        BY <1>1, <2>1
      <4>2. i - n \in 1..f
        BY <1>1, <2>1, <4>1
      <4> QED
        BY <1>1, <2>1, <4>1, <4>2
    <3> QED
      BY <2>1, <3>1
  <2>2. CASE ~(k = to /\ i > n)
    <3>1. i \in DOMAIN s[k] /\ t[k][i] = s[k][i]
      <4>1. CASE k = to
        <5>1. i \in 1..n + f /\ ~(i > n)
          BY <1>1, <2>2, <4>1
        <5>2. i \in 1..n
          BY <1>1, <5>1
        <5> QED
          BY <1>1, <4>1, <5>2
      <4>2. CASE k # to
        BY <1>1, <4>2
      <4> QED
        BY <4>1, <4>2
    <3> QED
      BY <2>2, <3>1
  <2> QED
    BY <2>1, <2>2
<1>3. ASSUME NEW k \in K, NEW l \in K, NEW i \in DOMAIN t[k], NEW j \in DOMAIN t[l],
             Was(k, i) = Was(l, j)
      PROVE  k = l /\ i = j
  <2>1. k # from /\ l # from
    BY <1>1
  <2>2. (k = to => i \in Int) /\ (l = to => j \in Int) /\ n \in Int
    BY <1>1
  <2> QED
    BY <1>3, <2>1, <2>2
<1>4. ASSUME NEW h \in K, NEW j \in DOMAIN s[h]
      PROVE  \E k \in K : \E i \in DOMAIN t[k] : t[k][i] = s[h][j]
  <2>1. CASE h = from
    <3>1. n + j \in 1..n + f /\ n + j > n /\ n + j - n = j
      BY <1>1, <2>1
    <3>2. t[to][n + j] = s[from][j] /\ n + j \in DOMAIN t[to]
      BY <1>1, <3>1
    <3> QED
      BY <2>1, <3>2
  <2>2. CASE h = to
    <3>1. j \in DOMAIN t[to] /\ t[to][j] = s[to][j]
      BY <1>1, <2>2
    <3> QED
      BY <2>2, <3>1
  <2>3. CASE h # from /\ h # to
    BY <2>3
  <2> QED
    BY <2>1, <2>2, <2>3
<1> HIDE DEF Was
<1>5. ASSUME NEW m
      PROVE  Holds(K, t, m) <=> Holds(K, s, m)
  <2>1. ASSUME Holds(K, t, m)
        PROVE  Holds(K, s, m)
    <3>1. PICK k \in K : \E i \in DOMAIN t[k] : t[k][i] = m
      BY <2>1 DEF Holds
    <3>2. PICK i \in DOMAIN t[k] : t[k][i] = m
      BY <3>1
    <3>3. \E h \in K : \E j \in DOMAIN s[h] : s[h][j] = m
      BY <1>2, <3>1, <3>2
    <3> QED
      BY <3>3 DEF Holds
  <2>2. ASSUME Holds(K, s, m)
        PROVE  Holds(K, t, m)
    <3>1. PICK h \in K : \E j \in DOMAIN s[h] : s[h][j] = m
      BY <2>2 DEF Holds
    <3>2. PICK j \in DOMAIN s[h] : s[h][j] = m
      BY <3>1
    <3>3. \E k \in K : \E i \in DOMAIN t[k] : t[k][i] = m
      BY <1>4, <3>1, <3>2
    <3> QED
      BY <3>3 DEF Holds
  <2> QED
    BY <2>1, <2>2
<1>6. ASSUME Apart(K, s)
      PROVE  Apart(K, t)
  <2> SUFFICES ASSUME NEW k \in K, NEW l \in K, NEW i \in DOMAIN t[k],
                      NEW j \in DOMAIN t[l], t[k][i] = t[l][j]
               PROVE  k = l /\ i = j
    BY DEF Apart
  <2>1. PICK a \in K : \E u \in DOMAIN s[a] : Was(k, i) = <<a, u>> /\ t[k][i] = s[a][u]
    BY <1>2
  <2>2. PICK b \in K : \E v \in DOMAIN s[b] : Was(l, j) = <<b, v>> /\ t[l][j] = s[b][v]
    BY <1>2
  <2>3. PICK u \in DOMAIN s[a] : Was(k, i) = <<a, u>> /\ t[k][i] = s[a][u]
    BY <2>1
  <2>4. PICK v \in DOMAIN s[b] : Was(l, j) = <<b, v>> /\ t[l][j] = s[b][v]
    BY <2>2
  <2>5. s[a][u] = s[b][v]
    BY <2>3, <2>4
  <2>6. a = b /\ u = v
    <3>1. \A e, g \in K : \A x \in DOMAIN s[e], y \in DOMAIN s[g] :
             s[e][x] = s[g][y] => e = g /\ x = y
      BY <1>6 DEF Apart
    <3> QED
      BY <2>1, <2>2, <2>3, <2>4, <2>5, <3>1
  <2> QED
    BY <1>3, <2>3, <2>4, <2>6
<1> QED
  BY <1>5, <1>6

LEMMA Emptied ==
    ASSUME NEW K, NEW s, NEW t, NEW from, Empties(K, s, t, from)
    PROVE  /\ Apart(K, s) => Apart(K, t)
           /\ \A m : Holds(K, t, m) => Holds(K, s, m)
<1>1. \A k \in K : \A i \in DOMAIN t[k] : i \in DOMAIN s[k] /\ t[k][i] = s[k][i]
  <2>1. DOMAIN << >> = {}
    OBVIOUS
  <2> QED
    BY <2>1 DEF Empties
<1> QED
  BY <1>1 DEF Apart, Holds

LEMMA Gained ==
    ASSUME NEW K, NEW B, NEW s \in [K -> Seq(B)], NEW t, NEW to, NEW m \in B,
           Gains(K, s, t, to, m)
    PROVE  /\ Apart(K, s) => Apart(K, t)
           /\ \A x : Holds(K, t, x) <=> Holds(K, s, x) \/ x = m
<1> USE DEF Gains
<1> DEFINE n == Len(s[to])
<1>1. /\ n \in Nat /\ DOMAIN s[to] = 1..n /\ DOMAIN t[to] = 1..n + 1
      /\ \A i \in 1..n : t[to][i] = s[to][i]
      /\ t[to][n + 1] = m
  BY AppendProperties, LenProperties
<1> HIDE DEF n
<1>2. ASSUME NEW k \in K, NEW i \in DOMAIN t[k], t[k][i] # m
      PROVE  i \in DOMAIN s[k] /\ t[k][i] = s[k][i]
  BY <1>1, <1>2
<1>3. ASSUME NEW k \in K, NEW i \in DOMAIN t[k], t[k][i] = m
      PROVE  k = to /\ i = n + 1
  <2>1. ~ \E h \in K : \E j \in DOMAIN s[h] : s[h][j] = m
    BY DEF Holds
  <2> QED
    BY <1>1, <1>3, <2>1
<1>4. ASSUME NEW k \in K, NEW i \in DOMAIN s[k]
      PROVE  i \in DOMAIN t[k] /\ t[k][i] = s[k][i]
  BY <1>1
<1>5. n + 1 \in DOMAIN t[to]
  BY <1>1
<1>6. ASSUME NEW x
      PROVE  Holds(K, t, x) <=> Holds(K, s, x) \/ x = m
  BY <1>1, <1>2, <1>4, <1>5 DEF Holds
<1>7. ASSUME Apart(K, s)
      PROVE  Apart(K, t)
  <2> SUFFICES ASSUME NEW k \in K, NEW l \in K, NEW i \in DOMAIN t[k],
                      NEW j \in DOMAIN t[l], t[k][i] = t[l][j]
               PROVE  k = l /\ i = j
    BY DEF Apart
  <2>1. CASE t[k][i] = m
    BY <1>3, <2>1
  <2>2. CASE t[k][i] # m
    BY <1>2, <1>7, <2>2 DEF Apart
  <2> QED
    BY <2>1, <2>2
<1> QED
  BY <1>6, <1>7

-----------------------------------------------------------------------------
(* The stores by name, and what each of them contains.                      *)
Pending == <<"pending", Nobody>>
Wire == <<"wire", Nobody>>
BatchOf(p) == <<"batch", p>>
Contents == [k \in Stores |-> Store(k)]

ContentsTable ==
    /\ Contents[Pending] = pending
    /\ Contents[Wire] = wire
    /\ \A p \in Procs : Contents[BatchOf(p)] = batch[p]

LEMMA StoreNames ==
    /\ Pending \in Stores /\ Wire \in Stores /\ Pending # Wire
    /\ \A p \in Procs : /\ BatchOf(p) \in Stores
                        /\ BatchOf(p) # Pending /\ BatchOf(p) # Wire
    /\ \A p, q \in Procs : BatchOf(p) = BatchOf(q) => p = q
    /\ \A k \in Stores : k = Pending \/ k = Wire \/ \E p \in Procs : k = BatchOf(p)
  BY DEF Stores, Pending, Wire, BatchOf

LEMMA StoreTable == ContentsTable
<1> HIDE DEF Procs
<1>1. Contents[Pending] = pending
  BY StoreNames DEF Contents, Store, Pending
<1>2. Contents[Wire] = wire
  BY StoreNames DEF Contents, Store, Wire
<1>3. \A p \in Procs : Contents[BatchOf(p)] = batch[p]
  BY StoreNames DEF Contents, Store, BatchOf
<1> QED
  BY <1>1, <1>2, <1>3 DEF ContentsTable

LEMMA StoreTableNext == ContentsTable'
<1>1. (Contents[Pending] = pending)'
  BY StoreNames DEF Contents, Store, Pending
<1>2. (Contents[Wire] = wire)'
  BY StoreNames DEF Contents, Store, Wire
<1>3. (\A p \in Procs : Contents[BatchOf(p)] = batch[p])'
  BY StoreNames DEF Contents, Store, BatchOf
<1> QED
  BY <1>1, <1>2, <1>3 DEF ContentsTable

LEMMA ContentsTyped ==
    ASSUME Base
    PROVE  Contents \in [Stores -> Seq(Messages)]
<1>1. ASSUME NEW k \in Stores
      PROVE  Contents[k] \in Seq(Messages)
  <2>1. pending \in Seq(Messages) /\ wire \in Seq(Messages)
        /\ \A p \in Procs : batch[p] \in Seq(Messages)
    BY DEF Base, StoreTypes, ProcTypes
  <2>2. CASE k = Pending
    BY <2>1, <2>2, StoreTable DEF ContentsTable
  <2>3. CASE k = Wire
    BY <2>1, <2>3, StoreTable DEF ContentsTable
  <2>4. ASSUME NEW p \in Procs, k = BatchOf(p)
        PROVE  Contents[k] \in Seq(Messages)
    BY <2>1, <2>4, StoreTable DEF ContentsTable
  <2> QED
    BY <2>2, <2>3, <2>4, StoreNames
<1> QED
  BY <1>1 DEF Contents

(* A message is stored; a call of Send may have it stored, or has not yet.  *)
Stored(m) == Holds(Stores, Contents, m)
Lost(m) == failed = {} /\ ~ Stored(m)

StoreInv ==
    /\ Apart(Stores, Contents)
    /\ \A m \in Messages : Stored(m) => m < next
    /\ \A p \in Procs : pc[p] \in Unstored => ~ Stored(msg[p])
    /\ \A p \in Procs : msg[p] # 0 /\ pc[p] \in {"idleTest", "flush", "post"} => ~ Lost(msg[p])
    /\ \A m \in Messages : result[m] = "ok" => ~ Lost(m)

(* The ways in which a step of p changes the stores.                        *)
Keep == \A k \in Stores : Contents'[k] = Contents[k]
Join(from, to) == Joins(Stores, Contents, Contents', from, to)
Empty(from) == Empties(Stores, Contents, Contents', from)
Gain(to, m) == Gains(Stores, Contents, Contents', to, m)

(* A step that stores no message anew.                                      *)
NoGain ==
    \/ Keep
    \/ \E from, to \in Stores : Join(from, to)
    \/ failed' # {} /\ \E from \in Stores : Empty(from)

LEMMA NothingGained ==
    ASSUME Base, Apart(Stores, Contents), NoGain, failed \subseteq failed'
    PROVE  /\ Apart(Stores, Contents)'
           /\ \A m : Stored(m)' => Stored(m)
           /\ \A m : Lost(m)' => Lost(m)
<1>1. Contents \in [Stores -> Seq(Messages)]
  BY ContentsTyped
<1> DEFINE t == Contents'
<1>2. /\ Apart(Stores, t)
      /\ \A m : Holds(Stores, t, m) => Holds(Stores, Contents, m)
      /\ failed' # {} \/ \A m : Holds(Stores, Contents, m) => Holds(Stores, t, m)
  <2>1. CASE Keep
    BY <2>1 DEF Keep, Apart, Holds
  <2>2. ASSUME NEW from \in Stores, NEW to \in Stores, Join(from, to)
        PROVE  Apart(Stores, t) /\ \A m : Holds(Stores, t, m) <=> Holds(Stores, Contents, m)
    BY <1>1, <2>2, Joined DEF Join
  <2>3. ASSUME NEW from \in Stores, Empty(from)
        PROVE  Apart(Stores, t) /\ \A m : Holds(Stores, t, m) => Holds(Stores, Contents, m)
    BY <2>3, Emptied DEF Empty
  <2> QED
    BY <2>1, <2>2, <2>3 DEF NoGain
<1>3. (Apart(Stores, Contents)' <=> Apart(Stores, t)) /\ \A m : Stored(m)' <=> Holds(Stores, t, m)
  BY DEF Apart, Holds, Stored
<1> HIDE DEF t
<1>4. \A m : Stored(m) <=> Holds(Stores, Contents, m)
  BY DEF Stored
<1>5. \A m : Lost(m)' <=> failed' = {} /\ ~ Stored(m)'
  BY DEF Lost
<1> QED
  BY <1>2, <1>3, <1>4, <1>5 DEF Lost

(* The messages that the calls are for, and what the calls return.          *)
Returns(p) ==
    \/ result' = result
    \/ /\ msg[p] # 0 /\ ~ Lost(msg[p])
       /\ result' = [result EXCEPT ![msg[p]] = "ok"]
    \/ msg[p] # 0 /\ result' = [result EXCEPT ![msg[p]] = "error"]

Calls(p, loc, m) ==
    /\ loc \in Unstored => \/ m = next
                           \/ m = msg[p] /\ pc[p] \in Unstored
    /\ m # 0 /\ loc \in {"idleTest", "flush", "post"} =>
          m = msg[p] /\ pc[p] \in {"idleTest", "flush", "post"}

LEMMA NoGainStep ==
    ASSUME Base, StoreInv, NEW p \in Procs, NEW loc, NEW m, NEW b, Moves(p, loc, m, b),
           NoGain, failed \subseteq failed', next' >= next, next' \in Nat,
           Returns(p), Calls(p, loc, m)
    PROVE  StoreInv'
<1>1. /\ Apart(Stores, Contents)'
      /\ \A x : Stored(x)' => Stored(x)
      /\ \A x : Lost(x)' => Lost(x)
  BY NothingGained DEF StoreInv
<1>2. /\ pc'[p] = loc /\ msg'[p] = m /\ batch'[p] = b
      /\ \A q \in Procs : q # p => pc'[q] = pc[q] /\ msg'[q] = msg[q] /\ batch'[q] = batch[q]
  BY MovedProc
<1>3. \A x \in Messages : Stored(x)' => x < next'
  <2>1. next \in Nat /\ \A x \in Messages : x \in Nat
    BY SizeIsNat DEF Base, StoreTypes
  <2> QED
    BY <1>1, <2>1 DEF StoreInv
<1>4. ASSUME NEW q \in Procs, pc'[q] \in Unstored
      PROVE  \A x : x = msg'[q] => ~ Stored(x)'
  <2>1. CASE q = p /\ m = next
    <3>1. m \in Messages \/ m = 0
      BY DEF Moves
    <3>2. next # 0
      BY DEF Base, StoreTypes
    <3>3. ~ Stored(m)
      BY <2>1, <3>1, <3>2 DEF StoreInv, Base, StoreTypes
    <3> QED
      BY <1>1, <1>2, <2>1, <3>3
  <2>2. CASE q # p \/ m # next
    <3>1. msg'[q] = msg[q] /\ pc[q] \in Unstored
      BY <1>2, <1>4, <2>2 DEF Calls
    <3> QED
      BY <1>1, <3>1 DEF StoreInv
  <2> QED
    BY <2>1, <2>2
<1>5. ASSUME NEW q \in Procs, msg'[q] # 0, pc'[q] \in {"idleTest", "flush", "post"}
      PROVE  \A x : x = msg'[q] => ~ Lost(x)'
  <2>1. msg'[q] = msg[q] /\ pc[q] \in {"idleTest", "flush", "post"}
    BY <1>2, <1>5 DEF Calls
  <2> QED
    BY <1>1, <1>5, <2>1 DEF StoreInv
<1>6. ASSUME NEW x \in Messages, result'[x] = "ok"
      PROVE  ~ Lost(x)'
  <2>1. ~ Lost(x)
    BY <1>6 DEF Returns, StoreInv, Base, StoreTypes
  <2> QED
    BY <1>1, <2>1
<1>7. \A q \in Procs : pc'[q] \in Unstored => ~ (Stored(msg[q])')
  <2>1. ASSUME NEW q \in Procs, pc'[q] \in Unstored
        PROVE  ~ (Stored(msg[q])')
    BY <1>4, <2>1 DEF Stored, Holds
  <2> QED
    BY <2>1
<1>8. \A q \in Procs : msg'[q] # 0 /\ pc'[q] \in {"idleTest", "flush", "post"} => ~ (Lost(msg[q])')
  <2>1. ASSUME NEW q \in Procs, msg'[q] # 0, pc'[q] \in {"idleTest", "flush", "post"}
        PROVE  ~ (Lost(msg[q])')
    BY <1>5, <2>1 DEF Lost, Stored, Holds
  <2> QED
    BY <2>1
<1> QED
  BY <1>1, <1>3, <1>6, <1>7, <1>8 DEF StoreInv

-----------------------------------------------------------------------------
(* A step that stores the message of p.                                     *)
LEMMA GainStep ==
    ASSUME Base, StoreInv, NEW p \in Procs, NEW m \in Messages, m = msg[p], m # 0,
           NEW loc, NEW b, Moves(p, loc, m, b),
           NEW to \in Stores, Gain(to, m),
           loc \notin Unstored, UNCHANGED <<failed, next, result>>
    PROVE  StoreInv'
<1> DEFINE t == Contents'
<1>0. Contents \in [Stores -> Seq(Messages)]
  BY ContentsTyped
<1>1. Apart(Stores, t) /\ \A x : Holds(Stores, t, x) <=> Holds(Stores, Contents, x) \/ x = m
  BY <1>0, Gained DEF Gain, StoreInv
<1>2. /\ Apart(Stores, Contents)'
      /\ \A x : Stored(x)' <=> Stored(x) \/ x = m
      /\ \A x : Lost(x)' => Lost(x) /\ x # m
  <2>1. (Apart(Stores, Contents)' <=> Apart(Stores, t)) /\ \A x : Stored(x)' <=> Holds(Stores, t, x)
    BY DEF Apart, Holds, Stored
  <2> HIDE DEF t
  <2>2. \A x : Stored(x) <=> Holds(Stores, Contents, x)
    BY DEF Stored
  <2>3. \A x : Lost(x)' <=> failed' = {} /\ ~ Stored(x)'
    BY DEF Lost
  <2> QED
    BY <1>1, <2>1, <2>2, <2>3 DEF Lost
<1>3. /\ pc'[p] = loc /\ msg'[p] = m /\ batch'[p] = b
      /\ \A q \in Procs : q # p => pc'[q] = pc[q] /\ msg'[q] = msg[q] /\ batch'[q] = batch[q]
  BY MovedProc
<1>4. \A x \in Messages : Stored(x)' => x < next'
  BY <1>2 DEF StoreInv, Base, ProcAt
<1>5. ASSUME NEW q \in Procs, pc'[q] \in Unstored
      PROVE  ~ (Stored(msg[q])')
  <2>1. q # p /\ msg'[q] = msg[q] /\ pc[q] \in Unstored
    BY <1>3, <1>5
  <2>2. msg[q] # m /\ ~ Stored(msg[q])
    BY <2>1 DEF StoreInv, Base, OwnMessages
  <2>3. \A x : x = msg'[q] => ~ Stored(x)'
    BY <1>2, <2>1, <2>2
  <2> QED
    BY <2>3 DEF Stored, Holds
<1>6. ASSUME NEW q \in Procs, msg'[q] # 0, pc'[q] \in {"idleTest", "flush", "post"}
      PROVE  ~ (Lost(msg[q])')
  <2>1. \A x : x = msg'[q] => ~ Lost(x)'
    BY <1>2, <1>3, <1>6 DEF StoreInv
  <2> QED
    BY <2>1 DEF Lost, Stored, Holds
<1>7. \A x \in Messages : result'[x] = "ok" => ~ Lost(x)'
  BY <1>2 DEF StoreInv
<1> QED
  BY <1>2, <1>4, <1>5, <1>6, <1>7 DEF StoreInv

LEMMA StoreStays ==
    ASSUME NEW k \in Stores,
           k = Pending => pending' = pending,
           k = Wire => wire' = wire,
           \A p \in Procs : k = BatchOf(p) => batch'[p] = batch[p]
    PROVE  Contents'[k] = Contents[k]
<1>1. CASE k = Pending
  BY <1>1, StoreTable, StoreTableNext DEF ContentsTable
<1>2. CASE k = Wire
  BY <1>2, StoreTable, StoreTableNext DEF ContentsTable
<1>3. ASSUME NEW p \in Procs, k = BatchOf(p)
      PROVE  Contents'[k] = Contents[k]
  BY <1>3, StoreTable, StoreTableNext DEF ContentsTable
<1> QED
  BY <1>1, <1>2, <1>3, StoreNames

LEMMA AllStay ==
    ASSUME UNCHANGED <<pending, wire>>, \A p \in Procs : batch'[p] = batch[p]
    PROVE  Keep
  BY StoreStays DEF Keep

(* The call of p returns: nothing is in its batch any more.                 *)
LEMMA Returned ==
    ASSUME Base, NEW p \in Procs, NEW r \in {"ok", "error"}, Return(p, r),
           r = "ok" => msg[p] = 0 \/ ~ Lost(msg[p])
    PROVE  /\ Moves(p, "idle", 0, << >>) /\ Returns(p) /\ Calls(p, "idle", 0)
           /\ batch[p] = << >> => \A q \in Procs : batch'[q] = batch[q]
           /\ batch'[p] = << >>
<1>1. Moves(p, "idle", 0, << >>)
  BY ReturnMoves
<1>2. Returns(p) /\ Calls(p, "idle", 0)
  BY DEF Return, Returns, Calls, Unstored
<1> QED
  BY <1>1, <1>2, MovedProc

(* A step that changes no store and no result.                              *)
LEMMA KeepStep ==
    ASSUME Base, StoreInv, NEW p \in Procs, NEW loc, NEW m, NEW b, Moves(p, loc, m, b),
           Keep, failed \subseteq failed', next' >= next, next' \in Nat,
           result' = result, Calls(p, loc, m)
    PROVE  StoreInv'
  BY NoGainStep DEF NoGain, Returns

LEMMA SendStored ==
    ASSUME Base, StoreInv, NEW p \in Callers, Send(p)
    PROVE  StoreInv'
<1> DEFINE loc == IF EnableAggregate /\ busy THEN "lock" ELSE "acquire"
<1>0. p \in Procs /\ next \in Messages /\ next \in Nat /\ next' = next + 1
  BY Names, SizeIsNat DEF Send
<1>1. Moves(p, loc, next, batch[p])
  BY <1>0, Stays DEF Send, Goto, Moves, Locations
<1>2. loc \in Unstored /\ loc \notin {"idleTest", "flush", "post"}
  BY DEF Unstored
<1> HIDE DEF loc
<1>3. Keep
  BY AllStay DEF Send, pendVars, out
<1> QED
  BY <1>0, <1>1, <1>2, <1>3, KeepStep DEF Calls, Send, out

(* A call of Flush has no message.                                          *)
LEMMA CallFlushStored ==
    ASSUME Base, StoreInv, NEW p \in Callers, CallFlush(p)
    PROVE  StoreInv'
<1>0. p \in Procs
  BY Names
<1>1. Moves(p, "flush", msg[p], batch[p])
  BY <1>0, Stays DEF CallFlush, Goto, Moves, Locations
<1>2. msg[p] = 0 /\ next' = next /\ next \in Nat
  BY <1>0 DEF CallFlush, At, Base, ProcAt, StoreTypes
<1>3. Keep
  BY AllStay DEF CallFlush, pendVars, out
<1>4. Calls(p, "flush", msg[p])
  BY <1>2 DEF Calls, Unstored
<1> QED
  BY <1>0, <1>1, <1>2, <1>3, <1>4, KeepStep DEF CallFlush, out

(* A call that returns after a step that stores nothing.                    *)
LEMMA ReturnStored ==
    ASSUME Base, StoreInv, NEW p \in Procs, NEW r \in {"ok", "error"}, Return(p, r),
           r = "ok" => msg[p] = 0 \/ ~ Lost(msg[p]),
           NoGain, failed \subseteq failed', next' = next
    PROVE  StoreInv'
<1>1. next \in Nat /\ next' >= next
  BY DEF Base, StoreTypes
<1> QED
  BY <1>1, Returned, NoGainStep

LEMMA AcquireStored ==
    ASSUME Base, StoreInv, NEW p \in Callers, Acquire(p)
    PROVE  StoreInv'
<1>0. p \in Procs /\ batch[p] = << >> /\ next' = next /\ next \in Nat /\ failed' = failed
  BY Names DEF Acquire, At, Base, ProcAt, StoreTypes, out
<1>1. CASE Goto(p, "fit") /\ UNCHANGED <<mu, msg, batch, result>>
  <2>1. Moves(p, "fit", msg[p], batch[p])
    BY <1>0, <1>1, Stays DEF Goto, Moves, Locations
  <2>2. Keep
    BY <1>1, AllStay DEF Acquire, pendVars, out
  <2>3. Calls(p, "fit", msg[p])
    BY DEF Acquire, At, Calls, Unstored
  <2> QED
    BY <1>0, <1>1, <2>1, <2>2, <2>3, KeepStep
<1>2. CASE Return(p, "error")
  <2>1. Keep
    BY <1>0, <1>2, Returned, AllStay DEF Acquire, pendVars, out
  <2> QED
    BY <1>0, <1>2, <2>1, ReturnStored DEF NoGain
<1> QED
  BY <1>1, <1>2 DEF Acquire

LEMMA ImmediateFitStored ==
    ASSUME Base, StoreInv, NEW p \in Callers, ImmediateFit(p)
    PROVE  StoreInv'
<1> DEFINE m == msg[p]
<1>0. p \in Procs /\ batch[p] = << >> /\ next' = next /\ next \in Nat /\ failed' = failed
      /\ m \in Messages /\ m # 0 /\ ~ Stored(m)
  BY Names DEF ImmediateFit, At, Base, ProcTypes, ProcAt, StoreTypes, out, Unstored, StoreInv
<1>1. CASE TooLarge(p)
  <2>1. Keep
    BY <1>0, <1>1, Returned, AllStay DEF ImmediateFit, pendVars, out
  <2> QED
    BY <1>0, <1>1, <2>1, ReturnStored DEF NoGain, ImmediateFit
<1>2. CASE ~TooLarge(p)
  <2>1. Moves(p, "post", m, <<m>>)
    <3>1. msg' = [msg EXCEPT ![p] = m] /\ <<m>> \in Seq(Messages) /\ m \in Messages
      BY <1>0, <1>2, Stays DEF ImmediateFit
    <3> QED
      BY <1>2, <3>1 DEF ImmediateFit, Goto, Moves, Locations
  <2>2. /\ batch'[p] = <<m>> /\ \A q \in Procs : q # p => batch'[q] = batch[q]
    BY <1>0, <2>1, MovedProc
  <2> HIDE DEF m
  <2>3. Gain(BatchOf(p), m)
    <3>1. Contents[BatchOf(p)] = << >> /\ Contents'[BatchOf(p)] = <<m>>
      BY <1>0, <2>2, StoreTable, StoreTableNext DEF ContentsTable
    <3>2. <<m>> = Append(<< >>, m)
      OBVIOUS
    <3>3. ASSUME NEW k \in Stores, k # BatchOf(p)
          PROVE  Contents'[k] = Contents[k]
      BY <1>0, <2>2, <3>3, StoreStays DEF ImmediateFit, pendVars, out
    <3> QED
      BY <1>0, <3>1, <3>2, <3>3, StoreNames DEF Gain, Gains, Stored
  <2>4. m = msg[p] /\ BatchOf(p) \in Stores /\ "post" \notin Unstored
    BY <1>0, StoreNames DEF m, Unstored
  <2>5. UNCHANGED <<failed, next, result>>
    BY <1>2 DEF ImmediateFit, out
  <2> QED
    BY <1>0, <2>1, <2>3, <2>4, <2>5, GainStep
<1> QED
  BY <1>1, <1>2

LEMMA AppendStored ==
    ASSUME Base, StoreInv, NEW p \in Callers, AppendMessage(p), pc[p] \in Unstored,
           UNCHANGED <<out, next, msg, batch, result>>
    PROVE  StoreInv'
<1> DEFINE m == msg[p]
           loc == IF HeaderSize + pendingSize' > SendThreshold THEN "flush" ELSE "idleTest"
<1>0. p \in Procs /\ m \in Messages /\ m # 0 /\ ~ Stored(m) /\ failed' = failed
  BY Names DEF Base, ProcTypes, ProcAt, StoreInv, out
<1>1. Moves(p, loc, m, batch[p]) /\ loc \notin Unstored
  BY <1>0, Stays DEF AppendMessage, Goto, Moves, Locations, Unstored
<1>2. pending' = Append(pending, m)
  BY DEF AppendMessage
<1> HIDE DEF m, loc
<1>3. Gain(Pending, m)
  <2>1. Contents[Pending] = pending /\ Contents'[Pending] = Append(pending, m)
    BY <1>2, StoreTable, StoreTableNext DEF ContentsTable
  <2>2. ASSUME NEW k \in Stores, k # Pending
        PROVE  Contents'[k] = Contents[k]
    BY <2>2, StoreStays DEF out
  <2> QED
    BY <1>0, <2>1, <2>2, StoreNames DEF Gain, Gains, Stored
<1> QED
  BY <1>0, <1>1, <1>3, StoreNames, GainStep DEF m

LEMMA LockStored ==
    ASSUME Base, StoreInv, NEW p \in Callers, Lock(p)
    PROVE  StoreInv'
<1>0. p \in Procs /\ pc[p] \in Unstored /\ next' = next /\ next \in Nat /\ failed' = failed
  BY Names DEF Lock, At, Base, StoreTypes, out, Unstored
<1>1. CASE Overflows(p)
  <2>1. Moves(p, "overflow", msg[p], batch[p])
    BY <1>0, <1>1, Stays DEF Lock, Goto, Moves, Locations
  <2>2. Keep
    BY <1>1, AllStay DEF Lock, pendVars, out
  <2>3. Calls(p, "overflow", msg[p])
    BY <1>0 DEF Calls
  <2> QED
    BY <1>0, <1>1, <2>1, <2>2, <2>3, KeepStep DEF Lock
<1>2. CASE ~Overflows(p)
  BY <1>0, <1>2, AppendStored DEF Lock
<1> QED
  BY <1>1, <1>2

LEMMA AfterOverflowStored ==
    ASSUME Base, StoreInv, NEW p \in Callers, AfterOverflow(p)
    PROVE  StoreInv'
<1>1. pc[p] \in Unstored
  BY DEF AfterOverflow, At, Unstored
<1> QED
  BY <1>1, AppendStored DEF AfterOverflow

LEMMA IdleTestStored ==
    ASSUME Base, StoreInv, NEW p \in Callers, IdleTest(p)
    PROVE  StoreInv'
<1>0. p \in Procs /\ batch[p] = << >> /\ next' = next /\ next \in Nat /\ failed' = failed
      /\ (msg[p] = 0 \/ ~ Lost(msg[p]))
  BY Names DEF IdleTest, At, Base, ProcAt, StoreTypes, out, StoreInv
<1>1. CASE Goto(p, "flush") /\ UNCHANGED <<mu, msg, batch, result>>
  <2>1. Moves(p, "flush", msg[p], batch[p])
    BY <1>0, <1>1, Stays DEF Goto, Moves, Locations
  <2>2. Keep
    BY <1>1, AllStay DEF IdleTest, pendVars, out
  <2>3. Calls(p, "flush", msg[p])
    BY DEF IdleTest, At, Calls, Unstored
  <2> QED
    BY <1>0, <1>1, <2>1, <2>2, <2>3, KeepStep
<1>2. CASE Return(p, "ok")
  <2>1. Keep
    BY <1>0, <1>2, Returned, AllStay DEF IdleTest, pendVars, out
  <2> QED
    BY <1>0, <1>2, <2>1, ReturnStored DEF NoGain
<1> QED
  BY <1>1, <1>2 DEF IdleTest

-----------------------------------------------------------------------------
(* The batch of p leaves for the wire, or is thrown away.                   *)
LEMMA PostJoins ==
    ASSUME Base, NEW p \in Procs, Post(p), batch'[p] = << >>, pending' = pending,
           \A q \in Procs : q # p => batch'[q] = batch[q]
    PROVE  NoGain
<1>1. /\ Contents[Wire] = wire /\ Contents'[Wire] = wire \o batch[p]
      /\ Contents[BatchOf(p)] = batch[p] /\ Contents'[BatchOf(p)] = << >>
  BY StoreTable, StoreTableNext DEF ContentsTable, Post
<1>2. ASSUME NEW k \in Stores, k # BatchOf(p), k # Wire
      PROVE  Contents'[k] = Contents[k]
  BY <1>2, StoreStays
<1>3. Join(BatchOf(p), Wire)
  BY <1>1, <1>2, StoreNames DEF Join, Joins
<1> QED
  BY <1>3, StoreNames DEF NoGain

LEMMA PostFailsEmpties ==
    ASSUME Base, NEW p \in Procs, PostFails(p), batch'[p] = << >>, pending' = pending,
           \A q \in Procs : q # p => batch'[q] = batch[q]
    PROVE  NoGain
<1>1. Contents'[BatchOf(p)] = << >>
  BY StoreTableNext DEF ContentsTable
<1>2. ASSUME NEW k \in Stores, k # BatchOf(p)
      PROVE  Contents'[k] = Contents[k]
  BY <1>2, StoreStays DEF PostFails
<1>3. Empty(BatchOf(p))
  BY <1>1, <1>2, StoreNames DEF Empty, Empties
<1>4. failed' # {}
  BY DEF PostFails
<1> QED
  BY <1>3, <1>4, StoreNames DEF NoGain

LEMMA PostNoGain ==
    ASSUME Base, NEW p \in Procs, Post(p) \/ PostFails(p), batch'[p] = << >>,
           pending' = pending, \A q \in Procs : q # p => batch'[q] = batch[q]
    PROVE  NoGain /\ failed \subseteq failed'
<1>1. failed \subseteq failed'
  BY DEF Post, PostFails
<1> QED
  BY <1>1, PostJoins, PostFailsEmpties

LEMMA FlushAcquireStored ==
    ASSUME Base, StoreInv, NEW p \in Procs, NEW from, NEW to, FlushAcquire(p, from, to),
           \/ from = "overflow" /\ to = "overflowPost"
           \/ from = "flush" /\ to = "post"
    PROVE  StoreInv'
<1>0. batch[p] = << >> /\ next' = next /\ next \in Nat /\ failed' = failed
  BY DEF FlushAcquire, At, Base, ProcAt, StoreTypes, out
<1>1. CASE Return(p, "error") /\ UNCHANGED <<pendVars, ongoing, free>>
  <2>1. Keep
    BY <1>0, <1>1, Returned, AllStay DEF FlushAcquire, pendVars, out
  <2> QED
    BY <1>0, <1>1, <2>1, ReturnStored DEF NoGain
<1>2. CASE /\ batch' = [batch EXCEPT ![p] = pending]
           /\ pending' = << >>
           /\ Goto(p, to)
           /\ UNCHANGED <<mu, msg, result>>
  <2>1. Moves(p, to, msg[p], pending)
    BY <1>2, Stays DEF Goto, Moves, Locations, Base, StoreTypes
  <2>2. batch'[p] = pending /\ \A q \in Procs : q # p => batch'[q] = batch[q]
    BY <2>1, MovedProc
  <2>3. Join(Pending, BatchOf(p))
    <3>1. /\ Contents[Pending] = pending /\ Contents'[Pending] = << >>
          /\ Contents[BatchOf(p)] = << >> /\ Contents'[BatchOf(p)] = pending
      BY <1>0, <1>2, <2>2, StoreTable, StoreTableNext DEF ContentsTable
    <3>2. << >> \o pending = pending
      <4>1. pending \in Seq(Messages)
        BY DEF Base, StoreTypes
      <4> QED
        BY <4>1, ConcatEmptySeq
    <3>3. ASSUME NEW k \in Stores, k # Pending, k # BatchOf(p)
          PROVE  Contents'[k] = Contents[k]
      BY <2>2, <3>3, StoreStays DEF FlushAcquire, out
    <3> QED
      BY <3>1, <3>2, <3>3, StoreNames DEF Join, Joins
  <2>4. NoGain
    BY <2>3, StoreNames DEF NoGain
  <2>5. Calls(p, to, msg[p]) /\ Returns(p)
    BY <1>2 DEF FlushAcquire, At, Calls, Unstored, Returns
  <2> QED
    BY <1>0, <2>1, <2>4, <2>5, NoGainStep
<1> QED
  BY <1>1, <1>2 DEF FlushAcquire

LEMMA ConnSendStored ==
    ASSUME Base, StoreInv, NEW p \in Procs, ConnSend(p)
    PROVE  StoreInv'
<1>1. PICK r \in {"ok", "error"} : Return(p, r)
  BY DEF ConnSend
<1>2. msg[p] = 0 \/ ~ Lost(msg[p])
  BY DEF ConnSend, At, StoreInv
<1>3. batch'[p] = << >> /\ pending' = pending /\ next' = next
      /\ \A q \in Procs : q # p => batch'[q] = batch[q]
  <2>1. Moves(p, "idle", 0, << >>)
    BY <1>1, ReturnMoves
  <2> QED
    BY <2>1, MovedProc DEF ConnSend, pendVars
<1>4. NoGain /\ failed \subseteq failed'
  BY <1>3, PostNoGain DEF ConnSend
<1> QED
  BY <1>1, <1>2, <1>3, <1>4, ReturnStored

LEMMA OverflowConnSendStored ==
    ASSUME Base, StoreInv, NEW p \in Callers, OverflowConnSend(p)
    PROVE  StoreInv'
<1>0. p \in Procs /\ pending' = pending /\ next' = next /\ next \in Nat
  BY Names DEF OverflowConnSend, pendVars, Base, StoreTypes
<1>1. CASE Return(p, "error")
  <2>1. Moves(p, "idle", 0, << >>)
    BY <1>0, <1>1, ReturnMoves
  <2>2. batch'[p] = << >> /\ \A q \in Procs : q # p => batch'[q] = batch[q]
    BY <1>0, <2>1, MovedProc
  <2>3. NoGain /\ failed \subseteq failed'
    BY <1>0, <2>2, PostNoGain DEF OverflowConnSend
  <2> QED
    BY <1>0, <1>1, <2>3, ReturnStored
<1>2. CASE /\ Post(p)
           /\ Goto(p, "append")
           /\ batch' = [batch EXCEPT ![p] = << >>]
           /\ UNCHANGED <<mu, msg, result>>
  <2>1. Moves(p, "append", msg[p], << >>)
    <3>1. msg' = [msg EXCEPT ![p] = msg[p]] /\ msg[p] \in Messages \union {0}
      BY <1>0, <1>2, Stays
    <3>2. << >> \in Seq(Messages)
      OBVIOUS
    <3> QED
      BY <1>2, <3>1, <3>2 DEF Goto, Moves, Locations
  <2>2. batch'[p] = << >> /\ \A q \in Procs : q # p => batch'[q] = batch[q]
    BY <1>0, <2>1, MovedProc
  <2>3. NoGain /\ failed \subseteq failed'
    BY <1>0, <1>2, <2>2, PostNoGain
  <2>4. Calls(p, "append", msg[p]) /\ Returns(p)
    BY <1>2 DEF OverflowConnSend, At, Calls, Unstored, Returns
  <2> QED
    BY <1>0, <2>1, <2>3, <2>4, NoGainStep
<1> QED
  BY <1>1, <1>2 DEF OverflowConnSend

(* The poller has no message of its own.                                    *)
LEMMA PollerStored ==
    ASSUME Base, StoreInv, NEW loc \in PollerLocations, pc' = [pc EXCEPT ![Poller] = loc],
           UNCHANGED <<msg, batch, pending, wire, next, result>>, failed \subseteq failed'
    PROVE  StoreInv'
<1>1. Poller \in Procs /\ msg[Poller] = 0 /\ next \in Nat
  BY Names DEF Base, ProcAt, StoreTypes
<1>2. Moves(Poller, loc, msg[Poller], batch[Poller])
  BY <1>1, Stays DEF Moves, Locations, PollerLocations
<1>3. Keep
  BY AllStay
<1>4. Calls(Poller, loc, msg[Poller])
  BY <1>1 DEF Calls, Unstored, PollerLocations
<1> QED
  BY <1>1, <1>2, <1>3, <1>4, KeepStep

LEMMA PollerStepStored ==
    ASSUME Base, StoreInv,
           \/ \E b \in posted : SendCompletion(b)
           \/ OnSendComplete
           \/ IdleFlush
    PROVE  StoreInv'
<1>1. UNCHANGED <<msg, batch, pending, wire, next, result>> /\ failed \subseteq failed'
  BY DEF SendCompletion, OnSendComplete, IdleFlush, pendVars, out
<1>2. Poller \in Procs /\ pc[Poller] \in PollerLocations /\ pc \in [Procs -> Locations]
  BY Names DEF Base, ProcAt, ProcTypes
<1>3. PICK loc \in PollerLocations : pc' = [pc EXCEPT ![Poller] = loc]
  BY <1>2 DEF SendCompletion, OnSendComplete, IdleFlush, Goto, PollerLocations
<1> QED
  BY <1>1, <1>3, PollerStored

LEMMA FlushStepStored ==
    ASSUME Base, StoreInv, NEW p \in Procs, FlushStep(p)
    PROVE  StoreInv'
  BY FlushAcquireStored, ConnSendStored DEF FlushStep, FlushLocked

LEMMA StoreInvStays ==
    ASSUME Base, StoreInv, UNCHANGED <<pending, wire, batch, pc, msg, next, result, failed>>
    PROVE  StoreInv'
<1>1. Poller \in Procs /\ pc[Poller] \in PollerLocations /\ pc' = [pc EXCEPT ![Poller] = pc[Poller]]
  BY Names DEF Base, ProcAt, ProcTypes
<1> QED
  BY <1>1, PollerStored

LEMMA NextStored ==
    ASSUME Base, StoreInv, [Next]_vars
    PROVE  StoreInv'
<1>1. CASE SetBusy \/ OthersAcquire \/ OthersComplete \/ UNCHANGED vars
  BY <1>1, StoreInvStays DEF SetBusy, OthersAcquire, OthersComplete, vars, pendVars, out
<1>2. ASSUME NEW p \in Callers, Send(p) \/ CallFlush(p) \/ CallerStep(p)
      PROVE  StoreInv'
  <2>1. CASE Send(p)
    BY <2>1, SendStored
  <2>2. CASE CallFlush(p)
    BY <2>2, CallFlushStored
  <2>3. CASE Acquire(p)
    BY <2>3, AcquireStored
  <2>4. CASE ImmediateFit(p)
    BY <2>4, ImmediateFitStored
  <2>5. CASE Lock(p)
    BY <2>5, LockStored
  <2>6. CASE OverflowFlush(p)
    BY <2>6, Names, FlushAcquireStored DEF OverflowFlush
  <2>7. CASE OverflowConnSend(p)
    BY <2>7, OverflowConnSendStored
  <2>8. CASE AfterOverflow(p)
    BY <2>8, AfterOverflowStored
  <2>9. CASE IdleTest(p)
    BY <2>9, IdleTestStored
  <2>10. CASE FlushStep(p)
    BY <2>10, Names, FlushStepStored
  <2> QED
    BY <1>2, <2>1, <2>2, <2>3, <2>4, <2>5, <2>6, <2>7, <2>8, <2>9, <2>10 DEF CallerStep
<1>3. CASE PollerStep \/ \E b \in posted : SendCompletion(b)
  BY <1>3, Names, PollerStepStored, FlushStepStored DEF PollerStep
<1> QED
  BY <1>1, <1>2, <1>3 DEF Next

LEMMA StoreInvInit == Init => StoreInv
<1> SUFFICES ASSUME Init
             PROVE  StoreInv
  OBVIOUS
<1>1. pending = << >> /\ wire = << >> /\ \A p \in Procs : batch[p] = << >>
  BY DEF Init
<1>2. \A k \in Stores : DOMAIN Contents[k] = {}
  <2>1. \A k \in Stores : Contents[k] = << >>
    BY <1>1, StoreNames, StoreTable DEF ContentsTable
  <2>2. DOMAIN << >> = {}
    OBVIOUS
  <2> QED
    BY <2>1, <2>2
<1>3. Apart(Stores, Contents) /\ \A m : ~ Stored(m)
  BY <1>2 DEF Apart, Stored, Holds
<1>4. \A p \in Procs : msg[p] = 0
  BY DEF Init
<1>5. \A m \in Messages : result[m] # "ok"
  BY DEF Init
<1> QED
  BY <1>3, <1>4, <1>5 DEF StoreInv

LEMMA StoreInvariant == Spec => []StoreInv
<1>1. Base /\ StoreInv /\ [Next]_vars => StoreInv'
  BY NextStored
<1> QED
  BY <1>1, StoreInvInit, BaseInvariant, PTL DEF Spec

LEMMA PlacesOfStored ==
    ASSUME StoreInv, NEW m
    PROVE  /\ \A x, y \in Places(m) : x = y
           /\ Stored(m) => Places(m) # {}
<1>0. \A k \in Stores : Contents[k] = Store(k)
  BY DEF Contents
<1>1. \A x \in Places(m) : \E k \in Stores : \E i \in DOMAIN Contents[k] :
         x = <<k, i>> /\ Contents[k][i] = m
  BY <1>0 DEF Places
<1>2. ASSUME NEW k \in Stores, NEW i \in DOMAIN Contents[k], Contents[k][i] = m
      PROVE  <<k, i>> \in Places(m)
  BY <1>0, <1>2 DEF Places
<1>3. ASSUME NEW x \in Places(m), NEW y \in Places(m)
      PROVE  x = y
  <2>1. PICK k \in Stores : \E i \in DOMAIN Contents[k] : x = <<k, i>> /\ Contents[k][i] = m
    BY <1>1
  <2>2. PICK i \in DOMAIN Contents[k] : x = <<k, i>> /\ Contents[k][i] = m
    BY <2>1
  <2>3. PICK l \in Stores : \E j \in DOMAIN Contents[l] : y = <<l, j>> /\ Contents[l][j] = m
    BY <1>1
  <2>4. PICK j \in DOMAIN Contents[l] : y = <<l, j>> /\ Contents[l][j] = m
    BY <2>3
  <2>5. Apart(Stores, Contents)
    BY DEF StoreInv
  <2>6. k = l /\ i = j
    BY <2>1, <2>2, <2>3, <2>4, <2>5 DEF Apart
  <2> QED
    BY <2>2, <2>4, <2>6
<1>4. ASSUME Stored(m)
      PROVE  Places(m) # {}
  <2>1. PICK k \in Stores : \E i \in DOMAIN Contents[k] : Contents[k][i] = m
    BY <1>4 DEF Stored, Holds
  <2> QED
    BY <1>2, <2>1
<1> QED
  BY <1>3, <1>4

LEMMA StoredOnce ==
    ASSUME StoreInv
    PROVE  AcceptedOnce
<1> SUFFICES ASSUME NEW m \in Messages
             PROVE  /\ Cardinality(Places(m)) <= 1
                    /\ result[m] = "ok" => failed # {} \/ Cardinality(Places(m)) = 1
  BY DEF AcceptedOnce
<1>1. CASE Places(m) = {}
  <2>1. ~ Stored(m)
    BY <1>1, PlacesOfStored
  <2>2. result[m] = "ok" => failed # {}
    BY <2>1 DEF StoreInv, Lost
  <2> QED
    BY <1>1, <2>2, FS_EmptySet
<1>2. CASE Places(m) # {}
  <2>1. PICK x : x \in Places(m)
    BY <1>2
  <2>2. Places(m) = {x}
    BY <2>1, PlacesOfStored
  <2>3. Cardinality(Places(m)) = 1
    BY <2>2, FS_Singleton
  <2> QED
    BY <2>3
<1> QED
  BY <1>1, <1>2

(* A message is never in two places, however the calls, the flushes and the *)
(* completions interleave; and until something fails, one whose Send has    *)
(* returned nil is still there: pending, about to be posted, or posted.     *)
THEOREM NoMessageLost == Spec => []AcceptedOnce
  BY StoredOnce, StoreInvariant, PTL

-----------------------------------------------------------------------------
(* Every buffer that is not in the pool is with a goroutine that is to pack *)
(* it, with the NIC, or lost by a failure; every request that is posted or  *)
(* about to be has been counted, and so has the one the poller is to count  *)
(* down.                                                                    *)
HasBuffer == {"fit", "post", "overflowPost"}
HasCount == {"post", "overflowPost"}
Counting == {"complete"}
AtSome(locs) == {p \in Procs : pc[p] \in locs}
CountInv ==
    /\ IsFiniteSet(posted)
    /\ \A locs \in {HasBuffer, HasCount, Counting} : IsFiniteSet(AtSome(locs))
    /\ free \in Nat /\ ongoing \in Nat /\ others \in 0..OthersMax
    /\ free + others + Cardinality(AtSome(HasBuffer)) + Cardinality(posted) <= BufferCount
    /\ Cardinality(AtSome(HasCount)) + Cardinality(posted)
          + Cardinality(AtSome(Counting)) <= ongoing

Bit(loc, locs) == IF loc \in locs THEN 1 ELSE 0

(* What a step of one goroutine does to the number of those at some places. *)
LEMMA OneMoves ==
    ASSUME Base, NEW p \in Procs, NEW loc, pc' = [pc EXCEPT ![p] = loc],
           NEW locs, IsFiniteSet(AtSome(locs))
    PROVE  /\ IsFiniteSet(AtSome(locs)')
           /\ Cardinality(AtSome(locs)) \in Nat /\ Cardinality(AtSome(locs)') \in Nat
           /\ Cardinality(AtSome(locs)') + Bit(pc[p], locs)
                = Cardinality(AtSome(locs)) + Bit(loc, locs)
<1> DEFINE S == AtSome(locs)
           T == AtSome(locs)'
<1>1. \A q \in Procs : pc'[q] = IF q = p THEN loc ELSE pc[q]
  BY DEF Base, ProcTypes
<1>2. T = IF loc \in locs THEN S \union {p} ELSE S \ {p}
  BY <1>1 DEF AtSome
<1>3. p \in S <=> pc[p] \in locs
  BY DEF AtSome
<1> HIDE DEF S, T
<1>4. IsFiniteSet(S) /\ Cardinality(S) \in Nat
  BY FS_CardinalityType DEF S
<1>5. /\ IsFiniteSet(S \union {p})
      /\ Cardinality(S \union {p}) = IF p \in S THEN Cardinality(S) ELSE Cardinality(S) + 1
  BY <1>4, FS_AddElement
<1>6. /\ IsFiniteSet(S \ {p})
      /\ Cardinality(S \ {p}) = IF p \in S THEN Cardinality(S) - 1 ELSE Cardinality(S)
  BY <1>4, FS_RemoveElement
<1>7. IsFiniteSet(T) /\ Cardinality(T) \in Nat
  BY <1>2, <1>5, <1>6, FS_CardinalityType
<1>8. Cardinality(T) + Bit(pc[p], locs) = Cardinality(S) + Bit(loc, locs)
  BY <1>2, <1>3, <1>4, <1>5, <1>6 DEF Bit
<1> QED
  BY <1>4, <1>7, <1>8 DEF S, T

(* What a goroutine at a location weighs: the buffer it has, and what it    *)
(* stands for in ongoing.                                                   *)
Weighs(loc, b, c) ==
    Bit(loc, HasBuffer) = b /\ Bit(loc, HasCount) + Bit(loc, Counting) = c

LEMMA Weights ==
    /\ Weighs("fit", 1, 0) /\ Weighs("complete", 0, 1)
    /\ \A loc \in HasCount : Weighs(loc, 1, 1)
    /\ \A loc : loc \notin HasBuffer \union HasCount \union Counting => Weighs(loc, 0, 0)
  BY DEF Weighs, Bit, HasBuffer, HasCount, Counting

(* A step keeps the books if what it takes from the pool it has, and what   *)
(* it posts it has counted.                                                 *)
Balanced(b0, c0, b1, c1) ==
    /\ IsFiniteSet(posted') /\ free' \in Nat /\ ongoing' \in Nat /\ others' = others
    /\ free' + b1 + Cardinality(posted') <= free + b0 + Cardinality(posted)
    /\ c1 + Cardinality(posted') + ongoing <= c0 + Cardinality(posted) + ongoing'

LEMMA CountStep ==
    ASSUME Base, CountInv, NEW p \in Procs, NEW loc, pc' = [pc EXCEPT ![p] = loc],
           NEW b0 \in {0, 1}, NEW c0 \in {0, 1}, NEW b1 \in {0, 1}, NEW c1 \in {0, 1},
           Weighs(pc[p], b0, c0), Weighs(loc, b1, c1), Balanced(b0, c0, b1, c1)
    PROVE  CountInv'
<1> DEFINE c(locs) == Cardinality(AtSome(locs))
           d(locs) == Cardinality(AtSome(locs)')
<1>1. ASSUME NEW locs \in {HasBuffer, HasCount, Counting}
      PROVE  /\ IsFiniteSet(AtSome(locs)') /\ c(locs) \in Nat /\ d(locs) \in Nat
             /\ d(locs) + Bit(pc[p], locs) = c(locs) + Bit(loc, locs)
  BY OneMoves DEF CountInv
<1>2. Cardinality(posted) \in Nat /\ Cardinality(posted') \in Nat
  BY FS_CardinalityType DEF CountInv, Balanced
<1>3. \A l, locs : Bit(l, locs) \in {0, 1}
  BY DEF Bit
<1>4. /\ c(HasBuffer) \in Nat /\ d(HasBuffer) \in Nat
      /\ d(HasBuffer) + Bit(pc[p], HasBuffer) = c(HasBuffer) + Bit(loc, HasBuffer)
  BY <1>1
<1>5. /\ c(HasCount) \in Nat /\ d(HasCount) \in Nat
      /\ d(HasCount) + Bit(pc[p], HasCount) = c(HasCount) + Bit(loc, HasCount)
  BY <1>1
<1>6. /\ c(Counting) \in Nat /\ d(Counting) \in Nat
      /\ d(Counting) + Bit(pc[p], Counting) = c(Counting) + Bit(loc, Counting)
  BY <1>1
<1>7. /\ free + others + c(HasBuffer) + Cardinality(posted) <= BufferCount
      /\ c(HasCount) + Cardinality(posted) + c(Counting) <= ongoing
      /\ free \in Nat /\ ongoing \in Nat /\ others \in Nat
  BY AggregatorAssumption DEF CountInv
<1>8. \A locs \in {HasBuffer, HasCount, Counting} : IsFiniteSet(AtSome(locs)')
  BY <1>1
<1> HIDE DEF c, d
<1>9. free' + others' + d(HasBuffer) + Cardinality(posted') <= BufferCount
  <2>1. d(HasBuffer) + b0 = c(HasBuffer) + b1
    BY <1>4 DEF Weighs
  <2> QED
    BY <1>2, <1>4, <1>7, <2>1, SizeIsNat DEF Balanced
<1>10. d(HasCount) + Cardinality(posted') + d(Counting) <= ongoing'
  <2>1. d(HasCount) + d(Counting) + c0 = c(HasCount) + c(Counting) + c1
    BY <1>3, <1>5, <1>6 DEF Weighs
  <2> QED
    BY <1>2, <1>5, <1>6, <1>7, <2>1 DEF Balanced
<1> QED
  BY <1>8, <1>9, <1>10 DEF CountInv, d, Balanced

LEMMA CountInit == Init => CountInv
<1> SUFFICES ASSUME Init
             PROVE  CountInv
  OBVIOUS
<1>1. \A locs \in {HasBuffer, HasCount, Counting} : AtSome(locs) = {}
  BY DEF Init, AtSome, HasBuffer, HasCount, Counting
<1>2. Cardinality({}) = 0 /\ IsFiniteSet({})
  BY FS_EmptySet
<1>3. free = BufferCount /\ ongoing = 0 /\ posted = {} /\ others = 0
  BY DEF Init
<1>4. \A locs \in {HasBuffer, HasCount, Counting} :
          IsFiniteSet(AtSome(locs)) /\ Cardinality(AtSome(locs)) = 0
  BY <1>1, <1>2
<1> QED
  BY <1>2, <1>3, <1>4, SizeIsNat, AggregatorAssumption DEF CountInv

(* A request that is posted may be one more, and one that completes was     *)
(* there.                                                                   *)
LEMMA PostedCounts ==
    ASSUME CountInv, NEW b
    PROVE  /\ Cardinality(posted) \in Nat
           /\ IsFiniteSet(posted \union {b}) /\ Cardinality(posted \union {b}) \in Nat
           /\ Cardinality(posted \union {b}) <= Cardinality(posted) + 1
           /\ b \in posted => /\ IsFiniteSet(posted \ {b})
                              /\ Cardinality(posted \ {b}) \in Nat
                              /\ Cardinality(posted \ {b}) + 1 = Cardinality(posted)
<1>1. IsFiniteSet(posted)
  BY DEF CountInv
<1>2. Cardinality(posted) \in Nat
  BY <1>1, FS_CardinalityType
<1>3. /\ IsFiniteSet(posted \union {b})
      /\ Cardinality(posted \union {b})
           = IF b \in posted THEN Cardinality(posted) ELSE Cardinality(posted) + 1
  BY <1>1, FS_AddElement
<1>4. /\ IsFiniteSet(posted \ {b})
      /\ Cardinality(posted \ {b})
           = IF b \in posted THEN Cardinality(posted) - 1 ELSE Cardinality(posted)
  BY <1>1, FS_RemoveElement
<1>5. Cardinality(posted \ {b}) \in Nat
  BY <1>4, FS_CardinalityType
<1> QED
  BY <1>2, <1>3, <1>4, <1>5

(* A step that leaves the counters alone, and takes no buffer and no count. *)
LEMMA CountStays ==
    ASSUME Base, CountInv, NEW p \in Procs, NEW loc, pc' = [pc EXCEPT ![p] = loc],
           UNCHANGED <<free, others, ongoing, posted>>,
           loc \notin HasBuffer \union HasCount \union Counting
    PROVE  CountInv'
<1>1. Cardinality(posted) \in Nat
  BY PostedCounts
<1>2. IsFiniteSet(posted) /\ free \in Nat /\ ongoing \in Nat
  BY DEF CountInv
<1>3. PICK b \in {0, 1}, c \in {0, 1} : Weighs(pc[p], b, c)
  <2>1. Bit(pc[p], HasBuffer) \in {0, 1}
    BY DEF Bit
  <2>2. Bit(pc[p], HasCount) + Bit(pc[p], Counting) \in {0, 1}
    BY DEF Bit, HasCount, Counting
  <2> QED
    BY <2>1, <2>2 DEF Weighs
<1>4. Balanced(b, c, 0, 0)
  BY <1>1, <1>2 DEF Balanced
<1>5. Weighs(loc, 0, 0)
  BY Weights
<1> QED
  BY <1>3, <1>4, <1>5, CountStep

(* The step of p: where it gets, and what it does to the counters.          *)
LEMMA NextCounts ==
    ASSUME Base, CountInv, [Next]_vars
    PROVE  CountInv'
<1> USE DEF HasBuffer, HasCount, Counting, Goto, At
<1>0. /\ free \in Nat /\ ongoing \in Nat /\ IsFiniteSet(posted)
      /\ Cardinality(posted) \in Nat
  BY PostedCounts DEF CountInv
<1>1. CASE UNCHANGED vars \/ SetBusy
  BY <1>1 DEF vars, out, SetBusy, CountInv, AtSome
<1>o. CASE OthersAcquire \/ OthersComplete
  <2>1. /\ UNCHANGED <<ongoing, posted, pc>> /\ free' + others' = free + others
        /\ free' \in Nat /\ others' \in 0..OthersMax
    BY <1>0, <1>o, AggregatorAssumption DEF OthersAcquire, OthersComplete, out, CountInv
  <2>2. \A locs : AtSome(locs)' = AtSome(locs)
    BY <2>1 DEF AtSome
  <2>3. /\ Cardinality(AtSome(HasBuffer)) \in Nat /\ others \in Nat
    BY FS_CardinalityType, AggregatorAssumption DEF CountInv
  <2> DEFINE n == Cardinality(AtSome(HasBuffer))
             k == Cardinality(posted)
  <2>4. free + others + n + k <= BufferCount /\ n \in Nat /\ k \in Nat
    BY <1>0, <2>3 DEF CountInv
  <2> HIDE DEF n, k
  <2>5. free' + others' + n + k <= BufferCount
    BY <1>0, <2>1, <2>3, <2>4, AggregatorAssumption
  <2> QED
    BY <2>1, <2>2, <2>5 DEF CountInv, n, k
<1>2. ASSUME NEW p \in Procs, Acquire(p)
      PROVE  CountInv'
  <2>1. CASE Return(p, "error") /\ free' = free
    BY <1>2, <2>1, CountStays DEF Acquire, Return, out
  <2>2. CASE free > 0 /\ free' = free - 1 /\ pc' = [pc EXCEPT ![p] = "fit"]
    <3>1. pc[p] = "acquire" /\ ongoing' = ongoing /\ posted' = posted /\ others' = others
      BY <1>2 DEF Acquire, out
    <3>2. Balanced(0, 0, 1, 0)
      BY <1>0, <2>2, <3>1 DEF Balanced
    <3>3. Weighs(pc[p], 0, 0) /\ Weighs("fit", 1, 0)
      BY <3>1, Weights
    <3> QED
      BY <2>2, <3>2, <3>3, CountStep
  <2> QED
    BY <1>2, <2>1, <2>2 DEF Acquire
<1>3. ASSUME NEW p \in Procs, ImmediateFit(p)
      PROVE  CountInv'
  <2>1. pc[p] = "fit" /\ posted' = posted /\ others' = others
    BY <1>3 DEF ImmediateFit, out
  <2>2. CASE free' = free + 1 /\ ongoing' = ongoing /\ pc' = [pc EXCEPT ![p] = "idle"]
    <3>1. Balanced(1, 0, 0, 0)
      BY <1>0, <2>1, <2>2 DEF Balanced
    <3>2. Weighs(pc[p], 1, 0) /\ Weighs("idle", 0, 0)
      BY <2>1, Weights
    <3> QED
      BY <2>2, <3>1, <3>2, CountStep
  <2>3. CASE free' = free /\ ongoing' = ongoing + 1 /\ pc' = [pc EXCEPT ![p] = "post"]
    <3>1. Balanced(1, 0, 1, 1)
      BY <1>0, <2>1, <2>3 DEF Balanced
    <3>2. Weighs(pc[p], 1, 0) /\ Weighs("post", 1, 1)
      BY <2>1, Weights
    <3> QED
      BY <2>3, <3>1, <3>2, CountStep
  <2> QED
    BY <1>3, <2>2, <2>3 DEF ImmediateFit, Return
<1>4. ASSUME NEW p \in Procs,
             Send(p) \/ CallFlush(p) \/ Lock(p) \/ AfterOverflow(p) \/ IdleTest(p)
      PROVE  CountInv'
  <2>1. PICK loc \in {"lock", "acquire", "flush", "overflow", "idleTest", "idle"} :
            pc' = [pc EXCEPT ![p] = loc]
    BY <1>4 DEF Send, CallFlush, Lock, AfterOverflow, IdleTest, AppendMessage, Return
  <2>2. UNCHANGED <<free, others, ongoing, posted>>
    BY <1>4 DEF Send, CallFlush, Lock, AfterOverflow, IdleTest, out
  <2> QED
    BY <2>1, <2>2, CountStays
<1>5. ASSUME NEW p \in Procs, NEW from, NEW to \in HasCount,
             FlushAcquire(p, from, to), from \in {"overflow", "flush"}
      PROVE  CountInv'
  <2>1. CASE Return(p, "error") /\ UNCHANGED <<ongoing, free>>
    BY <1>5, <2>1, CountStays DEF FlushAcquire, Return, out
  <2>2. CASE free > 0 /\ free' = free - 1 /\ ongoing' = ongoing + 1
             /\ pc' = [pc EXCEPT ![p] = to]
    <3>1. pc[p] \in {"overflow", "flush"} /\ posted' = posted /\ others' = others
      BY <1>5 DEF FlushAcquire, out
    <3>2. Balanced(0, 0, 1, 1)
      BY <1>0, <2>2, <3>1 DEF Balanced
    <3>3. Weighs(pc[p], 0, 0) /\ Weighs(to, 1, 1)
      BY <1>5, <3>1, Weights
    <3> QED
      BY <2>2, <3>2, <3>3, CountStep
  <2> QED
    BY <1>5, <2>1, <2>2 DEF FlushAcquire
<1>6. ASSUME NEW p \in Procs, ConnSend(p) \/ OverflowConnSend(p)
      PROVE  CountInv'
  <2>1. PICK loc \in {"idle", "append"} : pc' = [pc EXCEPT ![p] = loc]
    BY <1>6 DEF ConnSend, OverflowConnSend, Return
  <2>2. ongoing' = ongoing /\ others' = others /\ pc[p] \in HasCount
    BY <1>6 DEF ConnSend, OverflowConnSend
  <2>3. Weighs(pc[p], 1, 1) /\ Weighs(loc, 0, 0)
    BY <2>1, <2>2, Weights
  <2>4. CASE Post(p)
    <3>1. posted' = posted \union {batch[p]} /\ free' = free
      BY <2>4 DEF Post
    <3>2. /\ IsFiniteSet(posted') /\ Cardinality(posted') \in Nat
          /\ Cardinality(posted') <= Cardinality(posted) + 1
      BY <3>1, PostedCounts
    <3>3. Balanced(1, 1, 0, 0)
      BY <1>0, <2>2, <3>1, <3>2 DEF Balanced
    <3> QED
      BY <2>1, <2>3, <3>3, CountStep
  <2>5. CASE PostFails(p)
    <3>1. posted' = posted /\ free' \in {free, free + 1}
      BY <2>5 DEF PostFails
    <3>2. Balanced(1, 1, 0, 0)
      BY <1>0, <2>2, <3>1 DEF Balanced
    <3> QED
      BY <2>1, <2>3, <3>2, CountStep
  <2> QED
    BY <1>6, <2>4, <2>5 DEF ConnSend, OverflowConnSend
<1>7. ASSUME NEW b \in posted, SendCompletion(b)
      PROVE  CountInv'
  <2>0. Poller \in Procs /\ pc[Poller] = "idle"
    BY <1>7, Names DEF SendCompletion
  <2>1. PICK loc \in {"idle", "complete"} : pc' = [pc EXCEPT ![Poller] = loc]
    BY <1>7, <2>0 DEF SendCompletion, Base, ProcTypes
  <2>2. /\ ongoing' = ongoing /\ others' = others
        /\ free' = free + 1 /\ posted' = posted \ {b}
    BY <1>7 DEF SendCompletion
  <2>3. /\ IsFiniteSet(posted') /\ Cardinality(posted') \in Nat
        /\ Cardinality(posted') + 1 = Cardinality(posted)
    BY <2>2, PostedCounts
  <2>4. PICK c \in {0, 1} : Weighs(loc, 0, c)
    BY <2>1, Weights
  <2>5. Balanced(0, 0, 0, c)
    BY <1>0, <2>2, <2>3 DEF Balanced
  <2>6. Weighs(pc[Poller], 0, 0)
    BY <2>0, Weights
  <2> QED
    BY <2>0, <2>1, <2>4, <2>5, <2>6, CountStep
<1>8. CASE OnSendComplete
  <2>0. Poller \in Procs /\ pc[Poller] = "complete"
    BY <1>8, Names DEF OnSendComplete
  <2>1. PICK loc \in {"idle", "idleFlush"} : pc' = [pc EXCEPT ![Poller] = loc]
    BY <1>8 DEF OnSendComplete
  <2>2. /\ ongoing' = ongoing - 1 /\ others' = others
        /\ free' = free /\ posted' = posted
    BY <1>8 DEF OnSendComplete, out
  <2>3. ongoing > 0
    <3>1. Poller \in AtSome(Counting) /\ IsFiniteSet(AtSome(Counting))
      BY <2>0 DEF AtSome, CountInv
    <3>2. Cardinality(AtSome(Counting)) \in Nat /\ Cardinality(AtSome(Counting)) # 0
      BY <3>1, FS_CardinalityType, FS_EmptySet
    <3>3. Cardinality(AtSome(HasCount)) \in Nat
      BY FS_CardinalityType DEF CountInv
    <3>4. Cardinality(AtSome(HasCount)) + Cardinality(posted)
            + Cardinality(AtSome(Counting)) <= ongoing
      BY DEF CountInv
    <3> QED
      BY <1>0, <3>2, <3>3, <3>4
  <2>4. Balanced(0, 1, 0, 0)
    BY <1>0, <2>2, <2>3 DEF Balanced
  <2>5. Weighs(pc[Poller], 0, 1) /\ Weighs(loc, 0, 0)
    BY <2>0, <2>1, Weights
  <2> QED
    BY <2>0, <2>1, <2>4, <2>5, CountStep
<1>9. CASE IdleFlush
  <2>1. PICK loc \in {"idle", "flush"} : pc' = [pc EXCEPT ![Poller] = loc]
    BY <1>9 DEF IdleFlush
  <2>2. UNCHANGED <<free, others, ongoing, posted>>
    BY <1>9 DEF IdleFlush, out
  <2> QED
    BY <2>1, <2>2, Names, CountStays
<1>10. ASSUME NEW p \in Procs, FlushStep(p)
       PROVE  CountInv'
  BY <1>5, <1>6, <1>10 DEF FlushStep, FlushLocked
<1>11. ASSUME NEW p \in Callers, Send(p) \/ CallFlush(p) \/ CallerStep(p)
       PROVE  CountInv'
  <2>1. p \in Procs
    BY Names
  <2>2. CASE OverflowFlush(p)
    BY <1>5, <2>1, <2>2 DEF OverflowFlush
  <2> QED
    BY <1>2, <1>3, <1>4, <1>6, <1>10, <1>11, <2>1, <2>2 DEF CallerStep
<1> QED
  BY <1>1, <1>o, <1>7, <1>8, <1>9, <1>10, <1>11, Names DEF Next, PollerStep

(* The state of the aggregator keeps its type: ongoing is never counted     *)
(* down below zero, and no buffer is given back that was not taken.         *)
THEOREM AggregatorTypeCorrect == Spec => []TypeOK
<1>1. Init => CountInv
  BY CountInit
<1>2. Base /\ CountInv /\ [Next]_vars => CountInv'
  BY NextCounts
<1>3. Base /\ CountInv => TypeOK
  <2> SUFFICES ASSUME Base, CountInv
               PROVE  TypeOK
    OBVIOUS
  <2>1. free \in 0..BufferCount
    <3>1. Cardinality(AtSome(HasBuffer)) \in Nat /\ Cardinality(posted) \in Nat
      BY FS_CardinalityType DEF CountInv
    <3> QED
      BY <3>1, SizeIsNat, AggregatorAssumption DEF CountInv
  <2> QED
    BY <2>1 DEF TypeOK, Base, ProcTypes, StoreTypes, CountInv
<1> QED
  BY <1>1, <1>2, <1>3, BaseInvariant, PTL DEF Spec

-----------------------------------------------------------------------------
(***************************************************************************)
(* The pool the buffers come from: pkg/buffer/pool.go for every number of  *)
(* buffers and of goroutines that use it.  Nobody shares a buffer, no      *)
(* registration outlives its memory, nothing is kept in the end, and only  *)
(* a call that Close overtakes ends badly.                                 *)
(***************************************************************************)

(* A goroutine that is in Alloc has no buffer, one that is in Free has one, *)
(* and nobody has a pool that is not built.                                 *)
CallInv ==
    \A u \in Users :
        /\ callPc[u] = "alloc" => held[u] = None
        /\ callPc[u] = "free" => held[u] # None
        /\ pool \in {"building", "undoDrain", "undoRelease", "failed"} =>
              callPc[u] = "idle" /\ held[u] = None

(* Whatever was allocated is in allBuffers, where the release loops look    *)
(* for it, but for the one buffer NewPool has at hand.                      *)
ListedInv ==
    /\ allBuffers \subseteq allocated
    /\ registered \subseteq allBuffers \union stuck
    /\ pool = "building" =>
          /\ allBuffers = registered /\ stuck = {}
          /\ \A b, c \in allocated \ registered : b = c
    /\ pool # "building" => allocated \subseteq allBuffers

(* What has been drained stays empty, and the loops end with nothing left.  *)
DrainedInv ==
    /\ pool \in {"undoRelease", "failed", "release", "closed"} => freeCh = {}
    /\ pool \in {"failed", "closed"} => allBuffers = {}

(* If no call was running when Close set the flag, none gets past it, and   *)
(* before that nothing goes wrong.                                          *)
CalmInv ==
    \A u \in Users :
        /\ Closed => calm = FALSE \/ callPc[u] = "idle"
        /\ last[u] = "nil" \/ callPc[u] = "panicked" => Closed /\ calm = FALSE

PoolInv ==
    PoolTypeOK /\ CallInv /\ OneOwner /\ ListedInv /\ DrainedInv /\ CalmInv

-----------------------------------------------------------------------------

(* The initial states satisfy the invariant.                                *)
LEMMA PoolInitInv == PoolInit => PoolInv
    BY BufferPoolAssumption
    DEF PoolInit, PoolInv, PoolTypeOK, CallInv, OneOwner, ListedInv, DrainedInv,
        CalmInv, Closed

(* NewPool allocates a buffer.                                              *)
LEMMA AllocateInv ==
    ASSUME PoolInv, NEW b \in Buffers, Allocate(b)
    PROVE  PoolInv'
<1> USE BufferPoolAssumption DEF PoolInv, memVars, userVars, history,
        Allocate, Closed
<1>1. PoolTypeOK'
  BY DEF PoolTypeOK, CallInv
<1>2. CallInv'
  BY DEF PoolTypeOK, CallInv
<1>3. OneOwner'
  BY DEF PoolTypeOK, CallInv, OneOwner
<1>4. ListedInv'
  BY DEF PoolTypeOK, ListedInv
<1>5. DrainedInv'
  BY DEF PoolTypeOK, DrainedInv, ListedInv
<1>6. CalmInv'
  BY DEF PoolTypeOK, CalmInv
<1> QED
  BY <1>1, <1>2, <1>3, <1>4, <1>5, <1>6

(* NewPool registers it.                                                    *)
LEMMA RegisterInv ==
    ASSUME PoolInv, NEW b \in Buffers, Register(b)
    PROVE  PoolInv'
<1> USE BufferPoolAssumption DEF PoolInv, memVars, userVars, history,
        Register, Closed
<1>1. PoolTypeOK'
  BY DEF PoolTypeOK, CallInv
<1>2. CallInv'
  BY DEF PoolTypeOK, CallInv
<1>3. OneOwner'
  BY DEF PoolTypeOK, CallInv, OneOwner
<1>4. ListedInv'
  BY DEF PoolTypeOK, ListedInv
<1>5. DrainedInv'
  BY DEF PoolTypeOK, DrainedInv, ListedInv
<1>6. CalmInv'
  BY DEF PoolTypeOK, CalmInv
<1> QED
  BY <1>1, <1>2, <1>3, <1>4, <1>5, <1>6

(* NewPool returns the pool.                                                *)
LEMMA BuiltInv ==
    ASSUME PoolInv, Built
    PROVE  PoolInv'
<1> USE BufferPoolAssumption DEF PoolInv, memVars, userVars, history,
        Built, Closed
<1>1. PoolTypeOK'
  BY DEF PoolTypeOK, CallInv
<1>2. CallInv'
  BY DEF PoolTypeOK, CallInv
<1>3. OneOwner'
  BY DEF PoolTypeOK, CallInv, OneOwner
<1>4. ListedInv'
  BY DEF PoolTypeOK, ListedInv
<1>5. DrainedInv'
  BY DEF PoolTypeOK, DrainedInv, ListedInv
<1>6. CalmInv'
  BY DEF PoolTypeOK, CalmInv
<1> QED
  BY <1>1, <1>2, <1>3, <1>4, <1>5, <1>6

(* NewPool gets no memory.                                                  *)
LEMMA AllocateFailsInv ==
    ASSUME PoolInv, AllocateFails
    PROVE  PoolInv'
<1> USE BufferPoolAssumption DEF PoolInv, memVars, userVars, history,
        AllocateFails, Closed
<1>1. PoolTypeOK'
  BY DEF PoolTypeOK, CallInv
<1>2. CallInv'
  BY DEF PoolTypeOK, CallInv
<1>3. OneOwner'
  BY DEF PoolTypeOK, CallInv, OneOwner
<1>4. ListedInv'
  BY DEF PoolTypeOK, ListedInv
<1>5. DrainedInv'
  BY DEF PoolTypeOK, DrainedInv, ListedInv
<1>6. CalmInv'
  BY DEF PoolTypeOK, CalmInv
<1> QED
  BY <1>1, <1>2, <1>3, <1>4, <1>5, <1>6

(* NewPool gets no memory region.                                           *)
LEMMA RegisterFailsInv ==
    ASSUME PoolInv, NEW b \in Buffers, RegisterFails(b)
    PROVE  PoolInv'
<1> USE BufferPoolAssumption DEF PoolInv, memVars, userVars, history,
        RegisterFails, Closed
<1>1. PoolTypeOK'
  BY DEF PoolTypeOK, CallInv
<1>2. CallInv'
  BY DEF PoolTypeOK, CallInv
<1>3. OneOwner'
  BY DEF PoolTypeOK, CallInv, OneOwner
<1>4. ListedInv'
  BY DEF PoolTypeOK, ListedInv
<1>5. DrainedInv'
  BY DEF PoolTypeOK, DrainedInv, ListedInv
<1>6. CalmInv'
  BY DEF PoolTypeOK, CalmInv
<1> QED
  BY <1>1, <1>2, <1>3, <1>4, <1>5, <1>6

(* Alloc looks at the flag.                                                 *)
LEMMA AllocCheckInv ==
    ASSUME PoolInv, NEW u \in Users, AllocCheck(u)
    PROVE  PoolInv'
<1> USE BufferPoolAssumption DEF PoolInv, memVars, userVars, history,
        AllocCheck, Call, End, Closed
<1>1. PoolTypeOK'
  BY DEF PoolTypeOK, CallInv
<1>2. CallInv'
  BY DEF PoolTypeOK, CallInv
<1>3. OneOwner'
  BY DEF PoolTypeOK, CallInv, OneOwner
<1>4. ListedInv'
  BY DEF PoolTypeOK, ListedInv
<1>5. DrainedInv'
  BY DEF PoolTypeOK, DrainedInv, ListedInv
<1>6. CalmInv'
  BY DEF PoolTypeOK, CalmInv
<1> QED
  BY <1>1, <1>2, <1>3, <1>4, <1>5, <1>6

(* Alloc receives from the channel, or gives up.                            *)
LEMMA AllocReceiveInv ==
    ASSUME PoolInv, NEW u \in Users, AllocReceive(u)
    PROVE  PoolInv'
<1> USE BufferPoolAssumption DEF PoolInv, memVars, userVars, history,
        AllocReceive, Call, End, Closed, ChannelClosed
<1>1. PoolTypeOK'
  BY DEF PoolTypeOK, CallInv
<1>2. CallInv'
  BY DEF PoolTypeOK, CallInv
<1>3. OneOwner'
  BY DEF PoolTypeOK, CallInv, OneOwner
<1>4. ListedInv'
  BY DEF PoolTypeOK, ListedInv
<1>5. DrainedInv'
  BY DEF PoolTypeOK, DrainedInv, ListedInv
<1>6. CalmInv'
  BY DEF PoolTypeOK, CalmInv
<1> QED
  BY <1>1, <1>2, <1>3, <1>4, <1>5, <1>6

(* Free looks at the flag.                                                  *)
LEMMA FreeCheckInv ==
    ASSUME PoolInv, NEW u \in Users, FreeCheck(u)
    PROVE  PoolInv'
<1> USE BufferPoolAssumption DEF PoolInv, memVars, userVars, history,
        FreeCheck, Call, Closed
<1>1. PoolTypeOK'
  BY DEF PoolTypeOK, CallInv
<1>2. CallInv'
  BY DEF PoolTypeOK, CallInv
<1>3. OneOwner'
  BY DEF PoolTypeOK, CallInv, OneOwner
<1>4. ListedInv'
  BY DEF PoolTypeOK, ListedInv
<1>5. DrainedInv'
  BY DEF PoolTypeOK, DrainedInv, ListedInv
<1>6. CalmInv'
  BY DEF PoolTypeOK, CalmInv
<1> QED
  BY <1>1, <1>2, <1>3, <1>4, <1>5, <1>6

(* Free sends to the channel.                                               *)
LEMMA FreeSendInv ==
    ASSUME PoolInv, NEW u \in Users, FreeSend(u)
    PROVE  PoolInv'
<1> USE BufferPoolAssumption DEF PoolInv, memVars, userVars, history,
        FreeSend, Call, Closed, ChannelClosed
<1>1. PoolTypeOK'
  BY DEF PoolTypeOK, CallInv
<1>2. CallInv'
  BY DEF PoolTypeOK, CallInv
<1>3. OneOwner'
  BY DEF PoolTypeOK, CallInv, OneOwner
<1>4. ListedInv'
  BY DEF PoolTypeOK, ListedInv
<1>5. DrainedInv'
  BY DEF PoolTypeOK, DrainedInv, ListedInv
<1>6. CalmInv'
  BY DEF PoolTypeOK, CalmInv
<1> QED
  BY <1>1, <1>2, <1>3, <1>4, <1>5, <1>6

(* Close sets the flag.                                                     *)
LEMMA CloseSwapInv ==
    ASSUME PoolInv, CloseSwap
    PROVE  PoolInv'
<1> USE BufferPoolAssumption DEF PoolInv, memVars, userVars, history,
        CloseSwap, Closed
<1>1. PoolTypeOK'
  BY DEF PoolTypeOK, CallInv
<1>2. CallInv'
  BY DEF PoolTypeOK, CallInv
<1>3. OneOwner'
  BY DEF PoolTypeOK, CallInv, OneOwner
<1>4. ListedInv'
  BY DEF PoolTypeOK, ListedInv
<1>5. DrainedInv'
  BY DEF PoolTypeOK, DrainedInv, ListedInv
<1>6. CalmInv'
  BY DEF PoolTypeOK, CalmInv
<1> QED
  BY <1>1, <1>2, <1>3, <1>4, <1>5, <1>6

(* Close closes the channel.                                                *)
LEMMA CloseChannelInv ==
    ASSUME PoolInv, CloseChannel
    PROVE  PoolInv'
<1> USE BufferPoolAssumption DEF PoolInv, memVars, userVars, history,
        CloseChannel, Closed
<1>1. PoolTypeOK'
  BY DEF PoolTypeOK, CallInv
<1>2. CallInv'
  BY DEF PoolTypeOK, CallInv
<1>3. OneOwner'
  BY DEF PoolTypeOK, CallInv, OneOwner
<1>4. ListedInv'
  BY DEF PoolTypeOK, ListedInv
<1>5. DrainedInv'
  BY DEF PoolTypeOK, DrainedInv, ListedInv
<1>6. CalmInv'
  BY DEF PoolTypeOK, CalmInv
<1> QED
  BY <1>1, <1>2, <1>3, <1>4, <1>5, <1>6

(* Either loop takes a buffer off the channel, or finds it empty.           *)
LEMMA DrainInv ==
    ASSUME PoolInv,
           DrainChannel("undoDrain", "undoRelease") \/ DrainChannel("drain", "release")
    PROVE  PoolInv'
<1> USE BufferPoolAssumption DEF PoolInv, memVars, userVars, history,
        DrainChannel, Closed
<1>1. PoolTypeOK'
  BY DEF PoolTypeOK, CallInv
<1>2. CallInv'
  BY DEF PoolTypeOK, CallInv
<1>3. OneOwner'
  BY DEF PoolTypeOK, CallInv, OneOwner
<1>4. ListedInv'
  BY DEF PoolTypeOK, ListedInv
<1>5. DrainedInv'
  BY DEF PoolTypeOK, DrainedInv, ListedInv
<1>6. CalmInv'
  BY DEF PoolTypeOK, CalmInv
<1> QED
  BY <1>1, <1>2, <1>3, <1>4, <1>5, <1>6

(* Either loop deregisters a buffer, or fails to, or frees its memory.      *)
LEMMA ReleaseOneInv ==
    ASSUME PoolInv,
           ReleaseOne("undoRelease") \/ ReleaseOne("release")
    PROVE  PoolInv'
<1> USE BufferPoolAssumption DEF PoolInv, memVars, userVars, history,
        ReleaseOne, Deregister, FreeMemory, Closed
<1>1. PoolTypeOK'
  BY DEF PoolTypeOK, CallInv
<1>2. CallInv'
  BY DEF PoolTypeOK, CallInv
<1>3. OneOwner'
  BY DEF PoolTypeOK, CallInv, OneOwner
<1>4. ListedInv'
  BY DEF PoolTypeOK, ListedInv
<1>5. DrainedInv'
  BY DEF PoolTypeOK, DrainedInv, ListedInv
<1>6. CalmInv'
  BY DEF PoolTypeOK, CalmInv
<1> QED
  BY <1>1, <1>2, <1>3, <1>4, <1>5, <1>6

(* Either loop has done all buffers.                                        *)
LEMMA ReleaseEndsInv ==
    ASSUME PoolInv,
           ReleaseEnds("undoRelease", "failed") \/ ReleaseEnds("release", "closed")
    PROVE  PoolInv'
<1> USE BufferPoolAssumption DEF PoolInv, memVars, userVars, history,
        ReleaseEnds, Closed
<1>1. PoolTypeOK'
  BY DEF PoolTypeOK, CallInv
<1>2. CallInv'
  BY DEF PoolTypeOK, CallInv
<1>3. OneOwner'
  BY DEF PoolTypeOK, CallInv, OneOwner
<1>4. ListedInv'
  BY DEF PoolTypeOK, ListedInv
<1>5. DrainedInv'
  BY DEF PoolTypeOK, DrainedInv, ListedInv
<1>6. CalmInv'
  BY DEF PoolTypeOK, CalmInv
<1> QED
  BY <1>1, <1>2, <1>3, <1>4, <1>5, <1>6

(* Nothing happens.                                                         *)
LEMMA StutterInv ==
    ASSUME PoolInv, UNCHANGED poolVars
    PROVE  PoolInv'
BY DEF poolVars, memVars, userVars, history, PoolInv, PoolTypeOK, CallInv, OneOwner,
   ListedInv, DrainedInv, CalmInv, Closed

(* Every step preserves the invariant.                                      *)
LEMMA PoolNextInv == PoolInv /\ [PoolNext]_poolVars => PoolInv'
<1> SUFFICES ASSUME PoolInv, [PoolNext]_poolVars PROVE PoolInv'
  OBVIOUS
<1>1. ASSUME NEW b \in Buffers, Allocate(b) \/ Register(b) \/ RegisterFails(b)
      PROVE  PoolInv'
  BY <1>1, AllocateInv, RegisterInv, RegisterFailsInv
<1>2. CASE Built \/ AllocateFails
  BY <1>2, BuiltInv, AllocateFailsInv
<1>3. CASE Cleanup \/ Close
  BY <1>3, CloseSwapInv, CloseChannelInv, DrainInv, ReleaseOneInv, ReleaseEndsInv
  DEF Cleanup, Close
<1>4. ASSUME NEW u \in Users,
             AllocCheck(u) \/ AllocReceive(u) \/ FreeCheck(u) \/ FreeSend(u)
      PROVE  PoolInv'
  BY <1>4, AllocCheckInv, AllocReceiveInv, FreeCheckInv, FreeSendInv
<1>5. CASE UNCHANGED poolVars
  BY <1>5, StutterInv
<1> QED
  BY <1>1, <1>2, <1>3, <1>4, <1>5 DEF PoolNext

(* The invariant holds in every reachable state.                            *)
THEOREM PoolInvariant == PoolSpec => []PoolInv
    BY PoolInitInv, PoolNextInv, PTL DEF PoolSpec

(* The state of the pool keeps its type.                                    *)
THEOREM PoolTypeCorrect == PoolSpec => []PoolTypeOK
<1>1. PoolInv => PoolTypeOK
  BY DEF PoolInv
<1> QED
  BY <1>1, PoolInvariant, PTL

(* No two goroutines have the same buffer, and none has one that is free.   *)
THEOREM BufferHasOneOwner == PoolSpec => []OneOwner
<1>1. PoolInv => OneOwner
  BY DEF PoolInv
<1> QED
  BY <1>1, PoolInvariant, PTL

(* NewPool, its clean-up and Close never leave a registration without memory *)
(* under it, unless DeregMR failed.                                         *)
THEOREM RegionsHaveMemory == PoolSpec => []RegionHasMemory
<1>1. PoolInv => RegionHasMemory
  BY DEF PoolInv, ListedInv, RegionHasMemory
<1> QED
  BY <1>1, PoolInvariant, PTL

(* Neither a NewPool that fails, at any buffer and in either call, nor      *)
(* Close, whoever has buffers at the time, leaves memory or a buffer in the *)
(* channel behind, nor a registration but those DeregMR has failed for.     *)
THEOREM NothingIsKept == PoolSpec => []NothingKept
<1>1. PoolInv => NothingKept
  BY DEF PoolInv, DrainedInv, ListedInv, NothingKept
<1> QED
  BY <1>1, PoolInvariant, PTL

(* No call returns nil or panics unless Close came while one was running.   *)
THEOREM OtherCallsEndWell == PoolSpec => []CallsEndWell
<1>1. PoolInv => CallsEndWell
  BY DEF PoolInv, CalmInv, CallsEndWell
<1> QED
  BY <1>1, PoolInvariant, PTL
=============================================================================
