--------------------------- MODULE SendPathProofs ---------------------------
(***************************************************************************)
(* No send buffer has two users, whatever the number of connections,       *)
(* queues, buffers and senders and however the queues are shared, until a  *)
(* completion is handed to the handler of another connection.  The WRID of *)
(* a completion names a buffer only together with the connection, and the  *)
(* handler that is called is the one registered for the queue.             *)
(***************************************************************************)
EXTENDS SendPath, TLAPS

(* What a sender has at each place.                                         *)
SenderInv ==
    \A s \in Senders :
        /\ pc[s] = "idle" => send[s] = Idle
        /\ pc[s] # "idle" => send[s].conn \in Conns /\ send[s].buf \in Buffers
        /\ pc[s] \in {"track", "post"} =>
              send[s].wrid \in 1..nextWRID[send[s].conn]

SameKey(e, f) == e.conn = f.conn /\ e.wrid = f.wrid

(* A WRID is given out once.                                                *)
NumberInv ==
    \A s \in Senders : pc[s] = "track" =>
        /\ \A e \in tracked : ~SameKey(e, send[s])
        /\ \A t \in Senders : pc[t] = "track" /\ SameKey(send[t], send[s]) => s = t

(* The handlers' maps have unique keys.                                     *)
KeyInv ==
    /\ \A e \in tracked : e.wrid <= nextWRID[e.conn]
    /\ \A e, f \in tracked : SameKey(e, f) => e = f

(* So much holds whatever the handlers are given.  As long as each gets the *)
(* completions of its own connection, the maps hold every request that is   *)
(* out or about to be posted,                                               *)
RequestInv ==
    /\ \A s \in Senders : pc[s] = "post" => send[s] \in tracked \ (posted \union cqes)
    /\ posted \subseteq tracked /\ cqes \subseteq tracked
    /\ posted \cap cqes = {}

(* and a buffer is free, held by one sender, or tracked once; held and      *)
(* tracked only while its sender is about to post it.                       *)
OwnerInv ==
    /\ \A e \in tracked : e.buf \notin free
    /\ \A e, f \in tracked : e.buf = f.buf => e = f
    /\ \A s \in Senders : pc[s] # "idle" =>
          /\ send[s].buf \notin free
          /\ \A t \in Senders :
                pc[t] # "idle" /\ send[t].buf = send[s].buf => s = t
          /\ \A e \in tracked :
                e.buf = send[s].buf => pc[s] = "post" /\ send[s] = e

LoanInv == RequestInv /\ OwnerInv

Inv == TypeOK /\ SenderInv /\ NumberInv /\ KeyInv /\ (~misrouted => LoanInv)

-----------------------------------------------------------------------------

(* The initial states satisfy the invariant.                                *)
LEMMA InitInv == Init => Inv
<1> SUFFICES ASSUME Init PROVE Inv
  OBVIOUS
<1>1. TypeOK
  <2>1. /\ free \subseteq Buffers /\ inFlight \subseteq Buffers /\ inFlightN \in Int
        /\ tracked \subseteq Entry /\ posted \subseteq Entry /\ cqes \subseteq Entry
    BY DEF Init
  <2>2. lost \subseteq Buffers /\ misrouted \in BOOLEAN
    BY Zenon DEF Init
  <2>3. /\ state \in [Conns -> {"init", "failed", "connected", "closed"}]
        /\ handler \in [CQs -> Conns \union {None}]
        /\ pc \in [Senders -> {"idle", "mark", "send", "number", "track", "post"}]
    BY DEF Init
  <2>4. nextWRID \in [Conns -> 0..MaxWRID]
    BY SendPathAssumption DEF Init
  <2>5. Idle \in [conn : Conns \union {None}, buf : Buffers \union {None},
                  wrid : 0..MaxWRID]
    BY SendPathAssumption DEF Idle
  <2> QED
    BY <2>1, <2>2, <2>3, <2>4, <2>5 DEF Init, TypeOK
<1>2. SenderInv /\ NumberInv
  BY DEF Init, SenderInv, NumberInv
<1>3. KeyInv /\ LoanInv
  BY DEF Init, KeyInv, LoanInv, RequestInv, OwnerInv
<1> QED
  BY <1>1, <1>2, <1>3 DEF Inv

(* Connect and Close change the state of a connection and the table of      *)
(* handlers only, which the invariant does not speak of.                    *)
LEMMA ConnStepInv ==
    ASSUME Inv, NEW c \in Conns, Connect(c) \/ ConnectFails(c) \/ Close(c)
    PROVE  Inv'
<1>1. UNCHANGED <<poolVars, nextWRID, tracked, nicVars, pc, send, history>>
  BY DEF Connect, ConnectFails, Close
<1>2. /\ state' \in [Conns -> {"init", "failed", "connected", "closed"}]
      /\ handler' \in [CQs -> Conns \union {None}]
  BY DEF Connect, ConnectFails, Close, WireSendHandler, Inv, TypeOK
<1>3. TypeOK'
  BY <1>1, <1>2 DEF Inv, TypeOK, poolVars, nicVars, history
<1> QED
  BY <1>1, <1>3 DEF Inv, SenderInv, NumberInv, KeyInv, LoanInv, RequestInv,
     OwnerInv, SameKey, poolVars, nicVars, history

(* A sender that has its WRID has an entry for the handler's map.           *)
LEMMA SenderEntry ==
    ASSUME Inv, NEW s \in Senders, pc[s] \in {"track", "post"}
    PROVE  send[s] \in Entry
<1>1. /\ send[s].conn \in Conns /\ send[s].buf \in Buffers
      /\ send[s].wrid \in 1..nextWRID[send[s].conn]
  BY DEF Inv, SenderInv
<1>2. nextWRID[send[s].conn] \in 0..MaxWRID
  BY <1>1 DEF Inv, TypeOK
<1>3. send[s].wrid \in 1..MaxWRID
  BY <1>1, <1>2, SendPathAssumption
<1> QED BY <1>1, <1>3 DEF Inv, TypeOK, Entry

(* Alloc lends a free buffer.                                               *)
LEMMA AllocInv ==
    ASSUME Inv, NEW s \in Senders, NEW c \in Conns, NEW b \in Buffers, Alloc(s, c, b)
    PROVE  Inv'
<1> USE SendPathAssumption DEF Alloc, Inv, poolVars, connVars, nicVars, history, Goto
<1>1. TypeOK'
  BY DEF TypeOK, Entry
<1>2. SenderInv'
  BY DEF TypeOK, SenderInv, Idle, Entry
<1>3. NumberInv'
  BY DEF TypeOK, SenderInv, NumberInv, SameKey, Entry
<1>4. KeyInv'
  BY DEF TypeOK, KeyInv, SameKey, Entry
<1>5. LoanInv => RequestInv'
  BY DEF TypeOK, SenderInv, LoanInv, RequestInv, Entry
<1>6. LoanInv => OwnerInv'
  BY DEF TypeOK, SenderInv, LoanInv, OwnerInv, Entry
<1> QED BY <1>1, <1>2, <1>3, <1>4, <1>5, <1>6 DEF LoanInv

(* The mark touches the pool's map and counter only.                        *)
LEMMA MarkInFlightInv ==
    ASSUME Inv, NEW s \in Senders, MarkInFlight(s)
    PROVE  Inv'
<1> USE SendPathAssumption DEF MarkInFlight, Inv, poolVars, connVars, nicVars, history, Goto
<1>1. TypeOK'
  <2>1. send[s].buf \in Buffers
    BY DEF SenderInv
  <2> QED BY <2>1 DEF TypeOK, Idle
<1>2. SenderInv'
  BY DEF TypeOK, SenderInv, Idle, Entry
<1>3. NumberInv'
  BY DEF TypeOK, SenderInv, NumberInv, SameKey, Entry
<1>4. KeyInv'
  BY DEF TypeOK, KeyInv, SameKey, Entry
<1>5. LoanInv => RequestInv'
  BY DEF TypeOK, SenderInv, LoanInv, RequestInv, Entry
<1>6. LoanInv => OwnerInv'
  BY DEF TypeOK, SenderInv, LoanInv, OwnerInv, Entry
<1> QED BY <1>1, <1>2, <1>3, <1>4, <1>5, <1>6 DEF LoanInv

(* The test of the state changes nothing but the place.                     *)
LEMMA SendCheckStateInv ==
    ASSUME Inv, NEW s \in Senders, SendCheckState(s)
    PROVE  Inv'
<1> USE SendPathAssumption DEF SendCheckState, Inv, poolVars, connVars, nicVars, history, Goto
<1>1. TypeOK'
  BY DEF TypeOK, Entry
<1>2. SenderInv'
  BY DEF TypeOK, SenderInv, Idle, Entry
<1>3. NumberInv'
  BY DEF TypeOK, SenderInv, NumberInv, SameKey, Entry
<1>4. KeyInv'
  BY DEF TypeOK, KeyInv, SameKey, Entry
<1>5. LoanInv => RequestInv'
  BY DEF TypeOK, SenderInv, LoanInv, RequestInv, Entry
<1>6. LoanInv => OwnerInv'
  BY DEF TypeOK, SenderInv, LoanInv, OwnerInv, Entry
<1> QED BY <1>1, <1>2, <1>3, <1>4, <1>5, <1>6 DEF LoanInv

(* A refused send forgets its buffer.                                       *)
LEMMA SendNotConnectedInv ==
    ASSUME Inv, NEW s \in Senders, SendNotConnected(s)
    PROVE  Inv'
<1> USE SendPathAssumption DEF SendNotConnected, Done, Inv, poolVars, connVars, nicVars, history, Goto
<1>1. TypeOK'
  <2>1. send[s].buf \in Buffers
    BY DEF SenderInv
  <2> QED BY <2>1 DEF TypeOK, Idle
<1>2. SenderInv'
  BY DEF TypeOK, SenderInv, Idle, Entry
<1>3. NumberInv'
  BY DEF TypeOK, SenderInv, NumberInv, SameKey, Entry
<1>4. KeyInv'
  BY DEF TypeOK, KeyInv, SameKey, Entry
<1>5. LoanInv => RequestInv'
  BY DEF TypeOK, SenderInv, LoanInv, RequestInv, Entry
<1>6. LoanInv => OwnerInv'
  BY DEF TypeOK, SenderInv, LoanInv, OwnerInv, Entry
<1> QED BY <1>1, <1>2, <1>3, <1>4, <1>5, <1>6 DEF LoanInv

(* A message that is too large sends its buffer back: nobody else has it.   *)
LEMMA RefuseTooLargeInv ==
    ASSUME Inv, NEW s \in Senders, RefuseTooLarge(s)
    PROVE  Inv'
<1> USE SendPathAssumption DEF RefuseTooLarge, Done, CompleteSend, Inv, poolVars, connVars, nicVars, history, Goto
<1>1. TypeOK'
  <2>1. send[s].buf \in Buffers
    BY DEF SenderInv
  <2> QED BY <2>1 DEF TypeOK, Idle
<1>2. SenderInv'
  BY DEF TypeOK, SenderInv, Idle, Entry
<1>3. NumberInv'
  BY DEF TypeOK, SenderInv, NumberInv, SameKey, Entry
<1>4. KeyInv'
  BY DEF TypeOK, KeyInv, SameKey, Entry
<1>5. LoanInv => RequestInv'
  BY DEF TypeOK, SenderInv, LoanInv, RequestInv, Entry
<1>6. LoanInv => OwnerInv'
  <2> SUFFICES ASSUME LoanInv PROVE OwnerInv'
    OBVIOUS
  <2>1. \A e \in tracked : e.buf # send[s].buf
    BY DEF LoanInv, OwnerInv
  <2>2. \A t \in Senders \ {s} : /\ send'[t] = send[t] /\ pc'[t] = pc[t]
                                 /\ pc[t] # "idle" => send[t].buf # send[s].buf
    BY DEF TypeOK, LoanInv, OwnerInv
  <2>3. pc'[s] = "idle"
    BY DEF TypeOK
  <2> QED BY <2>1, <2>2, <2>3 DEF LoanInv, OwnerInv
<1> QED BY <1>1, <1>2, <1>3, <1>4, <1>5, <1>6 DEF LoanInv

(* The new WRID is above all that were given out on the connection.         *)
LEMMA SendNumberInv ==
    ASSUME Inv, NEW s \in Senders, SendNumber(s)
    PROVE  Inv'
<1> USE SendPathAssumption DEF SendNumber, Inv, poolVars, connVars, nicVars, history, Goto
<1>1. TypeOK'
  <2>1. /\ send[s].conn \in Conns
        /\ nextWRID[send[s].conn] + 1 \in 0..MaxWRID
    BY DEF SenderInv, TypeOK
  <2>2. nextWRID' \in [Conns -> 0..MaxWRID]
    BY <2>1 DEF TypeOK
  <2>3. send' \in [Senders -> [conn : Conns \union {None},
                             buf : Buffers \union {None}, wrid : 0..MaxWRID]]
    BY <2>1 DEF TypeOK
  <2> QED BY <2>2, <2>3 DEF TypeOK
<1>2. SenderInv'
  BY DEF TypeOK, SenderInv, Idle, Entry
<1>3. NumberInv'
  <2> DEFINE n == nextWRID[send[s].conn] + 1
  <2>1. /\ send[s].conn \in Conns /\ n \in Nat
        /\ send'[s].conn = send[s].conn /\ send'[s].wrid = n
        /\ \A t \in Senders \ {s} : send'[t] = send[t] /\ pc'[t] = pc[t]
    BY DEF SenderInv, TypeOK
  <2>2. \A e \in tracked : e.conn = send[s].conn => e.wrid < n
    BY <2>1 DEF KeyInv, TypeOK, Entry
  <2>3. \A t \in Senders : pc[t] = "track" /\ send[t].conn = send[s].conn
                              => send[t].wrid < n
    BY <2>1 DEF SenderInv, TypeOK
  <2>4. /\ \A e \in tracked : ~SameKey(e, send'[s])
        /\ \A t \in Senders \ {s} :
              pc'[t] = "track" => ~SameKey(send'[t], send'[s])
    BY <2>1, <2>2, <2>3 DEF SameKey, TypeOK, Entry
  <2> QED BY <2>1, <2>4 DEF NumberInv, SameKey
<1>4. KeyInv'
  BY DEF TypeOK, SenderInv, KeyInv, SameKey, Entry
<1>5. LoanInv => RequestInv'
  BY DEF TypeOK, SenderInv, LoanInv, RequestInv, Entry
<1>6. LoanInv => OwnerInv'
  BY DEF TypeOK, SenderInv, LoanInv, OwnerInv, Entry
<1> QED BY <1>1, <1>2, <1>3, <1>4, <1>5, <1>6 DEF LoanInv

(* The new entry has a key and a buffer of its own.                         *)
LEMMA TrackSendInv ==
    ASSUME Inv, NEW s \in Senders, TrackSend(s)
    PROVE  Inv'
<1> USE SendPathAssumption DEF TrackSend, Inv, poolVars, connVars, nicVars, history, Goto
<1>1. TypeOK'
  <2>1. send[s] \in Entry
    BY SenderEntry
  <2> QED BY <2>1 DEF TypeOK, Idle
<1>2. SenderInv'
  BY DEF TypeOK, SenderInv, Idle, Entry
<1>3. NumberInv'
  BY DEF TypeOK, SenderInv, NumberInv, SameKey, Entry
<1>4. KeyInv'
  <2>1. \A e \in tracked : ~SameKey(e, send[s])
    BY DEF NumberInv
  <2>2. send[s].wrid <= nextWRID[send[s].conn]
    BY DEF SenderInv, TypeOK
  <2> QED BY <2>1, <2>2 DEF KeyInv, SameKey
<1>5. LoanInv => RequestInv'
  <2> SUFFICES ASSUME LoanInv PROVE RequestInv'
    OBVIOUS
  <2>1. send[s] \notin tracked
    BY DEF NumberInv, SameKey
  <2>2. send[s] \notin posted \union cqes
    BY <2>1 DEF LoanInv, RequestInv
  <2> QED BY <2>2 DEF LoanInv, RequestInv, TypeOK
<1>6. LoanInv => OwnerInv'
  BY DEF TypeOK, SenderInv, LoanInv, OwnerInv, Entry
<1> QED BY <1>1, <1>2, <1>3, <1>4, <1>5, <1>6 DEF LoanInv

(* The request goes to the NIC and the sender forgets it.                   *)
LEMMA PostSendInv ==
    ASSUME Inv, NEW s \in Senders, PostSend(s)
    PROVE  Inv'
<1> USE SendPathAssumption DEF PostSend, Done, Inv, poolVars, connVars, nicVars, history, Goto
<1>1. TypeOK'
  <2>1. send[s] \in Entry
    BY SenderEntry
  <2> QED BY <2>1 DEF TypeOK, Idle
<1>2. SenderInv'
  BY DEF TypeOK, SenderInv, Idle, Entry
<1>3. NumberInv'
  BY DEF TypeOK, SenderInv, NumberInv, SameKey, Entry
<1>4. KeyInv'
  BY DEF TypeOK, KeyInv, SameKey, Entry
<1>5. LoanInv => RequestInv'
  <2> SUFFICES ASSUME LoanInv PROVE RequestInv'
    OBVIOUS
  <2>1. \A t \in Senders \ {s} : pc[t] = "post" => send[t] # send[s]
    BY DEF LoanInv, OwnerInv
  <2>2. \A t \in Senders \ {s} : send'[t] = send[t] /\ pc'[t] = pc[t]
    BY DEF TypeOK
  <2>3. pc'[s] = "idle"
    BY DEF TypeOK
  <2> QED BY <2>1, <2>2, <2>3 DEF LoanInv, RequestInv
<1>6. LoanInv => OwnerInv'
  BY DEF TypeOK, SenderInv, LoanInv, OwnerInv, Entry
<1> QED BY <1>1, <1>2, <1>3, <1>4, <1>5, <1>6 DEF LoanInv

(* The request becomes a completion.                                        *)
LEMMA CompleteInv ==
    ASSUME Inv, NEW w \in posted, Complete(w)
    PROVE  Inv'
<1> USE SendPathAssumption DEF Complete, Inv, poolVars, connVars, nicVars, history, Goto
<1>1. TypeOK'
  BY DEF TypeOK, Entry
<1>2. SenderInv'
  BY DEF TypeOK, SenderInv, Idle, Entry
<1>3. NumberInv'
  BY DEF TypeOK, SenderInv, NumberInv, SameKey, Entry
<1>4. KeyInv'
  BY DEF TypeOK, KeyInv, SameKey, Entry
<1>5. LoanInv => RequestInv'
  BY DEF TypeOK, SenderInv, LoanInv, RequestInv, Entry
<1>6. LoanInv => OwnerInv'
  BY DEF TypeOK, SenderInv, LoanInv, OwnerInv, Entry
<1> QED BY <1>1, <1>2, <1>3, <1>4, <1>5, <1>6 DEF LoanInv

(* The handler of a connection looks a WRID up and finds one entry or none; *)
(* the entry leaves the map, and its buffer goes back to the pool.          *)
LEMMA DoneEffect ==
    ASSUME Inv, NEW c \in Conns, NEW n, OnSendDone(c, n)
    PROVE  /\ tracked' \subseteq tracked
           /\ free' \subseteq Buffers /\ inFlight' \subseteq Buffers
           /\ inFlightN' \in Int
<1>1. tracked \subseteq Entry /\ TypeOK
  BY DEF Inv, TypeOK
<1> QED BY <1>1 DEF OnSendDone, CompleteSend, TypeOK, Entry, poolVars

LEMMA FoundEntry ==
    ASSUME Inv, NEW e \in tracked, OnSendDone(e.conn, e.wrid)
    PROVE  /\ tracked' = tracked \ {e}
           /\ free' = free \union {e.buf}
<1>1. {f \in tracked : f.conn = e.conn /\ f.wrid = e.wrid} = {e}
  BY DEF Inv, KeyInv, SameKey
<1> QED BY <1>1 DEF OnSendDone, CompleteSend

(* A post that fails gives the buffer back on the spot.  No request has the *)
(* entry, and no other sender the buffer.                                   *)
LEMMA PostSendFailsInv ==
    ASSUME Inv, NEW s \in Senders, PostSendFails(s)
    PROVE  Inv'
<1> USE SendPathAssumption
    DEF PostSendFails, Inv, connVars, nicVars, history, Goto, Done
<1>1. send[s] \in Entry
  BY SenderEntry
<1>2. /\ tracked' \subseteq tracked
      /\ free' \subseteq Buffers /\ inFlight' \subseteq Buffers
      /\ inFlightN' \in Int
  BY <1>1, DoneEffect DEF Entry
<1>3. /\ \A t \in Senders \ {s} : send'[t] = send[t] /\ pc'[t] = pc[t]
      /\ send'[s] = Idle /\ pc'[s] = "idle"
  BY DEF TypeOK
<1>4. TypeOK'
  BY <1>2 DEF TypeOK, Idle
<1>5. SenderInv' /\ NumberInv' /\ KeyInv'
  BY <1>2, <1>3 DEF SenderInv, NumberInv, KeyInv
<1>6. LoanInv => LoanInv'
  <2> SUFFICES ASSUME LoanInv PROVE LoanInv'
    OBVIOUS
  <2>1. send[s] \in tracked
    BY DEF LoanInv, RequestInv
  <2>2. tracked' = tracked \ {send[s]} /\ free' = free \union {send[s].buf}
    BY <2>1, FoundEntry
  <2>3. /\ send[s] \notin posted \union cqes
        /\ \A t \in Senders \ {s} :
              pc[t] # "idle" => send[t].buf # send[s].buf
    BY DEF LoanInv, RequestInv, OwnerInv
  <2>4. RequestInv'
    BY <2>2, <2>3, <1>3 DEF LoanInv, RequestInv
  <2>5. OwnerInv'
    BY <2>1, <2>2, <2>3, <1>3 DEF LoanInv, OwnerInv
  <2> QED BY <2>4, <2>5 DEF LoanInv
<1> QED BY <1>4, <1>5, <1>6

(* A completion reaches the handler of its own connection and finds its     *)
(* entry, which no sender is about to post; or it is handed to another's,   *)
(* and nothing is promised from then on.                                    *)
LEMMA DispatchInv ==
    ASSUME Inv, NEW w \in cqes, Dispatch(w)
    PROVE  Inv'
<1> USE SendPathAssumption DEF Dispatch, Inv, connVars
<1>1. w \in Entry /\ handler[CQOf[w.conn]] \in Conns
  BY DEF TypeOK, CQs, Entry
<1>2. /\ tracked' \subseteq tracked
      /\ free' \subseteq Buffers /\ inFlight' \subseteq Buffers
      /\ inFlightN' \in Int
  BY <1>1, DoneEffect
<1>3. TypeOK'
  BY <1>2 DEF TypeOK
<1>4. SenderInv' /\ NumberInv' /\ KeyInv'
  BY <1>2 DEF SenderInv, NumberInv, KeyInv
<1>5. ASSUME ~misrouted' PROVE LoanInv'
  <2>1. LoanInv /\ handler[CQOf[w.conn]] = w.conn
    BY <1>5
  <2>2. w \in tracked
    BY <2>1 DEF LoanInv, RequestInv
  <2>3. tracked' = tracked \ {w} /\ free' = free \union {w.buf}
    BY <2>1, <2>2, FoundEntry
  <2>4. \A t \in Senders :
            pc[t] # "idle" => send[t].buf # w.buf /\ send[t] # w
    BY <2>1, <2>2 DEF LoanInv, RequestInv, OwnerInv
  <2>5. RequestInv'
    BY <2>1, <2>3, <2>4 DEF LoanInv, RequestInv
  <2>6. OwnerInv'
    BY <2>1, <2>2, <2>3, <2>4 DEF LoanInv, OwnerInv
  <2> QED BY <2>5, <2>6 DEF LoanInv
<1> QED BY <1>3, <1>4, <1>5

(* A step that changes nothing.                                             *)
LEMMA StutterInv ==
    ASSUME Inv, UNCHANGED vars
    PROVE  Inv'
<1> USE DEF vars, poolVars, connVars, nicVars, history, Inv
<1>1. TypeOK'
  BY DEF TypeOK
<1> QED
  BY <1>1 DEF SenderInv, NumberInv, KeyInv, LoanInv, RequestInv, OwnerInv, SameKey

-----------------------------------------------------------------------------

(* Every step preserves the invariant.                                      *)
LEMMA NextInv ==
    ASSUME Inv, [Next]_vars
    PROVE  Inv'
<1>1. ASSUME NEW c \in Conns, Connect(c) \/ ConnectFails(c) \/ Close(c)
      PROVE  Inv'
  BY <1>1, ConnStepInv
<1>2. ASSUME NEW s \in Senders, SendStep(s)
      PROVE  Inv'
  BY <1>2, MarkInFlightInv, RefuseTooLargeInv, SendCheckStateInv, SendNotConnectedInv,
     SendNumberInv, TrackSendInv, PostSendInv, PostSendFailsInv DEF SendStep
<1>3. ASSUME NEW s \in Senders, NEW c \in Conns, NEW b \in Buffers,
             Alloc(s, c, b)
      PROVE  Inv'
  BY <1>3, AllocInv
<1>4. ASSUME NEW w \in posted, Complete(w)
      PROVE  Inv'
  BY <1>4, CompleteInv
<1>5. ASSUME NEW w \in cqes, Dispatch(w)
      PROVE  Inv'
  BY <1>5, DispatchInv
<1>6. CASE UNCHANGED vars
  BY <1>6, StutterInv
<1> QED BY <1>1, <1>2, <1>3, <1>4, <1>5, <1>6 DEF Next

(* The invariant holds in every reachable state.                            *)
THEOREM Invariance == Spec => []Inv
<1>1. Inv /\ [Next]_vars => Inv'
  BY NextInv
<1> QED BY <1>1, InitInv, PTL DEF Spec

(* The state of the send path keeps its type.                               *)
THEOREM TypeCorrect == Spec => []TypeOK
<1>1. Inv => TypeOK
  BY DEF Inv
<1> QED BY <1>1, Invariance, PTL

(* No buffer has two users: a free buffer is nobody's, and while the NIC    *)
(* may read a buffer no sender writes to it, until a completion is handed   *)
(* to the handler of another connection.                                    *)
THEOREM BufferHasOneUser == Spec => []OneUser
<1>1. Inv => OneUser
  <2> SUFFICES ASSUME Inv, ~misrouted, NEW b \in Buffers
      PROVE  /\ b \in free => HeldBy(b) = {} /\ RequestsOf(b) = {}
             /\ HeldBy(b) # {} => RequestsOf(b) = {}
             /\ \A s1, s2 \in HeldBy(b) : s1 = s2
             /\ \A w1, w2 \in RequestsOf(b) : w1 = w2
    BY DEF OneUser, UsersAgree
  <2> USE DEF LoanInv
  <2>1. \A s \in HeldBy(b) : s \in Senders /\ pc[s] # "idle" /\ send[s].buf = b
    BY SendPathAssumption DEF HeldBy, Inv, SenderInv, Idle
  <2>2. \A w \in RequestsOf(b) : w \in tracked /\ w.buf = b
    BY DEF RequestsOf, Inv, RequestInv
  <2>3. \A s \in HeldBy(b) : RequestsOf(b) = {}
    BY <2>1, <2>2 DEF RequestsOf, Inv, OwnerInv, RequestInv
  <2> QED BY <2>1, <2>2, <2>3 DEF Inv, OwnerInv
<1> QED BY <1>1, Invariance, PTL

-----------------------------------------------------------------------------
(* The refinement of BufferLoan.                                            *)

Requested(b, requests) == \E w \in requests : w.buf = b

(* Where a buffer is, case by case: under the invariant the cases of Place  *)
(* exclude each other.                                                      *)
LEMMA PlaceCases ==
    ASSUME Inv, ~misrouted, NEW b \in Buffers
    PROVE  Place(b) = IF Requested(b, posted) THEN "nic"
                      ELSE IF Requested(b, cqes) THEN "done"
                      ELSE IF b \in free THEN "pool" ELSE "sender"
<1>1. /\ Requested(b, posted) => ~Requested(b, cqes) /\ b \notin free
      /\ Requested(b, cqes) => b \notin free
  BY DEF Inv, LoanInv, RequestInv, OwnerInv, Requested
<1> QED BY <1>1 DEF Place, Requested

LEMMA PlaceCasesNext ==
    ASSUME Inv', ~misrouted', NEW b \in Buffers
    PROVE  Place(b)' = IF Requested(b, posted') THEN "nic"
                       ELSE IF Requested(b, cqes') THEN "done"
                       ELSE IF b \in free' THEN "pool" ELSE "sender"
<1>1. /\ Requested(b, posted') => ~Requested(b, cqes') /\ b \notin free'
      /\ Requested(b, cqes') => b \notin free'
  BY DEF Inv, LoanInv, RequestInv, OwnerInv, Requested
<1> QED BY <1>1 DEF Place, Requested

place == [b \in Buffers |-> Place(b)]

(* A step that moves one buffer, seen from BufferLoan.                      *)
LEMMA MoveStep ==
    ASSUME Inv, ~misrouted, Inv', ~misrouted', NEW b \in Buffers, NEW from, NEW to,
           Place(b) = from, Place(b)' = to,
           \A d \in Buffers \ {b} : Place(d)' = Place(d)
    PROVE  Loan!Move(b, from, to)
<1>1. misrouted' = misrouted
  BY Zenon DEF Inv, TypeOK
<1> QED BY <1>1 DEF Loan!Move, place

(* A step that moves none.                                                  *)
LEMMA StayStep ==
    ASSUME free' = free, posted' = posted, cqes' = cqes, misrouted' = misrouted
    PROVE  UNCHANGED Loan!loanVars
<1>1. \A b \in Buffers : Place(b)' = Place(b)
  BY DEF Place
<1> QED BY <1>1 DEF Loan!loanVars, place

(* Wherever the buffers are after a completion has gone astray, it is one   *)
(* of the places there are.                                                 *)
LEMMA StrayStep ==
    ASSUME misrouted'
    PROVE  Loan!Misroute
<1>1. misrouted' = TRUE
  OBVIOUS
<1>2. place' \in [Buffers -> Loan!Places]
  BY DEF place, Place, Loan!Places
<1> QED BY <1>1, <1>2 DEF Loan!Misroute, place

(* Alloc lends a buffer.                                                    *)
LEMMA AllocLends ==
    ASSUME Inv, ~misrouted, Inv', ~misrouted', NEW s \in Senders, NEW c \in Conns, NEW b \in Buffers,
           Alloc(s, c, b)
    PROVE  Loan!Lend(b)
<1>1. /\ b \in free /\ free' = free \ {b}
      /\ posted' = posted /\ cqes' = cqes
  BY DEF Alloc, nicVars
<1>2. ~Requested(b, posted) /\ ~Requested(b, cqes)
  BY <1>1 DEF Inv, LoanInv, RequestInv, OwnerInv, Requested
<1>3. Place(b) = "pool" /\ Place(b)' = "sender"
  BY <1>1, <1>2, PlaceCases, PlaceCasesNext
<1>4. \A d \in Buffers \ {b} : Place(d)' = Place(d)
  BY <1>1, PlaceCases, PlaceCasesNext
<1> QED BY <1>3, <1>4, MoveStep DEF Loan!Lend

(* PostSend hands it to the NIC.                                            *)
LEMMA PostSendPosts ==
    ASSUME Inv, ~misrouted, Inv', ~misrouted', NEW s \in Senders, NEW b \in Buffers,
           send[s].buf = b, PostSend(s)
    PROVE  Loan!Post(b)
<1>1. /\ posted' = posted \union {send[s]}
      /\ free' = free /\ cqes' = cqes /\ pc[s] = "post"
  BY DEF PostSend, poolVars, Goto
<1>2. /\ b \notin free /\ send[s] \in tracked
      /\ send[s] \notin posted \union cqes
  BY <1>1 DEF Inv, LoanInv, RequestInv, OwnerInv
<1>3. ~Requested(b, posted) /\ ~Requested(b, cqes)
  BY <1>2 DEF Inv, LoanInv, RequestInv, OwnerInv, Requested
<1>4. Requested(b, posted')
  BY <1>1 DEF Requested
<1>5. \A d \in Buffers \ {b} : Requested(d, posted') <=> Requested(d, posted)
  BY <1>1 DEF Requested
<1>6. Place(b) = "sender" /\ Place(b)' = "nic"
  BY <1>2, <1>3, <1>4, PlaceCases, PlaceCasesNext
<1>7. \A d \in Buffers \ {b} : Place(d)' = Place(d)
  BY <1>1, <1>5, PlaceCases, PlaceCasesNext
<1> QED BY <1>6, <1>7, MoveStep DEF Loan!Post

(* A post that fails gives it back.                                         *)
LEMMA PostSendFailsGivesBack ==
    ASSUME Inv, ~misrouted, Inv', ~misrouted', NEW s \in Senders, NEW b \in Buffers,
           send[s].buf = b, PostSendFails(s)
    PROVE  Loan!GiveBack(b)
<1>1. /\ posted' = posted /\ cqes' = cqes /\ pc[s] = "post"
      /\ OnSendDone(send[s].conn, send[s].wrid)
  BY DEF PostSendFails, nicVars, Goto
<1>2. /\ b \notin free /\ send[s] \in tracked
      /\ send[s] \notin posted \union cqes
  BY <1>1 DEF Inv, LoanInv, RequestInv, OwnerInv
<1>3. free' = free \union {b}
  BY <1>1, <1>2, FoundEntry
<1>4. ~Requested(b, posted) /\ ~Requested(b, cqes)
  BY <1>2 DEF Inv, LoanInv, RequestInv, OwnerInv, Requested
<1>5. Place(b) = "sender" /\ Place(b)' = "pool"
  BY <1>1, <1>2, <1>3, <1>4, PlaceCases, PlaceCasesNext
<1>6. \A d \in Buffers \ {b} : Place(d)' = Place(d)
  BY <1>1, <1>3, PlaceCases, PlaceCasesNext
<1> QED BY <1>5, <1>6, MoveStep DEF Loan!GiveBack

(* A message that is too large does, too.                                   *)
LEMMA RefuseGivesBack ==
    ASSUME Inv, ~misrouted, Inv', ~misrouted', NEW s \in Senders, NEW b \in Buffers,
           send[s].buf = b, RefuseTooLarge(s)
    PROVE  Loan!GiveBack(b)
<1>1. /\ posted' = posted /\ cqes' = cqes /\ pc[s] = "send"
      /\ free' = free \union {b}
  BY DEF RefuseTooLarge, CompleteSend, nicVars, Goto
<1>2. b \notin free /\ \A e \in tracked : e.buf # b
  BY <1>1 DEF Inv, LoanInv, OwnerInv
<1>3. ~Requested(b, posted) /\ ~Requested(b, cqes)
  BY <1>2 DEF Inv, LoanInv, RequestInv, Requested
<1>4. Place(b) = "sender" /\ Place(b)' = "pool"
  BY <1>1, <1>2, <1>3, PlaceCases, PlaceCasesNext
<1>5. \A d \in Buffers \ {b} : Place(d)' = Place(d)
  BY <1>1, PlaceCases, PlaceCasesNext
<1> QED BY <1>4, <1>5, MoveStep DEF Loan!GiveBack

(* The NIC completes the request.                                           *)
LEMMA CompleteCompletes ==
    ASSUME Inv, ~misrouted, Inv', ~misrouted', NEW w \in posted, Complete(w)
    PROVE  Loan!Complete(w.buf)
<1> DEFINE b == w.buf
<1>1. /\ posted' = posted \ {w} /\ cqes' = cqes \union {w}
      /\ free' = free
  BY DEF Complete, poolVars
<1>2. b \in Buffers /\ \A v \in posted : v.buf = b => v = w
  BY DEF Inv, TypeOK, LoanInv, RequestInv, OwnerInv, Entry
<1>3. /\ Requested(b, posted) /\ ~Requested(b, posted')
      /\ Requested(b, cqes')
  BY <1>1, <1>2 DEF Requested
<1>4. \A d \in Buffers \ {b} : /\ Requested(d, posted') <=> Requested(d, posted)
                               /\ Requested(d, cqes') <=> Requested(d, cqes)
  BY <1>1 DEF Requested
<1>5. Place(b) = "nic" /\ Place(b)' = "done"
  BY <1>2, <1>3, PlaceCases, PlaceCasesNext
<1>6. \A d \in Buffers \ {b} : Place(d)' = Place(d)
  BY <1>1, <1>4, PlaceCases, PlaceCasesNext
<1> QED BY <1>2, <1>5, <1>6, MoveStep DEF Loan!Complete

(* The handler releases it.                                                 *)
LEMMA DispatchReleases ==
    ASSUME Inv, ~misrouted, Inv', ~misrouted', NEW w \in cqes, Dispatch(w)
    PROVE  Loan!Release(w.buf)
<1> DEFINE b == w.buf
<1>1. /\ cqes' = cqes \ {w} /\ posted' = posted
      /\ OnSendDone(handler[CQOf[w.conn]], w.wrid)
  BY DEF Dispatch
<1>2. w \in tracked /\ w \in Entry /\ b \in Buffers /\ b \notin free
  BY DEF Inv, LoanInv, RequestInv, OwnerInv, TypeOK, Entry
<1>3. handler[CQOf[w.conn]] = w.conn
  BY DEF Dispatch
<1>4. free' = free \union {b}
  BY <1>1, <1>2, <1>3, FoundEntry
<1>5. \A v \in posted \union cqes : v.buf = b => v = w
  BY <1>2 DEF Inv, LoanInv, RequestInv, OwnerInv
<1>6. /\ ~Requested(b, posted) /\ Requested(b, cqes)
      /\ ~Requested(b, cqes')
  BY <1>1, <1>5 DEF Requested, Inv, LoanInv, RequestInv
<1>7. \A d \in Buffers \ {b} : Requested(d, cqes') <=> Requested(d, cqes)
  BY <1>1 DEF Requested
<1>8. Place(b) = "done" /\ Place(b)' = "pool"
  BY <1>1, <1>2, <1>4, <1>6, PlaceCases, PlaceCasesNext
<1>9. \A d \in Buffers \ {b} : Place(d)' = Place(d)
  BY <1>1, <1>4, <1>7, PlaceCases, PlaceCasesNext
<1> QED BY <1>2, <1>8, <1>9, MoveStep DEF Loan!Release

(* Every step is a step of BufferLoan or moves no buffer.                   *)
LEMMA LoanStep ==
    ASSUME Inv, Inv', [Next]_vars
    PROVE  [Loan!Next]_(Loan!loanVars)
<1>0. CASE misrouted'
  BY <1>0, StrayStep DEF Loan!Next
<1> SUFFICES ASSUME ~misrouted'
             PROVE  Loan!Next \/ UNCHANGED Loan!loanVars
  BY <1>0
<1>a. ~misrouted
  BY DEF Next, SendStep, Connect, ConnectFails, Close, MarkInFlight, RefuseTooLarge,
     SendCheckState, SendNotConnected, SendNumber, TrackSend, PostSend, PostSendFails,
     Alloc, Complete, Dispatch, history, vars
<1>1. ASSUME NEW c \in Conns, Connect(c) \/ ConnectFails(c) \/ Close(c)
      PROVE  UNCHANGED Loan!loanVars
  BY <1>1, StayStep DEF Connect, ConnectFails, Close, poolVars, nicVars, history
<1>2. ASSUME NEW s \in Senders,
             \/ MarkInFlight(s) \/ SendCheckState(s) \/ SendNotConnected(s)
             \/ SendNumber(s) \/ TrackSend(s)
      PROVE  UNCHANGED Loan!loanVars
  BY <1>2, StayStep DEF MarkInFlight, SendCheckState, SendNotConnected,
     SendNumber, TrackSend, poolVars, nicVars, history
<1>3. ASSUME NEW s \in Senders, PostSend(s) \/ PostSendFails(s) \/ RefuseTooLarge(s)
      PROVE  Loan!Next
  <2>1. send[s].buf \in Buffers
    BY <1>3 DEF PostSend, PostSendFails, RefuseTooLarge, Goto, Inv, SenderInv
  <2> QED
    BY <1>3, <1>a, <2>1, PostSendPosts, PostSendFailsGivesBack, RefuseGivesBack DEF Loan!Next
<1>4. ASSUME NEW s \in Senders, NEW c \in Conns, NEW b \in Buffers,
             Alloc(s, c, b)
      PROVE  Loan!Next
  BY <1>4, <1>a, AllocLends DEF Loan!Next
<1>5. ASSUME NEW w \in posted, Complete(w)
      PROVE  Loan!Next
  BY <1>5, <1>a, CompleteCompletes DEF Loan!Next, Inv, TypeOK, Entry
<1>6. ASSUME NEW w \in cqes, Dispatch(w)
      PROVE  Loan!Next
  BY <1>6, <1>a, DispatchReleases DEF Loan!Next, Inv, TypeOK, Entry
<1>7. CASE UNCHANGED vars
  BY <1>7, StayStep DEF vars, poolVars, nicVars, history
<1> QED BY <1>1, <1>2, <1>3, <1>4, <1>5, <1>6, <1>7 DEF Next, SendStep

(* The send path implements BufferLoan.                                     *)
THEOREM SendPathImplementsLoan == Spec => ImplementsLoan
<1>1. Init => Loan!Init
  <2> SUFFICES ASSUME Init PROVE Loan!Init
    OBVIOUS
  <2>1. ~misrouted /\ misrouted = FALSE
    BY DEF Init
  <2>2. \A b \in Buffers : Place(b) = "pool"
    BY <2>1, InitInv, PlaceCases DEF Init, Requested
  <2> QED BY <2>1, <2>2 DEF Loan!Init
<1>2. Inv /\ Inv' /\ [Next]_vars => [Loan!Next]_(Loan!loanVars)
  BY LoanStep
<1> QED BY <1>1, <1>2, Invariance, PTL DEF Spec, ImplementsLoan, Loan!Spec, place, Loan!loanVars
=============================================================================
