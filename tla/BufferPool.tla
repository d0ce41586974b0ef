----------------------------- MODULE BufferPool -----------------------------
(***************************************************************************)
(* pkg/buffer/pool.go: NewPool, and Alloc, Free and Close called by        *)
(* different goroutines.  Alloc and Free look at the closed flag and then  *)
(* use the channel freeCh, in two steps; Close sets the flag, closes the   *)
(* channel, drains it, and releases every buffer one after the other.  A   *)
(* NewPool that fails half-way runs the same two loops over what it has.   *)
(***************************************************************************)
EXTENDS FiniteSets

CONSTANTS
    Buffers,        \* the buffers NewPool is to make
    Users,          \* goroutines that call Alloc and Free
    None,           \* no buffer
    DeregErrors     \* DeregMR may fail

ASSUME BufferPoolAssumption ==
    /\ IsFiniteSet(Buffers)
    /\ None \notin Buffers
    /\ DeregErrors \in BOOLEAN

VARIABLES
    pool,       \* "building", "open", or where cleanup or Close is
    allocated,  \* buffers whose memory is allocated
    registered, \* buffers with a memory region at the NIC
    allBuffers, \* p.allBuffers; in a release loop, what it has not done
    freeCh,     \* buffers in the channel
    callPc,     \* what each user is doing
    held,       \* the buffer each user has
    last,       \* how the user's last call ended (history)
    calm,       \* no call was running when Close set the flag (history)
    stuck       \* buffers DeregMR has failed for (history)

memVars == <<allocated, registered, allBuffers>>
userVars == <<callPc, held, last>>
history == <<calm, stuck>>
poolVars == <<pool, memVars, freeCh, userVars, history>>

PoolInit ==
    /\ pool = "building"
    /\ allocated = {} /\ registered = {} /\ allBuffers = {} /\ freeCh = {}
    /\ callPc = [u \in Users |-> "idle"]
    /\ held = [u \in Users |-> None]
    /\ last = [u \in Users |-> "none"]
    /\ calm = TRUE /\ stuck = {}

(* Mutant: the closed flag is set after the channel is closed and drained.  *)
ClosedLate == pool \in {"release", "closed"}

(* p.closed, and whether freeCh is closed.                                  *)
Closed == pool \in {"swapped", "drain", "release", "closed"}
ChannelClosed == pool \in {"drain", "release", "closed"}

-----------------------------------------------------------------------------
(* NewPool: memory, then a memory region, for one buffer after the other.   *)

Allocate(b) ==
    /\ pool = "building"
    /\ allocated \subseteq registered /\ b \notin allocated
    /\ allocated' = allocated \union {b}
    /\ UNCHANGED <<pool, registered, allBuffers, freeCh, userVars, history>>

Register(b) ==
    /\ pool = "building"
    /\ b \in allocated \ registered
    /\ registered' = registered \union {b}
    /\ allBuffers' = allBuffers \union {b}
    /\ freeCh' = freeCh \union {b}
    /\ UNCHANGED <<pool, allocated, userVars, history>>

Built ==
    /\ pool = "building"
    /\ registered = Buffers
    /\ pool' = "open"
    /\ UNCHANGED <<memVars, freeCh, userVars, history>>

AllocateFails ==
    /\ pool = "building"
    /\ allocated \subseteq registered /\ allocated # Buffers
    /\ pool' = "undoDrain"
    /\ UNCHANGED <<memVars, freeCh, userVars, history>>

(* Mutant: freeBuffer is forgotten on the way out.                          *)
RegisterFailsKeeps(b) ==
    /\ pool = "building"
    /\ b \in allocated \ registered
    /\ pool' = "undoDrain"
    /\ UNCHANGED <<memVars, freeCh, userVars, history>>

(* The buffer at hand is not in allBuffers, where cleanup looks: its memory *)
(* goes first.                                                              *)
RegisterFails(b) ==
    /\ pool = "building"
    /\ b \in allocated \ registered
    /\ allocated' = allocated \ {b}
    /\ pool' = "undoDrain"
    /\ UNCHANGED <<registered, allBuffers, freeCh, userVars, history>>

-----------------------------------------------------------------------------
(* The loops cleanup and Close share.                                       *)

DrainChannel(at, next) ==
    /\ pool = at
    /\ IF freeCh = {}
       THEN pool' = next /\ freeCh' = freeCh
       ELSE pool' = pool /\ \E b \in freeCh : freeCh' = freeCh \ {b}
    /\ UNCHANGED <<memVars, userVars, history>>

(* DeregMR; its error stops neither loop.                                   *)
Deregister(b) ==
    /\ b \in registered \ stuck
    /\ \/ registered' = registered \ {b} /\ stuck' = stuck
       \/ DeregErrors /\ stuck' = stuck \union {b} /\ registered' = registered
    /\ UNCHANGED <<allocated, allBuffers>>

FreeMemory(b) ==
    /\ b \notin registered \ stuck
    /\ allocated' = allocated \ {b}
    /\ allBuffers' = allBuffers \ {b}
    /\ UNCHANGED <<registered, stuck>>

(* One buffer is done with before the next one's turn.                      *)
ReleaseOne(at) ==
    /\ pool = at
    /\ \E b \in allBuffers :
          /\ allBuffers \ {b} \subseteq registered \ stuck
          /\ Deregister(b) \/ FreeMemory(b)
    /\ UNCHANGED <<pool, freeCh, userVars, calm>>

ReleaseEnds(at, next) ==
    /\ pool = at
    /\ allBuffers = {}
    /\ pool' = next
    /\ UNCHANGED <<memVars, freeCh, userVars, history>>

Cleanup ==
    \/ DrainChannel("undoDrain", "undoRelease")
    \/ ReleaseOne("undoRelease")
    \/ ReleaseEnds("undoRelease", "failed")

-----------------------------------------------------------------------------
(* Alloc and Free.                                                          *)

Call(u, from, to) ==
    /\ pool \in {"open", "swapped", "drain", "release", "closed"}
    /\ callPc[u] = from
    /\ callPc' = [callPc EXCEPT ![u] = to]

End(u, result) == last' = [last EXCEPT ![u] = result]

AllocCheck(u) ==
    /\ held[u] = None
    /\ IF Closed
       THEN Call(u, "idle", "idle") /\ End(u, "ErrPoolClosed")
       ELSE Call(u, "idle", "alloc") /\ last' = last
    /\ UNCHANGED <<pool, memVars, freeCh, held, history>>

(* The receive: a buffer, the zero value of a closed channel, or a timeout. *)
AllocReceive(u) ==
    /\ Call(u, "alloc", "idle")
    /\ \/ \E b \in freeCh :
             /\ freeCh' = freeCh \ {b}
             /\ held' = [held EXCEPT ![u] = b]
             /\ End(u, "buffer")
       \/ /\ ChannelClosed /\ freeCh = {}
          /\ End(u, "nil")
          /\ UNCHANGED <<freeCh, held>>
       \/ End(u, "ErrPoolExhausted") /\ UNCHANGED <<freeCh, held>>
    /\ UNCHANGED <<pool, memVars, history>>

FreeCheck(u) ==
    /\ held[u] # None
    /\ IF Closed
       THEN Call(u, "idle", "idle") /\ held' = [held EXCEPT ![u] = None]
       ELSE Call(u, "idle", "free") /\ held' = held
    /\ UNCHANGED <<pool, memVars, freeCh, last, history>>

(* Mutant: the caller goes on using a buffer it has freed.                  *)
FreeSendKeeps(u) ==
    /\ Call(u, "free", "idle")
    /\ freeCh' = freeCh \union {held[u]}
    /\ UNCHANGED <<pool, memVars, held, last, history>>

(* The send panics on a closed channel.                                     *)
FreeSend(u) ==
    /\ Call(u, "free", IF ChannelClosed THEN "panicked" ELSE "idle")
    /\ freeCh' = IF ChannelClosed THEN freeCh ELSE freeCh \union {held[u]}
    /\ held' = [held EXCEPT ![u] = None]
    /\ UNCHANGED <<pool, memVars, last, history>>

-----------------------------------------------------------------------------
(* Close.  A second call returns at once.                                   *)

CloseSwap ==
    /\ pool = "open"
    /\ pool' = "swapped"
    /\ calm' = \A u \in Users : callPc[u] = "idle"
    /\ UNCHANGED <<memVars, freeCh, userVars, stuck>>

CloseChannel ==
    /\ pool = "swapped"
    /\ pool' = "drain"
    /\ UNCHANGED <<memVars, freeCh, userVars, history>>

Close ==
    \/ CloseSwap \/ CloseChannel
    \/ DrainChannel("drain", "release")
    \/ ReleaseOne("release")
    \/ ReleaseEnds("release", "closed")

PoolNext ==
    \/ \E b \in Buffers : Allocate(b) \/ Register(b) \/ RegisterFails(b)
    \/ Built \/ AllocateFails \/ Cleanup \/ Close
    \/ \E u \in Users :
          AllocCheck(u) \/ AllocReceive(u) \/ FreeCheck(u) \/ FreeSend(u)

PoolSpec == PoolInit /\ [][PoolNext]_poolVars

-----------------------------------------------------------------------------

PoolTypeOK ==
    /\ pool \in {"building", "undoDrain", "undoRelease", "failed", "open",
                 "swapped", "drain", "release", "closed"}
    /\ allocated \subseteq Buffers /\ registered \subseteq Buffers
    /\ allBuffers \subseteq Buffers /\ freeCh \subseteq Buffers
    /\ callPc \in [Users -> {"idle", "alloc", "free", "panicked"}]
    /\ held \in [Users -> Buffers \union {None}]
    /\ calm \in BOOLEAN /\ stuck \subseteq Buffers
    /\ last \in [Users -> {"none", "buffer", "nil", "ErrPoolClosed",
                           "ErrPoolExhausted"}]

(* The memory under a memory region is allocated: the NIC never has a       *)
(* registration for memory that was given back, unless DeregMR failed and   *)
(* the loop of cleanup or Close gave the memory back all the same.          *)
RegionHasMemory == registered \subseteq allocated \union stuck

(* A buffer has one place: the channel or one user.                         *)
OneOwner ==
    \A u \in Users : held[u] # None =>
        /\ held[u] \notin freeCh
        /\ \A v \in Users : held[v] = held[u] => v = u

(* A pool that could not be built, at whichever buffer and call it failed,  *)
(* or is closed, keeps nothing, not even the buffers that were out when     *)
(* Close ran; only a registration DeregMR has failed for is left.           *)
NothingKept ==
    pool \in {"failed", "closed"} =>
        allocated = {} /\ registered \subseteq stuck /\ freeCh = {}

(* Unless Close comes while it is running, a call of Alloc returns a buffer *)
(* or an error and a call of Free returns: no nil, no panic.                *)
CallsEndWell ==
    calm => \A u \in Users : last[u] # "nil" /\ callPc[u] # "panicked"
=============================================================================
