----------------------------- MODULE BufferLoan -----------------------------
(***************************************************************************)
(* What the send path promises about every registered send buffer: it is   *)
(* in the pool, lent to one sender, or owned by the NIC until its own send *)
(* request has completed.  It never goes to a new sender from anywhere but *)
(* the pool, and never back to the pool while the NIC may still read it.   *)
(*                                                                         *)
(* The promise holds on a condition: each completion is handed to the      *)
(* handler of its own connection.  From the step that breaks it on the     *)
(* buffers may be anywhere.                                                *)
(***************************************************************************)
CONSTANT Buffers

VARIABLES
    place,      \* where each buffer is
    misrouted   \* a completion has been handed to another's handler

loanVars == <<place, misrouted>>
Places == {"pool", "sender", "nic", "done"}

Init == place = [b \in Buffers |-> "pool"] /\ misrouted = FALSE

Move(b, from, to) ==
    /\ place[b] = from
    /\ place' = [place EXCEPT ![b] = to]
    /\ UNCHANGED misrouted

Lend(b) == Move(b, "pool", "sender")      \* AcquireForSend
Post(b) == Move(b, "sender", "nic")       \* PostSend
GiveBack(b) == Move(b, "sender", "pool")  \* the send was refused
Complete(b) == Move(b, "nic", "done")     \* the NIC is through with it
Release(b) == Move(b, "done", "pool")     \* CompleteSend

Misroute == misrouted' = TRUE /\ place' \in [Buffers -> Places]

Next ==
    \/ \E b \in Buffers :
          Lend(b) \/ Post(b) \/ GiveBack(b) \/ Complete(b) \/ Release(b)
    \/ Misroute

Spec == Init /\ [][Next]_loanVars
=============================================================================
