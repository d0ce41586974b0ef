----------------------------- MODULE MCRecvPath -----------------------------
(* Small instances of RecvPath.  Two connections, each of a manager of its  *)
(* own with its own RecvCQ, or both of one manager, or one with the pool    *)
(* for itself; a dialer builds the queue pair on the queue it is given, as  *)
(* the interface has it, or on one of its own, as RealCMDialer does.        *)
(* Batches with two messages, and with an empty one.                        *)
EXTENDS RecvPath

MCConns == {"conn1", "conn2"}
OwnQueue == [c \in MCConns |-> c]
SharedQueue == [c \in MCConns |-> "recvCQ"]
OneBusyPeer == [c \in MCConns |-> IF c = "conn1" THEN 2 ELSE 1]
MCBatches == {<<1, 1>>, <<0>>}

Alone == {"conn1"}
AloneQueue == [c \in Alone |-> c]
ManagerQueue == [c \in Alone |-> "recvCQ"]
AloneBatches == [c \in Alone |-> 3]
=============================================================================
