----------------------------- MODULE MCSendPath -----------------------------
(* Small instances of SendPath.  Two connections, each of a manager of its  *)
(* own with its own SendCQ, or both of one manager; a dialer builds the     *)
(* queue pair on the queue it is given, as the interface has it, or on one  *)
(* of its own, as RealCMDialer does.                                        *)
EXTENDS SendPath

MCConns == {"conn1", "conn2"}
OwnQueue == [c \in MCConns |-> c]
SharedQueue == [c \in MCConns |-> "cq"]
=============================================================================
