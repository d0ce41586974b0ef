---------------------------- MODULE PollerConfig ----------------------------
(* The settings of PollerConfig in pkg/cq/poller.go that the loops of a     *)
(* poller share, and the depth of the queues they poll.                     *)
EXTENDS Integers

CONSTANTS
    MaxBatchSize,   \* completions one poll returns at most
    SpinCount,      \* empty polls in a row before a smart loop arms or blocks
    CQDepth         \* entries of a hardware queue

ASSUME PollerConfigAssumption ==
    /\ MaxBatchSize \in Nat \ {0}
    /\ SpinCount \in Nat \ {0}
    /\ CQDepth \in Nat \ {0}
=============================================================================
