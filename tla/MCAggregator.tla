---------------------------- MODULE MCAggregator ----------------------------
(* Message sizes for TLC.  With a header of 1, a buffer of 6 and a threshold *)
(* of 5 the first message fits no buffer, the second and third overflow one, *)
(* and the fourth passes the threshold together with either of them.         *)
EXTENDS Aggregator

MixedSizes == <<6, 3, 3, 2>>
=============================================================================
