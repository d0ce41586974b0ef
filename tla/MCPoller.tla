------------------------------ MODULE MCPoller ------------------------------
(* Instances of Poller.  Every mode is free to take the races it stands:    *)
(* all of them that the parent context is cancelled, event and smart mode   *)
(* that ReqNotify fails, smart mode also those that leak descriptors and do *)
(* no other harm, and the modes without waiters all but Close before Start. *)
EXTENDS Poller

StoodRaces ==
    [m \in Modes |->
        CASE m = "event" -> {"parentCancel", "armError"}
          [] m = "smart" -> {"closeDuringStart", "addAfterClose", "parentCancel",
                             "armError"}
          [] OTHER -> {"addDuringStart", "addAfterClose", "closeDuringStart",
                       "parentCancel"}]

AddRace == [m \in Modes |-> IF m = "event" THEN {"addDuringStart"} ELSE {}]

CancelRace == [m \in Modes |-> {"parentCancel"}]
=============================================================================
