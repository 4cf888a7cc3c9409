------------------------- MODULE MCEvidencePipeline -------------------------
(* Two modules report on two time windows: each has detections of its own, *)
(* both write the window shared and only one writes private.  scan and     *)
(* self name a destination, login the source; the destination of self is   *)
(* the profile's own address and one of ours.  scan and login together     *)
(* reach the threshold exactly.  login is whitelisted in shared.           *)
EXTENDS EvidencePipeline

CONSTANTS m1, m2, private, shared, scan, login, self, attacker, victim

MCProfileIP == [pt \in ProfTW |-> attacker]
MCDetection == [d \in Desc |-> IF d = login THEN "srcip" ELSE "dstip"]
MCInfoIP == [d \in Desc |-> IF d = self THEN attacker ELSE victim]
MCInside == {<<ip, ip>> : ip \in IP}
MCThreatLevel == [d \in Desc |-> IF d = login THEN "low" ELSE "high"]
MCConfidence == [d \in Desc |-> 10]
MCWhitelisted == {<<shared, login>>}
MCBeat == [r \in Reporter |->
             IF r = m1 THEN ({private} \X Desc) \cup {<<shared, scan>>}
             ELSE {<<shared, login>>, <<shared, self>>}]
=============================================================================
