------------------------------ MODULE Detectors ------------------------------
(***************************************************************************)
(* The detectors that keep state of their own, side by side: the two       *)
(* halves of flowalerts, arp with ip_info, and threat_intelligence with    *)
(* update_manager.  They are processes that share no state among them, so  *)
(* a step of one of them leaves the others as they are.                    *)
(***************************************************************************)
EXTENDS FlowAlerts, FlowThresholds, Arp, ThreatFeeds

detectorVars == <<vars, thresholdVars, arpVars, feedVars>>

DetectorsInit == Init /\ ThresholdInit /\ ArpInit /\ FeedsInit

DetectorsNext ==
    \/ Next /\ UNCHANGED <<thresholdVars, arpVars, feedVars>>
    \/ ThresholdNext /\ UNCHANGED <<vars, arpVars, feedVars>>
    \/ ArpNext /\ UNCHANGED <<vars, thresholdVars, feedVars>>
    \/ FeedsNext /\ UNCHANGED <<vars, thresholdVars, arpVars>>

DetectorsSpec == DetectorsInit /\ [][DetectorsNext]_detectorVars

(* The types of everything the detectors keep: the caches and threads of   *)
(* flowalerts.py, the caches of arp.py, the addresses of each MAC, and the *)
(* indicators with the round of update_file_manager.py.                    *)
DetectorsTypeOK == FlowAlertsTypeOK /\ ThresholdsTypeOK /\ ArpTypeOK /\ FeedsTypeOK
==============================================================================
