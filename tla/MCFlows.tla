------------------------------- MODULE MCFlows -------------------------------
(***************************************************************************)
(* Small instances of the features of flows and of portscan_detector.  A   *)
(* behaviour is about one topic, which limits the flows that are read.     *)
(***************************************************************************)
EXTENDS PortScan

CONSTANTS h0, h1, h2, h3, h6

VARIABLE topic

Flags(word) == [word |-> word, pre |-> {}, suf |-> {}]

Scan(daddr, dport, proto, pkts) ==
    [uid |-> <<daddr, dport, proto, 0>>, saddr |-> h0, daddr |-> daddr, sport |-> 9,
     dport |-> dport, proto |-> proto, flags |-> Flags(IF pkts = 1 THEN "S0" ELSE "REJ"),
     tw |-> 1, ts |-> 1, dur |-> 1, bytes |-> 1, pkts |-> pkts, dpkts |-> pkts - 1]

Talk(uid, ts, tw) ==
    [Scan(h1, 1, "TCP", 2) EXCEPT !.uid = <<h1, 1, "TCP", uid>>, !.ts = ts, !.tw = tw,
                                  !.flags = Flags("SF")]

Horizontal == {Scan(h1, 1, "TCP", 2), Scan(h2, 1, "TCP", 2), Scan(h3, 1, "TCP", 1),
               Scan(h1, 1, "UDP", 2), Scan(h2, 1, "UDP", 2)}
FromIpv6 == {[f EXCEPT !.saddr = h6, !.uid = <<h6, f.uid>>] :
                f \in {Scan(h1, 1, "TCP", 2), Scan(h2, 1, "TCP", 2)}}
Vertical == {Scan(h1, 1, "TCP", 1), Scan(h1, 2, "TCP", 1), Scan(h2, 1, "TCP", 2),
             Scan(h2, 2, "TCP", 2), Scan(h2, 3, "UDP", 2)}
Letters == {Talk(t, t, 1) : t \in {1, 2, 3, 7, 100, 3602, 7300}} \cup {Talk(1, 4, 2)}

MCFlow == Horizontal \cup FromIpv6 \cup Vertical \cup Letters

MCInit == topic \in {"horizontal", "ipv6", "vertical", "letters"} /\ Init

OfTopic == CASE topic = "horizontal" -> Horizontal
             [] topic = "ipv6" -> FromIpv6
             [] topic = "vertical" -> Vertical
             [] topic = "letters" -> Letters

MCNext ==
    /\ UNCHANGED topic
    /\ \/ (\E f \in OfTopic : (topic = "letters" \/ Len(tw_modified) < MaxMessages) /\ ReadFlow(f))
          /\ UNCHANGED scanVars
       \/ StoreFeature /\ UNCHANGED scanVars
       \/ topic # "letters" /\ Detector
       \/ topic = "horizontal" /\ Resolve(h1)

MCSpec == MCInit /\ [][MCNext]_<<vars, topic>> /\ Fairness
=============================================================================
