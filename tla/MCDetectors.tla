---------------------------- MODULE MCDetectors ----------------------------
(***************************************************************************)
(* Small instances of the detectors that keep state of their own: the two  *)
(* halves of flowalerts, arp, and threat_intelligence with its feeds.      *)
(* They share none of it, so a behaviour exercises one of them, its topic, *)
(* and the others stay as they are.                                        *)
(***************************************************************************)
EXTENDS Detectors

CONSTANTS
    v4, v6, c1, c2, q1, i1, i2, d1,     \* FlowAlerts
    p, a1, a2,                          \* FlowThresholds
    h1, h2, h3, h4, m1, m2,             \* Arp
    b1, b2, n1, n2, r1, s1, s2, f1, f2, f3  \* ThreatFeeds

VARIABLE topic

(* c1 is a successful login from the IPv4 address of the computer, c2 goes *)
(* from its IPv6 address to a known organization.                          *)
MCOtherOf == (v4 :> v6) @@ (v6 :> v4)
MCSaddr == (c1 :> v4) @@ (c2 :> v6)
MCDaddr == (c1 :> i1) @@ (c2 :> i2)
MCAsker == q1 :> v4
MCUidOf == q1 :> q1
MCDomainOf == q1 :> d1
MCAnswers == q1 :> {i1}

Flow1(ts, daddr, dport, rej, est, sbytes) ==
    [profile |-> p, ts |-> ts, daddr |-> daddr, dport |-> dport, zero |-> rej,
     dur |-> ts, rej |-> rej, est |-> est, named |-> FALSE, sbytes |-> sbytes]

(* A named and an unnamed port, and two ports for p2p                      *)
MCFlow == {Flow1(0, a1, 22, TRUE, FALSE, 0),
           Flow1(1, a1, 40000, TRUE, TRUE, 2), Flow1(3, a2, 40001, FALSE, TRUE, 2),
           Flow1(3, a2, 23, FALSE, TRUE, 2)}

ArpFlow1(tw, ts, operation, daddr) ==
    [tw |-> tw, ts |-> ts, operation |-> operation, saddr |-> h1, daddr |-> daddr,
     dst_mac |-> IF operation = "reply" THEN Broadcast ELSE Zero, src_mac |-> m1,
     dst_hw |-> IF operation = "reply" THEN Broadcast ELSE Zero, src_hw |-> m1]

MCArpFlow == {ArpFlow1(1, 0, "request", h2), ArpFlow1(1, 6, "request", h4),
              ArpFlow1(12, 2, "request", h3), ArpFlow1(12, 2, "request", h4),
              ArpFlow1(1, 2, "reply", h1)}

V(tag, lines) == [tag |-> tag, lines |-> lines]

(* A text feed, a feed of domains, with an indicator of the first, and of  *)
(* certificates.  The second may be offered without a column, and as no    *)
(* JSON at all.                                                            *)
MCFeeds == <<f1, f2, f3>>
MCFormat == (f1 :> "text") @@ (f2 :> "json") @@ (f3 :> "hashes")
MCVersions == (f1 :> {V("1", <<b2, b1, n1, r1>>)}) @@ (f2 :> {V("2", <<n1, n2>>), V("3", <<n2, "broken">>), V("5", <<"garbled">>)})
           @@ (f3 :> {V("4", <<s1, s2>>)})
MCLocalVersions == {V("6", <<"invalid", b2, b1>>)}
MCInRange == r1 :> {b2}
MCUnder == {<<n2, n1>>}

MCInit ==
    /\ topic \in {"alerts", "flows", "dns", "logins", "software", "messages",
                 "arp", "mac", "feeds", "lookups"}
    /\ DetectorsInit

MCNext ==
    /\ UNCHANGED topic
    /\ \/ topic = "alerts" /\ Next /\ UNCHANGED <<thresholdVars, arpVars, feedVars>>
       \/ topic = "flows" /\ FlowStep /\ UNCHANGED <<vars, arpVars, feedVars>>
       \/ topic = "dns" /\ DnsStep /\ UNCHANGED <<vars, arpVars, feedVars>>
       \/ topic = "logins" /\ LoginStep /\ UNCHANGED <<vars, arpVars, feedVars>>
       \/ topic = "software" /\ SoftwareStep /\ UNCHANGED <<vars, arpVars, feedVars>>
       \/ topic = "messages" /\ MessageStep /\ UNCHANGED <<vars, arpVars, feedVars>>
       \/ topic = "arp" /\ (ArpStep \/ NewMac) /\ UNCHANGED <<vars, thresholdVars, feedVars>>
       \/ topic = "mac" /\ MacStep /\ UNCHANGED <<vars, thresholdVars, feedVars>>
       \/ topic = "feeds" /\ FeedStep /\ UNCHANGED <<vars, thresholdVars, arpVars>>
       \/ topic = "lookups" /\ LookupStep /\ UNCHANGED <<vars, thresholdVars, arpVars>>

MCVars == <<detectorVars, topic>>

MCSpec == MCInit /\ [][MCNext]_MCVars /\ Fairness

(* The feeds alone                                                         *)
MCFeedsSpec == MCInit /\ topic = "feeds" /\ [][MCNext]_MCVars /\ FeedsFairness
=============================================================================
