------------------------------ MODULE PortScan ------------------------------
(***************************************************************************)
(* portscan_detector.  For every message of tw_modified it reads the       *)
(* features of that window four times, ports for horizontal scans and      *)
(* addresses for vertical ones, of TCP and then of UDP, and looks at what  *)
(* it has read one key after the other.  The database is by then ahead of  *)
(* the message, and goes on changing.  A resolution of an address may come *)
(* between any two flows.                                                  *)
(***************************************************************************)
EXTENDS FlowFeatures

CONSTANTS
    Ip, Port,   \* addresses and ports the flows go to
    Multicast,  \* addresses whose scans are not reported
    Ipv6,       \* addresses with colons
    port_scan_minimum_dips_threshold, port_scan_minimum_dports_threshold,
    MaxMessages     \* bound: flows are read while fewer messages wait

ASSUME PortScanAssumption ==
    /\ port_scan_minimum_dips_threshold \in Nat \ {0}
    /\ port_scan_minimum_dports_threshold \in Nat \ {0}
    /\ MaxMessages \in Nat
    /\ IsFiniteSet(Ip) /\ IsFiniteSet(Port) /\ Ipv6 \subseteq Ip
    /\ \A f \in Flow : {f.saddr, f.daddr} \subseteq Ip /\ {f.sport, f.dport} \subseteq Port

VARIABLES
    resolved,   \* addresses the database has a domain for
    scan,       \* [window, left, data]: reads left, and what is left of this one
    cache_det_thresholds,
    evidence    \* [type, window, key, proto, n, pkts], in their order

scanVars == <<resolved, scan, cache_det_thresholds, evidence>>
vars == <<featureVars, scanVars>>

(* The reads of a message, in their order *)
ReadsOfTcp == <<<<"PortScanType2", "TCP">>, <<"PortScanType1", "TCP">>>>

Reads == <<<<"PortScanType2", "TCP">>, <<"PortScanType2", "UDP">>,
           <<"PortScanType1", "TCP">>, <<"PortScanType1", "UDP">>>>
Idle == [window |-> <<>>, left |-> <<>>, data |-> Nothing]

ScanInit ==
    /\ resolved = {}
    /\ scan = Idle
    /\ cache_det_thresholds = Nothing
    /\ evidence = <<>>

(* The not established features of w as a client: port -> address ->       *)
(* packets, or address -> port -> packets back                             *)
getDataFromProfileTW(w, type, proto) ==
    IF type = "PortScanType2"
    THEN LET K == {k \in DOMAIN ports : /\ k.window = w /\ k.role = "Client" /\ k.type = "Dst"
                                        /\ k.proto = proto /\ k.state = "NotEstablished"}
         IN  [p \in {k.port : k \in K} |-> ports[CHOOSE k \in K : k.port = p]]
    ELSE LET K == {k \in DOMAIN ips : /\ k.window = w /\ k.role = "Client"
                                      /\ k.proto = proto /\ k.state = "NotEstablished"}
         IN  [i \in {k.ip : k \in K} |-> ips[CHOOSE k \in K : k.ip = i]]

(* The window a message names: its text "profile:window" is split on ':',  *)
(* which leaves of an IPv6 profile its first group and no window.          *)
Named(w) == IF w[1] \in Ipv6 THEN <<w[1]>> ELSE w

(* A message is taken and the first read begins.  What is left of an IPv6  *)
(* address is no address and not known for a multicast one.                *)
Message ==
    /\ scan = Idle
    /\ tw_modified # <<>>
    /\ tw_modified' = Tail(tw_modified)
    /\ LET w == Head(tw_modified)
       IN  scan' = [window |-> Named(w), data |-> Nothing,
                    left |-> IF w[1] \in Multicast \ Ipv6 THEN SubSeq(Reads, 3, 4) ELSE Reads]
    /\ UNCHANGED <<seen, todo, tables, flows, new_flow, new_letters, resolved,
                   cache_det_thresholds, evidence>>

Read ==
    /\ scan.left # <<>>
    /\ scan.data = Nothing
    /\ LET data == getDataFromProfileTW(scan.window, scan.left[1][1], scan.left[1][2])
       IN  scan' = IF data # Nothing THEN [scan EXCEPT !.data = data]
                   ELSE IF Len(scan.left) = 1 THEN Idle
                   ELSE [scan EXCEPT !.left = Tail(@)]
    /\ UNCHANGED <<featureVars, resolved, cache_det_thresholds, evidence>>

(* The scan without key k of what was read *)
WithoutEnd(k) ==
    LET rest == Restrict(scan.data, DOMAIN scan.data \ {k})
    IN  [scan EXCEPT !.left = IF rest = Nothing THEN Tail(@) ELSE @, !.data = rest]

Without(k) ==
    LET rest == Restrict(scan.data, DOMAIN scan.data \ {k})
    IN  IF rest # Nothing THEN [scan EXCEPT !.data = rest]
        ELSE IF Len(scan.left) = 1 THEN Idle
        ELSE [window |-> scan.window, left |-> Tail(scan.left), data |-> Nothing]

(* Neither the key nor the cache knows the protocol *)
Reported(type, k) == At(cache_det_thresholds, <<type, scan.window, k>>, 0)
DueAgain(type, k, amount, threshold) == amount > 0 /\ amount % threshold = 0

Due(type, k, amount, threshold) == amount % threshold = 0 /\ Reported(type, k) < amount

setEvidence(type, k, n, pkts) ==
    /\ evidence' = Append(evidence, [type |-> type, window |-> scan.window, key |-> k,
                                     proto |-> scan.left[1][2], n |-> n, pkts |-> pkts])
    /\ cache_det_thresholds' = Put(cache_det_thresholds, <<type, scan.window, k>>, n)

(* Addresses that have a domain by now do not count *)
check_horizontal_portscan(dport) ==
    LET dstips == Restrict(scan.data[dport], DOMAIN scan.data[dport] \ resolved)
        amount == Cardinality(DOMAIN dstips)
    IN  /\ scan' = Without(dport)
        /\ IF Due("PortScanType2", dport, amount, port_scan_minimum_dips_threshold)
           THEN setEvidence("PortScanType2", dport, amount, SumFunction(dstips))
           ELSE UNCHANGED <<evidence, cache_det_thresholds>>

(* A due address that sent no packets ends the check of all of them *)
check_vertical_portscan(dstip) ==
    LET dstports == scan.data[dstip]
        amount == Cardinality(DOMAIN dstports)
        pkts == SumFunction(dstports)
    IN  IF Due("PortScanType1", dstip, amount, port_scan_minimum_dports_threshold)
        THEN IF pkts = 0
             THEN scan' = Idle /\ UNCHANGED <<evidence, cache_det_thresholds>>
             ELSE scan' = Without(dstip) /\ setEvidence("PortScanType1", dstip, amount, pkts)
        ELSE scan' = Without(dstip) /\ UNCHANGED <<evidence, cache_det_thresholds>>

Check ==
    /\ scan.data # Nothing
    /\ \E k \in DOMAIN scan.data :
          IF scan.left[1][1] = "PortScanType2"
          THEN check_horizontal_portscan(k) ELSE check_vertical_portscan(k)
    /\ UNCHANGED <<featureVars, resolved>>

(* An answer to a query of a domain, stored between two flows *)
Resolve(ip) ==
    /\ todo = <<>>
    /\ resolved' = resolved \cup {ip}
    /\ UNCHANGED <<featureVars, scan, cache_det_thresholds, evidence>>

Detector == Message \/ Read \/ Check

Init == FeaturesInit /\ ScanInit

Next ==
    \/ (\E f \in Flow : Len(tw_modified) < MaxMessages /\ ReadFlow(f)) /\ UNCHANGED scanVars
    \/ StoreFeature /\ UNCHANGED scanVars
    \/ Detector
    \/ \E ip \in Ip : Resolve(ip)

Fairness == WF_vars(Detector) /\ WF_vars(StoreFeature /\ UNCHANGED scanVars)

Spec == Init /\ [][Next]_vars /\ Fairness

-----------------------------------------------------------------------------
(* Properties *)

(* Type correctness of the features and of the detector *)
TypeOK ==
    /\ \A k \in DOMAIN tuples : /\ tuples[k].letters # <<>>
                                /\ tuples[k].times \in Nat \X (Nat \ {0})
    /\ \A k \in DOMAIN contacts : contacts[k] \in Nat \ {0}
    /\ \A k \in DOMAIN ips : DOMAIN ips[k] \subseteq Port /\ DOMAIN ips[k] # {}
    /\ \A k \in DOMAIN ports : DOMAIN ports[k] \subseteq Ip /\ DOMAIN ports[k] # {}
    /\ scan.left = <<>> => scan = Idle
    /\ \A i \in 1..Len(evidence) : evidence[i].n \in Nat \ {0} /\ evidence[i].pkts \in Nat

(* The elements of s that are in T, in their order                         *)
Those(s, T) ==
    LET first[i \in 0..Len(s)] ==
            IF i = 0 THEN <<>>
            ELSE first[i-1] \o IF s[i] \in T THEN <<s[i]>> ELSE <<>>
    IN  first[Len(s)]

(* The history of a tuple: its flows, once their letter is stored          *)
HistoryOf(k) ==
    LET done == IF <<k.role, "tuple">> \in Range(todo) THEN Front(seen) ELSE seen
    IN  Those(done, {f \in Flow : TupleKey(f, k.role) = k})

(* What the letter of the i-th flow of a tuple should tell: -1 for the     *)
(* first two, else how much longer the longer of the last two intervals    *)
(* is, in percent                                                          *)
Regularity(h, i) ==
    LET a == h[i-1].ts - h[i-2].ts
        b == h[i].ts - h[i-1].ts
        Within(percent) == 100 * a <= percent * b /\ 100 * b <= percent * a
    IN  IF i <= 2 THEN -1
        ELSE IF a <= 0 \/ b <= 0 \/ Within(105) THEN 1
        ELSE IF Within(130) THEN 2 ELSE IF Within(500) THEN 3 ELSE 4

(* The letters of a tuple tell of its whole history in its window, in the  *)
(* order of the input: add_tuple and compute_symbol carry from flow to     *)
(* flow no more than two timestamps, stored as a text in the database.     *)
LettersMatchHistory ==
    \A k \in DOMAIN tuples :
        LET h == HistoryOf(k) IN
        /\ Len(tuples[k].letters) = Len(h)
        /\ \A i \in 1..Len(h) :
              LET s == tuples[k].letters[i] IN
              /\ s.letter = <<Regularity(h, i), h[i].bytes, h[i].dur>>
              /\ s.zeros > 0 => i > 2 /\ h[i].ts - h[i-1].ts >= tto
              /\ s.timechar = "" <=> (i = 1 \/ h[i].ts - h[i-1].ts > tto)

Pairs(hash, K) == UNION {{<<k, x>> : x \in DOMAIN hash[k]} : k \in K}

(* The same contacts are stored twice, by port and by address, and the two *)
(* kinds of scan are looked for in one of them each.  Between two flows    *)
(* they tell the same of a client.                                         *)
ViewsAgree ==
    todo = <<>> =>
        {<<x[1].window, x[1].proto, x[1].state, x[1].port, x[2]>> :
            x \in Pairs(ports, {k \in DOMAIN ports : k.role = "Client" /\ k.type = "Dst"})}
      = {<<x[1].window, x[1].proto, x[1].state, x[2], x[1].ip>> :
            x \in Pairs(ips, {k \in DOMAIN ips : k.role = "Client"})}

Quiet == todo = <<>> /\ tw_modified = <<>> /\ scan = Idle

ReportedUpTo(type, w, k, n) ==
    \E i \in 1..Len(evidence) : /\ evidence[i].type = type /\ evidence[i].window = w
                                /\ evidence[i].key = k /\ evidence[i].n >= n

(* A horizontal scan over TCP or UDP that has come to rest at a multiple   *)
(* of the threshold is reported by the time the detector has read its last *)
(* message, however far behind the database it was, unless a target has a  *)
(* domain.  TCP and UDP share the counter of a port: a report of as many   *)
(* over the other one will do.  It says nothing of amounts that pass a     *)
(* multiple between two reads, nor of IPv6 sources: their messages name no *)
(* window, and none of their scans is reported.                            *)
HorizontalScanNotMissed ==
    Quiet => \A k \in DOMAIN ports :
        LET n == Cardinality(DOMAIN ports[k]) IN
        (/\ k.role = "Client" /\ k.type = "Dst" /\ k.state = "NotEstablished"
         /\ k.proto \in {"TCP", "UDP"} /\ k.window[1] \notin Multicast \cup Ipv6
         /\ n % port_scan_minimum_dips_threshold = 0
         /\ DOMAIN ports[k] \cap resolved = {})
        => ReportedUpTo("PortScanType2", k.window, k.port, n)

(* "So we detect when there is 6, 9, 12, etc. dports per dip."  A vertical *)
(* scan of the threshold with packets back, of a source with an IPv4       *)
(* address, once all messages are read.                                    *)
VerticalScanReported ==
    Quiet => \A k \in DOMAIN ips :
        (/\ k.role = "Client" /\ k.state = "NotEstablished" /\ k.window[1] \notin Ipv6
         /\ Cardinality(DOMAIN ips[k]) = port_scan_minimum_dports_threshold
         /\ SumFunction(ips[k]) > 0)
        => ReportedUpTo("PortScanType1", k.window, k.ip, port_scan_minimum_dports_threshold)

-----------------------------------------------------------------------------
(* What the detector promises of each kind of scan *)

Windows == {f.saddr : f \in Flow} \X {f.tw : f \in Flow}

ReportsOf(type, k) ==
    LET its == Those(evidence, [type : {type}, window : {k[1]}, key : {k[2]},
                                proto : {"TCP", "UDP"}, n : Nat, pkts : Nat])
    IN  [i \in 1..Len(its) |-> its[i].n]

PortKey == Windows \X Port
TriedAddresses(k) ==
    UNION {DOMAIN ports[j] : j \in {j \in DOMAIN ports :
        j.role = "Client" /\ j.type = "Dst" /\ j.state = "NotEstablished"
        /\ j.window = k[1] /\ j.port = k[2]}}

HorizontalScans == INSTANCE ScanReports WITH
    Key <- PortKey, Target <- Ip, Threshold <- port_scan_minimum_dips_threshold,
    targets <- [k \in PortKey |-> TriedAddresses(k)],
    reported <- [k \in PortKey |-> ReportsOf("PortScanType2", k)]

AddressKey == Windows \X Ip
TriedPorts(k) ==
    UNION {DOMAIN ips[j] : j \in {j \in DOMAIN ips :
        j.role = "Client" /\ j.state = "NotEstablished" /\ j.window = k[1] /\ j.ip = k[2]}}

VerticalScans == INSTANCE ScanReports WITH
    Key <- AddressKey, Target <- Port, Threshold <- port_scan_minimum_dports_threshold,
    targets <- [k \in AddressKey |-> TriedPorts(k)],
    reported <- [k \in AddressKey |-> ReportsOf("PortScanType1", k)]

(* The detector implements ScanReports for ports and for addresses: what   *)
(* it reports grows, is a multiple of the threshold and was really tried,  *)
(* although it reads features that change and knows no protocols.          *)
ScansAsPromised == HorizontalScans!ScanSpec /\ VerticalScans!ScanSpec
=============================================================================
