-------------------------------- MODULE Arp --------------------------------
(***************************************************************************)
(* ARP flows: the arp module, and the hash that tells which addresses      *)
(* belong to a MAC, which ip_info fills from the same flows.               *)
(*                                                                         *)
(* ProfilerProcess publishes a flow on new_arp and the MACs in it on       *)
(* new_MAC; the database publishes the closed windows on tw_closed.  The   *)
(* modules take the messages of a channel in their order, and the channels *)
(* in any order.                                                           *)
(***************************************************************************)
EXTENDS Integers, Sequences, FiniteSets, SequencesExt

CONSTANTS
    ArpFlow,    \* [tw, ts, operation, saddr, daddr, dst_mac, src_mac, dst_hw, src_hw]
    V4, V6,     \* addresses
    Mac,        \* MACs of computers
    Broadcast, Zero,    \* ff:ff:ff:ff:ff:ff and 00:00:00:00:00:00
    Unspecified,        \* 0.0.0.0
    gateway,            \* the default gateway
    Local,              \* addresses of home_network, multicast and link-local ones
    SameStart,          \* pairs of addresses whose first number is the same
    arp_scan_threshold, \* 5
    ScanSeconds, Minute,        \* 30, and the 60 seconds of a minute
    TimeWindow,
    MaxArp, MaxMac      \* bounds: ARP flows, messages of new_MAC

ArpIp == V4 \cup V6
KeyOf(f) == [profile |-> f.saddr, tw |-> f.tw]
Keys == [profile : ArpIp, tw : TimeWindow]

ASSUME ArpAssumption ==
    /\ V4 \cap V6 = {} /\ Unspecified \in V4
    /\ TimeWindow \subseteq Nat \ {0}
    /\ arp_scan_threshold \in Nat \ {0, 1}
    /\ Minute \in Nat \ {0} /\ ScanSeconds \in 0..(Minute - 1)
    /\ \A f \in ArpFlow : f.saddr \in V4 /\ f.daddr \in V4 /\ f.tw \in TimeWindow
    /\ MaxArp \in Nat /\ MaxMac \in Nat

VARIABLES
    new_arp, new_MAC, tw_closed,        \* channels
    cache_arp_requests, \* key -> requests, in the order of their addresses
    arpEvidence,        \* set of [type, profile, tw]
    arps,       \* ARP flows published so far
    requests,   \* history: key -> [daddr, ts] looked at by check_arp_scan since
                \* its last report of the key, and since the last closing of it
    scans,      \* history: [key, counted], the requests behind each report
    MAC,        \* MAC -> addresses, as the database has them
    Vendor,     \* addresses whose profile has a MAC and its vendor
    IPv4, IPv6, \* address -> those of the other version in its profile
    ip_info     \* that module: running or ended

channels == <<new_arp, new_MAC, tw_closed, arps>>
scanVars == <<cache_arp_requests, requests, scans>>
macVars == <<MAC, Vendor, IPv4, IPv6, ip_info>>
arpVars == <<channels, scanVars, arpEvidence, macVars>>

ArpInit ==
    /\ new_arp = <<>> /\ new_MAC = <<>> /\ tw_closed = <<>> /\ arps = 0
    /\ cache_arp_requests = [k \in Keys |-> <<>>]
    /\ arpEvidence = {}
    /\ requests = [k \in Keys |-> <<>>]
    /\ scans = {}
    /\ MAC = [m \in Mac |-> <<>>]
    /\ Vendor = {}
    /\ IPv4 = [a \in ArpIp |-> {}]
    /\ IPv6 = [a \in ArpIp |-> {}]
    /\ ip_info = "running"

-----------------------------------------------------------------------------
(* What is published *)

(* The MACs that are of no computer are left out, and addresses that are   *)
(* multicast or link-local are not modelled as having one.                 *)
publish_to_new_MAC(mac, ip) ==
    IF mac \in Mac THEN <<[mac |-> mac, ip |-> ip]>> ELSE <<>>

NewMacs(f) ==
    publish_to_new_MAC(f.dst_mac, f.daddr) \o publish_to_new_MAC(f.src_mac, f.saddr)

PublishArp(f) ==
    /\ arps < MaxArp /\ Len(new_MAC) < MaxMac
    /\ arps' = arps + 1
    /\ new_arp' = Append(new_arp, f)
    /\ new_MAC' = new_MAC \o NewMacs(f)
    /\ UNCHANGED <<tw_closed, scanVars, arpEvidence, macVars>>

(* smac and dmac of a conn flow, and the client of a dhcp flow             *)
PublishMac(m, a) ==
    /\ Len(new_MAC) < MaxMac
    /\ new_MAC' = Append(new_MAC, [mac |-> m, ip |-> a])
    /\ UNCHANGED <<new_arp, tw_closed, arps, scanVars, arpEvidence, macVars>>

(* markProfileTWAsClosed                                                   *)
PublishClosed(k) ==
    /\ tw_closed = <<>>
    /\ tw_closed' = Append(tw_closed, k)
    /\ UNCHANGED <<new_arp, new_MAC, arps, scanVars, arpEvidence, macVars>>

-----------------------------------------------------------------------------
(* A scan *)

UpdatedAtEnd(s, f) == Append(s, [daddr |-> f.daddr, ts |-> f.ts])

(* Updating the entry of an address leaves it at its place.                *)
Updated(s, f) ==
    IF \E i \in DOMAIN s : s[i].daddr = f.daddr
    THEN [i \in DOMAIN s |-> IF s[i].daddr = f.daddr THEN [s[i] EXCEPT !.ts = f.ts] ELSE s[i]]
    ELSE Append(s, [daddr |-> f.daddr, ts |-> f.ts])

(* The seconds of the difference, without its minutes                      *)
diff(s) == (s[Len(s)].ts - s[1].ts) % Minute

check_arp_scan(f) ==
    LET k == KeyOf(f)
        cached == Updated(cache_arp_requests[k], f)
        counted == Append(requests[k], [daddr |-> f.daddr, ts |-> f.ts])
        scan == /\ cache_arp_requests[k] # <<>>
                /\ Len(cached) >= arp_scan_threshold
                /\ diff(cached) <= ScanSeconds
    IN  IF f.saddr \in {gateway, Unspecified} THEN UNCHANGED scanVars
        ELSE /\ cache_arp_requests' = [cache_arp_requests EXCEPT ![k] =
                                            IF scan THEN <<>> ELSE cached]
             /\ requests' = [requests EXCEPT ![k] = IF scan THEN <<>> ELSE counted]
             /\ scans' = IF scan THEN scans \cup {[key |-> k, counted |-> counted]} ELSE scans

is_gratuitous(f) == f.saddr = f.daddr /\ f.dst_mac \in {Broadcast, Zero, f.src_mac}

-----------------------------------------------------------------------------
(* The other checks of an ARP flow *)

About(t, f) == [type |-> t, profile |-> f.saddr, tw |-> f.tw]

(* The text of the list of addresses, which is not the text of an address  *)
get_IP_of_MAC(m) == IF m \notin Mac \/ MAC[m] = <<>> THEN "None" ELSE MAC[m]

detect_MITM_ARP_attack(f) ==
    IF f.saddr # get_IP_of_MAC(f.src_mac) THEN {About("MITM-arp-attack", f)} ELSE {}

check_dstip_outside_localnet(f) ==
    IF /\ Unspecified \notin {f.saddr, f.daddr}
       /\ f.daddr \notin Local
       /\ <<f.saddr, f.daddr>> \notin SameStart
    THEN {About("arp-outside-localnet", f)} ELSE {}

detect_unsolicited_arp(f) ==
    IF f.dst_mac = Broadcast /\ f.dst_hw = Broadcast /\ Zero \notin {f.src_mac, f.src_hw}
    THEN {About("UnsolicitedARP", f)} ELSE {}

NewArp ==
    /\ new_arp # <<>>
    /\ LET f == Head(new_arp)
           mitm == IF is_gratuitous(f) /\ f.operation = "reply"
                   THEN detect_MITM_ARP_attack(f) ELSE {}
           other == IF f.operation = "request" THEN check_dstip_outside_localnet(f)
                    ELSE detect_unsolicited_arp(f)
       IN  /\ IF is_gratuitous(f) THEN UNCHANGED scanVars ELSE check_arp_scan(f)
           /\ arpEvidence' = arpEvidence \cup mitm \cup other
                  \cup IF scans' # scans THEN {About("ARPScan", f)} ELSE {}
    /\ new_arp' = Tail(new_arp)
    /\ UNCHANGED <<new_MAC, tw_closed, arps, macVars>>

(* The keys with the text of the closed window in them: timewindow12 goes  *)
(* with timewindow1.                                                       *)
IsIn(closed, key) ==
    /\ key.profile = closed.profile
    /\ \E n \in {1, 10, 100, 1000} : key.tw \div n = closed.tw

DroppedFirst(closed) ==
    LET in == {k \in Keys : IsIn(closed, k) /\ cache_arp_requests[k] # <<>>}
    IN  IF in = {} THEN {} ELSE {CHOOSE k \in in : TRUE}

Dropped(closed) == {k \in Keys : IsIn(closed, k)}

TwClosed ==
    /\ tw_closed # <<>>
    /\ cache_arp_requests' = [k \in Keys |->
            IF k \in Dropped(Head(tw_closed)) THEN <<>> ELSE cache_arp_requests[k]]
    /\ requests' = [k \in Keys |->
            IF IsIn(Head(tw_closed), k) THEN <<>> ELSE requests[k]]
    /\ tw_closed' = Tail(tw_closed)
    /\ UNCHANGED <<new_arp, new_MAC, arps, scans, arpEvidence, macVars>>

-----------------------------------------------------------------------------
(* The addresses of a MAC.  A profile keeps one address of the other       *)
(* version, the last that was found.                                       *)

add_mac_addr_to_profile(m, ip) ==
    LET cached_ips == MAC[m]
        found_ip == Last(cached_ips)
    IN  \/ /\ ip = Unspecified \/ ip \in ToSet(cached_ips)
           /\ UNCHANGED macVars
        \/ /\ ip # Unspecified /\ cached_ips = <<>>
           /\ MAC' = [MAC EXCEPT ![m] = <<ip>>]
           /\ Vendor' = Vendor \cup {ip}
           /\ UNCHANGED <<IPv4, IPv6, ip_info>>
        \/ /\ cached_ips # <<>> /\ ip \in V6 \ ToSet(cached_ips) /\ found_ip \in V4
           /\ IPv4' = [IPv4 EXCEPT ![ip] = {found_ip}]
           /\ IPv6' = [IPv6 EXCEPT ![found_ip] = {ip}]
           /\ MAC' = [MAC EXCEPT ![m] = Append(@, ip)]
           /\ UNCHANGED <<Vendor, ip_info>>
        \/ /\ cached_ips # <<>> /\ found_ip \in V6 /\ ip # Unspecified
           /\ ip \in V4 \ ToSet(cached_ips)
           /\ IPv6' = [IPv6 EXCEPT ![ip] = {found_ip}]
           /\ IPv4' = [IPv4 EXCEPT ![found_ip] = {ip}]
           /\ UNCHANGED <<MAC, Vendor, ip_info>>
        \* json.loads of the list [None]: no branch ever sets the IPv6 of ip before
        \/ /\ cached_ips # <<>> /\ found_ip \in V6 /\ ip \in V6 \ ToSet(cached_ips)
           /\ ip_info' = "ended"
           /\ UNCHANGED <<MAC, Vendor, IPv4, IPv6>>
        \/ /\ cached_ips # <<>> /\ found_ip \in V4 /\ ip # Unspecified
           /\ ip \in V4 \ ToSet(cached_ips)
           /\ UNCHANGED macVars

(* get_vendor asks only for a profile that has no vendor yet.              *)
NewMac ==
    /\ ip_info = "running" /\ new_MAC # <<>>
    /\ LET m == Head(new_MAC)
       IN  IF m.ip \in Vendor THEN UNCHANGED macVars
           ELSE add_mac_addr_to_profile(m.mac, m.ip)
    /\ new_MAC' = Tail(new_MAC)
    /\ UNCHANGED <<new_arp, tw_closed, arps, scanVars, arpEvidence>>

ArpStep ==
    \/ \E f \in ArpFlow : PublishArp(f) \/ PublishClosed(KeyOf(f))
    \/ NewArp \/ TwClosed

MacStep ==
    \/ \E m \in Mac, a \in ArpIp : PublishMac(m, a)
    \/ NewMac

ArpNext == ArpStep \/ MacStep

ArpSpec == ArpInit /\ [][ArpNext]_arpVars

-----------------------------------------------------------------------------
(* Type correctness of the caches of arp and of the hash MAC               *)
ArpTypeOK ==
    /\ ToSet(new_arp) \subseteq ArpFlow
    /\ \A i \in DOMAIN new_MAC : new_MAC[i].mac \in Mac /\ new_MAC[i].ip \in ArpIp
    /\ ToSet(tw_closed) \subseteq Keys
    /\ \A k \in Keys : IsInjective([i \in DOMAIN cache_arp_requests[k] |->
                                        cache_arp_requests[k][i].daddr])
    /\ MAC \in [Mac -> Seq(ArpIp)] /\ Vendor \subseteq ArpIp
    /\ IPv4 \in [ArpIp -> SUBSET V4] /\ IPv6 \in [ArpIp -> SUBSET V6]
    /\ ip_info \in {"running", "ended"}

(* The requests behind a scan: enough different addresses; and of the      *)
(* address asked for first and the one that joined last, the latest        *)
(* requests are at most ScanSeconds apart, whole minutes not counted.      *)
To(s, d) == {i \in DOMAIN s : s[i].daddr = d}
Joining(s) == {i \in DOMAIN s : \A j \in To(s, s[i].daddr) : i <= j}
LastTime(s, i) == s[Max(To(s, s[i].daddr))].ts

Backed(s) ==
    /\ Cardinality(Joining(s)) >= arp_scan_threshold
    /\ (LastTime(s, Max(Joining(s))) - LastTime(s, Min(Joining(s)))) % Minute
           <= ScanSeconds

(* An ARP scan is reported on enough different addresses, close in time as *)
(* far as the code looks, counting no request twice and none from before   *)
(* its window was closed (check_arp_scan, tw_closed).  That minutes do not *)
(* count, nor requests but the latest to two addresses, is what the code   *)
(* does, not what its comment says ("within 30 secs").                     *)
ScanIsBacked == \A scan \in scans : Backed(scan.counted)
=============================================================================
