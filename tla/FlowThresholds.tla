--------------------------- MODULE FlowThresholds ---------------------------
(***************************************************************************)
(* The checks of flowalerts that count: what its main loop does with one   *)
(* message after the other, and the dictionaries it keeps between them.    *)
(*                                                                         *)
(* A profile is one address in one time window; the caches of ARPA queries *)
(* and of SMTP logins are kept by address only, which makes no difference  *)
(* here.  Flows go out of the profile, as with the default                 *)
(* analysis_direction, and are of TCP or UDP.  The timestamps of the       *)
(* messages of one channel do not decrease: "now".                         *)
(***************************************************************************)
EXTENDS Integers, Sequences, FiniteSets, SequencesExt

CONSTANTS
    Profile, Flow,
    Address,    \* destinations
    default_gateway,    \* as get_default_gateway gives it
    NamedPort,  \* ports of services.csv
    Port,       \* destination ports; 0 is port 0
    HighPort,   \* UDP ports over 30000
    OrgPort,    \* pairs <<port, address>> of organizations
    FtpPort,
    Version,    \* SSH client versions
    Name,       \* domains asked for
    Young,      \* those registered less than 60 days ago
    Fingerprint, Malicious,     \* JA3 fingerprints and SHA1; those of the feeds
    NxdomainsThreshold, NxdomainsStep,          \* 10 and 5
    SmtpThreshold, SmtpSeconds,                 \* 3 and 10
    ArpaThreshold, ArpaSeconds,                 \* 10 and 2
    ReconnectionThreshold,                      \* 5
    P2pAddresses, P2pTries,                     \* 5 and 6
    LongConnection,                             \* 1500
    ExfiltrationMinutes, ExfiltrationBytes,     \* 20, 700 MB
    MaxNow, MaxQueries  \* bounds: the last timestamp, messages kept

ASSUME FlowThresholdsAssumption ==
    /\ NxdomainsStep \in Nat \ {0, 1} /\ NxdomainsThreshold \in Nat
    /\ SmtpThreshold \in Nat \ {0, 1} /\ SmtpSeconds \in Nat
    /\ ArpaThreshold \in Nat \ {0, 1} /\ ArpaSeconds \in Nat
    /\ MaxNow \in Nat /\ MaxQueries \in Nat /\ Port \subseteq Nat
    /\ HighPort \cup FtpPort \cup NamedPort \subseteq Port /\ Malicious \subseteq Fingerprint
    /\ P2pTries \in Nat
    /\ \A f \in Flow : f.profile \in Profile /\ f.daddr \in Address

VARIABLES
    now,        \* timestamp of the next message
    stored,     \* profile -> flows in the database, in their order
    new_flow,   \* messages of that channel
    handled,    \* history: flows the module has looked at
    aged,       \* domains whose age ip_info has stored
    used_software,      \* the SSH client the database has for a profile
    new_software,       \* messages of that channel
    is_known_ports_read,
    portinfo,   \* ports the database has a name for
    unknown_ports_queue, ran_once, p2p_daddrs,
    Reconnections,      \* profile -> address -> rejected connections
    nxdomains,          \* profile -> names that did not resolve
    smtp_bruteforce_cache, dns_arpa_queries,    \* profile -> timestamps
    evidence,   \* set of [type, profile, about, n]
    logins      \* history: timestamps of bad logins

feed == <<used_software, new_software, is_known_ports_read, aged>>
ports == <<portinfo, unknown_ports_queue, ran_once, p2p_daddrs>>
counters == <<Reconnections, nxdomains, smtp_bruteforce_cache, dns_arpa_queries>>
flowVars == <<stored, new_flow, handled>>
thresholdVars == <<now, flowVars, feed, ports, counters, evidence, logins>>

(* What it is about: another address, name or version, and a number          *)
Evidence(t, p, about, n) == [type |-> t, profile |-> p, about |-> about, n |-> n]
OnlyIf(b, S) == IF b THEN S ELSE {}

ThresholdInit ==
    /\ now = 0
    /\ stored = [p \in Profile |-> <<>>]
    /\ new_flow = <<>>
    /\ handled = {}
    /\ aged = {}
    /\ used_software = [p \in Profile |-> {}]
    /\ new_software = <<>>
    /\ is_known_ports_read = FALSE
    /\ portinfo = {}
    /\ unknown_ports_queue = <<>>
    /\ ran_once = FALSE
    /\ p2p_daddrs = [a \in Address |-> 0]
    /\ Reconnections = [p \in Profile |-> [a \in Address |-> 0]]
    /\ nxdomains = [p \in Profile |-> {}]
    /\ smtp_bruteforce_cache = [p \in Profile |-> <<>>]
    /\ dns_arpa_queries = [p \in Profile |-> <<>>]
    /\ evidence = {}
    /\ logins = [p \in Profile |-> <<>>]

Later ==
    /\ now < MaxNow
    /\ now' = now + 1
    /\ UNCHANGED <<flowVars, feed, ports, counters, evidence, logins>>

-----------------------------------------------------------------------------
(* Unknown ports.  A flow is [profile, ts, daddr, dport, zero, dur, rej,   *)
(* est, named, sbytes]: zero if its source port is 0, rej if it was        *)
(* rejected, est if it is of TCP and established, named if its service has *)
(* a name.                                                                 *)

(* is_p2p counts before it answers: <<answer, p2p_daddrs>>                 *)
is_p2p(f, daddrs) ==
    LET counted == [daddrs EXCEPT ![f.daddr] = @ + 1]
    IN  IF f.dport \notin HighPort THEN <<FALSE, daddrs>>
        ELSE IF daddrs[f.daddr] >= P2pTries THEN <<TRUE, daddrs>>
        ELSE <<Cardinality({a \in Address : counted[a] > 0}) = P2pAddresses, counted>>

port_belongs_to_an_org(f) == <<f.dport, f.daddr>> \in OrgPort

(* check_unknown_port, on the counts and the evidence so far               *)
check_unknown_port(acc, f) ==
    IF f.dport \in portinfo \/ port_belongs_to_an_org(f) THEN acc
    ELSE LET p2p == is_p2p(f, acc.daddrs)
         IN  [daddrs |-> p2p[2],
              found |-> acc.found \cup
                  OnlyIf(~p2p[1] /\ f.dport \notin FtpPort,
                         {Evidence("UnknownPort", f.profile, f.daddr, f.dport)})]

(* The first flow after services.csv is read takes the queue along.        *)
PortChecks(f) ==
    IF f.dport = 0 \/ ~is_known_ports_read
    THEN [daddrs |-> p2p_daddrs, found |-> {}]
    ELSE FoldLeft(check_unknown_port, [daddrs |-> p2p_daddrs, found |-> {}],
                  Append(IF ran_once THEN <<>> ELSE unknown_ports_queue, f))

QueueOfOne(f) == IF is_known_ports_read THEN <<>> ELSE <<f>>

QueueAfter(f) ==
    IF f.dport = 0 THEN unknown_ports_queue
    ELSE IF ~is_known_ports_read THEN Append(unknown_ports_queue, f)
    ELSE IF ran_once THEN unknown_ports_queue ELSE <<>>

-----------------------------------------------------------------------------
(* The other checks of a flow *)

check_long_connection(f) ==
    OnlyIf(f.dur > LongConnection, {Evidence("LongConnection", f.profile, f.daddr, f.dur)})

Rejected(f) == f.dport # 0 /\ f.rej

MultipleReconnections(f) ==
    LET n == Reconnections[f.profile][f.daddr] + 1
    IN  OnlyIf(Rejected(f) /\ n >= ReconnectionThreshold,
               {Evidence("MultipleReconnectionAttempts", f.profile, f.daddr, n)})

PortZero(f) ==
    OnlyIf(f.dport = 0 \/ f.zero, {Evidence("Port0Connection", f.profile, f.daddr, 0)})

(* Of all flows of the profile that the database holds by now              *)
MultiplePorts(f) ==
    LET dstports == {g.dport : g \in {x \in ToSet(stored[f.profile]) :
                                        x.daddr = f.daddr /\ x.est}}
    IN  OnlyIf(f.est /\ ~f.named /\ f.dport \notin portinfo /\ Cardinality(dstports) > 1,
               {Evidence("ConnectionToMultiplePorts", f.profile, f.daddr,
                         Cardinality(dstports))})

Contacts(a, flows) == Cardinality({i \in DOMAIN flows : flows[i].daddr = a})

(* The address contacted most, and the first of equals, as max() has it    *)
MostContacted(flows) ==
    LET Better(i, j) ==
            \/ Contacts(flows[i].daddr, flows) > Contacts(flows[j].daddr, flows)
            \/ /\ Contacts(flows[i].daddr, flows) = Contacts(flows[j].daddr, flows)
               /\ i <= j
        Candidates == {i \in DOMAIN flows : flows[i].daddr # default_gateway}
    IN  {flows[i].daddr : i \in {k \in Candidates : \A j \in Candidates : Better(k, j)}}

BytesTo(a, flows) ==
    FoldLeft(LAMBDA sum, g : sum + IF g.daddr = a THEN g.sbytes ELSE 0, 0, flows)

DataExfiltration(f) ==
    LET flows == SortSeq(stored[f.profile], LAMBDA g, h : g.ts < h.ts)
    IN  OnlyIf(flows[Len(flows)].ts - flows[1].ts >= ExfiltrationMinutes,
               {Evidence("DataUpload", f.profile, a, BytesTo(a, flows)) :
                  a \in {x \in MostContacted(flows) : BytesTo(x, flows) >= ExfiltrationBytes}})

(* ProfilerProcess stores the flow and publishes it (add_flow).            *)
StoreFlow(f) ==
    /\ f \notin ToSet(stored[f.profile])
    /\ stored' = [stored EXCEPT ![f.profile] = Append(@, f)]
    /\ new_flow' = Append(new_flow, f)
    /\ UNCHANGED <<now, handled, feed, ports, counters, evidence, logins>>

NewFlow ==
    /\ new_flow # <<>>
    /\ LET f == Head(new_flow)
       IN  /\ handled' = handled \cup {f}
           /\ p2p_daddrs' = PortChecks(f).daddrs
           /\ unknown_ports_queue' = QueueAfter(f)
           /\ ran_once' = (ran_once \/ (f.dport # 0 /\ is_known_ports_read))
           /\ Reconnections' = IF Rejected(f)
                               THEN [Reconnections EXCEPT ![f.profile][f.daddr] = @ + 1]
                               ELSE Reconnections
           /\ evidence' = evidence \cup check_long_connection(f) \cup PortChecks(f).found
                          \cup MultipleReconnections(f) \cup PortZero(f)
                          \cup MultiplePorts(f) \cup DataExfiltration(f)
    /\ new_flow' = Tail(new_flow)
    /\ UNCHANGED <<now, stored, feed, portinfo, nxdomains, smtp_bruteforce_cache,
                   dns_arpa_queries, logins>>

(* update_manager has read services.csv.                                   *)
ServicesRead ==
    /\ ~is_known_ports_read
    /\ is_known_ports_read' = TRUE
    /\ portinfo' = portinfo \cup NamedPort
    /\ UNCHANGED <<now, flowVars, used_software, new_software, aged,
                   unknown_ports_queue, ran_once, p2p_daddrs, counters, evidence, logins>>

(* new_service: a port zeek has a name for                                 *)
NewService(port) ==
    /\ portinfo' = portinfo \cup {port}
    /\ UNCHANGED <<now, flowVars, feed, unknown_ports_queue, ran_once, p2p_daddrs,
                   counters, evidence, logins>>

-----------------------------------------------------------------------------
(* new_dns_flow, beside the check for a connection                         *)

(* ip_info stores the age of a domain when it gets to it.                  *)
AgeStored(d) ==
    /\ aged' = aged \cup {d}
    /\ UNCHANGED <<now, flowVars, used_software, new_software, is_known_ports_read,
                   ports, counters, evidence, logins>>

(* The first name of a profile is only remembered; a name seen before is   *)
(* counted once, and the count looked at again.                            *)
detect_DGA(p, query) ==
    LET n == Cardinality(nxdomains[p] \cup {query})
    IN  OnlyIf(nxdomains[p] # {} /\ n % NxdomainsStep = 0 /\ n >= NxdomainsThreshold,
               {Evidence("DGA", p, p, n)})

detect_young_domains(p, query) ==
    OnlyIf(query \in aged \cap Young, {Evidence("YoungDomain", p, query, 0)})

NewDns(p, query, nxdomain) ==
    /\ nxdomains' = IF nxdomain THEN [nxdomains EXCEPT ![p] = @ \cup {query}]
                    ELSE nxdomains
    /\ evidence' = evidence \cup detect_young_domains(p, query)
                   \cup IF nxdomain THEN detect_DGA(p, query) ELSE {}
    /\ UNCHANGED <<now, flowVars, feed, ports, Reconnections, smtp_bruteforce_cache,
                   dns_arpa_queries, logins>>

(* A query for a name under in-addr.arpa, which neither of the two above   *)
(* looks at.  The list is emptied by an alert only.                        *)
check_dns_arpa_scan(p) ==
    LET queries == Append(dns_arpa_queries[p], now)
        scan == /\ Len(queries) >= ArpaThreshold
                /\ queries[Len(queries)] - queries[1] <= ArpaSeconds
    IN  /\ Len(dns_arpa_queries[p]) < MaxQueries
        /\ dns_arpa_queries' = [dns_arpa_queries EXCEPT ![p] =
                                    IF scan THEN <<>> ELSE queries]
        /\ evidence' = evidence \cup OnlyIf(scan, {Evidence("DNS-ARPA-Scan", p, p, now)})
        /\ UNCHANGED <<now, flowVars, feed, ports, Reconnections, nxdomains,
                       smtp_bruteforce_cache, logins>>

-----------------------------------------------------------------------------
(* A cache that has become full is emptied.                                *)
Emptied(cached) == <<>>

(* new_smtp: a bad login.  The cache never grows over the threshold, or    *)
(* the comparison for equality would not be met again.                     *)
WithoutOldest(cached) == Tail(cached)

NewSmtp(p) ==
    LET cached == Append(smtp_bruteforce_cache[p], now)
        full == Len(cached) = SmtpThreshold
        bruteforce == full /\ cached[Len(cached)] - cached[1] <= SmtpSeconds
    IN  /\ Len(logins[p]) < MaxQueries
        /\ smtp_bruteforce_cache' = [smtp_bruteforce_cache EXCEPT ![p] =
                IF bruteforce THEN <<>> ELSE IF full THEN WithoutOldest(cached) ELSE cached]
        /\ evidence' = evidence \cup {Evidence("BadSMTPLogin", p, p, now)}
                       \cup OnlyIf(bruteforce, {Evidence("SMTPLoginBruteforce", p, p, now)})
        /\ logins' = [logins EXCEPT ![p] = Append(@, now)]
        /\ UNCHANGED <<now, flowVars, feed, ports, Reconnections, nxdomains,
                       dns_arpa_queries>>

-----------------------------------------------------------------------------
(* SSH client versions.  ProfilerProcess stores the version before it      *)
(* publishes the message.                                                  *)
add_software_to_profile(p, v) ==
    /\ Len(new_software) < MaxQueries
    /\ used_software' = [used_software EXCEPT ![p] = {v}]
    /\ new_software' = Append(new_software, [profile |-> p, version |-> v])
    /\ UNCHANGED <<now, flowVars, is_known_ports_read, aged, ports, counters, evidence,
                   logins>>

check_multiple_ssh_clients ==
    /\ new_software # <<>>
    /\ LET m == Head(new_software)
       IN  evidence' = evidence \cup
              OnlyIf(used_software[m.profile] # {m.version},
                     {Evidence("MultipleSSHVersions", m.profile, m.version, 0)})
    /\ new_software' = Tail(new_software)
    /\ UNCHANGED <<now, flowVars, used_software, is_known_ports_read, aged, ports,
                   counters, logins>>

-----------------------------------------------------------------------------
(* Messages that are evidence by themselves                                *)

Notes == {"Port_Scan", "SSL certificate validation failed", "Address_Scan",
          "Password_Guessing"}

Reported(E) ==
    /\ evidence' = evidence \cup E
    /\ UNCHANGED <<now, flowVars, feed, ports, counters, logins>>

NewNotice(p, note) == Reported({Evidence(note, p, p, 0)})

(* new_ssl: the certificate, and the fingerprints of client and server     *)
NewSsl(p, daddr, self_signed, ja3, ja3s) ==
    Reported(OnlyIf(self_signed, {Evidence("SelfSignedCertificate", p, daddr, 0)})
             \cup OnlyIf(ja3 \in Malicious, {Evidence("MaliciousJA3", p, p, 0)})
             \cup OnlyIf(ja3s \in Malicious, {Evidence("MaliciousJA3s", p, daddr, 0)}))

NewDownloadedFile(p, sha1) ==
    Reported(OnlyIf(sha1 \in Malicious, {Evidence("MaliciousSSLCert", p, sha1, 0)}))

FlowStep ==
    \/ \E f \in Flow : StoreFlow(f)
    \/ NewFlow \/ ServicesRead
    \/ \E port \in Port : NewService(port)

DnsStep ==
    \/ \E d \in Name : AgeStored(d)
    \/ \E p \in Profile, d \in Name, nxdomain \in BOOLEAN : NewDns(p, d, nxdomain)

LoginStep ==
    \/ Later
    \/ \E p \in Profile : NewSmtp(p) \/ check_dns_arpa_scan(p)

SoftwareStep ==
    \/ \E p \in Profile, v \in Version : add_software_to_profile(p, v)
    \/ check_multiple_ssh_clients

MessageStep ==
    \/ \E p \in Profile, note \in Notes : NewNotice(p, note)
    \/ \E p \in Profile, a \in Address, b \in BOOLEAN, j, k \in Fingerprint :
            NewSsl(p, a, b, j, k)
    \/ \E p \in Profile, k \in Fingerprint : NewDownloadedFile(p, k)

ThresholdNext == FlowStep \/ DnsStep \/ LoginStep \/ SoftwareStep \/ MessageStep

ThresholdSpec == ThresholdInit /\ [][ThresholdNext]_thresholdVars

-----------------------------------------------------------------------------
(* Type correctness of what the main loop keeps between messages           *)
ThresholdsTypeOK ==
    /\ now \in 0..MaxNow
    /\ \A p \in Profile : ToSet(stored[p]) \subseteq Flow
    /\ ToSet(new_flow) \cup handled \cup ToSet(unknown_ports_queue) \subseteq Flow
    /\ used_software \in [Profile -> SUBSET Version] /\ aged \subseteq Name
    /\ is_known_ports_read \in BOOLEAN /\ ran_once \in BOOLEAN
    /\ portinfo \subseteq Port
    /\ p2p_daddrs \in [Address -> 0..P2pTries]
    /\ Reconnections \in [Profile -> [Address -> Nat]]
    /\ nxdomains \in [Profile -> SUBSET Name]
    /\ \A p \in Profile :
          /\ ToSet(smtp_bruteforce_cache[p]) \cup ToSet(dns_arpa_queries[p]) \subseteq 0..MaxNow
          /\ Len(smtp_bruteforce_cache[p]) < SmtpThreshold

(* Bad logins that belong to no alert of this profile: SmtpThreshold of    *)
(* them in a row within SmtpSeconds do not pass unnoticed.  An alert uses  *)
(* up the logins it is about (run, new_smtp).                              *)
NoBruteforceMissed ==
    \A p \in Profile :
        LET ts == logins[p]
            Alerted(i) == Evidence("SMTPLoginBruteforce", p, p, ts[i]) \in evidence
        IN  \A i \in DOMAIN ts :
                i >= SmtpThreshold /\ ts[i] - ts[i - SmtpThreshold + 1] <= SmtpSeconds
                => \E k \in (i - SmtpThreshold + 1)..i : Alerted(k)

(* A flow to a port without a name, which nothing excuses, is waiting for  *)
(* services.csv or has been reported: the queue of the flows that came too *)
(* early is neither lost nor left behind (unknown_ports_queue, ran_once).  *)
UnknownPortNotForgotten ==
    \A f \in handled :
        \/ f.dport = 0 \/ f.dport \in portinfo \/ port_belongs_to_an_org(f)
        \/ f.dport \in HighPort \cup FtpPort
        \/ ~ran_once /\ f \in ToSet(unknown_ports_queue)
        \/ Evidence("UnknownPort", f.profile, f.daddr, f.dport) \in evidence
=============================================================================
