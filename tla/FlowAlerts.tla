----------------------------- MODULE FlowAlerts -----------------------------
(***************************************************************************)
(* The checks of flowalerts that look twice: a connection without DNS      *)
(* resolution, a DNS resolution without connection, and a successful SSH   *)
(* login.                                                                  *)
(*                                                                         *)
(* ProfilerProcess stores flows and answers in any order, for it reads     *)
(* several logs.  So a check that finds nothing remembers the uid in a     *)
(* cache and starts a TimerThread, which 15 seconds later calls the same   *)
(* function again; finding the uid in the cache, the function knows that   *)
(* it is the second time.  The timers run in the process of the module,    *)
(* beside its main loop, and share its caches; between the look into the   *)
(* database and what follows from it other processes write.                *)
(*                                                                         *)
(* Hosts are the two addresses, IPv4 and IPv6, of one computer.            *)
(***************************************************************************)
EXTENDS Integers, Sequences, FiniteSets

CONSTANTS
    Ip,         \* addresses outside that is_ignored_ip lets through
    Domain,     \* domains whose resolution is expected to be used
    Host, OtherOf,                  \* host -> the other host
    Conn, Saddr, Daddr,             \* connections of conn.log
    Login, Successful,              \* those of ssh.log; those that succeed
    Query, Asker, UidOf, DomainOf, Answers,     \* answered lines of dns.log
    WellKnown,  \* addresses of the supported organizations
    Day, InterfaceWait,     \* conn_without_dns_interface_wait_time
    StartTime,  \* slips_start_time
    MaxInternal \* bound: the internal time

Checks == {"conn", "dns", "ssh"}
Ids == Conn \cup Query
Uids == Conn \cup {UidOf[q] : q \in Query}

ASSUME FlowAlertsAssumption ==
    /\ OtherOf \in [Host -> Host]
    /\ Saddr \in [Conn -> Host] /\ Daddr \in [Conn -> Ip]
    /\ Successful \subseteq Login /\ Login \subseteq Conn
    /\ Asker \in [Query -> Host] /\ DomainOf \in [Query -> Domain]
    /\ Answers \in [Query -> SUBSET Ip \ {{}}]
    /\ Day \in Nat \ {0} /\ InterfaceWait \in Nat
    /\ StartTime \in Int /\ MaxInternal \in Nat

VARIABLES
    interface,  \* slips was started with -i
    internal,   \* the internal time
    young,      \* less than two minutes of the day since slips started
    flows,      \* connections stored in the database
    asked,      \* lines of dns.log and ssh.log stored
    DNSresolution,      \* address -> hosts that resolved it ('resolved-by')
    DomainsInfo,        \* domain -> its 'IPs'
    paired,     \* the database knows both addresses of the computer
    identified, \* addresses whose organization the database knows
    channel,    \* messages the module has not read
    main,       \* the message the main loop works on
    timers,     \* threads started, waiting or at work
    cache,      \* the three caches of uids
    alerts      \* evidence set

clock == <<interface, internal, young>>
database == <<flows, asked, DNSresolution, DomainsInfo, paired, identified>>
vars == <<clock, database, channel, main, timers, cache, alerts>>

Idle == [check |-> "none", id |-> 0, pc |-> "idle"]
Job(k, i, pc) == [check |-> k, id |-> i, pc |-> pc]

ChannelOf == [conn |-> "new_flow", dns |-> "new_dns_flow", ssh |-> "new_ssh"]

Init ==
    /\ interface \in BOOLEAN
    /\ internal = 0
    /\ young = interface
    /\ flows = {}
    /\ asked = {}
    /\ DNSresolution = [a \in Ip |-> {}]
    /\ DomainsInfo = [d \in Domain |-> {}]
    /\ paired = FALSE
    /\ identified = {}
    /\ channel = [c \in {"new_flow", "new_dns_flow", "new_ssh"} |-> <<>>]
    /\ main = Idle
    /\ timers = {}
    /\ cache = [k \in Checks |-> {}]
    /\ alerts = {}

-----------------------------------------------------------------------------
(* The other processes *)

Publish(c, m) == channel' = [channel EXCEPT ![c] = Append(@, m)]

add_flow(c) ==
    /\ c \notin flows
    /\ flows' = flows \cup {c}
    /\ Publish("new_flow", c)
    /\ UNCHANGED <<clock, asked, DNSresolution, DomainsInfo, paired, identified,
                   main, timers, cache, alerts>>

(* set_dns_resolution runs before the message is published.                *)
add_out_dns(q) ==
    /\ q \notin asked
    /\ asked' = asked \cup {q}
    /\ DNSresolution' = [a \in Ip |->
            DNSresolution[a] \cup IF a \in Answers[q] THEN {Asker[q]} ELSE {}]
    /\ DomainsInfo' = [DomainsInfo EXCEPT ![DomainOf[q]] = @ \cup Answers[q]]
    /\ Publish("new_dns_flow", q)
    /\ UNCHANGED <<clock, flows, paired, identified, main, timers, cache, alerts>>

add_out_ssh(c) ==
    /\ c \notin asked
    /\ asked' = asked \cup {c}
    /\ Publish("new_ssh", c)
    /\ UNCHANGED <<clock, flows, DNSresolution, DomainsInfo, paired, identified,
                   main, timers, cache, alerts>>

(* add_mac_addr_to_profile, ip_info and the SNI of add_out_ssl             *)
Learn ==
    /\ \/ paired' = TRUE /\ UNCHANGED identified
       \/ \E a \in WellKnown : identified' = identified \cup {a} /\ UNCHANGED paired
    /\ UNCHANGED <<clock, flows, asked, DNSresolution, DomainsInfo, channel, main,
                   timers, cache, alerts>>

Tick ==
    /\ \/ internal < MaxInternal /\ internal' = internal + 1 /\ UNCHANGED young
       \/ interface /\ young' = ~young /\ UNCHANGED internal
    /\ UNCHANGED <<interface, database, channel, main, timers, cache, alerts>>

-----------------------------------------------------------------------------
(* What the module reads *)

(* timedelta.seconds leaves the days out, of negative differences too.     *)
EarlyInternalTime == (internal - StartTime) % Day < InterfaceWait

(* The profile of an address; what is not an address has none.             *)
ContactedBy(h) == {Daddr[c] : c \in {x \in flows : Saddr[x] = h}}

check_if_resolution_was_made_by_different_version(c) ==
    paired /\ OtherOf[Saddr[c]] \in DNSresolution[Daddr[c]]

(* The other address is the text of a JSON list here, not the address.     *)
check_if_connection_was_made_by_different_version(q) ==
    paired /\ Answers[q] \cap ContactedBy(<<OtherOf[Asker[q]]>>) # {}

is_well_known_org(a) == a \in identified

(* Answers of earlier queries for the domain count too.                    *)
HasConnection(q) ==
    (Answers[q] \cup DomainsInfo[DomainOf[q]]) \cap ContactedBy(Asker[q]) # {}

Satisfied(j) ==
    CASE j.check = "conn" -> young \/ DNSresolution[Daddr[j.id]] # {}
      [] j.check = "dns" -> HasConnection(j.id)
      [] OTHER -> j.id \in flows /\ j.id \notin Successful

NotAnAlert(j) ==
    CASE j.check = "conn" ->
            \/ check_if_resolution_was_made_by_different_version(j.id)
            \/ is_well_known_org(Daddr[j.id])
      [] j.check = "dns" ->
            check_if_connection_was_made_by_different_version(j.id)
      [] OTHER -> TRUE

-----------------------------------------------------------------------------
(* The module *)

Key(j) == IF j.check = "dns" THEN UidOf[j.id] ELSE j.id

(* The main loop takes a message of one of its channels.                   *)
Receive(k) ==
    /\ main = Idle
    /\ channel[ChannelOf[k]] # <<>>
    /\ main' = IF k = "conn" /\ EarlyInternalTime THEN Idle
               ELSE Job(k, Head(channel[ChannelOf[k]]), "look")
    /\ channel' = [channel EXCEPT ![ChannelOf[k]] = Tail(@)]
    /\ UNCHANGED <<clock, database, timers, cache, alerts>>

Seen(j) ==
    CASE Satisfied(j) -> "done"
      [] j.check = "ssh" /\ j.id \in flows -> "found"
      [] OTHER -> "missing"

(* The look into the database, by the main loop or by a timer              *)
Look ==
    /\ main.pc = "look"
    /\ main' = IF Seen(main) = "done" THEN Idle ELSE [main EXCEPT !.pc = Seen(main)]
    /\ UNCHANGED <<clock, database, channel, timers, cache, alerts>>

TimerLook(t) ==
    /\ t \in timers /\ t.pc = "wait"
    /\ timers' = (timers \ {t}) \cup
            (IF Seen(t) = "done" THEN {} ELSE {[t EXCEPT !.pc = Seen(t)]})
    /\ UNCHANGED <<clock, database, channel, main, cache, alerts>>

FirstOfAll(j) == j.pc = "missing" /\ cache[j.check] = {}

FirstTime(j) == j.pc = "missing" /\ Key(j) \notin cache[j.check]

Alerts(j) ==
    \/ j.pc = "found"
    \/ j.pc = "missing" /\ ~FirstTime(j) /\ ~NotAnAlert(j)

OnlyTimer(j) ==
    IF FirstTime(j) /\ timers = {} THEN {[j EXCEPT !.pc = "wait"]} ELSE {}

NewTimers(j) == IF FirstTime(j) THEN {[j EXCEPT !.pc = "wait"]} ELSE {}

Decided(j) ==
    /\ cache' = [cache EXCEPT ![j.check] =
            IF FirstTime(j) THEN @ \cup {Key(j)}
            ELSE IF Alerts(j) THEN @ \ {Key(j)} ELSE @]
    /\ alerts' = alerts \cup (IF Alerts(j) THEN {<<j.check, j.id>>} ELSE {})

(* What follows from it: a timer, evidence, or nothing                     *)
Decide ==
    /\ main.pc \in {"missing", "found"}
    /\ Decided(main)
    /\ main' = Idle
    /\ timers' = timers \cup NewTimers(main)
    /\ UNCHANGED <<clock, database, channel>>

TimerDecide(t) ==
    /\ t \in timers /\ t.pc \in {"missing", "found"}
    /\ Decided(t)
    /\ timers' = (timers \ {t}) \cup NewTimers(t)
    /\ UNCHANGED <<clock, database, channel, main>>

(* stop_process; the timers that still wait keep the process alive.        *)
Stop ==
    /\ main = Idle
    /\ main' = [Idle EXCEPT !.pc = "ended"]
    /\ UNCHANGED <<clock, database, channel, timers, cache, alerts>>

Next ==
    \/ \E c \in Conn : add_flow(c)
    \/ \E q \in Query : add_out_dns(q)
    \/ \E c \in Login : add_out_ssh(c)
    \/ Learn \/ Tick
    \/ \E k \in Checks : Receive(k)
    \/ Look \/ Decide \/ Stop
    \/ \E t \in timers : TimerLook(t) \/ TimerDecide(t)

Spec == Init /\ [][Next]_vars

(* A thread that waits is woken after its interval and runs to its end.    *)
TimerRuns(k, i) ==
    \E t \in timers : t.check = k /\ t.id = i /\ (TimerLook(t) \/ TimerDecide(t))

Fairness == \A k \in Checks : \A i \in Ids : WF_vars(TimerRuns(k, i))

FairSpec == Spec /\ Fairness

-----------------------------------------------------------------------------
Jobs == [check : Checks, id : Ids, pc : {"wait", "missing", "found"}]

(* Type correctness: what each cache and thread holds                      *)
FlowAlertsTypeOK ==
    /\ interface \in BOOLEAN /\ internal \in Nat /\ young \in BOOLEAN
    /\ flows \subseteq Conn /\ asked \subseteq Query \cup Login
    /\ DNSresolution \in [Ip -> SUBSET Host]
    /\ DomainsInfo \in [Domain -> SUBSET Ip]
    /\ paired \in BOOLEAN /\ identified \subseteq WellKnown
    /\ channel["new_flow"] \in Seq(Conn)
    /\ channel["new_dns_flow"] \in Seq(Query)
    /\ channel["new_ssh"] \in Seq(Login)
    /\ main.check \in Checks \cup {"none"}
    /\ main.pc \in {"idle", "look", "missing", "found", "ended"}
    /\ timers \subseteq Jobs
    /\ cache \in [Checks -> SUBSET Uids]
    /\ alerts \subseteq Checks \X Ids

(* A connection is reported only by a timer, after the second look, and    *)
(* so never while its DNS answer may still be on its way from another log  *)
(* (check_connection_without_dns_resolution).                              *)
ConnLookedAtTwice ==
    [][\A c \in Conn :
          <<"conn", c>> \in alerts' \ alerts => main' = main]_vars

(* A connection the module waits for is, outside an interface capture,     *)
(* reported in the end unless its address was resolved or is of a known    *)
(* organization: no timer is lost, and none is started for nothing.        *)
UnresolvedIsReported ==
    \A c \in Conn :
        c \in cache["conn"] ~>
            \/ <<"conn", c>> \in alerts \/ interface
            \/ DNSresolution[Daddr[c]] # {} \/ Daddr[c] \in identified
=============================================================================
