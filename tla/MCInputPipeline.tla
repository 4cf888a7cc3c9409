-------------------------- MODULE MCInputPipeline --------------------------
(***************************************************************************)
(* Small instances of how lines are read and what becomes of them.  A      *)
(* behaviour is about one topic: "files", the way of the lines to          *)
(* ProfilerProcess, with two short logs, two timestamps and lines without, *)
(* or "lines", what ProfilerProcess does with the lines of one input.      *)
(***************************************************************************)
EXTENDS Input

CONSTANTS conn, dns

VARIABLE topic

-----------------------------------------------------------------------------
(* "a" and "b" are at home; "ab" is an address whose text has that of "a". *)

MCWithin == {<<"a", "ab">>, <<"org.com", "www.org.com">>}
MCEndsWith == {<<"org.com", "www.org.com">>}
MCSni == [ip \in {"c"} |-> {"www.org.com"}]
MCResolved == [ip \in {"b"} |-> {"org.com"}]
MCOrgRange == [org |-> {"c"}, other |-> {}]
MCOrgAsn == [org |-> {"d"}, other |-> {}]
MCOrgDomain == [org |-> {"www.org.com", "org.com"}, other |-> {}]
MCOrgInside == [org |-> {"www.org.com", "org.com"}, other |-> {"www.org.com"}]

Listing(type, name, from, what) ==
    [type |-> type, data |-> name, from |-> from, what |-> what, commented |-> FALSE]
Comment(l) == [l EXCEPT !.commented = TRUE]

IpEntry == Listing("ip", "a", "src", "flows")
LongIp == Listing("ip", "ab", "src", "flows")
DomainEntry == Listing("domain", "org.com", "both", "both")
OrgEntry == Listing("org", "org", "dst", "flows")
MacEntry == Listing("mac", "m", "both", "alerts")

MCConf == {
    << >>,
    <<IpEntry, Listing("ip", "a", "both", "alerts")>>,
    <<Comment(LongIp), Comment(DomainEntry), MacEntry>>,
    <<LongIp, IpEntry, DomainEntry, Listing("org", "other", "src", "flows")>>,
    <<Listing("ip", "nonsense", "src", "flows"), OrgEntry>> }

Row(form, log) ==
    [form |-> form, told |-> "", words |-> {log}, dir |-> {},
     time |-> "unixtimestamp", whole |-> TRUE, saddr |-> "a", daddr |-> "c",
     domains |-> {}, mac |-> "", dmac |-> ""]

StopRow == Row("stop", "stop")
ArgusHeader == [Row("argus", "StartTime") EXCEPT !.whole = FALSE, !.time = "odd"]

JsonRows == {
    [Row("zeek", "conn") EXCEPT !.mac = "m", !.daddr = "b", !.dmac = "ff"],
    [Row("zeek", "conn") EXCEPT !.saddr = "v6", !.daddr = "a", !.time = ""],
    [Row("zeek", "http") EXCEPT !.saddr = "ab", !.domains = {"www.org.com"}],
    [Row("zeek", "software") EXCEPT !.words = {"software", "browser"}],
    [Row("zeek", "dhcp") EXCEPT !.mac = "m", !.saddr = "", !.daddr = ""],
    [Row("zeek", "arp") EXCEPT !.mac = "m", !.dmac = "n", !.daddr = "d"],
    [Row("zeek", "software") EXCEPT !.daddr = ""],
    [Row("zeek-tabs", "conn") EXCEPT !.saddr = "v6", !.daddr = "w6"] }

TextRows == {
    [Row("zeek-tabs", "smb_files") EXCEPT !.words = {"smb_files", "files"}],
    [Row("zeek-tabs", "notice") EXCEPT !.dir = {"ftp", "conn"}, !.daddr = ""],
    [Row("zeek-tabs", "dns") EXCEPT !.time = "date"],
    [Row("zeek-tabs", "ssh") EXCEPT !.whole = FALSE, !.time = "odd"],
    [Row("suricata", "flow") EXCEPT !.time = "date"],
    [Row("suricata", "http") EXCEPT !.whole = FALSE],
    [Row("suricata", "tls") EXCEPT !.time = "odd"] }

ArgusRows ==
    {ArgusHeader, Row("argus", "none"), [Row("argus", "none") EXCEPT !.time = "date"]}

NfdumpRows == {Row("nfdump", "none"), [Row("nfdump", "none") EXCEPT !.time = "odd"]}

Told(l, type) == [l EXCEPT !.told = type]

MCFlowInput ==
    {s \in [1 .. 3 -> JsonRows] : s[1] # s[2] /\ s[2] # s[3] /\ s[1] # s[3]}
    \cup [1 .. 3 -> {l \in TextRows : l.form = "zeek-tabs"}]
    \cup [1 .. 3 -> {l \in TextRows : l.form = "suricata"}]
    \cup [1 .. 4 -> ArgusRows]
    \cup [1 .. 3 -> {Told(l, "argus") : l \in ArgusRows}]
    \cup [1 .. 3 -> NfdumpRows \cup {StopRow}]
    \cup {<<Told(Row("zeek", "none"), "zeek"), StopRow>>, <<StopRow>>}

-----------------------------------------------------------------------------
MCInit ==
    \/ /\ topic = "files"
       /\ inputqueue = <<StopRow>> /\ whitelist_conf = <<>>
       /\ InputInit
    \/ /\ topic = "lines"
       /\ kind = "folder" /\ disk = [f \in File |-> <<>>]
       /\ InputInit

MCNext ==
    /\ UNCHANGED topic
    /\ \/ topic = "files" /\ Next /\ UNCHANGED readerVars
       \/ topic = "lines" /\ ReaderNext /\ UNCHANGED vars

(* The fairness is that of the topic: the threads of the other one do not  *)
(* run.                                                                    *)
MCFairness ==
    /\ WF_vars(topic = "files" /\ Observe)
    /\ WF_vars(topic = "files" /\ RemoverStep)
    /\ WF_vars(topic = "files" /\ ReaderStep)
    /\ WF_vars(topic = "files" /\ Feed)

MCSpec == MCInit /\ [][MCNext]_<<inputVars, topic>> /\ MCFairness
=============================================================================
