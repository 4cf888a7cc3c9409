----------------------------- MODULE FlowReader -----------------------------
(***************************************************************************)
(* How ProfilerProcess turns the lines it receives into flows: the type of *)
(* the input, the columns and the format of the time, which it learns from *)
(* the first lines and keeps, the flow a line stands for, what is stored   *)
(* or published about it, and whitelist.conf, which the user may edit      *)
(* meanwhile.                                                              *)
(*                                                                         *)
(* A line is what the parsers can tell of it: its form is the type that    *)
(* define_type would give it, words the names of logs that occur in its    *)
(* file name, dir those in the rest of the path, time the form of its      *)
(* timestamp, and whole says whether all columns its parser asks for are   *)
(* there.  Lines of zeek may lack a time or an address (""); what nothing  *)
(* here depends on is left out.                                            *)
(***************************************************************************)
EXTENDS Whitelist

CONSTANTS
    FlowInput,     \* the sequences of lines that may be given
    Conf,          \* the contents of whitelist.conf
    Unfit,         \* what publish_to_new_MAC skips: multicast and link-local
                   \* addresses, the MAC addresses of none and of all
    home_net,      \* addresses of the home network, {} if none is set
    direction,     \* analysis_direction: "out", "all"
    MaxEdits       \* bound: changes of whitelist.conf

Missing == <<"missing">>

FlowLine ==
    [form : {"zeek", "zeek-tabs", "suricata", "argus", "argus-tabs", "nfdump", "stop"},
     told : {"", "zeek", "suricata", "argus"},
     words : SUBSET STRING, dir : SUBSET STRING,
     time : {"", "odd", "unixtimestamp", "date"}, whole : BOOLEAN,
     saddr : STRING, daddr : STRING, domains : SUBSET STRING,
     mac : STRING, dmac : STRING]

(* Stdin has one type, as the user said; the header of argus has no time;  *)
(* each line of suricata is an event of one type.                          *)
ASSUME ReaderAssumption ==
    /\ FlowInput \subseteq Seq(FlowLine)
    /\ \A s \in FlowInput : \A i \in DOMAIN s :
          s[i].form # "stop" =>
             /\ s[i].told = s[1].told
             /\ "StartTime" \in s[i].words => s[i].time = "odd"
             /\ "suricata" \in {s[1].form, s[1].told} => \E e \in s[i].words : s[i].words = {e}
    /\ Conf \subseteq Seq(Listed)
    /\ "0.0.0.0" \in Ip4
    /\ MaxEdits \in Nat

VARIABLES
    inputqueue,        \* lines not yet received
    lines,             \* history: the lines received
    profiler,          \* "get", "poll", "finished", "error"
    input_type, timeformat, column_idx, column_values,
    results,           \* history: what was stored or published, of which line
    macs,              \* addresses whose MAC address ip_info has stored
    whitelist_conf,    \* the file, or Missing
    whitelist,         \* the database
    reload_whitelist,  \* messages ProfilerProcess has not read
    edits              \* number of changes of whitelist.conf

learnt == <<input_type, timeformat, column_idx, column_values>>
listed == <<whitelist_conf, whitelist, reload_whitelist, edits>>
readerVars == <<inputqueue, lines, profiler, learnt, results, macs, listed>>

ReaderInit ==
    /\ inputqueue \in FlowInput
    /\ lines = <<>>
    /\ profiler = "get"
    /\ input_type = "" /\ timeformat = "" /\ column_idx = "none"
    /\ column_values = [type |-> ""]
    /\ results = <<>>
    /\ macs = {}
    /\ whitelist_conf \in Conf
    /\ whitelist = ReadWhitelist(whitelist_conf, <<>>)
    /\ reload_whitelist = <<"subscribe">>
    /\ edits = 0

-----------------------------------------------------------------------------
(* define_type: the user names the type of what comes from stdin, the      *)
(* first line shows any other.                                             *)
Typed(l) ==
    IF input_type # "" THEN input_type ELSE IF l.told # "" THEN l.told ELSE l.form

(* get_time: the format of the first time that has one is kept.            *)
FormatOfAny(t) == IF timeformat # "" THEN timeformat ELSE t
Format(t) == IF timeformat # "" THEN timeformat ELSE IF t = "odd" THEN "" ELSE t
NoFloat(l) == Format(l.time) = "unixtimestamp" /\ l.time # "unixtimestamp"

(* starttime: "None" if no format is known, "False" and "" for no time     *)
StartTime(l, type) ==
    IF l.time = "" THEN IF type = "zeek" THEN "" ELSE "False"
    ELSE IF NoFloat(l) THEN "False"
    ELSE IF Format(l.time) = "" THEN "None" ELSE l.time

(* What add_flow_to_profile makes of it: a number of seconds, none because *)
(* an exception has ended the flow, or none and the flow goes on until the *)
(* unbound variable is used.                                               *)
Start(l, type) ==
    LET t == StartTime(l, type)
    IN  IF t = "None" THEN "None"
        ELSE IF t = Format(l.time) /\ t # ""
             THEN IF t = "unixtimestamp" THEN "datetime" ELSE "text"
        ELSE IF \/ t = "False" \/ Format(l.time) = ""
                \/ t = "unixtimestamp" /\ type = "zeek"
        THEN "raises" ELSE "unbound"

-----------------------------------------------------------------------------
(* The log a line of zeek is from: the first of these names found          *)
ZeekLogs == <<
    "conn", "dns", "http", "ssl", "ssh", "irc", "long", "dhcp", "dce_rpc",
    "dnp3", "ftp", "kerberos", "mysql", "modbus", "ntlm", "rdp", "sip",
    "smb_cmd", "smb_files", "smb_mapping", "smtp", "socks", "syslog", "tunnel",
    "notice", "files", "arp", "known_services", "software" >>

FirstOf(names) ==
    LET found == {i \in DOMAIN ZeekLogs : ZeekLogs[i] \in names}
    IN  IF found = {} THEN ""
        ELSE ZeekLogs[CHOOSE i \in found : \A j \in found : i <= j]

(* process_zeek_input: the name of the file only; software of browsers is  *)
(* known from http.log.                                                    *)
JsonLog(l) ==
    IF l.told = "zeek" THEN "conn"
    ELSE IF "browser" \in l.words THEN "" ELSE FirstOf(l.words)

(* process_zeek_tabs_input: the whole path, in which the names of these    *)
(* must be followed by ".log"                                              *)
Suffixed == {"conn", "dns", "http", "ssl", "ssh", "dhcp", "smtp", "socks",
             "syslog", "tunnel", "notice", "files", "arp"}

TabsLog(l) ==
    FirstOf((l.words \cup (l.dir \ Suffixed)) \ {"known_services", "software"})

(* The logs whose parser indexes columns, or keys, without a handler       *)
Indexed(type) ==
    CASE type = "zeek" -> {"conn", "files"}
      [] type = "zeek-tabs" -> {"conn", "ssh", "dhcp", "ftp", "smtp", "notice",
                                "files", "arp"}
      [] OTHER -> {}

LogOf(l, type) ==
    CASE type = "zeek" -> JsonLog(l)
      [] type = "zeek-tabs" -> TabsLog(l)
      [] type = "suricata" -> CHOOSE event_type \in l.words : TRUE
      [] type = "nfdump" -> "nfdump"
      [] OTHER -> "argus"

(* An exception that leaves the parser: it ends ProfilerProcess.  Suricata *)
(* lines must have a timestamp, and flows a start in the known format; in  *)
(* argus every column must be there and its numbers be numbers; a JSON     *)
(* line has no columns and vice versa.                                     *)
ParserRaises(l, type) ==
    \/ type \in {"zeek", "zeek-tabs"} /\ l.form # type
    \/ ~ l.whole /\ LogOf(l, type) \in Indexed(type)
    \/ ~ l.whole /\ type \in {"argus", "argus-tabs"}
    \/ type = "suricata" /\ l.time = ""
    \/ type = "suricata" /\ "flow" \in l.words /\ l.whole /\ NoFloat(l)
    \/ type # "suricata" /\ l.time # "" /\ NoFloat(l)

-----------------------------------------------------------------------------
(* column_values, filled anew by each parser                               *)

ColumnsKept(l, type) ==
    IF LogOf(l, type) = "" THEN column_values
    ELSE [type |-> LogOf(l, type), start |-> Start(l, type),
          saddr |-> l.saddr, daddr |-> l.daddr, domains |-> l.domains,
          smac |-> l.mac, dmac |-> l.dmac, src_mac |-> "", dst_mac |-> "",
          whole |-> TRUE]

(* A client of DHCP without an address goes by its MAC address.            *)
Saddr(l, log) ==
    IF log = "dhcp" /\ l.saddr = "" /\ l.daddr = "" THEN l.mac ELSE l.saddr

(* A notice without a destination is about its source; known_services has  *)
(* no destination.                                                         *)
Daddr(l, log) ==
    CASE log = "notice" /\ l.daddr = "" -> l.saddr
      [] log = "known_services" -> "0.0.0.0"
      [] log = "software" -> ""
      [] OTHER -> l.daddr

(* Suricata: whether the columns its flows are stored from are all there   *)
HasColumns(l, type, log) ==
    type = "suricata" => l.whole /\ log \in {"flow", "http", "dns"}

(* Of the MAC addresses conn has smac and dmac, arp src_mac and dst_mac,   *)
(* and dhcp that of the client.                                            *)
Columns(l, type) ==
    LET log == LogOf(l, type)
    IN  [type |-> log, start |-> Start(l, type),
         saddr |-> Saddr(l, log), daddr |-> Daddr(l, log), domains |-> l.domains,
         smac |-> l.mac, dmac |-> l.dmac,
         src_mac |-> IF log \in {"arp", "dhcp"} THEN l.mac ELSE "",
         dst_mac |-> IF log = "arp" THEN l.dmac ELSE "",
         whole |-> HasColumns(l, type, log)]

-----------------------------------------------------------------------------
(* add_flow_to_profile *)

FlowTypes == {"conn", "flow", "argus", "nfdump"}
Supported == FlowTypes \cup
    {"ssh", "ssl", "http", "dns", "notice", "dhcp", "files", "known_services",
     "arp", "ftp", "smtp", "software"}

Refused(c) ==
    \/ c.type \notin Supported
    \/ c.start \in {"None", "raises"}
    \/ c.saddr = "" /\ c.daddr = ""
    \/ Verdict(whitelist, c, macs) # "no"

(* publish_to_new_MAC, which raises for a text that is no address          *)
NewMac(mac, ip) ==
    IF mac = "" \/ {mac, ip} \cap Unfit # {} \/ ip \notin Ip THEN <<>>
    ELSE << <<"new_MAC", ip>> >>

MacsOf(c) ==
    NewMac(c.smac, c.saddr)
    \o IF c.smac # "" /\ c.saddr \notin Ip THEN <<>> ELSE NewMac(c.dmac, c.daddr)

(* What is written before the addresses are looked at                      *)
Early(c) ==
    CASE c.type \in FlowTypes -> MacsOf(c)
      [] c.type = "dhcp" ->
            (IF c.src_mac # "" THEN << <<"new_MAC", c.saddr>> >> ELSE <<>>)
            \o (IF c.daddr \in Ip THEN << <<"dhcp_server", c.daddr>> >> ELSE <<>>)
      [] c.type = "software" ->
            << <<"user_agent", c.saddr>>, <<"software", c.saddr>> >>
            \o (IF c.start = "datetime" THEN << <<"new_software", c.saddr>> >> ELSE <<>>)
      [] OTHER -> <<>>

(* Exceptions before and after that                                        *)
RaisesEarly(c) ==
    \/ ~ c.whole
    \/ c.type = "dhcp" /\ c.saddr \in Ip /\ c.start = "unbound"

Together(s, d) == {s, d} \subseteq Ip4 \/ {s, d} \subseteq Ip6

IsHome(a) == home_net = {} \/ a \in home_net

(* store_features_going_out and store_features_going_in                    *)
Published == [
    dns |-> "dns", http |-> "http", ssl |-> "ssl", ssh |-> "ssh",
    notice |-> "notice", ftp |-> "ftp_port", smtp |-> "new_smtp",
    files |-> "new_downloaded_file", known_services |-> "new_service",
    arp |-> "new_arp" ]

GoingOut(c) ==
    IF c.type \in FlowTypes THEN << <<"features", c.saddr>> >>
    ELSE IF c.type \notin DOMAIN Published THEN <<>>
    ELSE << <<Published[c.type], c.saddr>> >>
         \o (IF c.type = "arp" THEN NewMac(c.dmac, c.daddr) \o NewMac(c.smac, c.saddr)
                                   \o << <<"flow", c.saddr>> >> ELSE <<>>)

GoingIn(c) == IF c.type \in FlowTypes THEN << <<"features", c.daddr>> >> ELSE <<>>

Late(c) ==
    IF ~ Together(c.saddr, c.daddr) \/ c.start = "unbound" THEN <<>>
    ELSE (IF IsHome(c.saddr) THEN GoingOut(c) ELSE <<>>)
         \o (IF direction = "all" /\ IsHome(c.daddr) THEN GoingIn(c) ELSE <<>>)

AddedOf(c) ==
    IF Refused(c) \/ RaisesEarly(c) THEN <<>> ELSE Early(c) \o Late(c)

(* A MAC address beside a text that is no address ends the flow: nothing   *)
(* of it is late, as such a text has no family.                            *)
AddFlowToProfile(n, c) ==
    results' = results \o [i \in DOMAIN AddedOf(c) |->
                              [of |-> n, what |-> AddedOf(c)[i][1],
                               about |-> AddedOf(c)[i][2]]]

-----------------------------------------------------------------------------
(* run *)

IsArgus(type) == type \in {"argus", "argus-tabs"}

(* define_columns, called until a line has given a column for the time;    *)
(* for stdin the columns are a constant.                                   *)
ColumnsOnce(l) ==
    IF column_idx # "none" THEN column_idx
    ELSE IF "StartTime" \in l.words THEN "set" ELSE "bad"
ColumnsFrom(l) == IF "StartTime" \in l.words THEN "set" ELSE "bad"

IsHeader(l, type) == IsArgus(type) /\ l.told = "" /\ column_idx # "set"

ReceiveStop ==
    /\ inputqueue # <<>> /\ Head(inputqueue).form = "stop"
    /\ profiler' = "finished"
    /\ UNCHANGED <<learnt, results>>

TakeHeader ==
    /\ inputqueue # <<>>
    /\ LET l == Head(inputqueue)
       IN  /\ IsHeader(l, Typed(l))
           /\ l.form # "stop"
           /\ input_type' = Typed(l)
           /\ column_idx' = ColumnsFrom(l)
    /\ profiler' = "poll"
    /\ UNCHANGED <<timeformat, column_values, results>>

TakeLine ==
    /\ inputqueue # <<>>
    /\ LET l == Head(inputqueue)
           type == Typed(l)
       IN  /\ l.form # "stop"
           /\ ~ IsHeader(l, type)
           /\ input_type' = type
           /\ timeformat' = IF l.time = "" THEN timeformat ELSE Format(l.time)
           /\ column_idx' = IF IsArgus(type) THEN "set" ELSE column_idx
           /\ \/ /\ ParserRaises(l, type)
                 /\ profiler' = "error"
                 /\ UNCHANGED <<column_values, results>>
              \/ /\ ~ ParserRaises(l, type)
                 /\ column_values' = Columns(l, type)
                 /\ AddFlowToProfile(Len(lines) + 1, column_values')
                 /\ profiler' = "poll"

Receive ==
    /\ profiler = "get"
    /\ ReceiveStop \/ TakeHeader \/ TakeLine
    /\ lines' = Append(lines, Head(inputqueue))
    /\ inputqueue' = Tail(inputqueue)
    /\ UNCHANGED <<macs, listed>>

(* One message is read after each line; the first one confirms the         *)
(* subscription.  read_whitelist of a file that is not there returns an    *)
(* unbound variable.                                                       *)
Poll ==
    /\ profiler = "poll"
    /\ \/ /\ reload_whitelist = <<>>
          /\ profiler' = "get"
          /\ UNCHANGED <<whitelist, reload_whitelist>>
       \/ /\ reload_whitelist # <<>>
          /\ reload_whitelist' = Tail(reload_whitelist)
          /\ LET message == Head(reload_whitelist)
                 lost == message = "reload" /\ whitelist_conf = Missing
             IN  /\ profiler' = IF message = "stop_process" THEN "finished"
                                ELSE IF lost THEN "error" ELSE "get"
                 /\ whitelist' = IF message = "reload" /\ ~ lost
                                 THEN ReadWhitelist(whitelist_conf, whitelist)
                                 ELSE whitelist
    /\ UNCHANGED <<inputqueue, lines, learnt, results, macs, whitelist_conf, edits>>

-----------------------------------------------------------------------------
(* ip_info, on new_MAC                                                     *)
StoreMac(ip) ==
    /\ \E i \in DOMAIN results : results[i].what = "new_MAC" /\ results[i].about = ip
    /\ macs' = macs \cup {ip}
    /\ UNCHANGED <<inputqueue, lines, profiler, learnt, results, listed>>

(* The user saves the file, which filemonitor sees, or an editor moves it  *)
(* away to write it anew.                                                  *)
EditWhitelist(conf) ==
    /\ edits < MaxEdits
    /\ edits' = edits + 1
    /\ whitelist_conf' = conf
    /\ reload_whitelist' = IF conf = Missing THEN reload_whitelist
                           ELSE Append(reload_whitelist, "reload")
    /\ UNCHANGED <<inputqueue, lines, profiler, learnt, results, macs, whitelist>>

(* Main publishes stop_process                                             *)
StopReader ==
    /\ "stop_process" \notin {reload_whitelist[i] : i \in DOMAIN reload_whitelist}
    /\ reload_whitelist' = Append(reload_whitelist, "stop_process")
    /\ UNCHANGED <<inputqueue, lines, profiler, learnt, results, macs,
                   whitelist_conf, whitelist, edits>>

ReaderNext ==
    \/ Receive
    \/ Poll
    \/ \E ip \in Ip : StoreMac(ip)
    \/ \E conf \in Conf \cup {Missing} : EditWhitelist(conf)
    \/ StopReader

ReaderSpec == ReaderInit /\ [][ReaderNext]_readerVars

-----------------------------------------------------------------------------
(* Properties *)

(* Type correctness of what is learnt from the lines and kept              *)
ReaderTypeOK ==
    /\ profiler \in {"get", "poll", "finished", "error"}
    /\ timeformat \in {"", "unixtimestamp", "date"}
    /\ column_idx \in {"none", "bad", "set"}
    /\ input_type \in {"", "zeek", "zeek-tabs", "suricata", "argus", "argus-tabs",
                       "nfdump"}
    /\ lines = <<>> => input_type = ""
    /\ \A i \in DOMAIN results : results[i].of \in DOMAIN lines
    /\ macs \subseteq Ip
    /\ edits \in 0 .. MaxEdits

(* What is written is of the line it says, whatever lines came before it:  *)
(* of its log, about its addresses, in the order of the lines, and once    *)
(* unless these addresses are one.  What is no log is of the type of the   *)
(* input.  Only a folder of tab separated logs named after ftp is mistaken. *)
Justified(r) ==
    LET l == lines[r.of]
    IN  /\ r.about \in {l.saddr, l.daddr, l.mac}
        /\ CASE r.what = "features" ->
                   \/ l.words \cap {"conn", "flow"} # {}
                   \/ lines[1].form \in {"argus", "argus-tabs", "nfdump"}
                   \/ l.told # ""
             [] r.what = "new_MAC" -> l.mac # "" \/ l.dmac # ""
             [] r.what = "dhcp_server" -> "dhcp" \in l.words
             [] r.what = "flow" -> "arp" \in l.words
             [] r.what \in {"user_agent", "software", "new_software"} ->
                   "software" \in l.words
             [] OTHER -> \E log \in DOMAIN Published :
                            /\ Published[log] = r.what
                            /\ \/ log \in l.words
                               \/ log = "ftp" /\ log \in l.dir

NothingForeign ==
    /\ \A i \in DOMAIN results : Justified(results[i])
    /\ \A i, j \in DOMAIN results :
          i < j => /\ results[i].of <= results[j].of
                   /\ results[i] = results[j] =>
                         lines[results[i].of].saddr = lines[results[i].of].daddr

(* A line that is of the form and the time format of the input, of a log   *)
(* slips reads, whole and between two addresses of one family, the source  *)
(* at home.  A service of an IPv6 host is never stored: add_flow_to_profile *)
(* takes 0.0.0.0 for its destination.                                      *)
Timed(l) == l.time \notin {"", "odd"} /\ "StartTime" \notin l.words

WellFormed(n) ==
    LET l == lines[n]
        first == lines[1]
    IN  /\ IF first.told # "" THEN l.told = first.told ELSE l.form = first.form
        /\ l.told \in {"", l.form}
        /\ Timed(l) /\ l.whole
        /\ \A i \in 1 .. n - 1 : Timed(lines[i]) => lines[i].time = l.time
        /\ \/ \E log \in {"conn"} \cup DOMAIN Published :
                 /\ l.words = {log} /\ l.dir = {} /\ l.form = "zeek"
                 /\ log = "known_services" => l.saddr \in Ip4
           \/ l.form = "zeek-tabs" /\ l.words \subseteq {"conn", "dns", "http", "ssl"}
                                  /\ l.words # {} /\ l.told = ""
           \/ l.form = "suricata" /\ l.words \cap {"flow", "http", "dns"} # {}
           \/ /\ l.form \in {"argus", "argus-tabs"}
              /\ \/ l.told # ""
                 \/ \E i \in 1 .. n - 1 : "StartTime" \in lines[i].words
           \/ l.form = "nfdump"
        /\ {l.saddr, l.daddr} \subseteq Ip4 \/ {l.saddr, l.daddr} \subseteq Ip6
        /\ IsHome(l.saddr)

WasStored(n) == \E i \in DOMAIN results : results[i].of = n /\ results[i].what # "new_MAC"

(* A well-formed line is stored, whatever the lines before it were, unless *)
(* it is whitelisted.  Nothing is said while a MAC address is listed.      *)
WellFormedStored ==
    /\ profiler = "poll"
    /\ WellFormed(Len(lines))
    /\ OfType(whitelist, "mac") = <<>>
    /\ Verdict(whitelist, column_values, macs) = "no"
    => WasStored(Len(lines))

(* Once the last change of whitelist.conf has been read, the database has  *)
(* one entry per key, whatever an earlier version of the file left there.  *)
(* A line in force is in it as it stands: the last line of its key, and    *)
(* neither its text inside a comment below nor that comment about it.  A   *)
(* line commented out is not in it: no MAC address, which no comment takes *)
(* out, the only line of its key, and no other entry's text inside its own *)
(* (of those the comment takes out the first in the database).  Of a line  *)
(* that was deleted, not commented out, nothing is said: it stays.         *)
InForce(conf, i) ==
    /\ ~ conf[i].commented
    /\ Valid(conf[i])
    /\ \A j \in i + 1 .. Len(conf) :
          IF conf[j].commented THEN ~ Named(Entry(conf[i]), conf[j])
          ELSE ~ SameKey(conf[i], conf[j])

CommentedOut(conf, i) ==
    LET l == conf[i]
    IN  /\ l.commented /\ l.type # "mac"
        /\ \A j \in DOMAIN conf : SameKey(l, conf[j]) => j = i
        /\ \A pair \in Within : pair[2] # l.data

Has(w, e) == \E i \in DOMAIN w : w[i] = e
KeysOnce(w) == \A i, j \in DOMAIN w : SameKey(w[i], w[j]) => i = j

WhitelistFollowsFile ==
    profiler # "error" /\ whitelist_conf # Missing
    /\ (\A i \in DOMAIN reload_whitelist : reload_whitelist[i] # "reload") =>
        /\ KeysOnce(whitelist)
        /\ \A i \in DOMAIN whitelist_conf :
              LET e == Entry(whitelist_conf[i])
              IN  /\ InForce(whitelist_conf, i) => Has(whitelist, e)
                  /\ CommentedOut(whitelist_conf, i) => ~ Has(whitelist, e)

(* docs/usage.md 227, "The idea of whitelisting is to avoid processing any *)
(* communication to or from these pieces of data": a well-formed line that *)
(* no entry concerns is stored.                                            *)
Concerns(e, c) ==
    LET domains == c.domains \cup SrcDomains(c) \cup DstDomains(c)
                             \cup Names(Resolved, c.daddr)
    IN  \/ e.data \in {c.saddr, c.daddr, c.smac, c.dmac}
        \/ e.type = "org" /\ \/ {c.saddr, c.daddr} \cap (OrgRange[e.data] \cup OrgAsn[e.data]) # {}
                             \/ domains \cap (OrgDomain[e.data] \cup OrgInside[e.data]) # {}
        \/ e.type = "domain" /\ \E d \in domains : d = e.data \/ <<e.data, d>> \in Within

OthersAreRead ==
    /\ profiler = "poll"
    /\ WellFormed(Len(lines))
    /\ \A i \in DOMAIN whitelist : ~ Concerns(whitelist[i], column_values)
    => WasStored(Len(lines))
=============================================================================
