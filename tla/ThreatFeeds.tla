---------------------------- MODULE ThreatFeeds ----------------------------
(***************************************************************************)
(* What Slips knows to be malicious: the feeds that update_manager loads   *)
(* when Slips starts, the local file that threat_intelligence loads, and   *)
(* the lookups of threat_intelligence, which run at the same time.         *)
(*                                                                         *)
(* The indicators (IoC) and TI_files_info are in the cache, a database     *)
(* that outlives the run of Slips; the evidence is not.  A server may      *)
(* offer any version of its feed at any time, an old one again too.        *)
(***************************************************************************)
EXTENDS Integers, Sequences, FiniteSets, SequencesExt

CONSTANTS
    IocIp, IocDomain, IocRange, IocCert,    \* what a line of a feed may name
    InRange,        \* range -> addresses in it
    Under,          \* pairs of names, the second part of the text of the first
    LookedUp,       \* names asked about
    Feeds,          \* the urls, in their order
    Format,         \* feed -> "text", "json" or "hashes" (ja3 and ssl feeds)
    Versions,       \* feed -> versions [tag, lines] its server may offer
    LocalFile,      \* the file of local_data_files that os.listdir gives first
    LocalVersions,  \* versions [tag, lines] of it; the tag is the hash
    ThreatProfile,
    MaxDay, MaxStarts, MaxLookups     \* bounds

Feed == Range(Feeds)
Nobody == "nobody"
Source == Feed \cup {LocalFile, Nobody}
Indicator == IocIp \cup IocDomain \cup IocRange \cup IocCert
Hashed == IocIp \cup IocDomain  \* what is deleted with its source
Line == Indicator \cup {"invalid", "broken", "garbled"}
NoInfo == [tag |-> "none", time |-> 0]

ASSUME FeedsAssumption ==
    /\ IsInjective(Feeds) /\ Feed \cap {LocalFile, Nobody} = {}
    /\ Feeds \in Seq(Feed)
    /\ \A f \in Feed : Format[f] \in {"text", "json", "hashes"}
    /\ \A f \in Feed : \A v \in Versions[f] : v.lines \in Seq(Line)
    /\ \A v \in LocalVersions : v.lines \in Seq(Line)
    /\ IocDomain \subseteq LookedUp /\ LookedUp \cap IocIp = {}
    /\ IocRange \cap Hashed = {}
    /\ MaxDay \in Nat \ {0} /\ MaxStarts \in Nat \ {0} /\ MaxLookups \in Nat

VARIABLES
    disk,           \* the version of LocalFile
    day,            \* the clock, in update periods
    starts,         \* how often Slips was started
    ioc,            \* IoC_ips, IoC_domains, IoC_ip_ranges, IoC_SSL and IoC_JA3:
                    \*   indicator -> the source it was last stored from
    TI_files_info,  \* file -> [tag, time]
    updater,        \* UpdateManager: [at, todo, tasks, old]
    new_e_tag,      \* the attribute of UpdateFileManager
    timer,          \* calls of update_TI_files by the timer
    intel,          \* threat_intelligence: at its local file, running or ended
    give_threat_intelligence,   \* channel
    threats,        \* evidence and MaliciousIPs/MaliciousDomains: [profile, ioc]
    parsed,         \* history: source -> indicators of the version last loaded
    removed,        \* history: feeds whose indicators are deleted and not replaced
    shadowed,       \* history: <<f, i>> when i was stored from another source
                    \*   since f, which lists it, was last loaded
    attempted       \* history: feed -> the tag last downloaded

cacheDb == <<ioc, TI_files_info>>
historyVars == <<parsed, removed, shadowed, attempted>>
feedVars == <<disk, day, starts, cacheDb, updater, new_e_tag, timer, intel,
              give_threat_intelligence, threats, historyVars>>

Started == [at |-> "check", todo |-> Feeds, tasks |-> <<>>, old |-> {}]

FeedsInit ==
    /\ disk \in LocalVersions
    /\ day = 1 /\ starts = 1
    /\ ioc = [i \in Indicator |-> Nobody]
    /\ TI_files_info = [f \in Source |-> NoInfo]
    /\ updater = Started /\ new_e_tag = "none" /\ timer = 0
    /\ intel = "local"
    /\ give_threat_intelligence = <<>> /\ threats = {}
    /\ parsed = [f \in Source |-> {}] /\ removed = {}
    /\ shadowed = {} /\ attempted = [f \in Feed |-> "none"]

-----------------------------------------------------------------------------
(* Reading a file.  A line is an indicator, "invalid" (of no supported     *)
(* type, or too old, which is left out), "broken" (columns are missing,    *)
(* which fails) or "garbled" (text that is no JSON).                       *)

Supported(f) ==
    CASE Format[f] = "text" -> IocIp \cup IocDomain \cup IocRange
      [] Format[f] = "json" -> IocDomain
      [] Format[f] = "hashes" -> IocCert

(* The first line only tells the columns: the position that is restored    *)
(* "so we can process it" is the one after it.                             *)
BelowFirst(lines) == {lines[k] : k \in 2..Len(lines)}

Json(lines) == "garbled" \notin Range(lines)

Iocs(f, lines) ==
    Supported(f) \cap IF Format[f] # "json" THEN BelowFirst(lines)
                      ELSE IF Json(lines) THEN Range(lines) ELSE {}

(* The type of the first line decides for the file, and a broken line      *)
(* makes all of it fail.                                                   *)
ParsesText(f, lines) == Head(lines) \in Supported(f) /\ "broken" \notin Range(lines)

(* parse_ti_feed does not look at the False of parse_json_ti_feed, so a    *)
(* file that is no JSON is loaded as one without domains; a missing column *)
(* is an exception.  In parse_ja3_feed and parse_ssl_feed storing nothing  *)
(* at all is one.                                                          *)
Parses(f, lines) ==
    /\ lines # <<>>
    /\ CASE Format[f] = "json" -> Json(lines) => "broken" \notin Range(lines)
         [] Format[f] = "text" -> ParsesText(f, lines)
         [] Format[f] = "hashes" -> ParsesText(f, lines) /\ Iocs(f, lines) # {}

StoredFrom(f, iocs) == [i \in Indicator |-> IF i \in iocs THEN f ELSE ioc[i]]

(* What storing iocs from f takes over from the other feeds                *)
Shadowing(f, iocs) ==
    {s \in shadowed : s[1] # f} \cup {s \in (Feed \ {f}) \X iocs : s[2] \in parsed[s[1]]}

OldOfAll(f) == {i \in Hashed : ioc[i] # Nobody}

(* __delete_old_source_IPs and __delete_old_source_Domains                 *)
OldData(f) == {i \in Hashed : ioc[i] = f}

Undone(old) == [i \in Indicator |-> IF i \in old THEN Nobody ELSE ioc[i]]

-----------------------------------------------------------------------------
(* update *)

Passed(f) == TI_files_info[f].time < day

CheckNext == updater.at = "check" /\ updater.todo # <<>>
Checked == [updater EXCEPT !.todo = Tail(@)]

(* The period has not passed, the download failed or has no tag            *)
NotDownloaded ==
    /\ CheckNext
    /\ updater' = Checked
    /\ UNCHANGED <<cacheDb, new_e_tag, historyVars>>

UpToDate ==
    LET f == Head(updater.todo)
    IN  /\ CheckNext /\ Passed(f)
        /\ \E v \in Versions[f] : TI_files_info[f].tag = v.tag
        /\ TI_files_info' = [TI_files_info EXCEPT ![f] = [tag |-> @.tag, time |-> day]]
        /\ updater' = Checked
        /\ UNCHANGED <<ioc, new_e_tag, historyVars>>

(* The task keeps the response, and the object the tag.                    *)
Downloaded ==
    LET f == Head(updater.todo)
    IN  /\ CheckNext /\ Passed(f)
        /\ \E v \in Versions[f] :
               /\ TI_files_info[f].tag # v.tag
               /\ new_e_tag' = v.tag
               /\ updater' = [Checked EXCEPT !.tasks =
                                  Append(@, [feed |-> f, lines |-> v.lines])]
               /\ attempted' = [attempted EXCEPT ![f] = v.tag]
        /\ UNCHANGED <<cacheDb, parsed, removed, shadowed>>

(* Before it awaits the last task; no task runs earlier.  With an account  *)
(* RiskIQ is to be asked first, but datetime is the class of that name and *)
(* not the module: making the dates of the question is an exception, which *)
(* is caught.                                                              *)
update_riskiq_feed ==
    /\ updater.at = "check" /\ updater.todo = <<>>
    /\ updater' = [updater EXCEPT !.at = "task"]
    /\ UNCHANGED <<cacheDb, new_e_tag, historyVars>>

Task == Head(updater.tasks)
NextTask == [updater EXCEPT !.at = "task", !.tasks = Tail(@)]

(* update_TI_file in four steps: it reads what the source has stored,      *)
(* deletes that, parses and stores the new data, and stores the tag.       *)
ReadOldData ==
    /\ updater.at = "task" /\ updater.tasks # <<>>
    /\ updater' = [updater EXCEPT !.at = "delete", !.old = OldData(Task.feed)]
    /\ UNCHANGED <<cacheDb, new_e_tag, historyVars>>

DeleteOldData ==
    /\ updater.at = "delete"
    /\ ioc' = Undone(updater.old)
    /\ removed' = removed \cup {Task.feed}
    /\ updater' = [updater EXCEPT !.at = "load", !.old = {}]
    /\ UNCHANGED <<TI_files_info, new_e_tag, parsed, shadowed, attempted>>

FailureForgotten == [updater EXCEPT !.at = "info"]
AfterFailure == NextTask

(* "Error parsing feed. Updating was aborted.": the tag is not stored.     *)
LoadFeed ==
    LET f == Task.feed
    IN  /\ updater.at = "load"
        /\ IF Parses(f, Task.lines)
           THEN /\ ioc' = StoredFrom(f, Iocs(f, Task.lines))
                /\ parsed' = [parsed EXCEPT ![f] = Iocs(f, Task.lines)]
                /\ removed' = removed \ {f}
                /\ shadowed' = Shadowing(f, Iocs(f, Task.lines))
                /\ updater' = [updater EXCEPT !.at = "info"]
           ELSE updater' = AfterFailure /\ UNCHANGED <<ioc, parsed, removed, shadowed>>
        /\ UNCHANGED <<TI_files_info, new_e_tag, attempted>>

set_TI_file_info ==
    /\ updater.at = "info"
    /\ TI_files_info' = [TI_files_info EXCEPT ![Task.feed] = [tag |-> new_e_tag, time |-> day]]
    /\ updater' = NextTask
    /\ UNCHANGED <<ioc, new_e_tag, historyVars>>

Update ==
    /\ \/ NotDownloaded \/ UpToDate \/ Downloaded \/ update_riskiq_feed
       \/ ReadOldData \/ DeleteOldData \/ LoadFeed \/ set_TI_file_info
    /\ UNCHANGED <<disk, day, starts, timer, intel, give_threat_intelligence, threats>>

(* The timer calls update(), a coroutine that nothing awaits.              *)
update_TI_files ==
    /\ timer + 1 < day
    /\ timer' = timer + 1
    /\ UNCHANGED <<disk, day, starts, cacheDb, updater, new_e_tag, intel,
                   give_threat_intelligence, threats, historyVars>>

-----------------------------------------------------------------------------
(* threat_intelligence *)

LocalIocs == BelowFirst(disk.lines) \cap Hashed

(* The loop returns after the first file of the folder.  A line without    *)
(* its three columns is an exception that ends the module.                 *)
check_local_ti_files ==
    LET known == TI_files_info[LocalFile].tag
        kept == IF known = "none" THEN ioc ELSE Undone(OldData(LocalFile))
    IN  /\ intel = "local"
        /\ IF known = disk.tag THEN intel' = "running" /\ UNCHANGED <<ioc, parsed, shadowed>>
           ELSE IF "broken" \in BelowFirst(disk.lines)
           THEN intel' = "ended" /\ ioc' = kept /\ UNCHANGED <<parsed, shadowed>>
           ELSE /\ intel' = "info"
                /\ ioc' = [i \in Indicator |-> IF i \in LocalIocs THEN LocalFile ELSE kept[i]]
                /\ parsed' = [parsed EXCEPT ![LocalFile] = LocalIocs]
                /\ shadowed' = Shadowing(LocalFile, LocalIocs)
        /\ UNCHANGED <<TI_files_info, give_threat_intelligence, threats>>

StoreLocalHash ==
    /\ intel = "info"
    /\ TI_files_info' = [TI_files_info EXCEPT ![LocalFile] = [tag |-> disk.tag, time |-> 0]]
    /\ intel' = "running"
    /\ UNCHANGED <<ioc, parsed, shadowed, give_threat_intelligence, threats>>

(* "our computer sending an ICMP unreacheable packet"                      *)
is_outgoing_icmp_packet(m) == m.proto = "icmp" /\ m.state = "dstip"

Threat(m, i) == [profile |-> m.profile, ioc |-> i]

(* search_IP_in_IoC and the ranges, of which the first found counts        *)
RangesOf(ip) == {r \in IocRange : ioc[r] # Nobody /\ ip \in InRange[r]}

FoundIp(m) == ioc[m.ip] # Nobody \/ RangesOf(m.ip) # {}

(* search_Domain_in_IoC: the name, or some malicious name in its text      *)
FoundDomain(m) ==
    \E d \in IocDomain : ioc[d] # Nobody /\ (d = m.name \/ <<m.name, d>> \in Under)

LookUp ==
    /\ intel = "running" /\ give_threat_intelligence # <<>>
    /\ LET m == Head(give_threat_intelligence)
       IN  threats' = IF m.kind = "name" /\ FoundDomain(m)
                      THEN threats \cup {Threat(m, m.name)}
                      ELSE IF m.kind = "ip" /\ ~is_outgoing_icmp_packet(m) /\ FoundIp(m)
                      THEN threats \cup {Threat(m, m.ip)}
                      ELSE threats
    /\ give_threat_intelligence' = Tail(give_threat_intelligence)
    /\ UNCHANGED <<cacheDb, parsed, shadowed, intel>>

Intelligence ==
    /\ check_local_ti_files \/ StoreLocalHash \/ LookUp
    /\ UNCHANGED <<disk, day, starts, updater, new_e_tag, timer, removed, attempted>>

-----------------------------------------------------------------------------
(* Traffic, the user and the clock *)

Ask(ms) ==
    /\ Len(give_threat_intelligence) + Len(ms) + Cardinality(threats) <= MaxLookups
    /\ give_threat_intelligence' = give_threat_intelligence \o ms
    /\ UNCHANGED <<disk, day, starts, cacheDb, updater, new_e_tag, timer, intel,
                   threats, historyVars>>

AskIp(p, ip, proto, state) ==
    [kind |-> "ip", profile |-> p, ip |-> ip, proto |-> proto, state |-> state]

(* add_ips asks for both addresses of a flow, but not "if the state is OTH"*)
AskForFlow ==
    \E p \in ThreatProfile, a, b \in IocIp, proto \in {"tcp", "icmp"} :
        a # b /\ Ask(<<AskIp(p, b, proto, "dstip"), AskIp(p, a, proto, "srcip")>>)

(* add_out_dns, add_out_http and add_out_ssl                               *)
AskForName ==
    \E p \in ThreatProfile, n \in LookedUp : Ask(<<[kind |-> "name", profile |-> p, name |-> n]>>)

NextDay ==
    /\ day < MaxDay
    /\ day' = day + 1
    /\ UNCHANGED <<disk, starts, cacheDb, updater, new_e_tag, timer, intel,
                   give_threat_intelligence, threats, historyVars>>

(* Slips ends, or is killed at any point, and is started again; the user   *)
(* may have changed the local file.  The database of the run starts empty, *)
(* the cache does not.                                                     *)
Restart ==
    /\ starts < MaxStarts
    /\ starts' = starts + 1
    /\ disk' \in LocalVersions
    /\ updater' = Started /\ new_e_tag' = "none" /\ timer' = 0
    /\ intel' = "local"
    /\ give_threat_intelligence' = <<>> /\ threats' = {}
    /\ UNCHANGED <<day, cacheDb, historyVars>>

FeedStep == Update \/ update_TI_files \/ Intelligence \/ NextDay \/ Restart
LookupStep == Update \/ Intelligence \/ AskForFlow \/ AskForName \/ NextDay

FeedsNext == FeedStep \/ LookupStep

FeedsFairness == WF_feedVars(Update) /\ WF_feedVars(update_TI_files) /\ WF_feedVars(NextDay)

FeedsSpec == FeedsInit /\ [][FeedsNext]_feedVars /\ FeedsFairness

-----------------------------------------------------------------------------
(* Properties *)

(* Type correctness of the cache, of the round and of the look-ups         *)
FeedsTypeOK ==
    /\ disk \in LocalVersions /\ day \in 1..MaxDay /\ starts \in 1..MaxStarts
    /\ ioc \in [Indicator -> Source]
    /\ DOMAIN TI_files_info = Source
    /\ updater.at \in {"check", "task", "delete", "load", "info"}
    /\ updater.at # "check" => updater.todo = <<>>
    /\ updater.at \in {"delete", "load", "info"} => updater.tasks # <<>>
    /\ timer \in 0..MaxDay
    /\ intel \in {"local", "info", "running", "ended"}
    /\ threats \subseteq [profile : ThreatProfile, ioc : IocIp \cup LookedUp]
    /\ parsed \in [Source -> SUBSET Indicator] /\ removed \subseteq Feed
    /\ shadowed \subseteq Feed \X Indicator /\ DOMAIN attempted = Feed

(* An address or a name that is stored as coming from a feed is in the     *)
(* version of that feed that was loaded last, and of a feed that is being  *)
(* replaced, or could not be, none is stored.  (Ranges and hashes are      *)
(* never deleted, so the old ones of a feed do stay.)                      *)
NothingStale(f) == \A i \in Hashed : ioc[i] = f => i \in parsed[f] /\ f \notin removed

(* What a loaded feed lists is stored as coming from it, except what was   *)
(* stored from another source since: there is one entry, which goes when   *)
(* the other source no longer lists it, whether or not this one does.      *)
FeedKept(f) ==
    f \notin removed => \A i \in parsed[f] : ioc[i] = f \/ <<f, i>> \in shadowed

(* A feed that was emptied, because Slips was killed or the new version    *)
(* cannot be parsed, does not have the tag of the version it was emptied   *)
(* for: while the server offers that version, it is tried again.           *)
RetriedIfEmptied(f) == f \in removed => TI_files_info[f].tag # attempted[f]

(* The database follows each feed, whenever Slips was killed and whatever  *)
(* versions it met: the version loaded last alone is stored, or nothing    *)
(* and it is tried again (update_TI_file).                                 *)
FeedsMirrored == \A f \in Feed : NothingStale(f) /\ FeedKept(f) /\ RetriedIfEmptied(f)

(* The next step looks m up.                                               *)
LooksUp(m) ==
    /\ give_threat_intelligence # <<>> /\ m = Head(give_threat_intelligence)
    /\ give_threat_intelligence' = Tail(give_threat_intelligence) /\ starts' = starts

(* An address is listed by a feed that is loaded, if no other source took  *)
(* it over, or is in a range that a feed listed when it was last loaded.   *)
Listed(ip) ==
    \/ \E f \in Feed \ removed : ip \in parsed[f] /\ <<f, ip>> \notin shadowed
    \/ \E f \in Feed : \E r \in parsed[f] \cap IocRange : ip \in InRange[r]

(* An address that is looked up while it is listed is reported, unless our *)
(* computer only answers it with ICMP.  Between the deletion of a feed and *)
(* its reload, and after a version that cannot be parsed, what the feed    *)
(* alone listed is not found; nor is its first line ever.                  *)
ListedAreReported ==
    \A m \in Range(give_threat_intelligence) :
        (/\ LooksUp(m) /\ m.kind = "ip" /\ Listed(m.ip)
         /\ ~(m.proto = "icmp" /\ m.state = "dstip"))
        => Threat(m, m.ip) \in threats'

(* The other way round, an address is reported only when the version of a  *)
(* feed that was loaded last lists it, or the local file, or some stored   *)
(* range contains it.                                                      *)
ReportedAreListed ==
    \A t \in threats' \ threats :
        t.ioc \in IocIp => \/ \E f \in Feed \ removed : t.ioc \in parsed[f]
                           \/ ioc[t.ioc] = LocalFile
                           \/ RangesOf(t.ioc) # {}

(* threat_intelligence and update_manager run at the same time, and what   *)
(* the one looks up the other may be deleting and storing.                 *)
ReportedWhileListed == [][ListedAreReported /\ ReportedAreListed]_feedVars

(* "Timer to update the ThreatIntelligence files": when the timer calls    *)
(* update_TI_files the feeds are checked.                                  *)
UpdatedByTimer == \A n \in 1..MaxDay : timer = n ~> updater.at = "check"
=============================================================================
