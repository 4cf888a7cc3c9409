# Slips in TLA+

A formal model of StratosphereLinuxIPS, a behavioural intrusion prevention
system written in Python. Slips is a set of operating-system processes which
share one redis server: a hash, set or sorted set of redis is their shared
memory, a redis publish/subscribe channel is how they talk. Every process runs
one endless loop that polls its channels with a short timeout and handles one
message at a time. No process takes a lock around its redis commands, which is
where most of what is hard to test comes from.

## 1. The system

    zeek / nfdump / suricata / stdin
          | files, lines
    InputProcess --queue--> ProfilerProcess --redis--> detection modules (one process each)
          ^                       |                          |  setEvidence
          | remove_old_files      | new_flow, tw_modified    v
     filemonitor                  v                     evidence_added
          |                 time windows                     |
          | stop_slips                                       v
          +--------> Main (slips.py) <-finished_modules- EvidenceProcess --new_alert--> exporters
                       starts, counts modified windows, stops everybody

### Inventory

| Component | State it keeps | Operations | Talks to |
|---|---|---|---|
| Evidence store (`database.py` 1558-1880) | `Evidence` of each `profile_tw` hash, `evidence<profile>`, `BlockedProfTW`, `alerts`, score in `IPsInfo` | setEvidence, deleteEvidence, markProfileTWAsBlocked, set_evidence_causing_alert, store_blame_report | called by every detection module; publishes `evidence_added` |
| EvidenceProcess (`evidenceProcess.py`) | locals of its loop only | one message of `evidence_added`, `new_blame`, or stop | store, whitelist, `new_alert`, `new_blocking` |
| Time windows (`profilerProcess.py` 2838-2985, `database.py` 680-850) | sorted sets `tws<profile>`, set `profiles` | get_timewindow, addNewTW, addNewOlderTW, addProfile | written by ProfilerProcess, read by all |
| Modified and closed windows (`database.py` 826-935, `slips.py` 1576-1620) | `ModifiedTW`, `ClosedTW`, `slips_internal_time` | markProfileTWAsModified, check_TW_to_close, markProfileTWAsClosed, getModifiedProfilesSince | ProfilerProcess, Main and modules write; `tw_modified`, `tw_closed` |
| Main (`slips.py`) | `PIDs`, counters of the loops | start, main loop, shutdown_gracefully | SIGINT, `finished_modules`, every channel |
| InputProcess, filemonitor | open file handles, the line in hand of each zeek log, its time | read the earliest line, rotate, remove old files | queue to the profiler, `remove_old_files`, `stop_slips` |
| ProfilerProcess: flows | type of the input, column indices, format of the time, locals of a flow | define_type, define_columns, one parser per format, add_flow_to_profile, compute_symbol, add_tuple, add_ips, add_port, add_flow | database, `new_flow`, `tw_modified`, `new_letters`, `new_MAC`, one channel per log |
| Whitelist | four dictionaries in the cache database | read_whitelist, is_whitelisted_evidence, is_whitelisted_flow | file, EvidenceProcess, ProfilerProcess |
| OutputProcess, LogsProcess, guiProcess, notify | files | write lines | queue, database |
| Daemon | pid file | start, stop, restart | Main |
| flowalerts | caches of connections and DNS answers, timer threads | check_connection_without_dns_resolution, check_dns_resolution_without_connection, DGA, ports, ssh, ... | `new_flow`, `new_dns_flow`, ..., setEvidence |
| portscan_detector | thresholds reported per window | vertical, horizontal and ICMP scan | `tw_modified`, setEvidence |
| arp | ARP requests per window | scan, gratuitous, MITM, tw_closed | `new_arp`, `tw_closed`, setEvidence |
| blocking | timers in the database, iptables rules | block, unblock | `new_blocking`, `tw_closed` |
| p2ptrust | SQL store of reports and reliability | reports, requests, opinions | go daemon, `new_blame`, `p2p_data_request` |
| threat_intelligence, update_manager | indicator hashes, e-tags and times of the lists | look-up, update by period | `give_threat_intelligence`, HTTP |
| ip_info, virustotal, RiskIQ, http_analyzer | fields of `IPsInfo` and `DomainsInfo`, API queue | complete the data of an address | `new_ip`, ... |
| CESNET, exporting_alerts | none | export an alert | `new_alert` / `export_evidence` |
| timeline, leak_detector, kalipso, ensembling, flowmldetection, rnn-cc-detection | files, numerical models | presentation, pcap scan, machine learning | database |

`PROJECT.json` lists each component with its status and the reason when it is
left out.

### What is hard, and what makes each part correct

* **Evidence.** `setEvidence` reads a dictionary, announces, and writes the
  dictionary back by two commands; `deleteEvidence` does the same; several
  modules and EvidenceProcess do it at once. Right: an alert stands on
  evidence really reported, for its own window, each detection once and enough
  of it; a window is blocked only after such an alert and never because of our
  own address; nothing reported is lost; what has reached the threshold is
  alerted; whitelisted evidence does not count.
* **Time windows.** Flows come in any order and leave gaps on both sides. Right:
  windows without gap or overlap, never renumbered, each flow in the window that
  covers it (the code fails on a boundary before the first window), one window with `only_one_tw`, no features for addresses outside
  the home network.
* **Shutdown.** Processes end by four routes (their channel, SIGINT, end of
  input, exception) before, during or after the moment Main starts to wait, and
  the only acknowledgement is a name on a channel. Right: no child survives,
  nobody at work is killed without need, and the shutdown ends.
* **Closing of windows.** Two processes look for windows to close, against an
  internal time that a third value drives. Right: each window closed once, no
  modification lost, the last windows closed too.
* **Input.** Lines of many files merged by time while files rotate under the
  reader. Right: every line sent once, in the order of time as far as it was
  known.
* **Flows.** The first lines decide how all others are read; one dictionary of
  columns serves every parser; a user edits the whitelist meanwhile. Right: a
  line leaves the same trace whatever came before it, and what is stored of a
  contact in two places agrees.
* **Detectors.** Thresholds that skip, caches keyed by text, queues, timers that
  outlive what they check, and features that change while they are read. Right: what
  reaches a threshold is reported, once, and on real traffic.
* **Threat feeds.** Indicators are deleted and loaded while others look them up, in
  a database that outlives the run. Right: an address a feed no longer lists is gone,
  what it lists is found, and a list that could not be loaded is tried again.

Everything of this kind is a line of `hazards` in `PROJECT.json`, with the
properties that cover it or the reason why none does.

## 2. The modules

| Module | Models | Read with |
|---|---|---|
| `EvidencePipeline` | setEvidence, deleteEvidence, EvidenceProcess | `database.py` 1632-1880, 3735-3763; `evidenceProcess.py` 774-1100 |
| `EvidenceStore` | what the store promises of a window with one writer: a set that only grows | `database.py` 1632-1746 |
| `EvidencePipelineProofs` | its theorems, and that it implements `EvidenceStore` | |
| `TimeWindows` | get_timewindow and its sorted sets, add_flow_to_profile up to the storing of features | `profilerProcess.py` 2442-2488, 2838-2985; `database.py` 277-350, 689-809 |
| `TimeWindowsProofs` | its theorems | |
| `Shutdown` | the main loop, shutdown_gracefully, the ways a process ends | `slips.py` 365-598, 1566-1662; `inputProcess.py`, `profilerProcess.py`, `arp.py`, `evidenceProcess.py`, `filemonitor.py` where they end |
| `ShutdownProofs` | its theorems | |
| `WindowClosing` | markProfileTWAsModified, check_TW_to_close, and the loop of Main that moves the internal time and stops a quiet run | `database.py` 826-935; `slips.py` 1558-1657 |
| `WindowClosingProofs` | its theorems | |
| `InputPipeline` | read_zeek_files, remove_old_zeek_files, the inputs read line by line, the queue to ProfilerProcess; on_created and on_moved | `inputProcess.py` 158-500, 592-632; `filemonitor.py` 39-52 |
| `FlowReader` | define_type, define_columns, get_time, the parsers of zeek (JSON and tabs), suricata, argus and nfdump, add_flow_to_profile, the loop of ProfilerProcess; the change of whitelist.conf | `profilerProcess.py` 442-2110, 2991-3111; `database.py` 2409-2764; `filemonitor.py` 54-73 |
| `Whitelist` | read_whitelist, is_whitelisted_flow | `whitelist.py` 50-456 |
| `Input` | `InputPipeline` and `FlowReader`, two processes with a queue between them | |
| `InputPipelineProofs` | the theorems of `Input`: of `InputPipeline`, and of `FlowReader` with `Whitelist` | |
| `FlowFeatures` | the features of a flow, one redis write per step; letters | `profilerProcess.py` 2114-2439, 2595-2836; `database.py` 1025-1587, 2332-2407 |
| `PortScan` | portscan_detector on top of `FlowFeatures` | `portscan_detector.py` 75-270, 340-376 |
| `ScanReports` | what portscan_detector promises of one kind of scan | `portscan_detector.py` 187-270 |
| `ScanReportsProofs` | its theorem | |
| `PortScanProofs` | the theorems of `PortScan`, that it implements `ScanReports`, and what follows from that | |
| `FlowAlerts` | the three checks of flowalerts that look twice, with their timers | `flowalerts.py` 318-754; `TimerThread.py` |
| `FlowThresholds` | the other detections of flowalerts and what they count | `flowalerts.py` 176-394, 756-1547 |
| `Arp` | the arp module, and new_MAC of ip_info | `arp.py` 116-418; `ip_info.py` 266-422; `database.py` 414-508 |
| `ThreatFeeds` | update_manager and threat_intelligence | `update_file_manager.py` 340-1464; `update_manager.py`, `timer_manager.py`; `threat_intelligence.py` 60-633 |
| `Detectors` | these four, side by side | |
| `DetectorsProofs` | theorems of `Detectors` and of each of the four | |
| `MC...` | the values of the constants for TLC: `MCInputPipeline` of `Input`, `MCFlows` of `PortScan`, `MCDetectors` of `Detectors`, the others of the module they are named after | |

### EvidencePipeline

A `profileid_twid` is a member of `ProfTW`, a description of `Desc`; the fields
of an evidence (type of detection, address, threat level, confidence) are
functions of the description, as they are for a module that reports the same
thing again. A Python dictionary keeps insertion order, and EvidenceProcess
uses the variables its loop over the dictionary leaves behind, so a dictionary is
a set of entries with the rank at which each description was inserted. Threat
level and confidence are integers (tenths), their product is in hundredths.

`setEvidence` is five steps, one per redis command: `ReportEvidence` (read),
`PublishEvidence`, `StoreEvidence`, `IndexEvidence`, `ScoreEvidence`.
EvidenceProcess is `EPReceive`, then `EPDeleteRead`, `EPDeleteStore`,
`EPDeleteIndex` for whitelisted evidence, or `EPAccumulate`, `EPAlert`,
`EPDecideBlocking`. `EPAlert` takes together the look-up of the blocked set,
the hset of `alerts` and the publication of `new_alert`: EvidenceProcess is the
only process that reads or writes these three, so nobody can tell. `EPBlame` is
the arrival of a report on `new_blame`: `store_blame_report` gives a dictionary
to `hset`, redis-py 3.5.3 (requirements.txt) raises DataError, and the handler
returns from `run`. It is behind the constant `PeerReports`, since only the
p2ptrust module, off by default, publishes on that channel.

Left out: `get_flow` (it returns a dictionary with one key even without a flow,
so its test never fails and the whitelist alone decides), the wording of alerts
and logs, pop-ups, and `IPsInfo` except for the score. Which evidence the
whitelist matches is the constant `Whitelisted`.

`EvidenceStore` is the store as one would like to think of it: per window a set of
descriptions that are announced, then added, and never taken away; an alert stands on
stored descriptions whose weight is enough; a window is blocked after an alert of its
own and has none later. `SoleStore` maps `EvidencePipeline` onto it for the windows of
one writer with nothing whitelisted (`Sole`): reports whose IDs were published, the
descriptions in the stored dictionary, and each alert with the descriptions behind its
IDs. The two copies of the dictionary and all locals are hidden. For the other windows it
does not hold: there evidence is lost, announced again, and deleted.

### TimeWindows

One step per flow: only ProfilerProcess writes the sorted sets and it handles one
flow at a time. A sorted set is a function from the number of the window to its
start; numbers go down through 0 to negative ones when older windows are
prepended, as they do in the code. `TWsWith` is the set after get_timewindow,
`GetTimewindow` the window it returns; the two are separate since the code's
errors are where they disagree. `AddFlow` looks the window of the source up (and creates it)
whether or not features will be stored, then that of the destination when both
directions are analysed. Width, home network and direction are chosen in `Init`.
Times are integers; the code's floats, which it converts by `int` and `//`, are
not modelled below the unit. Whitelisted and unsupported flows are skipped
before this point and take no step.

### Shutdown

A process is absent (not started), running, closing (in its handler of SIGINT), a
zombie, killed, or reaped. A zombie still answers signal 0; only a process that died before Main
started its last child has been reaped by `Process.start`. Main's subscription
to `finished_modules` is one FIFO queue, on which Main also receives the
`stop_process` it sends itself. `main = "raised"` is the uncaught
ProcessLookupError of `os.kill` (lines 394-395).

A Ctrl-C reaches Main and its children at once (`CtrlC`); Main then begins its
shutdown in a step of its own (`MainInterrupted`), in which the core processes get
a second SIGINT. One that is still pending absorbs it; a process that is already in
its handler of the first dies there (`InterruptedAgain`).

Taken as one step: publish_stop and the sending of SIGINT to the core processes,
which last a fraction of a second. A second Ctrl-C inside that stretch, one before Main
subscribed, what happens after the kills (saving, reports, closing redis) and the
daemon are not modelled. Sleeps are not modelled: an iteration of the loop may
come at any time.

### WindowClosing

`ModifiedTW` is a function from the members of the sorted set to their scores. A
process that marks a window does `MarkModified` (reads the clock),
`StoreModified` (zadd, tw_modified) and then the steps of `check_TW_to_close`:
`ReadInternalTime`, `ReadOldWindows`, and for each old window `AddClosed`,
`RemoveModified`, `AnnounceClosed`, the three redis commands of
markProfileTWAsClosed. Main runs the same steps in its own loop, after it has
read what was modified since the internal time and moved that time to the last
modification. Only Main writes the internal time, so it reads the time and the
set in one step. The clock is a variable with a step of its own; Main sleeps
until `main.wake`.

The history variables count what an observer of the channels sees: marks
of a window and announcements by each process.

The code differs from the docstring of markProfileTWAsModified in two ways, and the
model follows the code: the timestamp it is given is dropped for the time of the
clock (line 900), and it does not move the internal time. As that time is the
last modification Main has seen, the windows modified last stay in `ModifiedTW`
until something newer is marked; after the last flow nothing is.

Left out: `__database__.start` sets the internal time to 0 in every process as it
starts, which happens before Main enters its loop; the host IP of interface
captures, which count down for another purpose.

### InputPipeline

Three threads and a feeder: the reader, the remover, watchdog's observer
(`Observe`) and the thread of `multiprocessing.Queue` that pickles what was put
(`Feed`). zeek is external: it appends lines to a log, renames it when an
interface is captured, and creates it again with the next line.

All generations of a log are one sequence, each line with the number of its
generation, so that a file object is a generation and the number of the next line
(`handle`). The reader takes the files of a pass one by one: `TakeFile` finds
or opens it, `StoreHandle` puts it in `open_file_handlers`, `ReadLine` reads a
line if none of this file waits. At the end of the pass `SendEarliest` sends
one line and the redis set is read again. `cache_lines` and `file_time` always have
the same keys and are one sequence, in the order in which `sorted` leaves
equal timestamps. `RemoverCloses` and `RemoverForgets` are the two statements of
the remover on the dictionary; the lock between them is created on the spot and
excludes nobody, so it is not there.

The other inputs share one dictionary (`data` is the line it holds). Assigning
it and putting it is one step, because the feeder cannot tell the two apart.
Argus and suricata also assign a blank line which they do not put (`KeepsBlank`); the
first line of an argus file is always put (`Puts`), as it may be a header. They sleep 20
ms after each line, which makes the loss of a line unlikely, not impossible. An empty
argus file, whose first `readline` gives an empty text, is left out.

Left out: a line that is not parsed ends InputProcess by an exception (its end is in
`Shutdown`); logs in `ignored_files`, which are only removed; the command line of
zeek and the clearing of its folder.

### FlowReader and Whitelist

One step per line and one per poll of the channels. A line is a record of what
the parsers can tell of it (`FlowLine`; the head of the module names the fields); the
columns are a record of those on which something depends: the log, the form of
the start time, addresses, names, MAC addresses, and whether every column the
storing needs is there. An exception inside add_flow_to_profile ends the flow,
one outside ends ProfilerProcess (`profiler = "error"`); both are modelled
(`RaisesEarly`, `ParserRaises`). `results` is what was stored or
published, with the number of the line it is of. `whitelist` is the four
dictionaries of the database as one sequence, for the code goes through them in
the order of insertion. The file is read as a whole on "reload"; `Missing` is the
moment an editor has moved it away. `StoreMac` is the answer of ip_info, which
whitelisting by MAC address reads. Names, ranges and autonomous systems of
organizations, DNS answers and server names are constants.

### FlowFeatures, PortScan and ScanReports

`ReadFlow` takes a flow; each feature is then a step (`add_tuple`, `add_ips`,
`add_port`, `add_flow`) in the order of the code, for the source and, with
analysis_direction "all", for the destination. A hash of redis is a function on
the keys it has. A letter is a record: zeros, the class of periodicity with size
and duration, and the mark of the interval. portscan_detector takes one message
of tw_modified, reads the features of the window four times (`Read`) and looks at
one key after the other (`Check`), while features go on changing. What a message
names is a text split on ':' (`Named`): of an IPv6 source it leaves the first group of
the profile and no window, so the reads find nothing. `ScanReports`
is the abstract specification: amounts that grow, are multiples of the
threshold and were really tried. `PortScan` implements it twice, for ports and
for addresses, under the mappings `HorizontalScans` and `VerticalScans`
(`ScansAsPromised`).

### FlowAlerts, FlowThresholds and Arp

`FlowAlerts` splits a look at the database from what follows from it, and gives
every TimerThread steps of its own: the three caches of uids are all that tells
a second look from a first. `FlowThresholds` handles a message per step, since
nothing else writes what its main loop keeps; flows, ages of domains and SSH
versions are stored by others in between. `Arp` has three channels which are
read in any order, and the hash from MAC to addresses that ip_info fills.

### ThreatFeeds

A round of update_manager is a sequence of checks, which put tasks aside, and the
tasks, each in steps: read the old indicators, delete them, load the file, store
e-tag and time. threat_intelligence loads its local file and answers look-ups
meanwhile. `Restart` is a Slips that ended or was killed at any of these points:
the cache survives, the rest does not. A server may offer any of its versions at
any time. A line is an indicator, an unsupported or outdated one, one with columns
missing, or text that is no JSON; a missing column or an empty file makes the parsing
of the feed fail, a file that is no JSON does not. `update_riskiq_feed` only lets the
round go on, since making its dates always raises. `update_TI_files`, called by the
timer, makes a coroutine and drops it. Four histories serve the properties: what each
source listed when it was last loaded (`parsed`), which feeds are emptied (`removed`),
which of their indicators another source stored since (`shadowed`), and the tag each
feed was last downloaded with (`attempted`).

Taken as one step: the deletion of the addresses and of the names of a feed, and the
storing of its addresses, names and ranges. A look-up reads one of these kinds; a Slips
that is killed between them leaves, as one killed at the next step does, a feed without
the tag of the version it was reading.

## 3. The runs

| Run | Question | Bounds, and why they are enough |
|---|---|---|
| `evidence` (pass) | What still holds although the store is unlocked | Two modules, a window both write and a window of one; three descriptions: two that reach the threshold only together and exactly, one about the profile's own address. Three calls: one evidence may be lost by an interleaving and reported again, or one may follow the alert. |
| `evidence_whitelist` (violation) | Is whitelisted evidence ignored? | The same. |
| `timewindows` (pass) | Windows and flows for any order of flows | Two addresses, one in and one outside the home network, times 0 to 12 with a width of 3 (up to four windows on either side), or a single window wider than every distance; each flow stores up to two records and four are kept. |
| `shutdown` (pass) | Every way of ending together with -P and two Ctrl-C | One process of every kind: interrupted, interrupted and subscribed, subscribed only, and a silent one that is not always started. Four iterations before the count would reach 0 cover the warning and the end; 430 adds only repetitions of the same iteration. One stop_slips. |
| `shutdown_hang` (violation) | Does the shutdown end? | One process per kind that answers. |
| `closing` (pass) | What holds when two processes close windows at once | One marker and Main, two windows, each marked at most twice; the clock runs to 5 with an age of 2 and an interval of 1, so that windows get old, are closed, and are marked again while they are being closed. One interval of patience, and input that ends or does not. At the last tick Main no longer sleeps, so that a run does not stop with the clock. |
| `input` (pass) | What reaches ProfilerProcess from every kind of input, and what it makes of it | Topic "files": two logs of up to two lines with two timestamps, all contents of a folder or text; the lines of a capture all have one timestamp, since their order is not judged; one renaming per log. Topic "lines": three lines (four of argus, whose header may be anywhere) of the logs and faults that differ for the model; five contents of whitelist.conf with entries of every type, comments, a text inside another, and one change. |
| `whitelist_mac` (violation) | Is a flow no entry concerns processed? | The same. |
| `flows` (pass) | Do features and scans agree with the flows? | Three flows per topic: a horizontal and a vertical scan with a threshold of 2 over two protocols, with an address that sends nothing back and one that gets a name; and letters, with timestamps on both sides of every threshold of compute_symbol, in every order, in two windows; and a scan of an IPv6 source. A flow is read while fewer than five messages wait. |
| `vertical_scan` (violation) | Is a vertical scan of the threshold reported? | Four flows. |
| `detectors` (pass) | Do the caches, timers, queues and feeds keep their promises? | A behaviour exercises one of the detectors, its topic; they share no state. `FlowAlerts`: a computer with two addresses, two connections, one login, one query. `FlowThresholds`: thresholds of 2 and 3 in place of 5 and 10, with up to four messages. `Arp`: five requests in windows 1 and 12, whose names contain each other. `ThreatFeeds`: a text feed, one of domains with three versions, one of certificates, a local file that takes over an address of the first; the feed of domains may lack a column or be no JSON; two days, one restart anywhere, two look-ups. |
| `feeds_by_timer` (violation) | Are feeds updated by the timer? | The feeds alone. |

### What the passing runs show

* `AlertJustified`: whatever is lost or restored by interleaved writes, an alert
  counts only evidence reported for its own window, each detection once, and it
  reaches the threshold.
* `BlockedAfterAlert`: the decision is taken on the last evidence of the
  dictionary and yet a window is marked only after an alert of its own whose
  last evidence names a destination that is not ours.
* `StoreAsPromised`, `NothingLost`: for a window with one writer, and no
  whitelisted evidence, the unlocked sequence is harmless: it implements
  `EvidenceStore`, and both copies of the store agree.
* `ThresholdRaisesAlert`: such a window is alerted once it has reached the
  threshold and a message about it is still to be read, unless EvidenceProcess is
  dead.
* `Contiguous`, `FlowsOfProfiles`, `WindowsNeverMove`: as in section 1.
  `FlowInWindow`: start <= time < start + width, with one exception, which is the
  boundary error listed below: in windows below 0, created for flows in the past, a
  flow may start at the very moment its window ends.
* `NoOrphan`, `KilledOnlyIfForced`, `ShutdownEnds`: no child survives Main; a
  process is killed only for the user, for -P or because a `stop_slips` was taken
  for a module; the shutdown ends unless a module ended without Main knowing.
* `NoneForgotten`, `ClosedOncePerMark`: the three unlocked commands of
  markProfileTWAsClosed never lose a marked window, and although two processes
  may both announce a window, neither does it more often than it was marked.
* `OldWindowsClose`: a window old enough for the internal time is closed or
  marked again, while Main runs.
* `FolderSorted`: logs that are sorted and without comments are merged into one
  sorted sequence. (A comment leaves its log without a waiting line for one pass,
  and a later line of another log may go first.) `SentPerGeneration`: a line is sent
  again only for the late message of an earlier renaming, so at most as often as the
  number of its generation. `NeverBehind`: what the shared dictionary of the text inputs
  can do to lines is that in the place of one a later one arrives, so that lines between
  are lost and the later one arrives twice. It cannot reorder them, bring back an earlier
  one, bring one that stdin or nfdump skips, lose the last or the stop. `LinesArrive`: nothing of a log that is not renamed is lost.

* `NothingForeign`: what is stored of a line is of its own log and addresses, in
  the order of the lines and once. `WellFormedStored`: a line that is of the form
  and time format of the input is stored whatever the lines before it were.
  `WhitelistFollowsFile`: once the last change has been read the database holds every
  line in force, once, and no line that was commented out. Not covered, as the code is
  wrong there: a MAC address that is commented out, a comment whose text contains that of
  another entry too, and a line that was deleted.
* `LettersMatchHistory`: every letter is the one that the whole history of its
  tuple calls for, although only two timestamps are carried along. `ViewsAgree`:
  the contacts counted by port and those counted by address are the same.
* `HorizontalScanNotMissed`: a multiple of the threshold at which the addresses of a port
  have come to rest, over TCP or UDP (no other protocol is ever read) and from an IPv4
  source, is reported once the detector has caught up, although its cache has one entry for
  both protocols. A multiple that is passed between two reads is not. `ScansAsPromised`: the
  refinement of `ScanReports`, in spite of features read late and of a cache that
  does not know the protocol.
* `ConnLookedAtTwice`: only a timer reports a connection without DNS;
  `UnresolvedIsReported`: and some timer does. `NoBruteforceMissed`: enough bad
  SMTP logins in a row never pass unnoticed, however the cache is trimmed.
  `UnknownPortNotForgotten`: no flow that waits for services.csv is lost.
  `ScanIsBacked`: an ARP scan stands on enough distinct addresses of its own window,
  asked for after the last scan and the last closing of the window, and the time from the
  first to the last of them is at most 30 seconds after whole minutes are taken off.
* `FeedsMirrored`: whenever Slips is killed and whatever versions it meets, the
  addresses and names stored of a feed are those of its last version, except what another
  source stored since, or there are none and the version that was tried is tried again. It does not hold of
  ranges and hashes, which are never deleted, and an indicator of two feeds is lost with
  the one that stored it last. `ReportedWhileListed`: a look-up of an address that a
  loaded feed lists, unless another source took it over, or that is in a range a feed
  lists, is reported, except for our own ICMP answers; and no address is reported that no
  loaded feed, no local file and no range lists. While a feed is emptied, between its deletion and the
  next version that can be parsed, what it alone listed is not found.

### What the violating runs show

1. `WhitelistedIgnored`: evidence is announced before it is stored, and each writer
   stores a dictionary it read earlier. What EvidenceProcess has removed is back in the
   store when it is written only after its removal, or written back by another module,
   and an alert raised after the removal counts it. (An alert raised before
   EvidenceProcess comes to the message is no violation.)
2. `ShutdownTerminates`: shutdown_gracefully holds its counter for as long as a process
   has not answered, and an answer may be lost: after a single Ctrl-C a core process gets
   a second SIGINT from Main and may die in its handler of the first, and Main's loop takes
   the message of a module that ends by itself and forgets it.
   LogsProcess, which never publishes its name, has the same effect whenever it was
   started: `ShutdownEnds` in the passing run names all three as its exception (`Unheard`).
3. `VerticalScanReported`: a destination whose packets sum to 0 makes
   check_vertical_portscan return (line 235), and those after it are not looked at.
4. `UpdatedByTimer`: `update` is a coroutine and the timer does not await it.
5. `OthersAreRead`: with a MAC address in whitelist.conf, a flow whose source has
   no known MAC raises an exception (`False[0]`) and is lost.

### Other disagreements met, without a run

Each was seen while modelling and the models behave that way, but none has a
run of its own:

* no port scan of an IPv6 source is ever found: its profile is split on the ':' of the
  address (`portscan_detector.py` 353-354), so there is no such window. `HorizontalScanNotMissed`
  without its exemption of `Ipv6` fails in the run `flows`;
* a count of ports or addresses that passes a multiple of the threshold between two reads is
  not reported, although the comments say "3, 6, 9, 12" (`portscan_detector.py` 128, 215);
* evidence of a window with two writers is announced again after it was lost
  (`database.py` 1733-1734);
* a report of a peer ends EvidenceProcess (`database.py` 3745, `hset` of a dictionary);
* a flow a whole multiple of the width before the first window makes one window too
  many and is put in it; the next flow of that time goes to the following one
  (`profilerProcess.py` 2933);
* whatever arrives on finished_modules counts as a finished module, stop_slips
  included (`slips.py` 408 against 369);
* the lines of nfdump, stdin, argus and suricata share one dictionary, so a line may
  be lost and the next one arrive twice (`inputProcess.py` 191 against 174);
* an organization whitelisted only as destination leaves org_domains unbound, or as
  an earlier organization bound it (`whitelist.py` 278);
* a MAC address listed for alerts also drops flows, and once commented out it stays;
* an ARP scan is "in 30 seconds or less" (`docs/detection_modules.md` 424), but the
  code takes the seconds of the duration without its minutes (`arp.py` 165), of the first
  and the last address only, each with the time of its latest request;
* a commented line of whitelist.conf takes out the first entry whose text is part of it
  (`whitelist.py` 340-347, under "make sure the user commented the line we have in cache
  exactly"): commenting 11.1.1.1 out may drop 1.1.1.1 and leave it; a deleted line stays;
* tab separated logs are recognised by their whole path, JSON logs by the name
  (`profilerProcess.py` 1126): a folder named after ftp makes its other logs ftp;
* the first line of data of a feed only shows the columns and is not loaded
  (`update_file_manager.py` 1105, 509, 789);
* the RiskIQ feed is never loaded: `from datetime import datetime` replaces the module
  (`update_file_manager.py` 14), so `datetime.date.today()` (line 650) always raises, and is
  caught at line 687;
* an indicator of two feeds belongs to the one loaded last and is deleted with it, although
  the other lists it (`update_file_manager.py` 692-718); the comments of parse_ti_feed speak of appending
  "the new blacklist name to the current one", but its dictionary is of one file;
* a feed that is to be JSON and is not is loaded as an empty one and gets its tag
  (`update_file_manager.py` 922-925, 982-986);
* the SSH version is stored before it is announced, so a module that is late
  compares it with itself (`FlowThresholds`);
* a known_services record of an IPv6 host is never stored: the destination that stands in,
  0.0.0.0, is of the other family (`profilerProcess.py` 1395-1412, 2098-2110);
* ProfilerProcess has a read_whitelist of its own (`profilerProcess.py` 196-335) that nobody
  calls; the one in use, and in the model, is `whitelist.py` 314-456;
* an interval that is zero or negative makes a flow strongly periodic
  (compute_periodicity);
* the second IPv6 address of a MAC ends ip_info (add_mac_addr_to_profile).

### Fairness

`EvidencePipeline`: weak fairness of the steps of each module inside a call it
has begun, and of EvidenceProcess, whose loop never stops polling. Nothing
obliges a module or a peer to report. `Shutdown`: weak fairness of Main's
loop, which never blocks, and for each module of reading its stop message or of
finishing its handler. Nothing obliges the input to end, a module to crash, zeek to
stop or the user to press a key. `WindowClosing`: time passes, Main's loop goes
on, and a process finishes the check it has begun; nobody is obliged to mark a
window. `InputPipeline`: the loops of the reader, the remover, the observer and
the feeder go on; zeek may stop at any time. `PortScan`: the detector goes on
reading, and a flow that was read is stored to its last feature. `FlowAlerts`: a
timer thread that was started runs to its end; nobody is obliged to send flows,
and the main loop may stop. `ThreatFeeds`, in `feeds_by_timer` only: the round,
the timer and the days go on; this fairness is left out of `detectors`, where a
topic that takes no such step would satisfy every liveness property for nothing.
`TimeWindows`, `FlowReader`, `FlowThresholds` and `Arp` need none.

## 4. The proofs

All constants are arbitrary, under the `ASSUME` of each module: any number of
modules, windows, descriptions, addresses, any width.

* `EvidencePipelineProofs`. `TypeCorrect` needs `SeenSome` (EvidenceProcess
  prepares an alert from some evidence only), for the last entry of an empty
  dictionary does not exist. `Invariance` proves `Inv`: `IssuedOnce` (an ID
  belongs to one evidence), `SoundStore` (every dictionary, in redis or in a
  process's hand, holds evidence reported for its window, each description
  once), `AlertBeforeDecision` (when EvidenceProcess decides, the alert is there).
  The store alone would not be inductive: stale copies in the hands of processes
  are written back. From it follow `AlertsOnOwnEvidence` and
  `BlockedOnlyAfterAlert`. `AlertsAreJustified` adds that the evidence behind an
  alert reaches the threshold. EvidenceProcess adds up a dictionary, the property the
  reports with the IDs of the alert: `CauseWeighsTheSame` maps one onto the other, one to
  one, and `SameSum` shows that sums over such sets are equal, since the order in which
  CHOOSE takes the terms makes no difference (`AnyOrder`). Later reports have new IDs and
  add nothing to an old alert. `SingleWriterLosesNothing` uses three further parts,
  each under the previous: `WritersKnown` (a process is only inside a report
  of its own beat, EvidenceProcess deletes only what is whitelisted),
  `ReadIsCurrent` (of an exclusive window the dictionary in hand is the stored
  one) and `AllKept`. With these `AnnouncedOnce` holds: what a writer announces is not
  in the store it read, everything announced before is, and a report that is still in
  its hands has not been announced (`NotYetPublished`). `StoreIsASet` is the refinement
  of `EvidenceStore`, with a lemma per kind of step. Two more facts are needed besides
  all of the above (`StoreInv`): what a call is about to write was announced or is there
  already (`WriteIsAnnounced`), and what EvidenceProcess holds for an alert is still
  stored (`HeldIsStored`), for between its reading and its alert the store of such a
  window only grows. `DescsWeighTheSame` turns the sum over entries into one over
  descriptions. `AlertsStayBacked`: therefore what an alert of such a window stands on
  can be looked up in the store for ever.
* `TimeWindowsProofs`. `IInv` says that the windows of every address are
  `Regular`: an interval of numbers, starts in steps of the width, 1 among
  them (so that what is two before the first window is below 0). `Place` shows that get_timewindow keeps that, adds windows without moving
  any, and returns one that covers the flow (`Covers`, with the boundary error as its
  one exception); it rests on one lemma per case of
  the code (first, newer, older, inside) and on two facts about division.
  `WindowsAreContiguous`, `FlowsAreInTheirWindows`, `FlowsHaveProfiles` and
  `WindowsStay` follow.
* `ShutdownProofs`. `OrphanInv`: a process that is alive has not published its
  name, so Main has not crossed it out of `PIDs`, so it is killed at the end
  (`NoChildSurvives`). `KillInv` adds that no name Main counted belongs to a
  living process, that without -P the counter stays above 0 while somebody is
  left, and hence that Main begins to kill with someone at work only when forced;
  counting names is enough only because, without `stop_slips`, every name is that of
  a process that was started (`HeardStarted`), so as many names as processes are all
  of them (`NobodyKilledUnforced`).
* `WindowClosingProofs`. `NoneForgotten` needs `Recorded`: a window in the hand of a
  process is in `ClosedTW` before it leaves `ModifiedTW` (`NoWindowEscapes`).
  `ClosedOncePerMark` needs `Accounted`, which gives each announcement a process
  has made or has still to make a mark of its own, and one mark more
  for a window in `ModifiedTW` that the process does not hold, or holds after
  having taken it out: such a window was marked again in between
  (`ClosingsBounded`).

* `InputPipelineProofs`. All rest on `Base`: `TypeOK`, logs that hold a line as long as
  they live and may still be rotated once they do not (`LogsOK`), lines on their way that
  were read (`OnTheWay`) and, by kind of input, which thread is at work on which locals
  (`OneThread`). `DictionaryNeverBehind` adds how the
  shared dictionary relates to what was put and what was received (`FedOK`): it holds a
  line not before the last one put, and nothing that is put lies between them. `FolderIsSorted` adds that
  a folder is at rest, and that the line in hand of each file is not later than what the
  file still has, nor earlier than what was sent (`Merging`). `SentOncePerGeneration`
  is an account: how often a line was put, waits, or is still to be read through the
  open handle (`Total`) is paid for by renamings whose messages have been handled
  (`Balance`); as those are never more than the log had rotations (`BudgetOK`), a line
  sent twice needs the late message of an earlier renaming. The terms are cardinalities
  of positions in sequences, with a lemma for what Append, Tail and a removal do to them.
  `FlowReader` has an invariant for each of its two halves. `FileInv`, for the whitelist:
  when nothing is left to reload, the database is what the file made of some
  database with one entry per key. What a file makes of any such database is `FileRead`: the
  lengths of the file for which the claim fails are numbers and have a least one, and one
  line more (`LineRead`: a comment only takes entries away that it names, an entry
  replaces or is appended) refutes it; `WhitelistReread` follows. `ReaderInv`, for the
  lines: those received and those in the queue are one input (`LinesInv`); the type is
  that of the first line, the time format that of some line before, and the columns of
  argus are set once a header has come (`LearntInv`); what was written is of a line received,
  and justified (`ResultsInv`, `JustifiedPair` for the line in hand); and
  `WellFormedStored` itself, which must be carried along as the poll that follows a line
  may change what the whitelist knows. `OfTheirLines`, `SoundLinesStored` and
  `ReaderTyped` follow. The proof found that a record of known_services of an IPv6 host is
  never stored (below, among the disagreements), so that the premise of the property says
  so. `InputTyped` joins the types of both processes: a step of one leaves the other alone.

* `DetectorsProofs`. `BruteforceNeverMissed`: the cache is the end of the logins, and is
  as long as it can be, or reaches back to the first login or to the last alert
  (`CacheIsEnd`). `PortsAreReported`: `ran_once` means that services.csv is read, so the
  queue is not added to once it was taken; `AllReported` shows that the fold over the
  queue reports each of its flows that nothing excuses, although is_p2p counts on the
  way. `ScansAreBacked`: the cache `Shows` the requests since the last report and closing: an entry per
  address, with the time of its latest request, in the order in which the addresses
  joined. So its first and last entry are those whose times the property compares. `ConnReportedByTimer`: a connection is in a
  message, in the hands of the main loop, or past its first look, in one of these places
  and once (`EachOnce`), so a report by the main loop would need a second message.
  `DatabaseMirrorsFeeds`: while update_manager is between reading the old indicators,
  deleting and loading, what it has in hand is what the database had (`OldDataRead`,
  `OldDataDeleted`). A feed has one task of a round at most (`RoundOnce`), so the tag that
  is stored is that of a feed which is loaded (`InfoLoaded`), and every feed that has a task or
  was emptied is without the tag of its last download (`Untagged`), wherever Slips is killed.
  `ListedIsReported` is an action property; it uses the first of these invariants, that
  ranges stay (`RangesStay`) and the count of starts.
  `DetectorsTyped` says that whatever the four keep is of its type. Four
  strengthenings are needed: a timer is of a check and about what that check is about
  (`AlertsTyped`; with the type alone a DNS check could be about a connection, which has
  no answer); the caches of logins end below their threshold, the queue holds flows that were
  handled, and is_p2p counts no further than its limit (`ThresholdInv`, where
  `AllCounted` follows the count through the fold over the queue); addresses are of the
  family of the list they are in (`MacTyped`); and a round is through with its feeds
  before its tasks begin (`RoundTyped`).

* `PortScanProofs`. `FeatureInv` relates the hashes of the features to the history of
  flows while a flow is half stored: which features of which role are done follows from
  the order of the steps, and each contact is one of a flow whose step is done.
  `ViewsAreTheSame` is what remains when nothing is half stored. `LettersInv` says the same
  of letters: of each tuple the symbol list, and the two timestamps carried along, are
  those of the sub-sequence of its flows (`Those`, of which `ThoseAppend` says what one
  flow more does). `DetectorInv` types each stage of the detector's loop (`ScanShape`),
  bounds what it read by what is stored now (`DataOK`: features only grow), and says
  that the cache holds the last report of each key (`CacheOK`); `TypeCorrect` follows.
  `NoScanIsMissed` uses `NoneMissed`: a scan is reported, or its window is in
  tw_modified, or the detector has not yet passed the read that will show it
  (`ToBeRead`). `PromiseIsKept` is the refinement of `ScanReports`: `PromiseSteps`
  shows for both kinds of scan that a step gives one key one more target or one more
  report, larger than those before it by `CacheOK` and really tried by `DataOK`, or changes
  neither. `HorizontalScanNotMissed` first asked for the absence of other protocols; the
  proof showed that to be needless, and the premise is gone.

* `ScanReportsProofs`. `ScanInv` bounds the i-th amount reported from both sides, by i
  thresholds and by the targets tried; a new amount is a multiple above the last
  one, hence at least one threshold more (`NextMultiple`). So n reports need n
  thresholds of targets (`ReportsAreSeldom`), for any threshold above 0. It
  carries over to `PortScan` through the refinement: `ScansAreSeldomReported`, in
  `PortScanProofs`, instantiates the theorem under both mappings and applies it to
  `PromiseIsKept`.

What the constants are assumed to be, beyond their types: feeds have distinct names, their lines
are indicators or of one of the three kinds that are none, a range is not also an address or a
name nor an address a name, and the bounds on days and starts allow one (`FeedsAssumption`); the lines of an input are of one kind as far as the user says which it
is, the header of argus carries no time, and a line of suricata is one event
(`ReaderAssumption`); what whitelist.conf lists is none of the words of its other columns, and an
end of a text occurs in it (`WhitelistAssumption`); a flow is between a profile and an address
that are known (`FlowThresholdsAssumption`); addresses and ports are finitely many and those of
flows among them, the IPv6 addresses among the addresses, and the two thresholds of scans are above 0 (`PortScanAssumption`); widths,
periods and thresholds are numbers above 0 where the code divides by them or counts up to them.

Sums and folds are outside what the library's theorems give, since its induction takes
an operator as a parameter. Here they are handled by the least counterexample: the sizes
at which a claim fails are a set of numbers, which has a least member (`HasLeast`), and
the definition of the fold refutes it.

Only model-checked are the liveness properties `ThresholdRaisesAlert`, `ShutdownEnds`,
`OldWindowsClose`, `LinesArrive` and `UnresolvedIsReported`: the prover does not reason about
fairness and ENABLED. Every invariant, action property and refinement that a passing run
checks is a theorem. `PublishedOnce` is a theorem (`AnnouncedOnce`) that no run checks any more,
since `StoreAsPromised` implies it.

## 5. The plan

The components with state of their own and logic to get wrong are modelled. What
is left, in this order:

1. `Whitelist` joined to `EvidencePipeline` in place of its constant, and the choice
   of windows to the flows that `FlowReader` delivers.
2. http_analyzer, the fields of `IPsInfo`, and p2ptrust.

### Not modelled

* Machine learning modules and the Markov matrices: numerical.
* kalipso, notify, exporters, timeline, logsProcess, outputProcess: input/output and
  wording. Their ends are processes of `Shutdown`.
* virustotal, RiskIQ and most of ip_info: one request to an outside service per
  address, and what is stored of the answer.
* blocking: no process of this commit publishes new_blocking.
* p2ptrust, http_analyzer, leak_detector, the daemon: not yet.
* Columns that are only copied from a line to the database; statistics and texts
  of evidence; the files of organizations, ports and vendors, which are loaded once
  and are constants.
