-------------------------- MODULE EvidencePipeline --------------------------
(***************************************************************************)
(* How Slips turns detections into alerts.                                 *)
(*                                                                         *)
(* Every detection module is a process of its own and reports through      *)
(* Database.setEvidence: it reads the evidence dictionary of the profile's *)
(* time window from redis, publishes the evidence on the channel           *)
(* evidence_added if its description is new in what it read, and then      *)
(* writes the whole dictionary back, twice (field Evidence of the hash of  *)
(* the time window, and the hash evidence<profileid>).  One                *)
(* EvidenceProcess consumes the channel: it removes whitelisted evidence   *)
(* from the store, and for the rest it accumulates the threat level of     *)
(* the time window, raises an alert, and marks the window as blocked.      *)
(*                                                                         *)
(* Each redis command is one step here; no lock protects the              *)
(* read-modify-write sequences, so the steps of the processes interleave.  *)
(*                                                                         *)
(* A profileid_twid key is a member of ProfTW and a description a member   *)
(* of Desc: the fields of an evidence are functions of its description.    *)
(* The Python dictionary, which keeps insertion order, is a set of entries *)
(* with the rank pos at which the description was inserted.                *)
(***************************************************************************)
EXTENDS Integers, FiniteSets, Sequences, FiniteSetsExt

CONSTANTS
    Reporter,     \* processes that call setEvidence
    ProfTW,       \* profileid_twid keys
    Desc,         \* evidence descriptions
    IP,           \* addresses
    ProfileIP,    \* ProfTW -> the address in the profileid
    Detection,    \* Desc -> type_detection
    InfoIP,       \* Desc -> the address in detection_info
    Inside,       \* pairs of addresses, the text of the first in the second
    ThreatLevel,  \* Desc -> the threat level the module passes
    Confidence,   \* Desc -> confidence, in tenths
    Disabled,     \* descriptions of the detections slips.conf disables
    Whitelisted,  \* pairs <<pt, desc>> that the whitelist matches
    OurIPs,       \* addresses of the host Slips runs on
    Beat,         \* Reporter -> the pairs <<pt, desc>> this process reports
    PeerReports,  \* whether the p2ptrust module is running
    Threshold,    \* detection_threshold * width / 60, in hundredths
    MaxID         \* bound: number of setEvidence calls of a behavior

DetectionType == {"srcip", "dstip", "other"}
LevelName == {"info", "low", "medium", "high", "critical"}

ASSUME EvidenceAssumption ==
    /\ ProfileIP \in [ProfTW -> IP]
    /\ Detection \in [Desc -> DetectionType]
    /\ InfoIP \in [Desc -> IP]
    /\ \A ip \in IP : <<ip, ip>> \in Inside
    /\ ThreatLevel \in [Desc -> STRING]
    /\ Confidence \in [Desc -> 0 .. 10]
    /\ Disabled \subseteq Desc
    /\ Whitelisted \subseteq ProfTW \X Desc
    /\ OurIPs \subseteq IP
    /\ Beat \in [Reporter -> SUBSET (ProfTW \X Desc)]
    /\ PeerReports \in BOOLEAN
    /\ Threshold \in Nat \ {0}
    /\ MaxID \in Nat

VARIABLES
    evidence,           \* field Evidence of the hash of each time window
    evidenceOfProfile,  \* the hashes evidence<profileid>, field twid
    channel,            \* evidence_added: published, not yet read
    blocked,            \* the set BlockedProfTW
    alerts,             \* the hash alerts, and what new_alert announced
    malicious,          \* addresses given score critical in IPsInfo
    reporter,           \* the setEvidence call each process is executing
    ep,                 \* EvidenceProcess: control point and locals
    nextID,             \* the next evidence_ID (a uuid in the code)
    issued,             \* history: every evidence setEvidence created
    published           \* history: IDs that went to evidence_added

vars == <<evidence, evidenceOfProfile, channel, blocked, alerts, malicious,
          reporter, ep, nextID, issued, published>>

-----------------------------------------------------------------------------
(* Data *)

ID == 1 .. MaxID
Entry == [desc : Desc, ID : ID, pos : ID]
Message == [pt : ProfTW, desc : Desc, ID : ID]
Alert == [pt : ProfTW, last : ID, IDs : SUBSET ID]

NoMessage == <<>>
Idle == [pc |-> "idle", msg |-> NoMessage, seen |-> {}]
Dead == [pc |-> "dead", msg |-> NoMessage, seen |-> {}]

ReporterState ==
    {Idle} \cup [pc : {"publish", "store", "index", "score"},
                 msg : Message, seen : SUBSET Entry]
EPState ==
    {Idle, Dead} \cup [pc : {"delread", "delstore", "delindex",
                             "read", "alert", "decide"},
                       msg : Message, seen : SUBSET Entry]

(* The numerical value of a threat level, in tenths: utils.threat_levels;  *)
(* EvidenceProcess counts an unknown name as 0.                            *)
LevelValue(level) ==
    CASE level = "low" -> 2
      [] level = "medium" -> 5
      [] level = "high" -> 8
      [] level = "critical" -> 10
      [] OTHER -> 0

(* The threat level setEvidence stores: evidence about the profile's own   *)
(* address, or about one its text is part of, is only informational.       *)
StoredLevel(pt, d) ==
    IF <<ProfileIP[pt], InfoIP[d]>> \in Inside
    THEN "info" ELSE ThreatLevel[d]

Weight(pt, d) == LevelValue(StoredLevel(pt, d)) * Confidence[d]

(* Faulty variants of Upsert: a list instead of a dictionary, and a write  *)
(* of the new evidence alone.                                              *)
UpsertAppending(dict, d, id) ==
    dict \cup {[desc |-> d, ID |-> id, pos |-> id]}
UpsertForgetting(dict, d, id) == {[desc |-> d, ID |-> id, pos |-> id]}

(* current_evidence.update({description: evidence}): an existing           *)
(* description keeps its place in the dictionary, a new one goes last.     *)
Upsert(dict, d, id) ==
    IF \E e \in dict : e.desc = d
    THEN {IF e.desc = d THEN [e EXCEPT !.ID = id] ELSE e : e \in dict}
    ELSE dict \cup {[desc |-> d, ID |-> id, pos |-> id]}

(* "This is done to ignore repetition of the same evidence sent" *)
NeverRepetition(dict, d) == FALSE
IsRepetition(dict, d) == \E e \in dict : e.desc = d

(* current_evidence.pop(description, None) *)
Pop(dict, d) == {e \in dict : e.desc # d}

(* The evidence the loop over tw_evidence.values() leaves in its variables *)
LastEntry(dict) == CHOOSE e \in dict : \A f \in dict : f.pos <= e.pos

(* The threat level accumulated by the loop over tw_evidence.values() *)
Accumulated(pt, dict) ==
    MapThenSumSet(LAMBDA e : Weight(pt, e.desc), dict)

ExceedsThreshold(total) == total > Threshold
ReachesThreshold(total) == total >= Threshold

(* checkBlockedProfTW *)
AlreadyBlocked(pt) == pt \in blocked

(* decide_blocking: "Make sure we don't block our own IP" *)
MayBlockAny(ip) == TRUE
MayBlock(ip) == ip \notin OurIPs

-----------------------------------------------------------------------------
Init ==
    /\ evidence = [pt \in ProfTW |-> {}]
    /\ evidenceOfProfile = [pt \in ProfTW |-> {}]
    /\ channel = <<>>
    /\ blocked = {}
    /\ alerts = {}
    /\ malicious = {}
    /\ reporter = [r \in Reporter |-> Idle]
    /\ ep = Idle
    /\ nextID = 1
    /\ issued = {}
    /\ published = {}

-----------------------------------------------------------------------------
(* setEvidence, executed by a detection module *)

(* is_detection_disabled, then getEvidenceForTW: the dictionary read here  *)
(* is the one written back by StoreEvidence.                               *)
ReportEvidence(r, pt, d) ==
    /\ reporter[r] = Idle
    /\ <<pt, d>> \in Beat[r]
    /\ d \notin Disabled
    /\ nextID <= MaxID
    /\ LET m == [pt |-> pt, desc |-> d, ID |-> nextID]
       IN  /\ reporter' = [reporter EXCEPT ![r] =
                             [pc |-> "publish", msg |-> m,
                              seen |-> evidence[pt]]]
           /\ issued' = issued \cup {m}
    /\ nextID' = nextID + 1
    /\ UNCHANGED <<evidence, evidenceOfProfile, channel, blocked, alerts,
                   malicious, ep, published>>

(* publish, unless the description is in the dictionary read before *)
PublishEvidence(r) ==
    /\ reporter[r].pc = "publish"
    /\ LET m == reporter[r].msg
       IN  IF IsRepetition(reporter[r].seen, m.desc)
           THEN UNCHANGED <<channel, published>>
           ELSE /\ channel' = Append(channel, m)
                /\ published' = published \cup {m.ID}
    /\ reporter' = [reporter EXCEPT ![r].pc = "store"]
    /\ UNCHANGED <<evidence, evidenceOfProfile, blocked, alerts, malicious,
                   ep, nextID, issued>>

(* hset of the dictionary as it was read, plus the new evidence *)
StoreEvidence(r) ==
    /\ reporter[r].pc = "store"
    /\ LET m == reporter[r].msg
           new == Upsert(reporter[r].seen, m.desc, m.ID)
       IN  /\ evidence' = [evidence EXCEPT ![m.pt] = new]
           /\ reporter' = [reporter EXCEPT ![r].pc = "index",
                                           ![r].seen = new]
    /\ UNCHANGED <<evidenceOfProfile, channel, blocked, alerts, malicious,
                   ep, nextID, issued, published>>

(* hset of the same dictionary under evidence<profileid> *)
IndexEvidence(r) ==
    /\ reporter[r].pc = "index"
    /\ evidenceOfProfile' = [evidenceOfProfile EXCEPT
                               ![reporter[r].msg.pt] = reporter[r].seen]
    /\ reporter' = [reporter EXCEPT ![r].pc = "score"]
    /\ UNCHANGED <<evidence, channel, blocked, alerts, malicious, ep,
                   nextID, issued, published>>

(* set_score_confidence of the accused address, if the detection is about  *)
(* one.  Only this field of IPsInfo is modelled.                           *)
AccusedAnything(m) == {m.desc}
Accused(m) ==
    CASE Detection[m.desc] = "srcip" -> {ProfileIP[m.pt]}
      [] Detection[m.desc] = "dstip" -> {InfoIP[m.desc]}
      [] OTHER -> {}

ScoreEvidence(r) ==
    /\ reporter[r].pc = "score"
    /\ malicious' = malicious \cup Accused(reporter[r].msg)
    /\ reporter' = [reporter EXCEPT ![r] = Idle]
    /\ UNCHANGED <<evidence, evidenceOfProfile, channel, blocked, alerts, ep,
                   nextID, issued, published>>

-----------------------------------------------------------------------------
(* EvidenceProcess.run *)

(* One message of evidence_added.  get_flow returns a dictionary with one  *)
(* key even when there is no flow, so only the whitelist decides.          *)
EPReceive ==
    /\ ep = Idle
    /\ channel # <<>>
    /\ channel' = Tail(channel)
    /\ LET m == Head(channel)
       IN  ep' = [pc |-> IF <<m.pt, m.desc>> \in Whitelisted
                         THEN "delread" ELSE "read",
                  msg |-> m, seen |-> {}]
    /\ UNCHANGED <<evidence, evidenceOfProfile, blocked, alerts, malicious,
                   reporter, nextID, issued, published>>

(* deleteEvidence: read, then write both copies without the description *)
EPDeleteRead ==
    /\ ep.pc = "delread"
    /\ ep' = [ep EXCEPT !.pc = "delstore",
                        !.seen = Pop(evidence[ep.msg.pt], ep.msg.desc)]
    /\ UNCHANGED <<evidence, evidenceOfProfile, channel, blocked, alerts,
                   malicious, reporter, nextID, issued, published>>

EPDeleteStore ==
    /\ ep.pc = "delstore"
    /\ evidence' = [evidence EXCEPT ![ep.msg.pt] = ep.seen]
    /\ ep' = [ep EXCEPT !.pc = "delindex"]
    /\ UNCHANGED <<evidenceOfProfile, channel, blocked, alerts, malicious,
                   reporter, nextID, issued, published>>

EPDeleteIndex ==
    /\ ep.pc = "delindex"
    /\ evidenceOfProfile' = [evidenceOfProfile EXCEPT ![ep.msg.pt] = ep.seen]
    /\ ep' = Idle
    /\ UNCHANGED <<evidence, channel, blocked, alerts, malicious, reporter,
                   nextID, issued, published>>

(* Read the evidence of the time window and accumulate its threat level;   *)
(* nothing is decided without evidence.                                    *)
EPAccumulate ==
    /\ ep.pc = "read"
    /\ LET pt == ep.msg.pt
           seen == evidence[pt]
       IN  IF seen # {} /\ ReachesThreshold(Accumulated(pt, seen))
           THEN ep' = [ep EXCEPT !.pc = "alert", !.seen = seen]
           ELSE ep' = Idle
    /\ UNCHANGED <<evidence, evidenceOfProfile, channel, blocked, alerts,
                   malicious, reporter, nextID, issued, published>>

(* set_evidence_causing_alert and new_alert, unless the window is blocked. *)
(* decide_blocking is called only if the last evidence is about a dstip.   *)
EPAlert ==
    /\ ep.pc = "alert"
    /\ LET pt == ep.msg.pt
           last == LastEntry(ep.seen)
       IN  IF AlreadyBlocked(pt)
           THEN ep' = Idle /\ UNCHANGED alerts
           ELSE /\ alerts' = alerts \cup
                     {[pt |-> pt, last |-> last.ID,
                       IDs |-> {e.ID : e \in ep.seen}]}
                /\ ep' = IF Detection[last.desc] = "dstip"
                         THEN [ep EXCEPT !.pc = "decide"] ELSE Idle
    /\ UNCHANGED <<evidence, evidenceOfProfile, channel, blocked, malicious,
                   reporter, nextID, issued, published>>

(* decide_blocking: our own addresses are never blocked *)
EPDecideBlocking ==
    /\ ep.pc = "decide"
    /\ blocked' = IF MayBlock(InfoIP[LastEntry(ep.seen).desc])
                  THEN blocked \cup {ep.msg.pt} ELSE blocked
    /\ ep' = Idle
    /\ UNCHANGED <<evidence, evidenceOfProfile, channel, alerts, malicious,
                   reporter, nextID, issued, published>>

(* A report of a peer arrives on new_blame.  store_blame_report hands its   *)
(* evaluation, a dictionary, to hset; redis-py accepts no such value, and  *)
(* the exception ends the process before it publishes new_blocking.        *)
EPBlame ==
    /\ PeerReports
    /\ ep = Idle
    /\ ep' = Dead
    /\ UNCHANGED <<evidence, evidenceOfProfile, channel, blocked, alerts,
                   malicious, reporter, nextID, issued, published>>

-----------------------------------------------------------------------------
ReporterStep(r) ==
    \/ PublishEvidence(r)
    \/ StoreEvidence(r)
    \/ IndexEvidence(r)
    \/ ScoreEvidence(r)

EvidenceProcess ==
    \/ EPReceive
    \/ EPDeleteRead
    \/ EPDeleteStore
    \/ EPDeleteIndex
    \/ EPAccumulate
    \/ EPAlert
    \/ EPDecideBlocking

Next ==
    \/ \E r \in Reporter, pt \in ProfTW, d \in Desc : ReportEvidence(r, pt, d)
    \/ \E r \in Reporter : ReporterStep(r)
    \/ EvidenceProcess
    \/ EPBlame

(* A module finishes the call it has begun and EvidenceProcess polls its   *)
(* channel in an endless loop; nothing obliges a module or a peer to       *)
(* report.                                                                 *)
Fairness ==
    /\ \A r \in Reporter : WF_vars(ReporterStep(r))
    /\ WF_vars(EvidenceProcess)

Spec == Init /\ [][Next]_vars
FairSpec == Spec /\ Fairness

-----------------------------------------------------------------------------
TypeOK ==
    /\ evidence \in [ProfTW -> SUBSET Entry]
    /\ evidenceOfProfile \in [ProfTW -> SUBSET Entry]
    /\ channel \in Seq(Message)
    /\ blocked \subseteq ProfTW
    /\ alerts \subseteq Alert
    /\ malicious \subseteq IP
    /\ reporter \in [Reporter -> ReporterState]
    /\ ep \in EPState
    /\ nextID \in 1 .. MaxID + 1
    /\ issued \subseteq Message
    /\ published \subseteq ID

-----------------------------------------------------------------------------
(* Properties *)

(* A window only one process reports on, and nothing of it is whitelisted: *)
(* the case in which the unlocked read-modify-write has a single writer.   *)
Exclusive(pt) ==
    /\ \A r, q \in Reporter, d, c \in Desc :
          <<pt, d>> \in Beat[r] /\ <<pt, c>> \in Beat[q] => r = q
    /\ \A d \in Desc : <<pt, d>> \notin Whitelisted

(* Evidence that setEvidence created and has not yet written to the store *)
InFlight(m) ==
    \E r \in Reporter : reporter[r].pc \in {"publish", "store"}
                        /\ reporter[r].msg = m

(* An alert stands on evidence that was really reported, for its own       *)
(* window, and no detection counts twice although the same one may be      *)
(* reported, lost and reported again.                                      *)
AlertOwnEvidence ==
    \A a \in alerts :
        /\ a.IDs \subseteq {m.ID : m \in issued}
        /\ \A m \in issued : m.ID \in a.IDs => m.pt = a.pt
        /\ \A m, n \in issued :
              {m.ID, n.ID} \subseteq a.IDs /\ m.desc = n.desc => m = n

(* ... and the evidence an alert stands on reaches the threshold.          *)
AlertJustified ==
    /\ AlertOwnEvidence
    /\ \A a \in alerts :
          LET cause == {m \in issued : m.ID \in a.IDs}
          IN  MapThenSumSet(LAMBDA m : Weight(a.pt, m.desc), cause)
                >= Threshold

(* A window is marked as blocked only after an alert for that very window  *)
(* whose last evidence names a destination that is not this host.          *)
BlockedAfterAlert ==
    \A pt \in blocked : \E a \in alerts :
        /\ a.pt = pt
        /\ \E m \in issued :
              /\ m.ID = a.last
              /\ m.pt = pt
              /\ Detection[m.desc] = "dstip"
              /\ InfoIP[m.desc] \notin OurIPs

(* "Ignore repetition of the same evidence sent": with a single writer a   *)
(* description is announced at most once per window.                       *)
PublishedOnce ==
    \A m, n \in issued :
        /\ {m.ID, n.ID} \subseteq published
        /\ m.pt = n.pt /\ m.desc = n.desc
        /\ Exclusive(m.pt)
        => m = n

(* For the windows with a single writer the unlocked commands of           *)
(* setEvidence, and what EvidenceProcess does meanwhile, are as good as a  *)
(* store that is a set (EvidenceStore).                                    *)
Sole == {pt \in ProfTW : Exclusive(pt)}
Descs(entries) == {e.desc : e \in entries}

SoleStore == INSTANCE EvidenceStore WITH
    Window <- Sole, Report <- Message,
    Enough <- {x \in Sole \X SUBSET Desc :
                 Accumulated(x[1], {[desc |-> d] : d \in x[2]}) >= Threshold},
    announced <- [pt \in Sole |-> {m \in issued : m.pt = pt /\ m.ID \in published}],
    stored <- [pt \in Sole |-> Descs(evidence[pt])],
    alerts <- {[window |-> a.pt, evidence |-> Descs({m \in issued : m.ID \in a.IDs})] :
                 a \in {a \in alerts : a.pt \in Sole}},
    blocked <- blocked \cap Sole

StoreAsPromised == SoleStore!StoreSpec

(* With a single writer no reported evidence is ever lost from the store,  *)
(* and the two copies of it agree whenever the writer is not in between.   *)
NothingLost ==
    \A m \in issued : Exclusive(m.pt) =>
        /\ InFlight(m) \/ \E e \in evidence[m.pt] : e.desc = m.desc
        /\ \/ evidence[m.pt] = evidenceOfProfile[m.pt]
           \/ \E r \in Reporter : reporter[r].pc = "index"
                                  /\ reporter[r].msg.pt = m.pt

(* Evidence that has reached the threshold while a message about its       *)
(* window is still to be read leads to an alert (single writer), unless    *)
(* the EvidenceProcess is dead.                                            *)
Pending(pt) == \E i \in 1 .. Len(channel) : channel[i].pt = pt

ThresholdRaisesAlert ==
    \A pt \in ProfTW :
        (Exclusive(pt) /\ Pending(pt)
           /\ Accumulated(pt, evidence[pt]) >= Threshold)
        ~> (ep = Dead \/ \E a \in alerts : a.pt = pt)

-----------------------------------------------------------------------------
(* What a comment promises and the code does not keep *)

(* EvidenceProcess is through with the message that announced m: when m is *)
(* whitelisted it has run deleteEvidence to the end.                       *)
Handled(m) ==
    /\ m.ID \in published
    /\ \A i \in 1 .. Len(channel) : channel[i] # m
    /\ ep.msg # m

(* evidenceProcess.py 854, "remove evidence from db so it will be          *)
(* completely ignored": an alert raised after the removal does not count   *)
(* the whitelisted evidence that was removed.  (Alerts raised before       *)
(* EvidenceProcess comes to its message may count it.)                     *)
WhitelistedIgnored ==
    [][\A a \in alerts' \ alerts, m \in issued :
          m.ID \in a.IDs /\ Handled(m) => <<m.pt, m.desc>> \notin Whitelisted]_vars
=============================================================================
