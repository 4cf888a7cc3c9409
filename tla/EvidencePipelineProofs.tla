----------------------- MODULE EvidencePipelineProofs -----------------------
(* Theorems of EvidencePipeline for every set of reporters, windows,       *)
(* descriptions and addresses: what alerts stand on, and, for windows with *)
(* a single writer, that the unlocked store implements EvidenceStore.      *)
EXTENDS EvidencePipeline, WellFoundedInduction, FiniteSetTheorems, TLAPS

(* Upsert adds one entry, with the description and the ID of the new       *)
(* evidence, and keeps an entry for every description.                     *)
LEMMA UpsertType ==
    ASSUME NEW dict \in SUBSET Entry, NEW d \in Desc, NEW id \in ID
    PROVE  Upsert(dict, d, id) \in SUBSET Entry
BY DEF Upsert, Entry

(* A process that is not idle works on a message, with a dictionary it     *)
(* read.                                                                   *)
Busy(pcs) == [pc : pcs, msg : Message, seen : SUBSET Entry]
ReporterBusy == Busy({"publish", "store", "index", "score"})
EPBusy ==
    Busy({"delread", "delstore", "delindex", "read", "alert", "decide"})

(* In a setEvidence call the locals of a process have their types.         *)
LEMMA ReporterWorks ==
    ASSUME TypeOK, NEW r \in Reporter, reporter[r].pc # "idle"
    PROVE  /\ reporter[r] \in ReporterBusy
           /\ reporter[r].msg \in Message
           /\ reporter[r].msg.pt \in ProfTW
           /\ reporter[r].msg.desc \in Desc
           /\ reporter[r].msg.ID \in ID
           /\ reporter[r].seen \in SUBSET Entry
<1>1. reporter[r] \in ReporterBusy
  BY DEF TypeOK, ReporterState, Idle, ReporterBusy, Busy
<1> QED
  BY <1>1 DEF ReporterBusy, Busy, Message

(* And so have those of EvidenceProcess while it handles a message.        *)
LEMMA EPWorks ==
    ASSUME TypeOK, ep.pc \notin {"idle", "dead"}
    PROVE  /\ ep \in EPBusy
           /\ ep.msg \in Message
           /\ ep.msg.pt \in ProfTW
           /\ ep.msg.desc \in Desc
           /\ ep.msg.ID \in ID
           /\ ep.seen \in SUBSET Entry
<1>1. ep \in EPBusy
  BY DEF TypeOK, EPState, Idle, Dead, EPBusy, Busy
<1> QED
  BY <1>1 DEF EPBusy, Busy, Message

(* A set of positions has a greatest one: the least distance from n.       *)
LEMMA HasGreatest ==
    ASSUME NEW n \in Nat, NEW P \in SUBSET (1 .. n), P # {}
    PROVE  \E p \in P : \A q \in P : q <= p
<1> DEFINE D == {n - p : p \in P}
<1>1. D \subseteq Nat /\ D # {}
  <2>1. \A p \in P : n - p \in Nat
    OBVIOUS
  <2>2. PICK p \in P : TRUE
    OBVIOUS
  <2>3. n - p \in D
    BY <2>2
  <2> QED
    BY <2>1, <2>3
<1>2. PICK d \in D : \A c \in D : <<c, d>> \notin OpToRel(<, Nat)
  <2> HIDE DEF D
  <2> QED
    BY <1>1, NatLessThanWellFounded, WFMin
<1>3. \A c \in D : ~ (c < d)
  BY <1>1, <1>2 DEF OpToRel
<1>4. PICK p \in P : d = n - p
  OBVIOUS
<1>5. ASSUME NEW q \in P PROVE q <= p
  <2>1. n - q \in D
    OBVIOUS
  <2>2. ~ (n - q < n - p)
    BY <2>1, <1>3, <1>4
  <2>3. q \in Int /\ p \in Int
    OBVIOUS
  <2> QED
    BY <2>2, <2>3
<1> QED
  BY <1>5

(* The maximum of the positions, if there is an entry at all.              *)
LEMMA LastEntryExists ==
    ASSUME NEW dict \in SUBSET Entry, dict # {}
    PROVE  LastEntry(dict) \in dict
<1> DEFINE P == {e.pos : e \in dict}
<1>1. P \subseteq 1 .. MaxID /\ P # {}
  BY DEF Entry, ID
<1>2. MaxID \in Nat
  BY EvidenceAssumption
<1>3. PICK p \in P : \A q \in P : q <= p
  <2> HIDE DEF P
  <2> QED
    BY <1>1, <1>2, HasGreatest
<1>4. PICK e \in dict : e.pos = p
  BY <1>3
<1>5. \A f \in dict : f.pos <= e.pos
  BY <1>3, <1>4
<1> QED
  BY <1>4, <1>5 DEF LastEntry

(* An alert is only prepared from some evidence.                           *)
SeenSome == ep.pc \in {"alert", "decide"} => ep.seen # {}

(* EvidenceProcess skips an empty dictionary, so no step breaks this.      *)
LEMMA SeenSomeStep == TypeOK /\ SeenSome /\ [Next]_vars => SeenSome'
<1> SUFFICES ASSUME TypeOK, SeenSome, [Next]_vars PROVE SeenSome'
  OBVIOUS
<1>1. CASE EvidenceProcess
  <2>1. CASE EPReceive
    BY <2>1 DEF EPReceive, SeenSome
  <2>2. CASE EPDeleteRead \/ EPDeleteStore
    BY <2>2, EPWorks
       DEF EPDeleteRead, EPDeleteStore, SeenSome, EPBusy, Busy
  <2>3. CASE EPDeleteIndex \/ EPDecideBlocking
    BY <2>3 DEF EPDeleteIndex, EPDecideBlocking, SeenSome, Idle
  <2>4. CASE EPAccumulate
    <3>1. \/ /\ evidence[ep.msg.pt] # {}
             /\ ep' = [ep EXCEPT !.pc = "alert",
                                 !.seen = evidence[ep.msg.pt]]
          \/ ep' = Idle
      BY <2>4 DEF EPAccumulate
    <3>2. ep \in EPBusy
      BY <2>4, EPWorks DEF EPAccumulate
    <3>3. [ep EXCEPT !.pc = "alert", !.seen = evidence[ep.msg.pt]].seen
            = evidence[ep.msg.pt]
      BY <3>2 DEF EPBusy, Busy
    <3>4. Idle.pc = "idle"
      BY DEF Idle
    <3> QED
      BY <3>1, <3>3, <3>4 DEF SeenSome
  <2>5. CASE EPAlert
    BY <2>5, EPWorks DEF EPAlert, SeenSome, EPBusy, Busy, Idle
  <2> QED
    BY <1>1, <2>1, <2>2, <2>3, <2>4, <2>5 DEF EvidenceProcess
<1>2. CASE ep' = ep
  BY <1>2 DEF SeenSome
<1>3. CASE EPBlame
  BY <1>3 DEF EPBlame, Dead, SeenSome
<1> QED
  BY <1>1, <1>2, <1>3
     DEF Next, ReportEvidence, ReporterStep, PublishEvidence, StoreEvidence,
         IndexEvidence, ScoreEvidence, vars

(* Every variable keeps its type in every step of every process.           *)
LEMMA TypeStep == TypeOK /\ SeenSome /\ [Next]_vars => TypeOK'
<1> SUFFICES ASSUME TypeOK, SeenSome, [Next]_vars PROVE TypeOK'
  OBVIOUS
<1>1. ASSUME NEW r \in Reporter, NEW pt \in ProfTW, NEW d \in Desc,
             ReportEvidence(r, pt, d)
      PROVE  TypeOK'
  <2> DEFINE m == [pt |-> pt, desc |-> d, ID |-> nextID]
  <2>1. m \in Message /\ nextID + 1 \in 1 .. MaxID + 1
    BY <1>1, EvidenceAssumption DEF ReportEvidence, TypeOK, Message, ID
  <2>2. [pc |-> "publish", msg |-> m, seen |-> evidence[pt]]
          \in ReporterState
    BY <2>1 DEF TypeOK, ReporterState
  <2> QED
    BY <1>1, <2>1, <2>2 DEF ReportEvidence, TypeOK
<1>2. ASSUME NEW r \in Reporter, PublishEvidence(r) PROVE TypeOK'
  <2>1. reporter[r].pc # "idle"
    BY <1>2 DEF PublishEvidence
  <2>2. [reporter[r] EXCEPT !.pc = "store"] \in ReporterState
    BY <2>1, ReporterWorks DEF ReporterBusy, Busy, ReporterState
  <2> DEFINE m == reporter[r].msg
  <2>3. m \in Message /\ m.ID \in ID
    BY <2>1, ReporterWorks
  <2>4. \/ channel' = channel /\ published' = published
        \/ channel' = Append(channel, m) /\ published' = published \cup {m.ID}
    BY <1>2 DEF PublishEvidence
  <2>5. channel' \in Seq(Message) /\ published' \subseteq ID
    BY <2>3, <2>4 DEF TypeOK
  <2> QED
    BY <1>2, <2>2, <2>5 DEF PublishEvidence, TypeOK
<1>3. ASSUME NEW r \in Reporter, StoreEvidence(r) PROVE TypeOK'
  <2>1. reporter[r].pc # "idle"
    BY <1>3 DEF StoreEvidence
  <2> DEFINE m == reporter[r].msg
             new == Upsert(reporter[r].seen, m.desc, m.ID)
  <2>2. new \in SUBSET Entry
    BY <2>1, ReporterWorks, UpsertType
  <2> HIDE DEF new
  <2>3. [reporter[r] EXCEPT !.pc = "index", !.seen = new]
          \in ReporterState
    BY <2>1, <2>2, ReporterWorks DEF ReporterBusy, Busy, ReporterState
  <2>4. /\ evidence' = [evidence EXCEPT ![m.pt] = new]
        /\ reporter' = [reporter EXCEPT ![r] =
                          [reporter[r] EXCEPT !.pc = "index", !.seen = new]]
    BY <1>3, <2>1, ReporterWorks DEF StoreEvidence, TypeOK, new, Busy,
                                     ReporterBusy
  <2> QED
    BY <1>3, <2>2, <2>3, <2>4 DEF StoreEvidence, TypeOK
<1>4. ASSUME NEW r \in Reporter, IndexEvidence(r) PROVE TypeOK'
  <2>1. reporter[r].pc # "idle"
    BY <1>4 DEF IndexEvidence
  <2>2. [reporter[r] EXCEPT !.pc = "score"] \in ReporterState
    BY <2>1, ReporterWorks DEF ReporterBusy, Busy, ReporterState
  <2> QED
    BY <1>4, <2>1, <2>2, ReporterWorks DEF IndexEvidence, TypeOK
<1>5. ASSUME NEW r \in Reporter, ScoreEvidence(r) PROVE TypeOK'
  <2>1. reporter[r].pc # "idle"
    BY <1>5 DEF ScoreEvidence
  <2>2. Accused(reporter[r].msg) \subseteq IP
    BY <2>1, ReporterWorks, EvidenceAssumption DEF Accused
  <2> QED
    BY <1>5, <2>2 DEF ScoreEvidence, TypeOK, ReporterState
<1>6. CASE EPReceive
  <2>1. Head(channel) \in Message /\ Tail(channel) \in Seq(Message)
    BY <1>6 DEF EPReceive, TypeOK
  <2>2. ep' \in EPState
    BY <1>6, <2>1 DEF EPReceive, EPState
  <2> QED
    BY <1>6, <2>1, <2>2 DEF EPReceive, TypeOK
<1>7. CASE EPDeleteRead
  <2>1. ep' \in EPState
    BY <1>7, EPWorks DEF EPDeleteRead, EPState, EPBusy, Busy, Pop, TypeOK
  <2> QED
    BY <1>7, <2>1 DEF EPDeleteRead, TypeOK
<1>8. CASE EPDeleteStore
  <2>1. ep' \in EPState
    BY <1>8, EPWorks DEF EPDeleteStore, EPState, EPBusy, Busy
  <2> QED
    BY <1>8, <2>1, EPWorks DEF EPDeleteStore, TypeOK
<1>9. CASE EPDeleteIndex
  BY <1>9, EPWorks DEF EPDeleteIndex, TypeOK, EPState
<1>10. CASE EPAccumulate
  <2>1. ep' \in EPState
    BY <1>10, EPWorks DEF EPAccumulate, EPState, EPBusy, Busy, TypeOK
  <2> QED
    BY <1>10, <2>1 DEF EPAccumulate, TypeOK
<1>11. CASE EPAlert
  <2>1. ep' \in EPState
    BY <1>11, EPWorks DEF EPAlert, EPState, EPBusy, Busy
  <2>2. alerts' \subseteq Alert
    <3> DEFINE last == LastEntry(ep.seen)
    <3>1. last \in Entry
      BY <1>11, EPWorks, LastEntryExists DEF EPAlert, SeenSome
    <3> HIDE DEF last
    <3>2. {e.ID : e \in ep.seen} \in SUBSET ID
      BY <1>11, EPWorks DEF EPAlert, Entry
    <3>3. alerts' \subseteq alerts \cup
             {[pt |-> ep.msg.pt, last |-> last.ID,
               IDs |-> {e.ID : e \in ep.seen}]}
      BY <1>11 DEF EPAlert, last
    <3> QED
      BY <1>11, <3>1, <3>2, <3>3, EPWorks DEF EPAlert, TypeOK, Alert, Entry
  <2> QED
    BY <1>11, <2>1, <2>2 DEF EPAlert, TypeOK
<1>12. CASE EPDecideBlocking
  BY <1>12, EPWorks DEF EPDecideBlocking, TypeOK, EPState
<1>13. CASE EPBlame
  BY <1>13 DEF EPBlame, TypeOK, EPState
<1>14. CASE UNCHANGED vars
  BY <1>14 DEF vars, TypeOK
<1> QED
  BY <1>1, <1>2, <1>3, <1>4, <1>5, <1>6, <1>7, <1>8, <1>9, <1>10, <1>11,
     <1>12, <1>13, <1>14
     DEF Next, ReporterStep, EvidenceProcess

(* Every variable of the evidence pipeline always has its type.            *)
THEOREM TypeCorrect == Spec => [](TypeOK /\ SeenSome)
<1>1. Init => TypeOK /\ SeenSome
  BY EvidenceAssumption
     DEF Init, TypeOK, ReporterState, EPState, ID, SeenSome, Idle
<1>2. TypeOK /\ SeenSome /\ [Next]_vars => (TypeOK /\ SeenSome)'
  BY TypeStep, SeenSomeStep
<1> QED
  BY <1>1, <1>2, PTL DEF Spec

-----------------------------------------------------------------------------
(* Evidence is what was reported                                           *)

(* The entries of a dictionary come from reports about its window, one for *)
(* each description.                                                       *)
Sourced(dict, pt) ==
    \A e \in dict : \E m \in issued :
        m.pt = pt /\ m.desc = e.desc /\ m.ID = e.ID
OneEach(dict) == \A e, f \in dict : e.desc = f.desc => e = f
Sound(dict, pt) == Sourced(dict, pt) /\ OneEach(dict)

(* evidence_ID is an identifier *)
IssuedOnce ==
    /\ \A m \in issued : m.ID < nextID
    /\ \A m, n \in issued : m.ID = n.ID => m = n

SoundStore ==
    /\ \A pt \in ProfTW : Sound(evidence[pt], pt)
    /\ \A r \in Reporter : reporter[r].pc # "idle" =>
          /\ reporter[r].msg \in issued
          /\ Sound(reporter[r].seen, reporter[r].msg.pt)
    /\ ep.pc # "idle" => Sound(ep.seen, ep.msg.pt)

(* The alert that decide_blocking was called for *)
AlertBeforeDecision ==
    ep.pc = "decide" =>
        LET last == LastEntry(ep.seen)
        IN  /\ Detection[last.desc] = "dstip"
            /\ \E a \in alerts : a.pt = ep.msg.pt /\ a.last = last.ID

Inv ==
    /\ TypeOK
    /\ SeenSome
    /\ IssuedOnce
    /\ SoundStore
    /\ AlertOwnEvidence
    /\ AlertBeforeDecision
    /\ BlockedAfterAlert

(* setEvidence writes back a dictionary of reports about its window.       *)
LEMMA UpsertSound ==
    ASSUME NEW dict \in SUBSET Entry, NEW pt, NEW m \in issued,
           m.pt = pt, Sound(dict, pt)
    PROVE  Sound(Upsert(dict, m.desc, m.ID), pt)
<1> DEFINE new == Upsert(dict, m.desc, m.ID)
<1>1. \A e \in new : \/ e.desc = m.desc /\ e.ID = m.ID
                     \/ e \in dict
  BY DEF Upsert, Entry
<1>2. Sourced(new, pt)
  BY <1>1 DEF Sound, Sourced
<1>3. OneEach(new)
  <2>1. CASE \E e \in dict : e.desc = m.desc
    <3>1. new = {IF e.desc = m.desc THEN [e EXCEPT !.ID = m.ID] ELSE e :
                   e \in dict}
      BY <2>1 DEF Upsert
    <3> DEFINE up(e) ==
                 IF e.desc = m.desc THEN [e EXCEPT !.ID = m.ID] ELSE e
    <3>2. \A e \in dict : up(e).desc = e.desc
      BY DEF Entry
    <3>3. \A x \in new : \E e \in dict : x = up(e)
      BY <3>1
    <3> HIDE DEF new, up
    <3>4. ASSUME NEW x \in new, NEW y \in new, x.desc = y.desc
          PROVE  x = y
      <4>1. PICK e \in dict : x = up(e)
        BY <3>3
      <4>2. PICK f \in dict : y = up(f)
        BY <3>3
      <4>3. e = f
        BY <3>2, <3>4, <4>1, <4>2 DEF Sound, OneEach
      <4> QED
        BY <4>1, <4>2, <4>3
    <3> QED
      BY <3>4 DEF OneEach
  <2>2. CASE ~ \E e \in dict : e.desc = m.desc
    <3>1. new = dict \cup {[desc |-> m.desc, ID |-> m.ID, pos |-> m.ID]}
      BY <2>2 DEF Upsert
    <3> QED
      BY <2>2, <3>1 DEF Sound, OneEach
  <2> QED
    BY <2>1, <2>2
<1> QED
  BY <1>2, <1>3 DEF Sound

(* deleteEvidence removes entries and changes none.                        *)
LEMMA PopSound ==
    ASSUME NEW dict, NEW pt, NEW d, Sound(dict, pt)
    PROVE  Sound(Pop(dict, d), pt)
BY DEF Sound, Sourced, OneEach, Pop

(* A report makes an ID nobody has.                                        *)
LEMMA ReportKeepsInv ==
    ASSUME Inv, TypeOK', SeenSome', NEW r \in Reporter, NEW pt \in ProfTW,
           NEW d \in Desc, ReportEvidence(r, pt, d)
    PROVE  Inv'
<1> DEFINE m == [pt |-> pt, desc |-> d, ID |-> nextID]
<1>1. /\ issued' = issued \cup {m}
      /\ nextID' = nextID + 1
      /\ reporter' = [reporter EXCEPT ![r] =
                        [pc |-> "publish", msg |-> m, seen |-> evidence[pt]]]
      /\ UNCHANGED <<evidence, ep, alerts, blocked>>
  BY DEF ReportEvidence
<1>2. m.ID = nextID /\ m.pt = pt /\ m.desc = d
  OBVIOUS
<1> HIDE DEF m
<1>3. \A n \in issued : n.ID < nextID /\ n.ID \in Int /\ nextID \in Int
  BY DEF Inv, IssuedOnce, TypeOK, Message, ID
<1>4. IssuedOnce'
  BY <1>1, <1>2, <1>3 DEF Inv, IssuedOnce, TypeOK
<1>5. \A dict, q : Sound(dict, q) => Sound(dict, q)'
  BY <1>1 DEF Sound, Sourced, OneEach
<1>6. SoundStore'
  <2>1. \A q \in ProfTW : Sound(evidence[q], q)'
    BY <1>1, <1>5 DEF Inv, SoundStore
  <2>2. ASSUME NEW q \in Reporter, reporter'[q].pc # "idle"
        PROVE  /\ reporter'[q].msg \in issued'
               /\ Sound(reporter[q].seen, reporter[q].msg.pt)'
    <3>1. CASE q = r
      <4>1. /\ reporter'[q].msg = m
            /\ reporter'[q].seen = evidence[pt]
        BY <1>1, <3>1 DEF Inv, TypeOK
      <4> QED
        BY <4>1, <1>1, <1>2, <1>5 DEF Inv, SoundStore
    <3>2. CASE q # r
      <4>1. reporter'[q] = reporter[q]
        BY <1>1, <3>2 DEF Inv, TypeOK
      <4> QED
        BY <4>1, <2>2, <1>1, <1>5 DEF Inv, SoundStore
    <3> QED
      BY <3>1, <3>2
  <2>3. ep'.pc # "idle" => Sound(ep.seen, ep.msg.pt)'
    BY <1>1, <1>5 DEF Inv, SoundStore
  <2> QED
    BY <2>1, <2>2, <2>3 DEF SoundStore
<1>7. AlertOwnEvidence'
  <2>1. \A a \in alerts : m.ID \notin a.IDs
    BY <1>2, <1>3 DEF Inv, AlertOwnEvidence
  <2> QED
    BY <2>1, <1>1 DEF Inv, AlertOwnEvidence
<1>8. AlertBeforeDecision'
  BY <1>1 DEF Inv, AlertBeforeDecision
<1>9. BlockedAfterAlert'
  BY <1>1 DEF Inv, BlockedAfterAlert
<1> QED
  BY <1>4, <1>6, <1>7, <1>8, <1>9 DEF Inv

(* The other steps of setEvidence change neither alerts nor blocked.       *)
LEMMA ReporterKeepsInv ==
    ASSUME Inv, TypeOK', SeenSome', NEW r \in Reporter, ReporterStep(r)
    PROVE  Inv'
<1>1. /\ UNCHANGED <<ep, alerts, blocked, issued, nextID>>
      /\ reporter[r].pc # "idle"
  BY DEF ReporterStep, PublishEvidence, StoreEvidence, IndexEvidence,
         ScoreEvidence
<1>2. IssuedOnce' /\ AlertOwnEvidence' /\ AlertBeforeDecision'
        /\ BlockedAfterAlert'
  BY <1>1 DEF Inv, IssuedOnce, AlertOwnEvidence, AlertBeforeDecision,
              BlockedAfterAlert
<1> DEFINE m == reporter[r].msg
           new == Upsert(reporter[r].seen, m.desc, m.ID)
<1>3. /\ m \in issued
      /\ Sound(reporter[r].seen, m.pt)
      /\ reporter[r] \in ReporterBusy
      /\ m.pt \in ProfTW
      /\ reporter[r].seen \in SUBSET Entry
  BY <1>1, ReporterWorks DEF Inv, SoundStore
<1>4. Sound(new, m.pt)
  BY <1>3, UpsertSound
<1>5. \/ evidence' = evidence
      \/ evidence' = [evidence EXCEPT ![m.pt] = new]
  BY DEF ReporterStep, PublishEvidence, StoreEvidence, IndexEvidence,
         ScoreEvidence
<1>6. \/ reporter' = [reporter EXCEPT ![r].pc = "store"]
      \/ reporter' = [reporter EXCEPT ![r].pc = "index", ![r].seen = new]
      \/ reporter' = [reporter EXCEPT ![r].pc = "score"]
      \/ reporter' = [reporter EXCEPT ![r] = Idle]
  BY DEF ReporterStep, PublishEvidence, StoreEvidence, IndexEvidence,
         ScoreEvidence
<1>7. \A dict, q : Sound(dict, q) => Sound(dict, q)'
  BY <1>1 DEF Sound, Sourced, OneEach
<1>8. SoundStore'
  <2>1. ASSUME NEW pt \in ProfTW PROVE Sound(evidence[pt], pt)'
    <3>1. evidence'[pt] = evidence[pt] \/ (pt = m.pt /\ evidence'[pt] = new)
      BY <1>5, <1>3 DEF Inv, TypeOK
    <3>2. Sound(evidence'[pt], pt)
      BY <3>1, <1>4 DEF Inv, SoundStore
    <3> QED
      BY <3>2, <1>1 DEF Sound, Sourced, OneEach
  <2>2. ASSUME NEW q \in Reporter, reporter'[q].pc # "idle"
        PROVE  /\ reporter'[q].msg \in issued'
               /\ Sound(reporter[q].seen, reporter[q].msg.pt)'
    <3>1. CASE q = r
      <4>1. /\ reporter'[q].msg = m
            /\ reporter'[q].seen \in {reporter[r].seen, new}
        <5> HIDE DEF new
        <5>1. r \in DOMAIN reporter
          BY DEF Inv, TypeOK
        <5>2. Idle.pc = "idle"
          BY DEF Idle
        <5> QED
          BY <1>6, <1>3, <2>2, <3>1, <5>1, <5>2 DEF ReporterBusy, Busy
      <4>2. Sound(reporter'[q].seen, reporter'[q].msg.pt)
        BY <4>1, <1>3, <1>4
      <4> QED
        BY <4>1, <4>2, <1>1, <1>3 DEF Sound, Sourced, OneEach
    <3>2. CASE q # r
      <4>1. reporter'[q] = reporter[q]
        BY <1>6, <3>2 DEF Inv, TypeOK
      <4>2. /\ reporter[q].msg \in issued
            /\ Sound(reporter'[q].seen, reporter'[q].msg.pt)
        BY <4>1, <2>2 DEF Inv, SoundStore
      <4> QED
        BY <4>1, <4>2, <1>1 DEF Sound, Sourced, OneEach
    <3> QED
      BY <3>1, <3>2
  <2>3. ep'.pc # "idle" => Sound(ep.seen, ep.msg.pt)'
    BY <1>1, <1>7 DEF Inv, SoundStore
  <2> QED
    BY <2>1, <2>2, <2>3 DEF SoundStore
<1> QED
  BY <1>2, <1>8 DEF Inv

(* EvidenceProcess: its dictionary is a sound one, what it deletes leaves  *)
(* the store sound, and an alert repeats what the dictionary says.         *)
LEMMA EPStoreSound ==
    ASSUME Inv, EvidenceProcess
    PROVE  SoundStore'
<1>1. UNCHANGED <<reporter, issued>>
  BY DEF EvidenceProcess, EPReceive, EPDeleteRead, EPDeleteStore,
         EPDeleteIndex, EPAccumulate, EPAlert, EPDecideBlocking
<1>2. \A dict, q : Sound(dict, q) => Sound(dict, q)'
  BY <1>1 DEF Sound, Sourced, OneEach
<1>3. /\ \A pt \in ProfTW : Sound(evidence'[pt], pt)
      /\ ep'.pc # "idle" => Sound(ep'.seen, ep'.msg.pt)
  <2>1. CASE EPReceive
    BY <2>1 DEF EPReceive, Inv, SoundStore, Sound, Sourced, OneEach
  <2>2. CASE EPDeleteRead
    <3>1. /\ ep.pc \notin {"idle", "dead"}
          /\ ep' = [ep EXCEPT !.pc = "delstore",
                              !.seen = Pop(evidence[ep.msg.pt], ep.msg.desc)]
          /\ evidence' = evidence
      BY <2>2 DEF EPDeleteRead
    <3>2. ep \in EPBusy /\ ep.msg.pt \in ProfTW
      BY <3>1, EPWorks DEF Inv
    <3>3. Sound(Pop(evidence[ep.msg.pt], ep.msg.desc), ep.msg.pt)
      BY <3>2, PopSound DEF Inv, SoundStore
    <3> QED
      BY <3>1, <3>2, <3>3 DEF EPBusy, Busy, Inv, SoundStore
  <2>3. CASE EPDeleteStore
    <3>1. /\ ep.pc \notin {"idle", "dead"}
          /\ ep' = [ep EXCEPT !.pc = "delindex"]
          /\ evidence' = [evidence EXCEPT ![ep.msg.pt] = ep.seen]
      BY <2>3 DEF EPDeleteStore
    <3>2. ep \in EPBusy
      BY <3>1, EPWorks DEF Inv
    <3>3. ep'.seen = ep.seen /\ ep'.msg = ep.msg
      BY <3>1, <3>2 DEF EPBusy, Busy
    <3> QED
      BY <3>1, <3>3 DEF Inv, SoundStore, TypeOK
  <2>4. CASE EPDeleteIndex \/ EPDecideBlocking
    <3>1. ep' = Idle /\ evidence' = evidence
      BY <2>4 DEF EPDeleteIndex, EPDecideBlocking
    <3> QED
      BY <3>1 DEF Inv, SoundStore, Idle
  <2>5. CASE EPAccumulate
    <3>1. /\ ep.pc \notin {"idle", "dead"}
          /\ \/ ep' = [ep EXCEPT !.pc = "alert",
                                 !.seen = evidence[ep.msg.pt]]
             \/ ep' = Idle
          /\ evidence' = evidence
      BY <2>5 DEF EPAccumulate
    <3>2. ep \in EPBusy /\ ep.msg.pt \in ProfTW
      BY <3>1, EPWorks DEF Inv
    <3>3. Sound(evidence[ep.msg.pt], ep.msg.pt)
      BY <3>2 DEF Inv, SoundStore
    <3>4. Idle.pc = "idle"
      BY DEF Idle
    <3> DEFINE next == [ep EXCEPT !.pc = "alert",
                                  !.seen = evidence[ep.msg.pt]]
    <3>5. next.seen = evidence[ep.msg.pt] /\ next.msg = ep.msg
      BY <3>2 DEF EPBusy, Busy
    <3> HIDE DEF next
    <3>6. \/ ep'.pc = "idle"
          \/ ep'.seen = evidence[ep.msg.pt] /\ ep'.msg = ep.msg
      BY <3>1, <3>4, <3>5 DEF next
    <3> QED
      BY <3>1, <3>3, <3>6 DEF Inv, SoundStore
  <2>6. CASE EPAlert
    <3>1. /\ ep.pc \notin {"idle", "dead"}
          /\ ep' = Idle \/ ep' = [ep EXCEPT !.pc = "decide"]
          /\ evidence' = evidence
      BY <2>6 DEF EPAlert
    <3>2. ep \in EPBusy
      BY <3>1, EPWorks DEF Inv
    <3>3. \/ ep'.pc = "idle"
          \/ ep'.seen = ep.seen /\ ep'.msg = ep.msg
      BY <3>1, <3>2 DEF EPBusy, Busy, Idle
    <3> QED
      BY <3>1, <3>3 DEF Inv, SoundStore
  <2> QED
    BY <2>1, <2>2, <2>3, <2>4, <2>5, <2>6 DEF EvidenceProcess
<1>5. \A pt \in ProfTW : Sound(evidence[pt], pt)'
  BY <1>1, <1>3 DEF Sound, Sourced, OneEach
<1>6. ep'.pc # "idle" => Sound(ep.seen, ep.msg.pt)'
  BY <1>1, <1>3 DEF Sound, Sourced, OneEach
<1>7. ASSUME NEW q \in Reporter, reporter'[q].pc # "idle"
      PROVE  /\ reporter'[q].msg \in issued'
             /\ Sound(reporter[q].seen, reporter[q].msg.pt)'
  <2>1. /\ reporter'[q] = reporter[q]
        /\ reporter[q].msg \in issued
        /\ Sound(reporter[q].seen, reporter[q].msg.pt)
    BY <1>1, <1>7 DEF Inv, SoundStore
  <2> QED
    BY <2>1, <1>1 DEF Sound, Sourced, OneEach
<1> QED
  BY <1>5, <1>6, <1>7 DEF SoundStore

(* EvidenceProcess: a new alert stands on its dictionary, and a window is  *)
(* marked right after its alert.                                           *)
LEMMA EPKeepsInv ==
    ASSUME Inv, TypeOK', SeenSome', EvidenceProcess
    PROVE  Inv'
<1>1. SoundStore'
  BY EPStoreSound
<1>2. UNCHANGED <<issued, nextID>>
  BY DEF EvidenceProcess, EPReceive, EPDeleteRead, EPDeleteStore,
         EPDeleteIndex, EPAccumulate, EPAlert, EPDecideBlocking
<1>3. IssuedOnce'
  BY <1>2 DEF Inv, IssuedOnce
<1>4. CASE EPAlert
  <2> DEFINE pt == ep.msg.pt
             last == LastEntry(ep.seen)
             a == [pt |-> pt, last |-> last.ID,
                   IDs |-> {e.ID : e \in ep.seen}]
  <2>1. /\ ep.pc = "alert"
        /\ blocked' = blocked
        /\ \/ ep' = Idle /\ alerts' = alerts
           \/ /\ alerts' = alerts \cup {a}
              /\ \/ ep' = Idle
                 \/ /\ Detection[last.desc] = "dstip"
                    /\ ep' = [ep EXCEPT !.pc = "decide"]
    BY <1>4 DEF EPAlert
  <2>2. ep \in EPBusy
    BY <2>1, EPWorks DEF Inv
  <2>3. Sound(ep.seen, pt)
    BY <2>1 DEF Inv, SoundStore
  <2>4. /\ a.IDs \subseteq {m.ID : m \in issued}
        /\ \A m \in issued : m.ID \in a.IDs =>
              m.pt = pt /\ \E e \in ep.seen : e.desc = m.desc /\ e.ID = m.ID
    <3>1. \A e \in ep.seen : \E m \in issued :
             m.pt = pt /\ m.desc = e.desc /\ m.ID = e.ID
      BY <2>3 DEF Sound, Sourced
    <3>2. \A m, n \in issued : m.ID = n.ID => m = n
      BY DEF Inv, IssuedOnce
    <3> QED
      BY <3>1, <3>2
  <2>5. \A m, n \in issued :
           {m.ID, n.ID} \subseteq a.IDs /\ m.desc = n.desc => m = n
    <3>1. \A e, f \in ep.seen : e.desc = f.desc => e = f
      BY <2>3 DEF Sound, OneEach
    <3>2. \A m, n \in issued : m.ID = n.ID => m = n
      BY DEF Inv, IssuedOnce
    <3> HIDE DEF a, pt
    <3> QED
      BY <2>4, <3>1, <3>2
  <2>6. a.pt = pt /\ a.last = last.ID
    OBVIOUS
  <2> HIDE DEF a, last
  <2>7. AlertOwnEvidence'
    BY <2>1, <2>4, <2>5, <2>6, <1>2 DEF Inv, AlertOwnEvidence
  <2>8. AlertBeforeDecision'
    <3>1. CASE ep'.pc = "decide"
      <4>1. /\ alerts' = alerts \cup {a}
            /\ Detection[last.desc] = "dstip"
            /\ ep' = [ep EXCEPT !.pc = "decide"]
        BY <2>1, <3>1 DEF Idle
      <4>2. ep'.seen = ep.seen /\ ep'.msg = ep.msg
        BY <4>1, <2>2 DEF EPBusy, Busy
      <4> QED
        BY <4>1, <4>2, <2>6 DEF AlertBeforeDecision, last
    <3>2. CASE ep'.pc # "decide"
      BY <3>2 DEF AlertBeforeDecision
    <3> QED
      BY <3>1, <3>2
  <2>9. BlockedAfterAlert'
    BY <2>1, <1>2 DEF Inv, BlockedAfterAlert
  <2> QED
    BY <1>1, <1>3, <2>7, <2>8, <2>9 DEF Inv
<1>5. CASE EPDecideBlocking
  <2> DEFINE last == LastEntry(ep.seen)
  <2>1. /\ ep.pc = "decide"
        /\ ep' = Idle
        /\ alerts' = alerts
        /\ \/ blocked' = blocked
           \/ /\ InfoIP[last.desc] \notin OurIPs
              /\ blocked' = blocked \cup {ep.msg.pt}
    BY <1>5 DEF EPDecideBlocking, MayBlock
  <2>2. last \in ep.seen
    BY <2>1, EPWorks, LastEntryExists DEF Inv, SeenSome
  <2>3. Sound(ep.seen, ep.msg.pt)
    BY <2>1 DEF Inv, SoundStore
  <2> HIDE DEF last
  <2>4. PICK m \in issued :
           m.pt = ep.msg.pt /\ m.desc = last.desc /\ m.ID = last.ID
    BY <2>2, <2>3 DEF Sound, Sourced
  <2>5. /\ Detection[last.desc] = "dstip"
        /\ \E a \in alerts : a.pt = ep.msg.pt /\ a.last = last.ID
    BY <2>1 DEF Inv, AlertBeforeDecision, last
  <2>6. BlockedAfterAlert'
    BY <2>1, <2>4, <2>5, <1>2 DEF Inv, BlockedAfterAlert
  <2>7. AlertOwnEvidence' /\ AlertBeforeDecision'
    BY <2>1, <1>2 DEF Inv, AlertOwnEvidence, AlertBeforeDecision, Idle
  <2> QED
    BY <1>1, <1>3, <2>6, <2>7 DEF Inv
<1>6. CASE ~ EPAlert /\ ~ EPDecideBlocking
  <2>1. alerts' = alerts /\ blocked' = blocked
    BY <1>6 DEF EvidenceProcess, EPReceive, EPDeleteRead, EPDeleteStore,
                EPDeleteIndex, EPAccumulate
  <2>2. ep'.pc # "decide"
    <3>1. Idle.pc = "idle"
      BY DEF Idle
    <3>2. \A pc : ep \in EPBusy => [ep EXCEPT !.pc = pc].pc = pc
      BY DEF EPBusy, Busy
    <3>3. \A pc, seen :
             ep \in EPBusy => [ep EXCEPT !.pc = pc, !.seen = seen].pc = pc
      BY DEF EPBusy, Busy
    <3>4. CASE EPReceive
      BY <3>4 DEF EPReceive
    <3>5. CASE EPDeleteRead \/ EPDeleteStore
      BY <3>5, <3>2, <3>3, EPWorks DEF EPDeleteRead, EPDeleteStore, Inv
    <3>6. CASE EPDeleteIndex
      BY <3>6, <3>1 DEF EPDeleteIndex
    <3>7. CASE EPAccumulate
      BY <3>7, <3>1, <3>3, EPWorks DEF EPAccumulate, Inv
    <3> QED
      BY <1>6, <3>4, <3>5, <3>6, <3>7 DEF EvidenceProcess
  <2> QED
    BY <1>1, <1>2, <1>3, <2>1, <2>2
       DEF Inv, AlertOwnEvidence, AlertBeforeDecision, BlockedAfterAlert
<1> QED
  BY <1>4, <1>5, <1>6

(* Inv is inductive.                                                       *)
LEMMA InvStep == Inv /\ [Next]_vars => Inv'
<1> SUFFICES ASSUME Inv, [Next]_vars PROVE Inv'
  OBVIOUS
<1>1. TypeOK' /\ SeenSome'
  BY TypeStep, SeenSomeStep DEF Inv
<1>2. CASE UNCHANGED vars
  BY <1>1, <1>2
     DEF vars, Inv, IssuedOnce, SoundStore, Sound, Sourced, OneEach,
         AlertOwnEvidence, AlertBeforeDecision, BlockedAfterAlert
<1>3. CASE EPBlame
  BY <1>1, <1>3
     DEF EPBlame, Dead, Inv, IssuedOnce, SoundStore, Sound, Sourced, OneEach,
         AlertOwnEvidence, AlertBeforeDecision, BlockedAfterAlert
<1> QED
  BY <1>1, <1>2, <1>3, ReportKeepsInv, ReporterKeepsInv, EPKeepsInv DEF Next

LEMMA InvInit == Init => Inv
<1> SUFFICES ASSUME Init PROVE Inv
  OBVIOUS
<1>1. TypeOK /\ SeenSome
  BY EvidenceAssumption
     DEF Init, TypeOK, ReporterState, EPState, ID, SeenSome, Idle
<1>2. SoundStore
  BY DEF Init, SoundStore, Sound, Sourced, OneEach, Idle
<1> QED
  BY <1>1, <1>2
     DEF Init, Inv, IssuedOnce, AlertOwnEvidence, AlertBeforeDecision,
         BlockedAfterAlert, Idle

(* The inductive invariant holds in every behavior.                        *)
THEOREM Invariance == Spec => []Inv
BY InvInit, InvStep, PTL DEF Spec

(* However the unlocked writes of the modules interleave, an alert stands  *)
(* only on evidence that was reported for its own window, and counts no    *)
(* detection twice.                                                        *)
THEOREM AlertsOnOwnEvidence == Spec => []AlertOwnEvidence
BY Invariance, PTL DEF Inv

(* decide_blocking marks only windows that had an alert, whose last        *)
(* evidence names a destination that is not this host.                     *)
THEOREM BlockedOnlyAfterAlert == Spec => []BlockedAfterAlert
BY Invariance, PTL DEF Inv

-----------------------------------------------------------------------------
(* What the evidence of an alert adds up to                                *)

(* A set of numbers has a least one.                                       *)
LEMMA HasLeast ==
    ASSUME NEW P \in SUBSET Nat, P # {}
    PROVE  \E p \in P : \A q \in P : p <= q
<1>1. PICK p \in P : \A q \in P : <<q, p>> \notin OpToRel(<, Nat)
  BY NatLessThanWellFounded, WFMin
<1>2. \A q \in P : ~ (q < p)
  BY <1>1 DEF OpToRel
<1> QED
  BY <1>2

(* A weight is a number, whatever name a threat level has.                 *)
LEMMA WeightType ==
    ASSUME NEW pt \in ProfTW, NEW d \in Desc
    PROVE  Weight(pt, d) \in Nat
<1>1. LevelValue(StoredLevel(pt, d)) \in {0, 2, 5, 8, 10}
  BY DEF LevelValue
<1>2. Confidence[d] \in 0 .. 10
  BY EvidenceAssumption
<1> QED
  BY <1>1, <1>2 DEF Weight

(* g adds the weights of the things of a set, which have a description     *)
(* each, as MapThenSumSet does: one at a time, which CHOOSE picks.         *)
Of(g, pt, s) ==
    IF s = {} THEN 0
    ELSE LET x == CHOOSE x \in s : TRUE IN Weight(pt, x.desc) + g[s \ {x}]

Small(D, n) == {s \in SUBSET D : Cardinality(s) <= n}
Adds(g, pt, D) == g = [s \in SUBSET D |-> Of(g, pt, s)]
AddsTo(g, pt, D, n) == g = [s \in Small(D, n) |-> Of(g, pt, s)]

(* Subsets of a finite set, and one element less                           *)
LEMMA Parts ==
    ASSUME NEW D, IsFiniteSet(D), NEW s \in SUBSET D
    PROVE  /\ IsFiniteSet(s) /\ Cardinality(s) \in Nat
           /\ Cardinality(s) <= Cardinality(D)
           /\ Cardinality(s) = 0 <=> s = {}
           /\ \A x \in s : Cardinality(s \ {x}) = Cardinality(s) - 1
<1>1. IsFiniteSet(s) /\ Cardinality(s) <= Cardinality(D)
  BY FS_Subset
<1> QED
  BY <1>1, FS_CardinalityType, FS_EmptySet, FS_RemoveElement

(* Such a g exists: the least size for which it did not would be one more  *)
(* than a size for which it does.                                          *)
LEMMA AdderExists ==
    ASSUME NEW pt, NEW D, IsFiniteSet(D)
    PROVE  \E g : Adds(g, pt, D)
<1> DEFINE P == {n \in Nat : ~ \E g : AddsTo(g, pt, D, n)}
<1>1. ASSUME P # {} PROVE FALSE
  <2>1. PICK n \in P : \A q \in P : n <= q
    <3> HIDE DEF P
    <3>1. P \subseteq Nat
      BY DEF P
    <3> QED
      BY <1>1, <3>1, HasLeast
  <2>2. CASE n = 0
    <3> DEFINE g == [s \in Small(D, 0) |-> 0]
    <3>1. \A s \in Small(D, 0) : Of(g, pt, s) = 0
      BY Parts DEF Of, Small
    <3>2. g = [s \in Small(D, 0) |-> Of(g, pt, s)]
      BY <3>1
    <3> QED
      BY <2>1, <2>2, <3>2 DEF AddsTo
  <2>3. CASE n # 0
    <3>1. n - 1 \in Nat /\ n - 1 \notin P
      BY <2>1, <2>3
    <3>2. PICK g : AddsTo(g, pt, D, n - 1)
      BY <3>1
    <3> DEFINE h == [s \in Small(D, n) |-> Of(g, pt, s)]
    <3>3. ASSUME NEW s \in Small(D, n) PROVE Of(g, pt, s) = Of(h, pt, s)
      <4>1. CASE s = {}
        BY <4>1 DEF Of
      <4>2. CASE s # {}
        <5> DEFINE x == CHOOSE x \in s : TRUE
                   r == s \ {x}
        <5>1. x \in s
          BY <4>2
        <5>2. /\ r \in SUBSET D /\ Cardinality(r) = Cardinality(s) - 1
              /\ Cardinality(s) \in Nat /\ Cardinality(s) <= n
          BY <5>1, Parts DEF Small
        <5>3. Cardinality(r) <= n - 1 /\ Cardinality(r) <= n
          BY <2>1, <5>2
        <5>4. r \in Small(D, n - 1) /\ r \in Small(D, n)
          BY <5>2, <5>3 DEF Small
        <5>5. g[r] = Of(g, pt, r)
          <6> HIDE DEF r
          <6> QED
            BY <3>2, <5>4 DEF AddsTo
        <5>6. h[r] = Of(g, pt, r)
          <6> HIDE DEF r
          <6> QED
            BY <5>4
        <5>7. /\ Of(g, pt, s) = Weight(pt, x.desc) + g[r]
              /\ Of(h, pt, s) = Weight(pt, x.desc) + h[r]
          <6> HIDE DEF h
          <6> QED
            BY <4>2 DEF Of
        <5> HIDE DEF h, x, r
        <5> QED
          BY <5>5, <5>6, <5>7
      <4> QED
        BY <4>1, <4>2
    <3>4. h = [s \in Small(D, n) |-> Of(h, pt, s)]
      BY <3>3
    <3>5. AddsTo(h, pt, D, n)
      <4> HIDE DEF h
      <4> QED
        BY <3>4 DEF AddsTo
    <3> QED
      BY <2>1, <3>5
  <2> QED
    BY <2>2, <2>3
<1>2. Cardinality(D) \in Nat
  BY FS_CardinalityType
<1>3. PICK g : AddsTo(g, pt, D, Cardinality(D))
  BY <1>1, <1>2
<1>4. Small(D, Cardinality(D)) = SUBSET D
  BY Parts DEF Small
<1> QED
  BY <1>3, <1>4 DEF AddsTo, Adds

(* Both the code's loop and the property add in that way.                  *)
LEMMA SumIs ==
    ASSUME NEW pt, NEW D, IsFiniteSet(D)
    PROVE  \E g : /\ Adds(g, pt, D)
                  /\ Accumulated(pt, D) = g[D]
<1> DEFINE g == CHOOSE g : g = [s \in SUBSET D |->
                    IF s = {} THEN 0
                    ELSE LET x == CHOOSE x \in s : TRUE
                         IN  Weight(pt, x.desc) + g[s \ {x}]]
<1>1. Accumulated(pt, D) = g[D]
  BY DEF Accumulated, MapThenSumSet, MapThenFoldSet
<1>2. Adds(g, pt, D)
  <2>1. PICK h : Adds(h, pt, D)
    BY AdderExists
  <2>2. h = [s \in SUBSET D |->
               IF s = {} THEN 0
               ELSE LET x == CHOOSE x \in s : TRUE
                    IN  Weight(pt, x.desc) + h[s \ {x}]]
    BY <2>1 DEF Adds, Of
  <2>3. g = [s \in SUBSET D |->
               IF s = {} THEN 0
               ELSE LET x == CHOOSE x \in s : TRUE
                    IN  Weight(pt, x.desc) + g[s \ {x}]]
    BY <2>2
  <2> QED
    BY <2>3 DEF Adds, Of
<1> QED
  BY <1>1, <1>2

(* Whatever is taken first, the sum is the same.                           *)
LEMMA AnyOrder ==
    ASSUME NEW pt \in ProfTW, NEW D, IsFiniteSet(D), \A x \in D : x.desc \in Desc,
           NEW g, Adds(g, pt, D)
    PROVE  \A s \in SUBSET D :
              /\ g[s] \in Nat
              /\ \A x \in s : g[s] = Weight(pt, x.desc) + g[s \ {x}]
<1> DEFINE Right(s) == /\ g[s] \in Nat
                       /\ \A x \in s : g[s] = Weight(pt, x.desc) + g[s \ {x}]
           P == {Cardinality(s) : s \in {s \in SUBSET D : ~ Right(s)}}
<1>1. ASSUME P # {} PROVE FALSE
  <2>1. PICK n \in P : \A q \in P : n <= q
    <3>1. P \subseteq Nat
      BY Parts
    <3> HIDE DEF P
    <3> QED
      BY <1>1, <3>1, HasLeast
  <2>2. PICK s \in SUBSET D : ~ Right(s) /\ n = Cardinality(s)
    BY <2>1
  <2>3. \A r \in SUBSET D : Cardinality(r) = n - 1 => Right(r)
    <3> HIDE DEF Right
    <3>1. n \in Nat
      BY <2>2, Parts
    <3> QED
      BY <2>1, <3>1
  <2>4. g[s] = Of(g, pt, s)
    BY DEF Adds
  <2>5. s # {}
    BY <2>2, <2>4 DEF Of
  <2> DEFINE c == CHOOSE x \in s : TRUE
  <2>6. c \in s /\ g[s] = Weight(pt, c.desc) + g[s \ {c}]
    BY <2>4, <2>5 DEF Of
  <2> HIDE DEF c
  <2>7. \A x \in s : s \ {x} \in SUBSET D /\ Right(s \ {x}) /\ Weight(pt, x.desc) \in Nat
    <3> HIDE DEF Right
    <3> QED
      BY <2>2, <2>3, Parts, WeightType
  <2>8. g[s] \in Nat
    <3>1. g[s \ {c}] \in Nat /\ Weight(pt, c.desc) \in Nat
      BY <2>6, <2>7
    <3> QED
      BY <2>6, <3>1
  <2>9. ASSUME NEW x \in s PROVE g[s] = Weight(pt, x.desc) + g[s \ {x}]
    <3>1. CASE x = c
      BY <2>6, <3>1
    <3>2. CASE x # c
      <4> DEFINE r == (s \ {x}) \ {c}
      <4>1. r = (s \ {c}) \ {x} /\ x \in s \ {c} /\ c \in s \ {x}
        BY <2>6, <3>2
      <4>2. g[s \ {c}] = Weight(pt, x.desc) + g[r]
        BY <2>6, <2>7, <4>1
      <4>3. g[s \ {x}] = Weight(pt, c.desc) + g[r]
        BY <2>7, <4>1
      <4>4. g[r] \in Nat
        <5>1. r \in SUBSET D
          OBVIOUS
        <5>2. Cardinality(s \ {x}) = n - 1 /\ Cardinality(r) = n - 1 - 1
          BY <2>2, <2>7, <4>1, Parts
        <5>3. n \in Nat
          BY <2>2, Parts
        <5>4. Cardinality(r) \notin P
          <6> HIDE DEF P, r
          <6> QED
            BY <2>1, <5>2, <5>3
        <5> QED
          <6> HIDE DEF r
          <6> QED
            BY <5>1, <5>4
      <4>5. Weight(pt, c.desc) \in Nat /\ Weight(pt, x.desc) \in Nat
        BY <2>6, <2>7
      <4> HIDE DEF r
      <4> QED
        BY <2>6, <4>2, <4>3, <4>4, <4>5
    <3> QED
      BY <3>1, <3>2
  <2> QED
    BY <2>2, <2>8, <2>9
<1> QED
  BY <1>1

(* Two sets whose members correspond one to one, with the same             *)
(* descriptions, have the same sum.                                        *)
LEMMA SameSum ==
    ASSUME NEW pt \in ProfTW, NEW A, NEW B, IsFiniteSet(A), IsFiniteSet(B),
           \A x \in A : x.desc \in Desc, NEW h \in Bijection(A, B),
           \A x \in A : h[x].desc = x.desc
    PROVE  Accumulated(pt, A) = Accumulated(pt, B)
<1>1. PICK f : /\ Adds(f, pt, A)
               /\ Accumulated(pt, A) = f[A]
  BY SumIs
<1>2. PICK g : /\ Adds(g, pt, B)
               /\ Accumulated(pt, B) = g[B]
  BY SumIs
<1>3. /\ \A x \in A : h[x] \in B
      /\ \A x, y \in A : h[x] = h[y] => x = y
      /\ {h[x] : x \in A} = B
  <2>1. h \in Injection(A, B) /\ h \in Surjection(A, B)
    BY DEF Bijection
  <2>2. h \in [A -> B] /\ \A x, y \in A : h[x] = h[y] => x = y
    BY <2>1 DEF Injection, IsInjective
  <2>3. \A y \in B : \E x \in A : h[x] = y
    BY <2>1 DEF Surjection
  <2> QED
    BY <2>2, <2>3
<1>4. \A y \in B : y.desc \in Desc
  BY <1>3
<1>5. \A t \in SUBSET B : \A y \in t : g[t] = Weight(pt, y.desc) + g[t \ {y}]
  <2>1. Adds(g, pt, B)
    BY <1>2
  <2> SUFFICES ASSUME NEW t \in SUBSET B, NEW y \in t
               PROVE  g[t] = Weight(pt, y.desc) + g[t \ {y}]
    OBVIOUS
  <2> QED
    BY <1>4, <2>1, AnyOrder
<1> DEFINE Im(s) == {h[x] : x \in s}
           P == {Cardinality(s) : s \in {s \in SUBSET A : f[s] # g[Im(s)]}}
<1>6. ASSUME P # {} PROVE FALSE
  <2>1. PICK n \in P : \A q \in P : n <= q
    <3>1. P \subseteq Nat
      BY Parts
    <3> HIDE DEF P
    <3> QED
      BY <1>6, <3>1, HasLeast
  <2>2. PICK s \in SUBSET A : f[s] # g[Im(s)] /\ n = Cardinality(s)
    BY <2>1
  <2>3. CASE s = {}
    <3>1. f[{}] = 0 /\ g[{}] = 0
      BY <1>1, <1>2 DEF Adds, Of
    <3>2. Im(s) = {}
      BY <2>3
    <3> QED
      BY <2>2, <2>3, <3>1, <3>2
  <2>4. CASE s # {}
    <3>1. PICK x \in s : TRUE
      BY <2>4
    <3>2. f[s] = Weight(pt, x.desc) + f[s \ {x}]
      BY <1>1, AnyOrder
    <3>3. Im(s) \in SUBSET B /\ h[x] \in Im(s) /\ h[x].desc = x.desc
      <4>1. x \in A /\ \A y \in s : y \in A
        BY <3>1
      <4>2. Im(s) \subseteq B
        BY <1>3, <4>1
      <4> QED
        BY <3>1, <4>1, <4>2
    <3>4. g[Im(s)] = Weight(pt, h[x].desc) + g[Im(s) \ {h[x]}]
      <4> HIDE DEF Im
      <4> QED
        BY <1>5, <3>3
    <3>5. Im(s) \ {h[x]} = Im(s \ {x})
      BY <1>3
    <3>6. Cardinality(s \ {x}) = n - 1 /\ n \in Nat /\ s \ {x} \in SUBSET A
      BY <2>2, Parts
    <3>7. n - 1 \notin P
      <4> HIDE DEF P
      <4> QED
        BY <2>1, <3>6
    <3>8. f[s \ {x}] = g[Im(s \ {x})]
      <4> HIDE DEF Im
      <4> QED
        BY <3>6, <3>7
    <3> HIDE DEF Im
    <3> QED
      BY <2>2, <3>2, <3>3, <3>4, <3>5, <3>8
  <2> QED
    BY <2>3, <2>4
<1>7. f[A] = g[Im(A)]
  BY <1>6
<1> QED
  BY <1>1, <1>2, <1>3, <1>7

(* Of the evidence reported, the messages an alert stands on               *)
CauseOf(ids) == {m \in issued : m.ID \in ids}
IDsOf(dict) == {e.ID : e \in dict}

(* A dictionary read from the store has the weight of the reports it comes *)
(* from: one for each of its entries.                                      *)
LEMMA CauseWeighsTheSame ==
    ASSUME TypeOK, IssuedOnce, NEW pt \in ProfTW, NEW dict \in SUBSET Entry, Sound(dict, pt)
    PROVE  Accumulated(pt, CauseOf(IDsOf(dict))) = Accumulated(pt, dict)
<1> DEFINE A == CauseOf(IDsOf(dict))
           Pick(m) == CHOOSE e \in dict : e.ID = m.ID
           h == [m \in A |-> Pick(m)]
<1>1. A \subseteq Message /\ \A m \in A : m \in issued /\ m.desc \in Desc /\ m.ID \in ID
  BY DEF TypeOK, CauseOf, Message
<1>2. \A m \in A : Pick(m) \in dict /\ Pick(m).ID = m.ID
  BY DEF CauseOf, IDsOf
<1>3. \A e \in dict : \E m \in A : m.ID = e.ID /\ m.desc = e.desc
  BY DEF Sound, Sourced, CauseOf, IDsOf
<1>4. \A m, n \in A : m.ID = n.ID => m = n
  BY <1>1 DEF IssuedOnce
<1> HIDE DEF A, Pick
<1>5. \A e, f \in dict : e.ID = f.ID => e = f
  BY <1>3, <1>4 DEF Sound, OneEach
<1>6. h \in Bijection(A, dict)
  <2>1. h \in [A -> dict]
    BY <1>2
  <2>2. \A m, n \in A : h[m] = h[n] => m = n
    BY <1>2, <1>4
  <2>3. ASSUME NEW e \in dict PROVE \E m \in A : h[m] = e
    <3>1. PICK m \in A : m.ID = e.ID
      BY <1>3
    <3>2. h[m] \in dict /\ h[m].ID = e.ID
      BY <1>2, <3>1
    <3>3. h[m] = e
      <4> HIDE DEF h
      <4> QED
        BY <1>5, <3>2
    <3> QED
      BY <3>3
  <2> HIDE DEF h
  <2>4. IsInjective(h)
    BY <2>1, <2>2 DEF IsInjective
  <2>5. h \in Injection(A, dict) /\ h \in Surjection(A, dict)
    BY <2>1, <2>3, <2>4 DEF Injection, Surjection
  <2> QED
    BY <2>5 DEF Bijection
<1>7. \A m \in A : h[m].desc = m.desc
  <2> SUFFICES ASSUME NEW m \in A PROVE Pick(m).desc = m.desc
    OBVIOUS
  <2>1. PICK n \in A : n.ID = Pick(m).ID /\ n.desc = Pick(m).desc
    BY <1>2, <1>3
  <2> QED
    BY <1>2, <1>4, <2>1
<1>8. IsFiniteSet(ID)
  BY EvidenceAssumption, FS_Interval DEF ID
<1>9. IsFiniteSet(A)
  <2> DEFINE id == [m \in A |-> m.ID]
  <2>1. id \in [A -> ID] /\ \A m, n \in A : id[m] = id[n] => m = n
    BY <1>1, <1>4
  <2> HIDE DEF id
  <2>2. id \in Injection(A, ID)
    BY <2>1 DEF Injection, IsInjective
  <2> QED
    BY <1>8, <2>2, FS_Injection
<1>10. IsFiniteSet(dict)
  <2> DEFINE id == [e \in dict |-> e.ID]
  <2>1. id \in [dict -> ID] /\ \A e, f \in dict : id[e] = id[f] => e = f
    BY <1>5 DEF Entry
  <2> HIDE DEF id
  <2>2. id \in Injection(dict, ID)
    BY <2>1 DEF Injection, IsInjective
  <2> QED
    BY <1>8, <2>2, FS_Injection
<1> HIDE DEF h
<1>11. Accumulated(pt, A) = Accumulated(pt, dict)
  BY <1>1, <1>6, <1>7, <1>9, <1>10, SameSum
<1> QED
  BY <1>11 DEF A

(* What EvidenceProcess holds when it prepares an alert reaches the        *)
(* threshold, and so does what every alert stands on.                      *)
HeldReaches == ep.pc = "alert" => Accumulated(ep.msg.pt, ep.seen) >= Threshold
CausesReach == \A a \in alerts : Accumulated(a.pt, CauseOf(a.IDs)) >= Threshold

(* A report adds nothing to the cause of an alert, for its ID is new.      *)
LEMMA ReachStep ==
    ASSUME Inv, HeldReaches, CausesReach, [Next]_vars
    PROVE  HeldReaches' /\ CausesReach'
<1>1. ASSUME issued' = issued, alerts' = alerts
      PROVE  CausesReach'
  BY <1>1 DEF CausesReach, CauseOf
<1>2. ASSUME ep' = ep
      PROVE  HeldReaches'
  BY <1>2 DEF HeldReaches
<1>3. ASSUME ep'.pc # "alert"
      PROVE  HeldReaches'
  BY <1>3 DEF HeldReaches
<1>4. CASE UNCHANGED vars
  BY <1>1, <1>2, <1>4 DEF vars
<1>5. ASSUME NEW r \in Reporter, NEW pt \in ProfTW, NEW d \in Desc, ReportEvidence(r, pt, d)
      PROVE  HeldReaches' /\ CausesReach'
  <2> DEFINE m == [pt |-> pt, desc |-> d, ID |-> nextID]
  <2>1. ep' = ep /\ alerts' = alerts /\ issued' = issued \cup {m}
    BY <1>5 DEF ReportEvidence
  <2>2. \A n \in issued : n.ID # nextID
    BY DEF Inv, TypeOK, IssuedOnce, Message, ID
  <2>3. ASSUME NEW a \in alerts PROVE CauseOf(a.IDs)' = CauseOf(a.IDs)
    <3>1. nextID \notin a.IDs
      BY <2>2 DEF Inv, AlertOwnEvidence
    <3>2. m.ID = nextID
      OBVIOUS
    <3> HIDE DEF m
    <3> QED
      BY <2>1, <3>1, <3>2 DEF CauseOf
  <2>4. CausesReach'
    BY <2>1, <2>3 DEF CausesReach
  <2> QED
    BY <1>2, <2>1, <2>4
<1>6. ASSUME NEW r \in Reporter, ReporterStep(r)
      PROVE  HeldReaches' /\ CausesReach'
  BY <1>1, <1>2, <1>6
     DEF ReporterStep, PublishEvidence, StoreEvidence, IndexEvidence, ScoreEvidence
<1>7. CASE EPBlame
  BY <1>1, <1>3, <1>7 DEF EPBlame, Dead
<1>8. CASE EPReceive
  BY <1>1, <1>3, <1>8 DEF EPReceive
<1>9. CASE EPDeleteRead \/ EPDeleteStore \/ EPDeleteIndex
  <2>1. ep \in EPBusy
    BY <1>9, EPWorks DEF EPDeleteRead, EPDeleteStore, EPDeleteIndex, Inv
  <2>2. CASE EPDeleteRead
    <3>1. PICK new : ep' = [ep EXCEPT !.pc = "delstore", !.seen = new]
      BY <2>2 DEF EPDeleteRead
    <3>2. ep'.pc = "delstore"
      BY <2>1, <3>1 DEF EPBusy, Busy
    <3> QED
      BY <1>1, <1>3, <2>2, <3>2 DEF EPDeleteRead
  <2>3. CASE EPDeleteStore
    <3>1. ep'.pc = "delindex"
      BY <2>1, <2>3 DEF EPDeleteStore, EPBusy, Busy
    <3> QED
      BY <1>1, <1>3, <2>3, <3>1 DEF EPDeleteStore
  <2>4. CASE EPDeleteIndex
    BY <1>1, <1>3, <2>4 DEF EPDeleteIndex, Idle
  <2> QED
    BY <1>9, <2>2, <2>3, <2>4
<1>10. CASE EPAccumulate
  <2>1. ep \in EPBusy
    BY <1>10, EPWorks DEF EPAccumulate, Inv
  <2>2. CASE ep' = Idle
    BY <1>1, <1>3, <1>10, <2>2 DEF EPAccumulate, Idle
  <2>3. CASE ep' # Idle
    <3> DEFINE pt == ep.msg.pt
               dict == evidence[pt]
    <3>1. ep' = [ep EXCEPT !.pc = "alert", !.seen = dict] /\ Accumulated(pt, dict) >= Threshold
      BY <1>10, <2>3 DEF EPAccumulate, ReachesThreshold
    <3>2. ep'.seen = dict /\ ep'.msg = ep.msg
      BY <2>1, <3>1 DEF EPBusy, Busy
    <3>3. HeldReaches'
      BY <3>1, <3>2 DEF HeldReaches
    <3> QED
      BY <1>1, <1>10, <3>3 DEF EPAccumulate
  <2> QED
    BY <2>2, <2>3
<1>11. CASE EPAlert
  <2>1. ep.pc = "alert" /\ issued' = issued
    BY <1>11 DEF EPAlert
  <2>2. ep \in EPBusy
    BY <2>1, EPWorks DEF Inv
  <2>3. ep'.pc # "alert"
    BY <1>11, <2>2 DEF EPAlert, Idle, EPBusy, Busy
  <2>4. CASE alerts' = alerts
    BY <1>1, <1>3, <2>1, <2>3, <2>4
  <2>5. CASE alerts' # alerts
    <3> DEFINE pt == ep.msg.pt
    <3>1. PICK last : alerts' = alerts \cup {[pt |-> pt, last |-> last, IDs |-> IDsOf(ep.seen)]}
      BY <1>11, <2>5 DEF EPAlert, IDsOf
    <3>2. pt \in ProfTW /\ ep.seen \in SUBSET Entry /\ Sound(ep.seen, pt)
      BY <2>1, EPWorks DEF Inv, SoundStore
    <3>3. Accumulated(pt, CauseOf(IDsOf(ep.seen))) >= Threshold
      BY <2>1, <3>2, CauseWeighsTheSame DEF Inv, HeldReaches
    <3>4. CausesReach'
      <4> SUFFICES ASSUME NEW a \in alerts'
                   PROVE  Accumulated(a.pt, CauseOf(a.IDs)) >= Threshold
        BY <2>1 DEF CausesReach, CauseOf
      <4>1. CASE a \in alerts
        BY <4>1 DEF CausesReach
      <4>2. CASE a \notin alerts
        <5>1. a.pt = pt /\ a.IDs = IDsOf(ep.seen)
          BY <3>1, <4>2
        <5> QED
          BY <3>3, <5>1
      <4> QED
        BY <4>1, <4>2
    <3> QED
      BY <1>3, <2>3, <3>4
  <2> QED
    BY <2>4, <2>5
<1>12. CASE EPDecideBlocking
  BY <1>1, <1>3, <1>12 DEF EPDecideBlocking, Idle
<1> QED
  BY <1>4, <1>5, <1>6, <1>7, <1>8, <1>9, <1>10, <1>11, <1>12 DEF Next, EvidenceProcess

(* Every alert stands on evidence of its own window that reaches the       *)
(* threshold, each detection counted once: however the unlocked writes     *)
(* interleave, and although evidence is lost and reported again, the sum   *)
(* EvidenceProcess acted on is that of reports really made.                *)
THEOREM AlertsAreJustified == Spec => []AlertJustified
<1>1. Init => HeldReaches /\ CausesReach
  BY DEF Init, Idle, HeldReaches, CausesReach
<1>2. Inv /\ HeldReaches /\ CausesReach /\ [Next]_vars => HeldReaches' /\ CausesReach'
  BY ReachStep
<1>3. Inv /\ CausesReach => AlertJustified
  BY DEF Inv, CausesReach, CauseOf, AlertJustified, Accumulated
<1> QED
  BY <1>1, <1>2, <1>3, Invariance, PTL DEF Spec

-----------------------------------------------------------------------------
(* A window with a single writer loses nothing                             *)

(* Who writes a window: the reporters that may report on it, and           *)
(* EvidenceProcess only if something of it is whitelisted.                 *)
WritersKnown ==
    /\ \A r \in Reporter : reporter[r].pc # "idle" =>
          <<reporter[r].msg.pt, reporter[r].msg.desc>> \in Beat[r]
    /\ ep.pc \in {"delread", "delstore", "delindex"} =>
          <<ep.msg.pt, ep.msg.desc>> \in Whitelisted

(* What the single writer read is what the store still holds *)
ReadIsCurrent ==
    \A r \in Reporter :
        /\ reporter[r].pc \in {"publish", "store", "index"}
        /\ Exclusive(reporter[r].msg.pt)
        => reporter[r].seen = evidence[reporter[r].msg.pt]

(* A call is for a pair of its process, a deletion for a whitelisted one.  *)
LEMMA WritersKnownStep ==
    ASSUME TypeOK, WritersKnown, [Next]_vars PROVE WritersKnown'
<1>1. ASSUME NEW r \in Reporter, NEW pt \in ProfTW, NEW d \in Desc,
             ReportEvidence(r, pt, d)
      PROVE  WritersKnown'
  <2>1. /\ ep' = ep
        /\ <<pt, d>> \in Beat[r]
        /\ reporter' = [reporter EXCEPT ![r] =
             [pc |-> "publish",
              msg |-> [pt |-> pt, desc |-> d, ID |-> nextID],
              seen |-> evidence[pt]]]
    BY <1>1 DEF ReportEvidence
  <2> QED
    BY <2>1 DEF WritersKnown, TypeOK
<1>2. ASSUME NEW r \in Reporter, ReporterStep(r) PROVE WritersKnown'
  <2>1. reporter[r].pc # "idle" /\ ep' = ep
    BY <1>2 DEF ReporterStep, PublishEvidence, StoreEvidence, IndexEvidence,
                ScoreEvidence
  <2>2. reporter[r] \in ReporterBusy
    BY <2>1, ReporterWorks
  <2>3. /\ \A q \in Reporter \ {r} : reporter'[q] = reporter[q]
        /\ reporter'[r].pc = "idle" \/ reporter'[r].msg = reporter[r].msg
    BY <1>2, <2>2 DEF ReporterStep, PublishEvidence, StoreEvidence,
         IndexEvidence, ScoreEvidence, TypeOK, ReporterBusy, Busy, Idle
  <2> QED
    BY <2>1, <2>3 DEF WritersKnown
<1>3. CASE EvidenceProcess
  <2>1. reporter' = reporter
    BY <1>3 DEF EvidenceProcess, EPReceive, EPDeleteRead, EPDeleteStore,
         EPDeleteIndex, EPAccumulate, EPAlert, EPDecideBlocking
  <2> DEFINE del == {"delread", "delstore", "delindex"}
  <2>2. ep'.pc \in del => <<ep'.msg.pt, ep'.msg.desc>> \in Whitelisted
    <3>1. CASE EPReceive
      BY <3>1 DEF EPReceive
    <3>2. CASE EPDeleteRead \/ EPDeleteStore
      BY <3>2, EPWorks
         DEF EPDeleteRead, EPDeleteStore, WritersKnown, EPBusy, Busy
    <3>3. CASE EPDeleteIndex \/ EPDecideBlocking
      BY <3>3 DEF EPDeleteIndex, EPDecideBlocking, Idle
    <3>4. CASE EPAccumulate \/ EPAlert
      <4>1. ep \in EPBusy
        BY <3>4, EPWorks DEF EPAccumulate, EPAlert
      <4>2. \A pc, seen : [ep EXCEPT !.pc = pc, !.seen = seen].pc = pc
        BY <4>1 DEF EPBusy, Busy
      <4>3. \A pc : [ep EXCEPT !.pc = pc].pc = pc
        BY <4>1 DEF EPBusy, Busy
      <4>4. Idle.pc = "idle"
        BY DEF Idle
      <4>5. CASE EPAccumulate
        <5>1. \/ ep' = [ep EXCEPT !.pc = "alert",
                                  !.seen = evidence[ep.msg.pt]]
              \/ ep' = Idle
          BY <4>5 DEF EPAccumulate
        <5>2. ep'.pc \in {"alert", "idle"}
          BY <5>1, <4>2, <4>4
        <5> QED
          BY <5>2
      <4>6. CASE EPAlert
        BY <4>6, <4>3, <4>4 DEF EPAlert
      <4> QED
        BY <3>4, <4>5, <4>6
    <3> QED
      BY <1>3, <3>1, <3>2, <3>3, <3>4 DEF EvidenceProcess
  <2> QED
    BY <2>1, <2>2 DEF WritersKnown
<1>4. CASE UNCHANGED vars
  BY <1>4 DEF vars, WritersKnown
<1>5. CASE EPBlame
  BY <1>5 DEF EPBlame, Dead, WritersKnown
<1> QED
  BY <1>1, <1>2, <1>3, <1>4, <1>5 DEF Next

(* Two processes that work on a window are not alone on it.                *)
LEMMA WriterAlone ==
    ASSUME TypeOK, WritersKnown, NEW r \in Reporter, NEW q \in Reporter,
           reporter[r].pc # "idle", NEW d \in Desc,
           <<reporter[r].msg.pt, d>> \in Beat[q],
           Exclusive(reporter[r].msg.pt)
    PROVE  q = r
BY ReporterWorks DEF WritersKnown, Exclusive

(* EvidenceProcess writes no window that has a single writer.              *)
LEMMA EPSpares ==
    ASSUME TypeOK, WritersKnown, EvidenceProcess, NEW pt \in ProfTW,
           Exclusive(pt)
    PROVE  /\ evidence'[pt] = evidence[pt]
           /\ evidenceOfProfile'[pt] = evidenceOfProfile[pt]
<1>1. CASE EPDeleteStore \/ EPDeleteIndex
  <2>1. /\ ep.msg.pt \in ProfTW
        /\ ep.msg.desc \in Desc
        /\ <<ep.msg.pt, ep.msg.desc>> \in Whitelisted
    BY <1>1, EPWorks DEF EPDeleteStore, EPDeleteIndex, WritersKnown
  <2>2. ep.msg.pt # pt
    BY <2>1 DEF Exclusive
  <2> QED
    BY <1>1, <2>2 DEF EPDeleteStore, EPDeleteIndex, TypeOK
<1>2. CASE ~ EPDeleteStore /\ ~ EPDeleteIndex
  BY <1>2 DEF EvidenceProcess, EPReceive, EPDeleteRead, EPAccumulate,
              EPAlert, EPDecideBlocking
<1> QED
  BY <1>1, <1>2

(* The window's part of NothingLost *)
Kept(pt) ==
    /\ \A m \in issued : m.pt = pt =>
          InFlight(m) \/ \E e \in evidence[pt] : e.desc = m.desc
    /\ \/ evidence[pt] = evidenceOfProfile[pt]
       \/ \E r \in Reporter : reporter[r].pc = "index"
                              /\ reporter[r].msg.pt = pt

(* The two copies agree from the start, so Kept is stronger than           *)
(* NothingLost only for windows nothing was reported on.                   *)
AllKept == \A pt \in ProfTW : Exclusive(pt) => Kept(pt)

(* Every description of a dictionary, and the new one, is in what Upsert   *)
(* returns.                                                                *)
LEMMA UpsertKeeps ==
    ASSUME NEW dict \in SUBSET Entry, NEW d \in Desc, NEW id \in ID
    PROVE  /\ \E e \in Upsert(dict, d, id) : e.desc = d
           /\ \A f \in dict : \E e \in Upsert(dict, d, id) :
                 e.desc = f.desc
<1>1. CASE \E e \in dict : e.desc = d
  <2> DEFINE up(e) == IF e.desc = d THEN [e EXCEPT !.ID = id] ELSE e
  <2>1. Upsert(dict, d, id) = {up(e) : e \in dict}
    BY <1>1 DEF Upsert
  <2>2. \A e \in dict : up(e).desc = e.desc
    BY DEF Entry
  <2> HIDE DEF up
  <2> QED
    BY <1>1, <2>1, <2>2
<1>2. CASE ~ \E e \in dict : e.desc = d
  <2> DEFINE e0 == [desc |-> d, ID |-> id, pos |-> id]
  <2>1. Upsert(dict, d, id) = dict \cup {e0}
    BY <1>2 DEF Upsert
  <2>2. e0.desc = d
    OBVIOUS
  <2> HIDE DEF e0
  <2> QED
    BY <2>1, <2>2
<1> QED
  BY <1>1, <1>2

(* The step that writes a window: what was read is still there.            *)
LEMMA StoreKeeps ==
    ASSUME TypeOK, WritersKnown, ReadIsCurrent, AllKept,
           NEW r \in Reporter, StoreEvidence(r),
           NEW pt \in ProfTW, Exclusive(pt)
    PROVE  Kept(pt)'
<1> DEFINE m0 == reporter[r].msg
           new == Upsert(reporter[r].seen, m0.desc, m0.ID)
<1>1. /\ reporter[r].pc = "store"
      /\ evidence' = [evidence EXCEPT ![m0.pt] = new]
      /\ reporter' = [reporter EXCEPT ![r].pc = "index", ![r].seen = new]
      /\ UNCHANGED <<evidenceOfProfile, issued>>
  BY DEF StoreEvidence
<1>2. /\ reporter[r] \in ReporterBusy
      /\ m0.pt \in ProfTW
      /\ m0.desc \in Desc
      /\ m0.ID \in ID
      /\ reporter[r].seen \in SUBSET Entry
  BY <1>1, ReporterWorks
<1>3. /\ \E e \in new : e.desc = m0.desc
      /\ \A f \in reporter[r].seen : \E e \in new : e.desc = f.desc
  BY <1>2, UpsertKeeps
<1> HIDE DEF new
<1>4. /\ \A q \in Reporter \ {r} : reporter'[q] = reporter[q]
      /\ reporter'[r].pc = "index"
      /\ reporter'[r].msg = m0
  BY <1>1, <1>2 DEF TypeOK, ReporterBusy, Busy
<1>5. CASE m0.pt = pt
  <2>1. reporter[r].seen = evidence[pt]
    BY <1>1, <1>5 DEF ReadIsCurrent
  <2>2. evidence'[pt] = new
    BY <1>1, <1>5 DEF TypeOK
  <2>3. ASSUME NEW m \in issued, m.pt = pt
        PROVE  \E e \in new : e.desc = m.desc
    <3>1. CASE InFlight(m)
      <4>1. PICK q \in Reporter : /\ reporter[q].pc \in {"publish", "store"}
                                  /\ reporter[q].msg = m
        BY <3>1 DEF InFlight
      <4>2. /\ m.desc \in Desc
            /\ <<m.pt, m.desc>> \in Beat[q]
        BY <4>1, ReporterWorks DEF WritersKnown
      <4>3. q = r
        BY <4>2, <2>3, <1>1, <1>5, WriterAlone
      <4> QED
        BY <4>1, <4>3, <1>3
    <3>2. CASE \E f \in evidence[pt] : f.desc = m.desc
      BY <3>2, <2>1, <1>3
    <3> QED
      BY <3>1, <3>2, <2>3 DEF AllKept, Kept
  <2>4. \E q \in Reporter : reporter'[q].pc = "index"
                            /\ reporter'[q].msg.pt = pt
    BY <1>4, <1>5
  <2> QED
    BY <1>1, <2>2, <2>3, <2>4 DEF Kept
<1>6. CASE m0.pt # pt
  <2>1. evidence'[pt] = evidence[pt]
    BY <1>1, <1>6 DEF TypeOK
  <2>2. ASSUME NEW m \in issued, m.pt = pt, InFlight(m)
        PROVE  InFlight(m)'
    BY <2>2, <1>4, <1>6 DEF InFlight
  <2>3. ASSUME NEW q \in Reporter, reporter[q].pc = "index",
               reporter[q].msg.pt = pt
        PROVE  reporter'[q].pc = "index" /\ reporter'[q].msg.pt = pt
    BY <2>3, <1>4, <1>1
  <2>4. Kept(pt)
    BY DEF AllKept
  <2>5. ASSUME NEW m \in issued, m.pt = pt
        PROVE  InFlight(m)' \/ \E e \in evidence'[pt] : e.desc = m.desc
    BY <2>5, <2>1, <2>2, <2>4 DEF Kept
  <2>6. \/ evidence'[pt] = evidenceOfProfile'[pt]
        \/ \E q \in Reporter : reporter'[q].pc = "index"
                               /\ reporter'[q].msg.pt = pt
    BY <2>1, <2>3, <2>4, <1>1 DEF Kept
  <2> QED
    BY <2>5, <2>6, <1>1 DEF Kept
<1> QED
  BY <1>5, <1>6

(* A process reads a window, or announces or indexes what it wrote, and    *)
(* EvidenceProcess leaves the window alone: nothing is lost.               *)
LEMMA OthersKeep ==
    ASSUME TypeOK, WritersKnown, ReadIsCurrent, AllKept, [Next]_vars,
           \A r \in Reporter : ~ StoreEvidence(r),
           NEW pt \in ProfTW, Exclusive(pt)
    PROVE  Kept(pt)'
<1> USE DEF AllKept, Kept
<1>1. ASSUME NEW r \in Reporter, NEW p \in ProfTW, NEW d \in Desc,
             ReportEvidence(r, p, d)
      PROVE  Kept(pt)'
  <2> DEFINE n == [pt |-> p, desc |-> d, ID |-> nextID]
  <2>1. /\ reporter[r] = Idle
        /\ issued' = issued \cup {n}
        /\ reporter' = [reporter EXCEPT ![r] =
                          [pc |-> "publish", msg |-> n, seen |-> evidence[p]]]
        /\ UNCHANGED <<evidence, evidenceOfProfile>>
    BY <1>1 DEF ReportEvidence
  <2> HIDE DEF n
  <2>2. /\ reporter'[r].pc = "publish" /\ reporter'[r].msg = n
        /\ \A q \in Reporter \ {r} : reporter'[q] = reporter[q]
        /\ reporter[r].pc = "idle"
    BY <2>1 DEF TypeOK, Idle
  <2>3. \A m \in issued : InFlight(m) => InFlight(m)'
    BY <2>2 DEF InFlight
  <2>4. \A m \in issued' : m = n => InFlight(m)'
    BY <2>2 DEF InFlight
  <2>5. \A q \in Reporter : reporter[q].pc = "index" =>
           reporter'[q] = reporter[q]
    BY <2>2
  <2>6. Kept(pt)
    OBVIOUS
  <2>7. \A m \in issued' : m.pt = pt =>
           InFlight(m)' \/ \E e \in evidence'[pt] : e.desc = m.desc
    BY <2>1, <2>3, <2>4, <2>6
  <2> QED
    BY <2>1, <2>5, <2>6, <2>7
<1>2. ASSUME NEW r \in Reporter, PublishEvidence(r) PROVE Kept(pt)'
  <2>1. /\ reporter[r].pc = "publish"
        /\ reporter' = [reporter EXCEPT ![r].pc = "store"]
        /\ UNCHANGED <<evidence, evidenceOfProfile, issued>>
    BY <1>2 DEF PublishEvidence
  <2>2. /\ reporter'[r].pc = "store" /\ reporter'[r].msg = reporter[r].msg
        /\ \A q \in Reporter \ {r} : reporter'[q] = reporter[q]
    BY <2>1, ReporterWorks DEF TypeOK, ReporterBusy, Busy
  <2>3. \A m \in issued : InFlight(m) => InFlight(m)'
    BY <2>1, <2>2 DEF InFlight
  <2>4. \A q \in Reporter : reporter[q].pc = "index" =>
           reporter'[q] = reporter[q]
    BY <2>1, <2>2
  <2> QED
    BY <2>1, <2>3, <2>4
<1>3. ASSUME NEW r \in Reporter, IndexEvidence(r) PROVE Kept(pt)'
  <2>1. /\ reporter[r].pc = "index"
        /\ reporter' = [reporter EXCEPT ![r].pc = "score"]
        /\ evidenceOfProfile' = [evidenceOfProfile EXCEPT
                                   ![reporter[r].msg.pt] = reporter[r].seen]
        /\ UNCHANGED <<evidence, issued>>
    BY <1>3 DEF IndexEvidence
  <2>2. /\ reporter'[r].pc = "score"
        /\ \A q \in Reporter \ {r} : reporter'[q] = reporter[q]
    BY <2>1, ReporterWorks DEF TypeOK, ReporterBusy, Busy
  <2>3. \A m \in issued : InFlight(m) => InFlight(m)'
    BY <2>1, <2>2 DEF InFlight
  <2>4. CASE reporter[r].msg.pt = pt
    BY <2>1, <2>3, <2>4 DEF ReadIsCurrent, TypeOK
  <2>5. CASE reporter[r].msg.pt # pt
    <3>1. evidenceOfProfile'[pt] = evidenceOfProfile[pt]
      BY <2>1, <2>5 DEF TypeOK
    <3>2. \A q \in Reporter :
             reporter[q].pc = "index" /\ reporter[q].msg.pt = pt =>
               reporter'[q] = reporter[q]
      BY <2>2, <2>5
    <3> QED
      BY <2>1, <2>3, <3>1, <3>2
  <2> QED
    BY <2>4, <2>5
<1>4. ASSUME NEW r \in Reporter, ScoreEvidence(r) PROVE Kept(pt)'
  <2>1. /\ reporter[r].pc = "score"
        /\ reporter' = [reporter EXCEPT ![r] = Idle]
        /\ UNCHANGED <<evidence, evidenceOfProfile, issued>>
    BY <1>4 DEF ScoreEvidence
  <2>2. \A q \in Reporter \ {r} : reporter'[q] = reporter[q]
    BY <2>1 DEF TypeOK
  <2>3. \A m \in issued : InFlight(m) => InFlight(m)'
    BY <2>1, <2>2 DEF InFlight
  <2>4. \A q \in Reporter : reporter[q].pc = "index" =>
           reporter'[q] = reporter[q]
    BY <2>1, <2>2
  <2> QED
    BY <2>1, <2>3, <2>4
<1>5. CASE EvidenceProcess
  <2>1. UNCHANGED <<reporter, issued>>
    BY <1>5 DEF EvidenceProcess, EPReceive, EPDeleteRead, EPDeleteStore,
         EPDeleteIndex, EPAccumulate, EPAlert, EPDecideBlocking
  <2>2. \A m \in issued : InFlight(m) => InFlight(m)'
    BY <2>1 DEF InFlight
  <2> QED
    BY <1>5, <2>1, <2>2, EPSpares
<1>6. CASE UNCHANGED vars
  BY <1>6 DEF vars, InFlight
<1>7. CASE EPBlame
  BY <1>7 DEF EPBlame, InFlight
<1> QED
  BY <1>1, <1>2, <1>3, <1>4, <1>5, <1>6, <1>7 DEF Next, ReporterStep

(* What the single writer has read stays current until it writes.          *)
LEMMA ReadStaysCurrent ==
    ASSUME TypeOK, WritersKnown, ReadIsCurrent, [Next]_vars
    PROVE  ReadIsCurrent'
<1> DEFINE reading(r) == reporter[r].pc \in {"publish", "store", "index"}
<1>1. ASSUME NEW r \in Reporter, NEW p \in ProfTW, NEW d \in Desc,
             ReportEvidence(r, p, d)
      PROVE  ReadIsCurrent'
  <2> DEFINE n == [pt |-> p, desc |-> d, ID |-> nextID]
  <2>1. /\ reporter' = [reporter EXCEPT ![r] =
                          [pc |-> "publish", msg |-> n, seen |-> evidence[p]]]
        /\ evidence' = evidence
        /\ n.pt = p
    BY <1>1 DEF ReportEvidence
  <2> HIDE DEF n
  <2> QED
    BY <2>1 DEF ReadIsCurrent, Exclusive, TypeOK
<1>2. ASSUME NEW r \in Reporter, StoreEvidence(r) PROVE ReadIsCurrent'
  <2> DEFINE m0 == reporter[r].msg
             new == Upsert(reporter[r].seen, m0.desc, m0.ID)
  <2>1. /\ reporter[r].pc = "store"
        /\ evidence' = [evidence EXCEPT ![m0.pt] = new]
        /\ reporter' = [reporter EXCEPT ![r].pc = "index", ![r].seen = new]
    BY <1>2 DEF StoreEvidence
  <2>2. reporter[r] \in ReporterBusy /\ m0.pt \in ProfTW
    BY <2>1, ReporterWorks
  <2> HIDE DEF new
  <2>3. /\ \A q \in Reporter \ {r} : reporter'[q] = reporter[q]
        /\ reporter'[r].seen = new
        /\ reporter'[r].msg = m0
        /\ evidence'[m0.pt] = new
        /\ \A p \in ProfTW \ {m0.pt} : evidence'[p] = evidence[p]
    BY <2>1, <2>2 DEF TypeOK, ReporterBusy, Busy
  <2>4. ASSUME NEW q \in Reporter, q # r, reading(q),
               Exclusive(reporter[q].msg.pt)
        PROVE  reporter[q].msg.pt # m0.pt
    <3>1. /\ m0.desc \in Desc
          /\ <<m0.pt, m0.desc>> \in Beat[r]
      BY <2>1, ReporterWorks DEF WritersKnown
    <3> QED
      BY <3>1, <2>4, WriterAlone
  <2>5. \A q \in Reporter : reporter[q].pc # "idle" =>
           reporter[q].msg.pt \in ProfTW
    BY ReporterWorks
  <2> QED
    BY <2>3, <2>4, <2>5 DEF ReadIsCurrent, Exclusive
<1>3. ASSUME NEW r \in Reporter,
             PublishEvidence(r) \/ IndexEvidence(r) \/ ScoreEvidence(r)
      PROVE  ReadIsCurrent'
  <2>1. /\ evidence' = evidence
        /\ reporter[r].pc # "idle"
        /\ \/ reporter' = [reporter EXCEPT ![r].pc = "store"]
              /\ reporter[r].pc = "publish"
           \/ reporter' = [reporter EXCEPT ![r].pc = "score"]
           \/ reporter' = [reporter EXCEPT ![r] = Idle]
    BY <1>3 DEF PublishEvidence, IndexEvidence, ScoreEvidence
  <2>2. reporter[r] \in ReporterBusy
    BY <2>1, ReporterWorks
  <2>3. Idle.pc = "idle"
    BY DEF Idle
  <2>4. \A q \in Reporter \ {r} : reporter'[q] = reporter[q]
    BY <2>1 DEF TypeOK
  <2>5. \/ reporter'[r].pc \in {"score", "idle"}
        \/ /\ reporter[r].pc = "publish"
           /\ reporter'[r].msg = reporter[r].msg
           /\ reporter'[r].seen = reporter[r].seen
    BY <2>1, <2>2, <2>3 DEF TypeOK, ReporterBusy, Busy
  <2> QED
    BY <2>1, <2>4, <2>5 DEF ReadIsCurrent, Exclusive
<1>4. CASE EvidenceProcess
  <2>1. reporter' = reporter
    BY <1>4 DEF EvidenceProcess, EPReceive, EPDeleteRead, EPDeleteStore,
         EPDeleteIndex, EPAccumulate, EPAlert, EPDecideBlocking
  <2>2. \A q \in Reporter : reporter[q].pc # "idle" =>
           reporter[q].msg.pt \in ProfTW
    BY ReporterWorks
  <2> QED
    BY <1>4, <2>1, <2>2, EPSpares DEF ReadIsCurrent, Exclusive
<1>5. CASE UNCHANGED vars
  BY <1>5 DEF vars, ReadIsCurrent, Exclusive
<1>6. CASE EPBlame
  BY <1>6 DEF EPBlame, ReadIsCurrent, Exclusive
<1> QED
  BY <1>1, <1>2, <1>3, <1>4, <1>5, <1>6 DEF Next, ReporterStep

SingleWriter ==
    TypeOK /\ SeenSome /\ WritersKnown /\ ReadIsCurrent /\ AllKept

LEMMA SingleWriterStep == SingleWriter /\ [Next]_vars => SingleWriter'
<1> SUFFICES ASSUME SingleWriter, [Next]_vars PROVE SingleWriter'
  OBVIOUS
<1> USE DEF SingleWriter
<1>1. TypeOK' /\ SeenSome' /\ WritersKnown' /\ ReadIsCurrent'
  BY TypeStep, SeenSomeStep, WritersKnownStep, ReadStaysCurrent
<1>2. \A pt \in ProfTW : Exclusive(pt) => Kept(pt)'
  BY StoreKeeps, OthersKeep
<1>3. AllKept'
  BY <1>2 DEF AllKept, Exclusive
<1> QED
  BY <1>1, <1>3

LEMMA SingleWriterInit == Init => SingleWriter
<1> SUFFICES ASSUME Init PROVE SingleWriter
  OBVIOUS
<1>1. TypeOK /\ SeenSome
  BY EvidenceAssumption
     DEF Init, TypeOK, ReporterState, EPState, ID, SeenSome, Idle
<1>2. WritersKnown /\ ReadIsCurrent
  BY DEF Init, WritersKnown, ReadIsCurrent, Idle
<1>3. AllKept
  BY DEF Init, AllKept, Kept
<1> QED
  BY <1>1, <1>2, <1>3 DEF SingleWriter

(* With a single writer, and nothing of the window whitelisted, no report  *)
(* is ever lost from the store, though setEvidence reads and writes it     *)
(* without a lock, and both copies of the store agree between its writes.  *)
THEOREM SingleWriterLosesNothing == Spec => []NothingLost
<1>1. SingleWriter => NothingLost
  BY DEF SingleWriter, AllKept, Kept, NothingLost, TypeOK, Message
<1> QED
  BY <1>1, SingleWriterInit, SingleWriterStep, PTL DEF Spec

-----------------------------------------------------------------------------
(* A single writer announces a description once                            *)

(* An ID is announced after it was issued, and by its own call only.       *)
NotYetPublished ==
    /\ \A id \in published : id < nextID
    /\ \A r \in Reporter :
          reporter[r].pc = "publish" /\ Exclusive(reporter[r].msg.pt)
          => reporter[r].msg.ID \notin published

Announced == NotYetPublished /\ PublishedOnce

(* What a call announces was not in the dictionary it read, so it was not  *)
(* announced before: it would be in the store, or this very call.          *)
LEMMA PublishKeepsAnnounced ==
    ASSUME Inv, SingleWriter, Announced, NEW r \in Reporter, PublishEvidence(r)
    PROVE  Announced'
<1> DEFINE m == reporter[r].msg
<1>1. /\ reporter[r].pc = "publish"
      /\ reporter' = [reporter EXCEPT ![r].pc = "store"]
      /\ UNCHANGED <<issued, nextID>>
      /\ \/ published' = published
         \/ /\ ~IsRepetition(reporter[r].seen, m.desc)
            /\ published' = published \cup {m.ID}
  BY DEF PublishEvidence
<1>2. /\ reporter[r] \in ReporterBusy /\ m \in issued
      /\ m.pt \in ProfTW /\ m.desc \in Desc
  BY <1>1, ReporterWorks DEF Inv, SoundStore
<1>3. /\ \A q \in Reporter \ {r} : reporter'[q] = reporter[q]
      /\ reporter'[r].pc = "store"
  BY <1>1, <1>2 DEF Inv, TypeOK, ReporterBusy, Busy
<1>4. \A x, y \in issued : x.ID = y.ID => x = y
  BY DEF Inv, IssuedOnce
<1>5. \A q \in Reporter : reporter[q].pc # "idle" =>
         /\ reporter[q].msg \in issued
         /\ <<reporter[q].msg.pt, reporter[q].msg.desc>> \in Beat[q]
  BY DEF Inv, SoundStore, SingleWriter, WritersKnown
<1>6. ASSUME Exclusive(m.pt), NEW q \in Reporter, reporter[q].pc # "idle",
             reporter[q].msg.pt = m.pt
      PROVE  q = r
  <2>1. reporter[q].msg.desc \in Desc
    BY <1>6, ReporterWorks DEF Inv
  <2> QED
    BY <1>1, <1>5, <1>6, <2>1, WriterAlone DEF SingleWriter
<1>7. NotYetPublished'
  <2>1. \A id \in published' : id < nextID'
    BY <1>1, <1>2 DEF Announced, NotYetPublished, Inv, IssuedOnce
  <2>2. ASSUME NEW q \in Reporter, reporter'[q].pc = "publish",
               Exclusive(reporter'[q].msg.pt)
        PROVE  reporter'[q].msg.ID \notin published'
    <3>1. q # r /\ reporter'[q] = reporter[q]
      BY <1>3, <2>2
    <3>2. reporter[q].msg.ID \notin published
      BY <2>2, <3>1 DEF Announced, NotYetPublished
    <3>3. reporter[q].msg.ID # m.ID
      BY <1>2, <1>4, <1>5, <1>6, <2>2, <3>1
    <3> QED
      BY <1>1, <3>1, <3>2, <3>3
  <2> QED
    BY <2>1, <2>2 DEF NotYetPublished, Exclusive
<1>8. ASSUME NEW n \in issued, n.ID \in published, n.pt = m.pt, n.desc = m.desc,
             Exclusive(m.pt), ~IsRepetition(reporter[r].seen, m.desc)
      PROVE  n = m
  <2>1. reporter[r].seen = evidence[m.pt]
    BY <1>1, <1>8 DEF SingleWriter, ReadIsCurrent
  <2>2. ~ \E e \in evidence[m.pt] : e.desc = n.desc
    BY <1>8, <2>1 DEF IsRepetition
  <2>3. InFlight(n)
    BY <1>2, <1>8, <2>2 DEF SingleWriter, AllKept, Kept
  <2> QED
    BY <1>6, <1>8, <2>3 DEF InFlight
<1>9. PublishedOnce'
  <2> SUFFICES ASSUME NEW x \in issued, NEW y \in issued,
                      x.ID \in published', y.ID \in published',
                      x.pt = y.pt, x.desc = y.desc, Exclusive(x.pt)
               PROVE  x = y
    BY <1>1 DEF PublishedOnce, Exclusive
  <2>1. CASE x.ID \in published /\ y.ID \in published
    BY <2>1 DEF Announced, PublishedOnce
  <2>2. CASE x.ID \notin published
    BY <1>1, <1>2, <1>4, <1>8, <2>2
  <2>3. CASE y.ID \notin published
    BY <1>1, <1>2, <1>4, <1>8, <2>3
  <2> QED
    BY <2>1, <2>2, <2>3
<1> QED
  BY <1>7, <1>9 DEF Announced

(* No other step announces anything.                                       *)
LEMMA OthersKeepAnnounced ==
    ASSUME Inv, Announced, [Next]_vars, \A r \in Reporter : ~PublishEvidence(r)
    PROVE  Announced'
<1>1. ASSUME NEW r \in Reporter, NEW p \in ProfTW, NEW d \in Desc,
             ReportEvidence(r, p, d)
      PROVE  Announced'
  <2> DEFINE n == [pt |-> p, desc |-> d, ID |-> nextID]
  <2>1. /\ issued' = issued \cup {n} /\ published' = published
        /\ nextID' = nextID + 1
        /\ reporter' = [reporter EXCEPT ![r] =
                          [pc |-> "publish", msg |-> n, seen |-> evidence[p]]]
    BY <1>1 DEF ReportEvidence
  <2>2. n.ID = nextID
    OBVIOUS
  <2> HIDE DEF n
  <2>3. /\ nextID \in Int /\ published \subseteq Int
        /\ \A id \in published : id < nextID
    BY EvidenceAssumption DEF Inv, TypeOK, ID, Announced, NotYetPublished
  <2>4. nextID \notin published /\ \A id \in published : id < nextID + 1
    BY <2>3
  <2>5. reporter'[r].msg = n /\ \A q \in Reporter \ {r} : reporter'[q] = reporter[q]
    BY <2>1 DEF Inv, TypeOK
  <2>6. NotYetPublished'
    BY <2>1, <2>2, <2>4, <2>5 DEF Announced, NotYetPublished, Exclusive
  <2>7. PublishedOnce'
    BY <2>1, <2>2, <2>4 DEF Announced, PublishedOnce, Exclusive
  <2> QED
    BY <2>6, <2>7 DEF Announced
<1>2. ASSUME UNCHANGED <<issued, published, nextID>>,
             \A q \in Reporter : reporter'[q].pc = "publish" => reporter'[q] = reporter[q]
      PROVE  Announced'
  BY <1>2 DEF Announced, NotYetPublished, PublishedOnce, Exclusive
<1>3. ASSUME NEW r \in Reporter, StoreEvidence(r) \/ IndexEvidence(r) \/ ScoreEvidence(r)
      PROVE  Announced'
  <2>1. reporter[r].pc # "idle" /\ UNCHANGED <<issued, published, nextID>>
    BY <1>3 DEF StoreEvidence, IndexEvidence, ScoreEvidence
  <2>2. reporter[r] \in ReporterBusy
    BY <2>1, ReporterWorks DEF Inv
  <2>3. reporter'[r].pc # "publish"
        /\ \A q \in Reporter \ {r} : reporter'[q] = reporter[q]
    BY <1>3, <2>2 DEF StoreEvidence, IndexEvidence, ScoreEvidence, Inv, TypeOK,
                      ReporterBusy, Busy, Idle
  <2> QED
    BY <1>2, <2>1, <2>3
<1>4. CASE EvidenceProcess
  BY <1>2, <1>4 DEF EvidenceProcess, EPReceive, EPDeleteRead, EPDeleteStore,
       EPDeleteIndex, EPAccumulate, EPAlert, EPDecideBlocking
<1>5. CASE EPBlame \/ UNCHANGED vars
  BY <1>2, <1>5 DEF EPBlame, vars
<1> QED
  BY <1>1, <1>3, <1>4, <1>5 DEF Next, ReporterStep

(* With a single writer a description is announced at most once in its     *)
(* window, although the announcement comes before the store is written.    *)
THEOREM AnnouncedOnce == Spec => []PublishedOnce
<1>1. Init => Announced
  BY DEF Init, Announced, NotYetPublished, PublishedOnce, Idle
<1>2. Inv /\ SingleWriter /\ Announced /\ [Next]_vars => Announced'
  BY PublishKeepsAnnounced, OthersKeepAnnounced
<1>3. Announced => PublishedOnce
  BY DEF Announced
<1> QED
  BY <1>1, <1>2, <1>3, Invariance, SingleWriterInit, SingleWriterStep, PTL DEF Spec

-----------------------------------------------------------------------------
(* Windows with one writer behave as EvidenceStore says                    *)

(* The mapping: what EvidenceStore sees of this module                     *)
AnnouncedIn == [pt \in Sole |-> {m \in issued : m.pt = pt /\ m.ID \in published}]
StoredIn == [pt \in Sole |-> Descs(evidence[pt])]
Shown(a) == [window |-> a.pt, evidence |-> Descs({m \in issued : m.ID \in a.IDs})]
SoleAlerts == {Shown(a) : a \in {a \in alerts : a.pt \in Sole}}
SoleBlocked == blocked \cap Sole

LEMMA SoleStays == Sole' = Sole /\ Sole \subseteq ProfTW
BY DEF Sole, Exclusive

(* What is written has been announced, or was there; what EvidenceProcess  *)
(* holds for an alert is still there.                                      *)
WriteIsAnnounced ==
    \A r \in Reporter : LET m == reporter[r].msg IN
        reporter[r].pc = "store" /\ m.pt \in Sole =>
            m.ID \in published \/ m.desc \in Descs(reporter[r].seen)

HeldIsStored ==
    ep.pc = "alert" /\ ep.msg.pt \in Sole =>
        Descs(ep.seen) \subseteq Descs(evidence[ep.msg.pt])

StoreInv ==
    /\ Inv /\ SingleWriter /\ Announced
    /\ HeldReaches /\ CausesReach
    /\ WriteIsAnnounced /\ HeldIsStored

LEMMA UpsertAdds ==
    ASSUME NEW dict \in SUBSET Entry, NEW d \in Desc, NEW id \in ID
    PROVE  Descs(Upsert(dict, d, id)) = Descs(dict) \cup {d}
<1>1. CASE \E e \in dict : e.desc = d
  <2> DEFINE up(e) == IF e.desc = d THEN [e EXCEPT !.ID = id] ELSE e
  <2>1. Upsert(dict, d, id) = {up(e) : e \in dict}
    BY <1>1 DEF Upsert
  <2>2. \A e \in dict : up(e).desc = e.desc
    BY DEF Entry
  <2> HIDE DEF up
  <2> QED
    BY <1>1, <2>1, <2>2 DEF Descs
<1>2. CASE ~ \E e \in dict : e.desc = d
  <2> DEFINE e0 == [desc |-> d, ID |-> id, pos |-> id]
  <2>1. Upsert(dict, d, id) = dict \cup {e0}
    BY <1>2 DEF Upsert
  <2>2. e0.desc = d
    OBVIOUS
  <2> HIDE DEF e0
  <2> QED
    BY <2>1, <2>2 DEF Descs
<1> QED
  BY <1>1, <1>2

(* The single writer adds its description to what the store has; nobody    *)
(* else touches the window.                                                *)
LEMMA StoreAdds ==
    ASSUME StoreInv, NEW r \in Reporter, StoreEvidence(r), NEW pt \in Sole
    PROVE  Descs(evidence'[pt]) = IF pt = reporter[r].msg.pt
                                  THEN Descs(evidence[pt]) \cup {reporter[r].msg.desc}
                                  ELSE Descs(evidence[pt])
<1> DEFINE m == reporter[r].msg
           new == Upsert(reporter[r].seen, m.desc, m.ID)
<1>1. /\ reporter[r].pc = "store"
      /\ evidence' = [evidence EXCEPT ![m.pt] = new]
  BY DEF StoreEvidence
<1>2. /\ m.pt \in ProfTW /\ m.desc \in Desc /\ m.ID \in ID
      /\ reporter[r].seen \in SUBSET Entry
  BY <1>1, ReporterWorks DEF StoreInv, Inv
<1>3. Descs(new) = Descs(reporter[r].seen) \cup {m.desc}
  BY <1>2, UpsertAdds
<1>4. pt = m.pt => reporter[r].seen = evidence[pt]
  BY <1>1 DEF StoreInv, SingleWriter, ReadIsCurrent, Sole
<1>5. pt \in ProfTW /\ evidence'[pt] = IF pt = m.pt THEN new ELSE evidence[pt]
  BY <1>1, <1>2, SoleStays DEF StoreInv, Inv, TypeOK
<1> HIDE DEF new
<1> QED
  BY <1>3, <1>4, <1>5

LEMMA OthersSpare ==
    ASSUME StoreInv, [Next]_vars, \A r \in Reporter : ~ StoreEvidence(r), NEW pt \in Sole
    PROVE  evidence'[pt] = evidence[pt]
<1>1. pt \in ProfTW /\ Exclusive(pt)
  BY DEF Sole
<1>2. CASE EvidenceProcess
  BY <1>1, <1>2, EPSpares DEF StoreInv, SingleWriter
<1>3. CASE ~ EvidenceProcess
  BY <1>3 DEF Next, ReporterStep, ReportEvidence, PublishEvidence, IndexEvidence,
              ScoreEvidence, EPBlame, vars
<1> QED
  BY <1>2, <1>3

LEMMA StoredGrows ==
    ASSUME StoreInv, [Next]_vars, NEW pt \in Sole
    PROVE  Descs(evidence[pt]) \subseteq Descs(evidence'[pt])
<1>1. CASE \E r \in Reporter : StoreEvidence(r)
  BY <1>1, StoreAdds
<1>2. CASE \A r \in Reporter : ~ StoreEvidence(r)
  BY <1>2, OthersSpare
<1> QED
  BY <1>1, <1>2

LEMMA WriteIsAnnouncedStep == StoreInv /\ [Next]_vars => WriteIsAnnounced'
<1> SUFFICES ASSUME StoreInv, [Next]_vars PROVE WriteIsAnnounced'
  OBVIOUS
<1>1. published \subseteq published'
  BY DEF Next, ReporterStep, ReportEvidence, PublishEvidence, StoreEvidence, IndexEvidence,
         ScoreEvidence, EvidenceProcess, EPReceive, EPDeleteRead, EPDeleteStore,
         EPDeleteIndex, EPAccumulate, EPAlert, EPDecideBlocking, EPBlame, vars
<1>2. ASSUME NEW r \in Reporter,
             reporter'[r].pc = "store" => reporter'[r] = reporter[r]
      PROVE  reporter'[r].pc = "store" /\ reporter'[r].msg.pt \in Sole' =>
               \/ reporter'[r].msg.ID \in published'
               \/ reporter'[r].msg.desc \in Descs(reporter'[r].seen)
  BY <1>1, <1>2, SoleStays DEF StoreInv, WriteIsAnnounced
<1>3. ASSUME NEW r \in Reporter, NEW p \in ProfTW, NEW d \in Desc,
             ReportEvidence(r, p, d)
      PROVE  WriteIsAnnounced'
  <2>1. /\ reporter'[r].pc = "publish"
        /\ \A q \in Reporter \ {r} : reporter'[q] = reporter[q]
    BY <1>3 DEF ReportEvidence, StoreInv, Inv, TypeOK
  <2> QED
    BY <1>2, <2>1 DEF WriteIsAnnounced
<1>4. ASSUME NEW r \in Reporter, PublishEvidence(r)
      PROVE  WriteIsAnnounced'
  <2>1. reporter[r].pc = "publish" /\ reporter[r] \in ReporterBusy
    BY <1>4, ReporterWorks DEF PublishEvidence, StoreInv, Inv
  <2>2. /\ \A q \in Reporter \ {r} : reporter'[q] = reporter[q]
        /\ reporter'[r].msg = reporter[r].msg /\ reporter'[r].seen = reporter[r].seen
    BY <1>4, <2>1 DEF PublishEvidence, StoreInv, Inv, TypeOK, ReporterBusy, Busy
  <2>3. reporter[r].msg.ID \in published' \/ reporter[r].msg.desc \in Descs(reporter[r].seen)
    BY <1>4 DEF PublishEvidence, IsRepetition, Descs
  <2> QED
    BY <1>2, <2>2, <2>3 DEF WriteIsAnnounced
<1>5. ASSUME NEW r \in Reporter, StoreEvidence(r) \/ IndexEvidence(r) \/ ScoreEvidence(r)
      PROVE  WriteIsAnnounced'
  <2>1. reporter[r].pc # "idle" /\ reporter[r] \in ReporterBusy
    BY <1>5, ReporterWorks DEF StoreEvidence, IndexEvidence, ScoreEvidence, StoreInv, Inv
  <2>2. /\ \A q \in Reporter \ {r} : reporter'[q] = reporter[q]
        /\ reporter'[r].pc # "store"
    BY <1>5, <2>1 DEF StoreEvidence, IndexEvidence, ScoreEvidence, StoreInv, Inv, TypeOK,
                      ReporterBusy, Busy, Idle
  <2> QED
    BY <1>2, <2>2 DEF WriteIsAnnounced
<1>6. CASE EvidenceProcess \/ EPBlame \/ UNCHANGED vars
  <2>1. reporter' = reporter
    BY <1>6 DEF EvidenceProcess, EPReceive, EPDeleteRead, EPDeleteStore,
         EPDeleteIndex, EPAccumulate, EPAlert, EPDecideBlocking, EPBlame, vars
  <2> QED
    BY <1>2, <2>1 DEF WriteIsAnnounced
<1> QED
  BY <1>3, <1>4, <1>5, <1>6 DEF Next, ReporterStep

LEMMA HeldIsStoredStep == StoreInv /\ [Next]_vars => HeldIsStored'
<1> SUFFICES ASSUME StoreInv, [Next]_vars PROVE HeldIsStored'
  OBVIOUS
<1>1. CASE ep' = ep
  BY <1>1, StoredGrows, SoleStays DEF StoreInv, HeldIsStored
<1>2. CASE EPAccumulate
  <2>1. ep.pc = "read" /\ ep \in EPBusy
    BY <1>2, EPWorks DEF EPAccumulate, StoreInv, Inv
  <2>2. evidence' = evidence
    BY <1>2 DEF EPAccumulate
  <2>3. \/ ep' = Idle
        \/ ep'.msg = ep.msg /\ ep'.seen = evidence[ep.msg.pt]
    BY <1>2, <2>1 DEF EPAccumulate, EPBusy, Busy
  <2> QED
    BY <2>2, <2>3 DEF HeldIsStored, Idle
<1>3. CASE EvidenceProcess /\ ~ EPAccumulate
  <2>1. ep.pc \notin {"idle", "dead"} => ep \in EPBusy
    BY EPWorks DEF StoreInv, Inv
  <2>2. ep'.pc # "alert"
    <3>1. CASE EPReceive
      BY <3>1 DEF EPReceive
    <3>2. CASE EPDeleteRead \/ EPDeleteStore
      BY <2>1, <3>2 DEF EPDeleteRead, EPDeleteStore, EPBusy, Busy
    <3>3. CASE EPDeleteIndex \/ EPDecideBlocking
      BY <3>3 DEF EPDeleteIndex, EPDecideBlocking, Idle
    <3>4. CASE EPAlert
      <4>1. ep \in EPBusy
        BY <2>1, <3>4 DEF EPAlert
      <4>2. ep' = Idle \/ ep' = [ep EXCEPT !.pc = "decide"]
        BY <3>4 DEF EPAlert
      <4> QED
        BY <4>1, <4>2 DEF EPBusy, Busy, Idle
    <3> QED
      BY <1>3, <3>1, <3>2, <3>3, <3>4 DEF EvidenceProcess
  <2> QED
    BY <2>2 DEF HeldIsStored
<1>4. CASE EPBlame
  BY <1>4 DEF EPBlame, Dead, HeldIsStored
<1>5. ep' = ep \/ EvidenceProcess \/ EPBlame
  BY DEF Next, ReporterStep, ReportEvidence, PublishEvidence, StoreEvidence, IndexEvidence,
         ScoreEvidence, vars
<1> QED
  BY <1>1, <1>2, <1>3, <1>4, <1>5

LEMMA StoreInvStep == StoreInv /\ [Next]_vars => StoreInv'
<1> SUFFICES ASSUME StoreInv, [Next]_vars PROVE StoreInv'
  OBVIOUS
<1>1. Inv' /\ SingleWriter' /\ HeldReaches' /\ CausesReach'
  BY InvStep, SingleWriterStep, ReachStep DEF StoreInv
<1>2. Announced'
  BY PublishKeepsAnnounced, OthersKeepAnnounced DEF StoreInv
<1> QED
  BY <1>1, <1>2, WriteIsAnnouncedStep, HeldIsStoredStep DEF StoreInv

SameAnnounced == AnnouncedIn' = AnnouncedIn
SameStored == StoredIn' = StoredIn
SameAlerts == SoleAlerts' = SoleAlerts
SameBlocked == SoleBlocked' = SoleBlocked

LEMMA AnnouncedStays ==
    ASSUME issued' = issued, published' = published
    PROVE  SameAnnounced
BY SoleStays DEF SameAnnounced, AnnouncedIn

LEMMA StoredStays ==
    ASSUME \A pt \in Sole : Descs(evidence'[pt]) = Descs(evidence[pt])
    PROVE  SameStored
<1>1. StoredIn' = [pt \in Sole |-> Descs(evidence'[pt])]
  BY SoleStays DEF StoredIn, Descs
<1> QED
  BY <1>1 DEF SameStored, StoredIn

LEMMA AlertsStay ==
    ASSUME issued' = issued, alerts' = alerts
    PROVE  SameAlerts
BY SoleStays DEF SameAlerts, SoleAlerts, Shown, Descs

LEMMA BlockedStays ==
    ASSUME blocked' = blocked
    PROVE  SameBlocked
BY SoleStays DEF SameBlocked, SoleBlocked

(* A report changes nothing before it is announced: its ID is new.         *)
LEMMA ReportIsUnseen ==
    ASSUME StoreInv, NEW r \in Reporter, NEW pt \in ProfTW, NEW d \in Desc,
           ReportEvidence(r, pt, d)
    PROVE  SameAnnounced /\ SameStored /\ SameAlerts /\ SameBlocked
<1> DEFINE n == [pt |-> pt, desc |-> d, ID |-> nextID]
<1>1. /\ issued' = issued \cup {n}
      /\ UNCHANGED <<evidence, published, alerts, blocked>>
  BY DEF ReportEvidence
<1>2. n.ID = nextID
  OBVIOUS
<1> HIDE DEF n
<1>3. nextID \notin published
  <2>1. nextID \in Int /\ published \subseteq Int /\ \A id \in published : id < nextID
    BY EvidenceAssumption DEF StoreInv, Inv, TypeOK, ID, Announced, NotYetPublished
  <2> QED
    BY <2>1
<1>4. SameAnnounced
  BY <1>1, <1>2, <1>3, SoleStays DEF SameAnnounced, AnnouncedIn
<1>5. \A a \in alerts : {m \in issued' : m.ID \in a.IDs} = {m \in issued : m.ID \in a.IDs}
  <2> SUFFICES ASSUME NEW a \in alerts PROVE nextID \notin a.IDs
    BY <1>1, <1>2
  <2>1. a.IDs \subseteq {m.ID : m \in issued}
    BY DEF StoreInv, Inv, AlertOwnEvidence
  <2>2. \A m \in issued : m.ID \in Int /\ m.ID < nextID
    BY EvidenceAssumption DEF StoreInv, Inv, TypeOK, IssuedOnce, Message, ID
  <2>3. nextID \in Int
    BY EvidenceAssumption DEF StoreInv, Inv, TypeOK, ID
  <2>4. \A m \in issued : m.ID # nextID
    BY <2>2, <2>3
  <2> QED
    BY <2>1, <2>4
<1>6. SameAlerts
  <2>1. \A a \in alerts : Shown(a)' = Shown(a)
    BY <1>5 DEF Shown, Descs
  <2> QED
    BY <1>1, <1>5, SoleStays DEF SameAlerts, SoleAlerts, Shown, Descs
<1> QED
  BY <1>1, <1>4, <1>6, StoredStays, BlockedStays

(* An announcement is of a description that was not announced before.      *)
LEMMA PublishAnnounces ==
    ASSUME StoreInv, NEW r \in Reporter, PublishEvidence(r), ~ SameAnnounced
    PROVE  \E w \in Sole, m \in Message :
              /\ m.desc \notin Descs(AnnouncedIn[w])
              /\ AnnouncedIn' = [AnnouncedIn EXCEPT ![w] = AnnouncedIn[w] \cup {m}]
<1> DEFINE m == reporter[r].msg
<1>1. /\ reporter[r].pc = "publish" /\ issued' = issued
      /\ published' = published \/ published' = published \cup {m.ID}
  BY DEF PublishEvidence
<1>2. m \in issued /\ m \in Message /\ m.pt \in ProfTW
  BY <1>1, ReporterWorks DEF StoreInv, Inv, SoundStore
<1>3. published' = published \cup {m.ID} /\ m.ID \notin published
  <2>1. published' # published
    BY <1>1, AnnouncedStays
  <2> QED
    BY <1>1, <2>1
<1> HIDE DEF m
<1>4. \A x \in issued : x.ID = m.ID => x = m
  BY <1>2 DEF StoreInv, Inv, IssuedOnce
<1>5. ASSUME NEW pt \in Sole
      PROVE  {x \in issued' : x.pt = pt /\ x.ID \in published'}
                = IF pt = m.pt THEN AnnouncedIn[pt] \cup {m} ELSE AnnouncedIn[pt]
  BY <1>1, <1>2, <1>3, <1>4 DEF AnnouncedIn
<1>6. AnnouncedIn' = [pt \in Sole |-> IF pt = m.pt THEN AnnouncedIn[pt] \cup {m}
                                      ELSE AnnouncedIn[pt]]
  <2>1. AnnouncedIn' = [pt \in Sole |-> {x \in issued' : x.pt = pt /\ x.ID \in published'}]
    BY SoleStays DEF AnnouncedIn
  <2> QED
    BY <1>5, <2>1
<1>7. AnnouncedIn = [pt \in Sole |-> AnnouncedIn[pt]]
  BY DEF AnnouncedIn
<1>8. m.pt \in Sole
  BY <1>6, <1>7 DEF SameAnnounced
<1>9. AnnouncedIn' = [AnnouncedIn EXCEPT ![m.pt] = AnnouncedIn[m.pt] \cup {m}]
  BY <1>6, <1>7
<1>10. m.desc \notin Descs(AnnouncedIn[m.pt])
  <2> SUFFICES ASSUME NEW x \in AnnouncedIn[m.pt], x.desc = m.desc PROVE FALSE
    BY DEF Descs
  <2>1. x \in issued /\ x.pt = m.pt /\ x.ID \in published
    BY <1>8 DEF AnnouncedIn
  <2>2. PublishedOnce'
    BY PublishKeepsAnnounced DEF StoreInv, Announced
  <2>3. Exclusive(m.pt) /\ x.ID \in published' /\ m.ID \in published'
    BY <1>3, <1>8, <2>1 DEF Sole
  <2>4. \A y, z \in issued :
           /\ y.ID \in published' /\ z.ID \in published'
           /\ y.pt = z.pt /\ y.desc = z.desc /\ Exclusive(y.pt)
           => y = z
    BY <1>1, <2>2 DEF PublishedOnce, Exclusive
  <2>5. x = m
    BY <1>2, <2>1, <2>3, <2>4
  <2> QED
    BY <1>3, <2>1, <2>5
<1> QED
  BY <1>2, <1>8, <1>9, <1>10

(* What is written was announced, or is there already.                     *)
LEMMA StoreStores ==
    ASSUME StoreInv, NEW r \in Reporter, StoreEvidence(r), ~ SameStored
    PROVE  \E w \in Sole, d \in Desc :
              /\ d \in Descs(AnnouncedIn[w])
              /\ StoredIn' = [StoredIn EXCEPT ![w] = StoredIn[w] \cup {d}]
<1> DEFINE m == reporter[r].msg
<1>1. reporter[r].pc = "store"
  BY DEF StoreEvidence
<1>2. m \in issued /\ m \in Message /\ m.pt \in ProfTW /\ m.desc \in Desc
  BY <1>1, ReporterWorks DEF StoreInv, Inv, SoundStore
<1>3. \A pt \in Sole : Descs(evidence'[pt]) = IF pt = m.pt THEN StoredIn[pt] \cup {m.desc}
                                              ELSE StoredIn[pt]
  BY StoreAdds DEF StoredIn
<1>4. StoredIn' = [pt \in Sole |-> Descs(evidence'[pt])]
  BY SoleStays DEF StoredIn, Descs
<1>5. StoredIn = [pt \in Sole |-> StoredIn[pt]]
  BY DEF StoredIn
<1>6. m.pt \in Sole /\ m.desc \notin StoredIn[m.pt]
  <2> SUFFICES ASSUME m.pt \notin Sole \/ m.desc \in StoredIn[m.pt] PROVE FALSE
    OBVIOUS
  <2>1. \A pt \in Sole : Descs(evidence'[pt]) = StoredIn[pt]
    BY <1>3
  <2>2. StoredIn' = StoredIn
    BY <1>4, <1>5, <2>1
  <2> QED
    BY <2>2 DEF SameStored
<1>7. m.ID \in published
  <2>1. reporter[r].seen = evidence[m.pt]
    BY <1>1, <1>6 DEF StoreInv, SingleWriter, ReadIsCurrent, Sole
  <2>2. m.desc \notin Descs(reporter[r].seen)
    BY <1>6, <2>1 DEF StoredIn
  <2> QED
    BY <1>1, <1>6, <2>2 DEF StoreInv, WriteIsAnnounced
<1>8. m.desc \in Descs(AnnouncedIn[m.pt])
  BY <1>2, <1>6, <1>7 DEF AnnouncedIn, Descs
<1>9. StoredIn' = [StoredIn EXCEPT ![m.pt] = StoredIn[m.pt] \cup {m.desc}]
  BY <1>3, <1>4, <1>5, <1>6
<1> QED
  BY <1>2, <1>6, <1>8, <1>9

(* The sum EvidenceProcess has made is that of the descriptions.           *)
LEMMA DescsWeighTheSame ==
    ASSUME NEW pt \in ProfTW, NEW dict \in SUBSET Entry, IsFiniteSet(dict), OneEach(dict)
    PROVE  Accumulated(pt, {[desc |-> d] : d \in Descs(dict)}) = Accumulated(pt, dict)
<1> DEFINE B == {[desc |-> d] : d \in Descs(dict)}
           h == [e \in dict |-> [desc |-> e.desc]]
<1>1. \A e \in dict : e.desc \in Desc
  BY DEF Entry
<1>2. h \in Bijection(dict, B)
  <2>1. h \in [dict -> B]
    BY DEF Descs
  <2>2. \A e, f \in dict : h[e] = h[f] => e = f
    BY DEF OneEach
  <2>3. \A b \in B : \E e \in dict : h[e] = b
    BY DEF Descs
  <2> HIDE DEF h, B
  <2>4. IsInjective(h)
    BY <2>1, <2>2 DEF IsInjective
  <2>5. h \in Injection(dict, B) /\ h \in Surjection(dict, B)
    BY <2>1, <2>3, <2>4 DEF Injection, Surjection
  <2> QED
    BY <2>5 DEF Bijection
<1>3. \A e \in dict : h[e].desc = e.desc
  OBVIOUS
<1> HIDE DEF h, B
<1>4. IsFiniteSet(B)
  <2>1. h \in Surjection(dict, B)
    BY <1>2 DEF Bijection
  <2> QED
    BY <2>1, FS_Surjection
<1>5. Accumulated(pt, dict) = Accumulated(pt, B)
  BY <1>1, <1>2, <1>3, <1>4, SameSum
<1> QED
  BY <1>5 DEF B

LEMMA DictIsFinite ==
    ASSUME StoreInv, NEW pt \in ProfTW, NEW dict \in SUBSET Entry, Sound(dict, pt)
    PROVE  IsFiniteSet(dict)
<1> DEFINE id == [e \in dict |-> e.ID]
<1>1. IsFiniteSet(ID)
  BY EvidenceAssumption, FS_Interval DEF ID
<1>2. \A e, f \in dict : e.ID = f.ID => e = f
  <2> SUFFICES ASSUME NEW e \in dict, NEW f \in dict, e.ID = f.ID PROVE e = f
    OBVIOUS
  <2>1. PICK m \in issued : m.ID = e.ID /\ m.desc = e.desc
    BY DEF Sound, Sourced
  <2>2. PICK n \in issued : n.ID = f.ID /\ n.desc = f.desc
    BY DEF Sound, Sourced
  <2>3. m = n
    BY <2>1, <2>2 DEF StoreInv, Inv, IssuedOnce
  <2> QED
    BY <2>1, <2>2, <2>3 DEF Sound, OneEach
<1>3. id \in [dict -> ID] /\ \A e, f \in dict : id[e] = id[f] => e = f
  BY <1>2 DEF Entry
<1> HIDE DEF id
<1>4. id \in Injection(dict, ID)
  BY <1>3 DEF Injection, IsInjective
<1> QED
  BY <1>1, <1>4, FS_Injection

(* An alert stands on what is stored, and enough of it.                    *)
LEMMA AlertAlerts ==
    ASSUME StoreInv, EPAlert, ~ SameAlerts
    PROVE  \E w \in Sole, S \in SUBSET Desc :
              /\ S \subseteq StoredIn[w]
              /\ Accumulated(w, {[desc |-> d] : d \in S}) >= Threshold
              /\ w \notin SoleBlocked
              /\ SoleAlerts' = SoleAlerts \cup {[window |-> w, evidence |-> S]}
<1> DEFINE w == ep.msg.pt
           S == Descs(ep.seen)
           new == [pt |-> w, last |-> LastEntry(ep.seen).ID, IDs |-> {e.ID : e \in ep.seen}]
<1>1. ep.pc = "alert" /\ issued' = issued
  BY DEF EPAlert
<1>2. w \in ProfTW /\ ep.seen \in SUBSET Entry /\ Sound(ep.seen, w)
  BY <1>1, EPWorks DEF StoreInv, Inv, SoundStore
<1>3. w \notin blocked /\ alerts' = alerts \cup {new}
  <2>1. alerts' # alerts
    BY <1>1, AlertsStay
  <2> QED
    BY <2>1 DEF EPAlert, AlreadyBlocked
<1>4. S \in SUBSET Desc
  BY <1>2 DEF Descs, Entry
<1>5. Shown(new) = [window |-> w, evidence |-> S]
  <2>1. Descs({m \in issued : m.ID \in new.IDs}) \subseteq S
    <3> SUFFICES ASSUME NEW m \in issued, m.ID \in new.IDs PROVE m.desc \in S
      BY DEF Descs
    <3>1. PICK e \in ep.seen : e.ID = m.ID
      OBVIOUS
    <3>2. PICK n \in issued : n.ID = e.ID /\ n.desc = e.desc
      BY <1>2 DEF Sound, Sourced
    <3>3. n = m
      BY <3>1, <3>2 DEF StoreInv, Inv, IssuedOnce
    <3> QED
      BY <3>2, <3>3 DEF Descs
  <2>2. S \subseteq Descs({m \in issued : m.ID \in new.IDs})
    <3> SUFFICES ASSUME NEW e \in ep.seen
                 PROVE  e.desc \in Descs({m \in issued : m.ID \in new.IDs})
      BY DEF Descs
    <3>1. PICK n \in issued : n.ID = e.ID /\ n.desc = e.desc
      BY <1>2 DEF Sound, Sourced
    <3>2. n.ID \in new.IDs
      BY <3>1
    <3> HIDE DEF new
    <3> QED
      BY <3>1, <3>2 DEF Descs
  <2>3. new.pt = w
    OBVIOUS
  <2> HIDE DEF new, w, S
  <2> QED
    BY <2>1, <2>2, <2>3 DEF Shown
<1>6. new.pt = w
  OBVIOUS
<1> HIDE DEF new, S
<1>7. /\ SoleAlerts' = {Shown(a) : a \in {a \in alerts' : a.pt \in Sole}}
  BY <1>1, SoleStays DEF SoleAlerts, Shown, Descs
<1>8. w \in Sole /\ SoleAlerts' = SoleAlerts \cup {[window |-> w, evidence |-> S]}
  <2>1. w \notin Sole => SoleAlerts' = SoleAlerts
    BY <1>3, <1>6, <1>7 DEF SoleAlerts
  <2>2. w \in Sole
    BY <2>1 DEF SameAlerts
  <2>3. {a \in alerts' : a.pt \in Sole} = {a \in alerts : a.pt \in Sole} \cup {new}
    BY <1>3, <1>6, <2>2
  <2> QED
    BY <1>5, <1>7, <2>2, <2>3 DEF SoleAlerts
<1>9. S \subseteq StoredIn[w]
  BY <1>1, <1>8 DEF StoreInv, HeldIsStored, StoredIn, S
<1>10. Accumulated(w, {[desc |-> d] : d \in S}) >= Threshold
  <2>1. OneEach(ep.seen) /\ IsFiniteSet(ep.seen)
    BY <1>2, DictIsFinite DEF Sound
  <2>2. Accumulated(w, {[desc |-> d] : d \in S}) = Accumulated(w, ep.seen)
    BY <1>2, <2>1, DescsWeighTheSame DEF S
  <2> QED
    BY <1>1, <2>2 DEF StoreInv, HeldReaches
<1> QED
  BY <1>3, <1>4, <1>8, <1>9, <1>10 DEF SoleBlocked

(* decide_blocking was called for an alert of this window.                 *)
LEMMA BlockBlocks ==
    ASSUME StoreInv, EPDecideBlocking, ~ SameBlocked
    PROVE  \E w \in Sole :
              /\ \E a \in SoleAlerts : a.window = w
              /\ SoleBlocked' = SoleBlocked \cup {w}
<1> DEFINE w == ep.msg.pt
<1>1. ep.pc = "decide" /\ (blocked' = blocked \/ blocked' = blocked \cup {w})
  BY DEF EPDecideBlocking
<1>2. blocked' = blocked \cup {w}
  BY <1>1, BlockedStays
<1>3. SoleBlocked' = blocked' \cap Sole
  BY SoleStays DEF SoleBlocked
<1>4. w \in Sole
  BY <1>2, <1>3 DEF SameBlocked, SoleBlocked
<1>5. PICK a \in alerts : a.pt = w
  BY <1>1 DEF StoreInv, Inv, AlertBeforeDecision
<1>6. Shown(a) \in SoleAlerts /\ Shown(a).window = w
  BY <1>4, <1>5 DEF SoleAlerts, Shown
<1> QED
  BY <1>2, <1>3, <1>4, <1>6 DEF SoleBlocked

(* What a step is to EvidenceStore: nothing, or one of its actions.        *)
LEMMA StoreStep ==
    ASSUME StoreInv, [Next]_vars
    PROVE  [SoleStore!StoreNext]_(SoleStore!storeVars)
<1> DEFINE Quiet == SameAnnounced /\ SameStored /\ SameAlerts /\ SameBlocked
<1> USE DEF AnnouncedIn, StoredIn, SoleAlerts, SoleBlocked, Shown
<1>1. CASE Quiet
  BY <1>1 DEF SameAnnounced, SameStored, SameAlerts, SameBlocked, SoleStore!storeVars
<1>2. ASSUME SameStored, SameAlerts, SameBlocked, NEW w \in Sole, NEW m \in Message,
             m.desc \notin Descs(AnnouncedIn[w]),
             AnnouncedIn' = [AnnouncedIn EXCEPT ![w] = AnnouncedIn[w] \cup {m}]
      PROVE  SoleStore!StoreNext
  <2>1. SoleStore!Announce(w, m)
    BY <1>2, Zenon DEF SoleStore!Announce, SoleStore!DescsOf, Descs,
       SameStored, SameAlerts, SameBlocked
  <2> QED
    BY <1>2, <2>1, Zenon DEF SoleStore!StoreNext
<1>3. ASSUME SameAnnounced, SameAlerts, SameBlocked, NEW w \in Sole, NEW d \in Desc,
             d \in Descs(AnnouncedIn[w]),
             StoredIn' = [StoredIn EXCEPT ![w] = StoredIn[w] \cup {d}]
      PROVE  SoleStore!StoreNext
  <2>1. SoleStore!Store(w, d)
    BY <1>3, Zenon DEF SoleStore!Store, SoleStore!DescsOf, Descs,
       SameAnnounced, SameAlerts, SameBlocked
  <2> QED
    BY <1>3, <2>1, Zenon DEF SoleStore!StoreNext
<1>4. ASSUME SameAnnounced, SameStored, SameBlocked, NEW w \in Sole, NEW S \in SUBSET Desc,
             S \subseteq StoredIn[w],
             Accumulated(w, {[desc |-> d] : d \in S}) >= Threshold,
             w \notin SoleBlocked,
             SoleAlerts' = SoleAlerts \cup {[window |-> w, evidence |-> S]}
      PROVE  SoleStore!StoreNext
  <2>1. SoleStore!Alert(w, S)
    BY <1>4 DEF SoleStore!Alert, SameAnnounced, SameStored, SameBlocked
  <2> QED
    BY <1>4, <2>1, Zenon DEF SoleStore!StoreNext
<1>5. ASSUME SameAnnounced, SameStored, SameAlerts, NEW w \in Sole,
             \E a \in SoleAlerts : a.window = w,
             SoleBlocked' = SoleBlocked \cup {w}
      PROVE  SoleStore!StoreNext
  <2>1. SoleStore!Block(w)
    BY <1>5 DEF SoleStore!Block, SameAnnounced, SameStored, SameAlerts
  <2> QED
    BY <1>5, <2>1, Zenon DEF SoleStore!StoreNext
<1> HIDE DEF AnnouncedIn, StoredIn, SoleAlerts, SoleBlocked, Shown
<1>6. ASSUME NEW r \in Reporter, NEW pt \in ProfTW, NEW d \in Desc, ReportEvidence(r, pt, d)
      PROVE  Quiet
  BY <1>6, ReportIsUnseen
<1>7. ASSUME NEW r \in Reporter, PublishEvidence(r)
      PROVE  Quiet \/ SoleStore!StoreNext
  <2>1. SameStored /\ SameAlerts /\ SameBlocked
    BY <1>7, StoredStays, AlertsStay, BlockedStays DEF PublishEvidence
  <2> QED
    BY <1>2, <1>7, <2>1, PublishAnnounces
<1>8. ASSUME NEW r \in Reporter, StoreEvidence(r)
      PROVE  Quiet \/ SoleStore!StoreNext
  <2>1. SameAnnounced /\ SameAlerts /\ SameBlocked
    BY <1>8, AnnouncedStays, AlertsStay, BlockedStays DEF StoreEvidence
  <2> QED
    BY <1>3, <1>8, <2>1, StoreStores
<1>9. CASE EPAlert
  <2>1. SameAnnounced /\ SameStored /\ SameBlocked
    BY <1>9, AnnouncedStays, StoredStays, BlockedStays DEF EPAlert
  <2> QED
    BY <1>1, <1>4, <1>9, <2>1, AlertAlerts
<1>10. CASE EPDecideBlocking
  <2>1. SameAnnounced /\ SameStored /\ SameAlerts
    BY <1>10, AnnouncedStays, StoredStays, AlertsStay DEF EPDecideBlocking
  <2> QED
    BY <1>1, <1>5, <1>10, <2>1, BlockBlocks
<1>11. ASSUME UNCHANGED <<issued, published, alerts, blocked>>,
              \A r \in Reporter : ~ StoreEvidence(r)
       PROVE  Quiet
  BY <1>11, AnnouncedStays, StoredStays, AlertsStay, BlockedStays, OthersSpare
<1>12. CASE \A r \in Reporter : ~ StoreEvidence(r) /\ ~ PublishEvidence(r)
  <2>1. CASE ~ EPAlert /\ ~ EPDecideBlocking
             /\ ~ \E r \in Reporter, pt \in ProfTW, d \in Desc : ReportEvidence(r, pt, d)
    <3>1. UNCHANGED <<issued, published, alerts, blocked>>
      BY <1>12, <2>1 DEF Next, ReporterStep, IndexEvidence, ScoreEvidence, EvidenceProcess,
         EPReceive, EPDeleteRead, EPDeleteStore, EPDeleteIndex, EPAccumulate, EPBlame, vars
    <3> QED
      BY <1>1, <1>11, <1>12, <3>1
  <2> QED
    BY <1>1, <1>6, <1>9, <1>10, <2>1
<1> QED
  BY <1>1, <1>7, <1>8, <1>12

LEMMA StoreInvInit == Init => StoreInv
<1> SUFFICES ASSUME Init PROVE StoreInv
  OBVIOUS
<1>1. Inv
  BY InvInit
<1>2. Announced /\ HeldReaches /\ CausesReach /\ WriteIsAnnounced /\ HeldIsStored
  BY DEF Init, Announced, NotYetPublished, PublishedOnce, Idle, HeldReaches, CausesReach,
         WriteIsAnnounced, HeldIsStored
<1> QED
  BY <1>1, <1>2, SingleWriterInit DEF StoreInv

(* For windows with a single writer the unlocked store implements          *)
(* EvidenceStore (StoreAsPromised): whatever the other processes and       *)
(* windows do, evidence is announced once, then added and never taken      *)
(* away; an alert stands on stored evidence that reaches the threshold;    *)
(* and a blocked window had an alert, and has no other.                    *)
THEOREM StoreIsASet == Spec => StoreAsPromised
<1>1. Init => SoleStore!StoreInit
  <2> SUFFICES ASSUME Init PROVE SoleStore!StoreInit
    OBVIOUS
  <2>1. issued = {} /\ alerts = {} /\ blocked = {} /\ \A pt \in Sole : evidence[pt] = {}
    BY SoleStays DEF Init
  <2> QED
    BY <2>1 DEF SoleStore!StoreInit, Descs
<1> QED
  BY <1>1, StoreInvInit, StoreInvStep, StoreStep, PTL DEF Spec, StoreAsPromised, SoleStore!StoreSpec

(* What is stored was announced, and so was what alerts stand on.          *)
Backed ==
    /\ \A w \in Sole : StoredIn[w] \subseteq Descs(AnnouncedIn[w])
    /\ \A a \in SoleAlerts : a.window \in Sole /\ a.evidence \subseteq StoredIn[a.window]

LEMMA BackedStep ==
    ASSUME StoreInv, Backed, [Next]_vars
    PROVE  Backed'
<1>1. ASSUME NEW w \in Sole
      PROVE  StoredIn[w] \subseteq StoredIn'[w] /\ Descs(AnnouncedIn[w]) \subseteq Descs(AnnouncedIn'[w])
  <2>1. /\ StoredIn'[w] = Descs(evidence'[w])
        /\ AnnouncedIn'[w] = {m \in issued' : m.pt = w /\ m.ID \in published'}
    BY SoleStays DEF StoredIn, AnnouncedIn, Descs
  <2>2. issued \subseteq issued' /\ published \subseteq published'
    BY DEF Next, ReporterStep, ReportEvidence, PublishEvidence, StoreEvidence, IndexEvidence,
           ScoreEvidence, EvidenceProcess, EPReceive, EPDeleteRead, EPDeleteStore,
           EPDeleteIndex, EPAccumulate, EPAlert, EPDecideBlocking, EPBlame, vars
  <2>3. AnnouncedIn[w] \subseteq AnnouncedIn'[w]
    BY <2>1, <2>2 DEF AnnouncedIn
  <2>4. StoredIn[w] \subseteq StoredIn'[w]
    BY <2>1, StoredGrows DEF StoredIn
  <2> QED
    BY <2>3, <2>4 DEF Descs
<1>2. ASSUME NEW w \in Sole
      PROVE  StoredIn'[w] \subseteq Descs(AnnouncedIn'[w])
  <2>1. CASE SameStored
    BY <1>1, <2>1 DEF SameStored, Backed
  <2>2. CASE ~ SameStored
    <3>1. PICK r \in Reporter : StoreEvidence(r)
      BY <2>2, OthersSpare, StoredStays
    <3>2. PICK v \in Sole, d \in Desc :
             /\ d \in Descs(AnnouncedIn[v])
             /\ StoredIn' = [StoredIn EXCEPT ![v] = StoredIn[v] \cup {d}]
      BY <2>2, <3>1, StoreStores
    <3>3. StoredIn = [pt \in Sole |-> StoredIn[pt]]
      BY DEF StoredIn
    <3>4. StoredIn'[w] = IF w = v THEN StoredIn[v] \cup {d} ELSE StoredIn[w]
      BY <3>2, <3>3
    <3>5. StoredIn'[w] \subseteq Descs(AnnouncedIn[w])
      BY <3>2, <3>4 DEF Backed
    <3> QED
      BY <1>1, <3>5
  <2> QED
    BY <2>1, <2>2
<1>3. \/ SameAlerts
      \/ \E w \in Sole, S \in SUBSET Desc :
            /\ S \subseteq StoredIn[w]
            /\ SoleAlerts' = SoleAlerts \cup {[window |-> w, evidence |-> S]}
  <2>1. CASE EPAlert
    BY <2>1, AlertAlerts
  <2>2. CASE \E r \in Reporter, pt \in ProfTW, d \in Desc : ReportEvidence(r, pt, d)
    BY <2>2, ReportIsUnseen
  <2>3. CASE ~ EPAlert /\ ~ \E r \in Reporter, pt \in ProfTW, d \in Desc :
                                ReportEvidence(r, pt, d)
    <3>1. issued' = issued /\ alerts' = alerts
      BY <2>3 DEF Next, ReporterStep, PublishEvidence, StoreEvidence, IndexEvidence,
         ScoreEvidence, EvidenceProcess, EPReceive, EPDeleteRead, EPDeleteStore,
         EPDeleteIndex, EPAccumulate, EPDecideBlocking, EPBlame, vars
    <3> QED
      BY <3>1, AlertsStay
  <2> QED
    BY <2>1, <2>2, <2>3
<1>4. ASSUME NEW a \in SoleAlerts'
      PROVE  a.window \in Sole /\ a.evidence \subseteq StoredIn'[a.window]
  <2>1. CASE a \in SoleAlerts
    BY <1>1, <2>1 DEF Backed
  <2>2. CASE a \notin SoleAlerts
    <3>1. PICK w \in Sole, S \in SUBSET Desc :
             S \subseteq StoredIn[w] /\ a = [window |-> w, evidence |-> S]
      BY <1>3, <2>2 DEF SameAlerts
    <3> QED
      BY <1>1, <3>1
  <2> QED
    BY <2>1, <2>2
<1> QED
  BY <1>2, <1>4, SoleStays DEF Backed

(* What an alert of such a window stands on was announced, and stays in    *)
(* the store for whoever looks the alert up.                               *)
THEOREM AlertsStayBacked == Spec => []SoleStore!AlertsKept
<1>1. Init => Backed
  <2> SUFFICES ASSUME Init PROVE Backed
    OBVIOUS
  <2>1. alerts = {} /\ \A w \in Sole : evidence[w] = {}
    BY SoleStays DEF Init
  <2> QED
    BY <2>1 DEF Backed, SoleAlerts, StoredIn, Descs
<1>2. Backed => SoleStore!AlertsKept
  <2> SUFFICES ASSUME Backed, NEW a \in SoleAlerts
               PROVE  a.evidence \subseteq StoredIn[a.window] \cap Descs(AnnouncedIn[a.window])
    BY DEF SoleStore!AlertsKept, SoleStore!DescsOf, SoleAlerts, Shown, StoredIn, AnnouncedIn,
           Descs
  <2> QED
    BY DEF Backed
<1> QED
  BY <1>1, <1>2, StoreInvInit, StoreInvStep, BackedStep, PTL DEF Spec
=============================================================================
