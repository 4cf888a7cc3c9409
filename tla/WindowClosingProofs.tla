------------------------ MODULE WindowClosingProofs ------------------------
(***************************************************************************)
(* Type correctness of WindowClosing, that no marked window is forgotten,  *)
(* and that no process announces a window more often than it was marked:   *)
(* for any number of processes and windows, however their steps interleave.*)
(***************************************************************************)
EXTENDS WindowClosing, NaturalsInduction, WellFoundedInduction, TLAPS

-----------------------------------------------------------------------------
(* The shape of a process's state at each control point *)

(* What a process that marks or closes has in its locals.                  *)
LEMMA Shape ==
    ASSUME TypeOK, NEW p \in Process
    PROVE  /\ At(p, "zadd") => proc[p].tw \in ProfTW /\ proc[p].time \in Time
           /\ At(p, "settime") => proc[p].time \in Time
           /\ At(p, "range") => proc[p].time \in Time
           /\ At(p, "close") => proc[p].todo \in SUBSET ProfTW
           /\ At(p, "zrem") => /\ proc[p].todo \in SUBSET ProfTW
                               /\ proc[p].tw \in ProfTW
           /\ At(p, "tell") => /\ proc[p].todo \in SUBSET ProfTW
                               /\ proc[p].tw \in ProfTW
BY DEF TypeOK, ProcState, Idle, At

(* RemoveModified changes the control point only.                          *)
LEMMA ToldShape ==
    ASSUME TypeOK, NEW p \in Process, At(p, "zrem")
    PROVE  [proc[p] EXCEPT !.pc = "tell"]
             = [pc |-> "tell", todo |-> proc[p].todo, tw |-> proc[p].tw]
<1>1. proc[p] \in [pc : {"zrem", "tell"}, todo : SUBSET ProfTW, tw : ProfTW]
  BY DEF TypeOK, ProcState, Idle, At
<1>2. QED
  BY <1>1

(* The states a process goes to are states of a process.                   *)
LEMMA GotoType ==
    ASSUME TypeOK, NEW p \in Process, NEW s \in ProcState, Goto(p, s)
    PROVE  /\ proc' \in [Process -> ProcState]
           /\ proc'[p] = s
           /\ \A q \in Process \ {p} : proc'[q] = proc[q]
BY DEF TypeOK, Goto

(* The records that Goto is given.                                         *)
LEMMA States ==
    /\ Idle \in ProcState
    /\ \A w \in ProfTW, t \in Time :
          [pc |-> "zadd", tw |-> w, time |-> t] \in ProcState
    /\ \A t \in Time : [pc |-> "settime", time |-> t] \in ProcState
    /\ \A t \in Time : [pc |-> "range", time |-> t] \in ProcState
    /\ \A S \in SUBSET ProfTW : [pc |-> "close", todo |-> S] \in ProcState
    /\ \A S \in SUBSET ProfTW, w \in ProfTW :
          /\ [pc |-> "zrem", todo |-> S, tw |-> w] \in ProcState
          /\ [pc |-> "tell", todo |-> S, tw |-> w] \in ProcState
    /\ [pc |-> "check"] \in ProcState
    /\ [pc |-> "stopped"] \in ProcState
    /\ [pc |-> "since"] \in ProcState
    /\ [pc |-> "count"] \in ProcState
BY DEF ProcState

-----------------------------------------------------------------------------
(* The latest of some scores *)

(* A set of positions has a greatest one: the least distance from n.       *)
LEMMA HasGreatest ==
    ASSUME NEW n \in Nat, NEW P \in SUBSET (0 .. n), P # {}
    PROVE  \E p \in P : \A q \in P : q <= p
<1> DEFINE D == {n - p : p \in P}
<1>1. D \subseteq Nat /\ D # {}
  <2>1. \A p \in P : n - p \in Nat
    OBVIOUS
  <2>2. PICK p \in P : TRUE
    OBVIOUS
  <2>3. n - p \in D
    BY <2>2
  <2>4. QED
    BY <2>1, <2>3
<1>2. PICK d \in D : \A c \in D : <<c, d>> \notin OpToRel(<, Nat)
  <2> HIDE DEF D
  <2>1. QED
    BY <1>1, NatLessThanWellFounded, WFMin
<1>3. \A c \in D : ~ (c < d)
  BY <1>1, <1>2 DEF OpToRel
<1>4. PICK p \in P : d = n - p
  OBVIOUS
<1>5. ASSUME NEW q \in P PROVE q <= p
  <2>1. n - q \in D
    OBVIOUS
  <2>2. ~ (n - q < n - p)
    BY <2>1, <1>3, <1>4
  <2>3. q \in Int /\ p \in Int
    OBVIOUS
  <2>4. QED
    BY <2>2, <2>3
<1>6. QED
  BY <1>5

(* The time Main takes from what it has read is one of the scores.         *)
LEMMA LatestType ==
    ASSUME TypeOK, NEW S \in SUBSET DOMAIN ModifiedTW, S # {}
    PROVE  Latest(ModifiedTW, S) \in Time
<1> DEFINE P == {ModifiedTW[w] : w \in S}
<1>1. P \in SUBSET (0 .. MaxTime) /\ P # {}
  BY DEF TypeOK, Time
<1>2. MaxTime \in Nat
  BY ClosingAssumption DEF ClosingAssumption
<1>3. PICK t \in P : \A u \in P : u <= t
  <2> HIDE DEF P
  <2>1. QED
    BY <1>1, <1>2, HasGreatest
<1>4. PICK w \in S : ModifiedTW[w] = t
  BY <1>3
<1>5. \A x \in S : ModifiedTW[x] <= ModifiedTW[w]
  BY <1>3, <1>4
<1>6. (CHOOSE v \in S : \A x \in S : ModifiedTW[x] <= ModifiedTW[v]) \in S
  BY <1>5
<1>7. QED
  BY <1>6 DEF Latest, TypeOK

-----------------------------------------------------------------------------
(* The steps of a check keep the types.                                    *)
LEMMA CheckTypeStep ==
    ASSUME TypeOK, NEW p \in Process, Check(p)
    PROVE  TypeOK'
<1>1. CASE ReadInternalTime(p)
  <2>1. proc' \in [Process -> ProcState]
    BY <1>1, States, GotoType DEF ReadInternalTime, TypeOK
  <2>2. QED
    BY <1>1, <2>1 DEF ReadInternalTime, TypeOK, store, history
<1>2. CASE ReadOldWindows(p)
  <2>1. ToClose(ModifiedTW, proc[p].time) \in SUBSET ProfTW
    BY DEF ToClose, TypeOK
  <2>2. proc' \in [Process -> ProcState]
    BY <1>2, <2>1, States, GotoType DEF ReadOldWindows
  <2>3. QED
    BY <1>2, <2>2 DEF ReadOldWindows, TypeOK, store, history
<1>3. CASE AddClosed(p)
  <2>1. PICK w \in proc[p].todo :
          /\ ClosedTW' = ClosedTW \cup {w}
          /\ Goto(p, [pc |-> "zrem", todo |-> proc[p].todo \ {w}, tw |-> w])
    BY <1>3 DEF AddClosed
  <2>2. proc[p].todo \in SUBSET ProfTW
    BY <1>3, Shape DEF AddClosed
  <2>3. w \in ProfTW /\ proc[p].todo \ {w} \in SUBSET ProfTW
    BY <2>1, <2>2
  <2>4. proc' \in [Process -> ProcState]
    BY <2>1, <2>3, States, GotoType
  <2>5. QED
    BY <1>3, <2>1, <2>3, <2>4 DEF AddClosed, TypeOK, history
<1>4. CASE RemoveModified(p)
  <2>1. proc[p].todo \in SUBSET ProfTW /\ proc[p].tw \in ProfTW
    BY <1>4, Shape DEF RemoveModified
  <2>2. proc' \in [Process -> ProcState]
    BY <1>4, <2>1, ToldShape, States, GotoType DEF RemoveModified
  <2>3. /\ DOMAIN ModifiedTW' \subseteq ProfTW
        /\ \A w \in DOMAIN ModifiedTW' : ModifiedTW'[w] \in Time
    BY <1>4 DEF RemoveModified, Zrem, TypeOK
  <2>4. QED
    BY <1>4, <2>2, <2>3 DEF RemoveModified, TypeOK, history
<1>5. CASE AnnounceClosed(p)
  <2>1. proc[p].todo \in SUBSET ProfTW /\ proc[p].tw \in ProfTW
    BY <1>5, Shape DEF AnnounceClosed
  <2>2. proc' \in [Process -> ProcState]
    BY <1>5, <2>1, States, GotoType DEF AnnounceClosed
  <2>3. closings' \in [Process -> [ProfTW -> Nat]]
    BY <1>5, <2>1 DEF AnnounceClosed, TypeOK
  <2>4. QED
    BY <1>5, <2>2, <2>3 DEF AnnounceClosed, TypeOK, store
<1>6. CASE CheckDone(p)
  <2>1. proc' \in [Process -> ProcState]
    BY <1>6, States, GotoType DEF CheckDone
  <2>2. QED
    BY <1>6, <2>1 DEF CheckDone, TypeOK, store, history
<1>7. QED
  BY <1>1, <1>2, <1>3, <1>4, <1>5, <1>6 DEF Check

(* Every step keeps the types.                                             *)
LEMMA TypeStep == TypeOK /\ [Next]_vars => TypeOK'
<1> SUFFICES ASSUME TypeOK, [Next]_vars
             PROVE  TypeOK'
  OBVIOUS
<1>0. /\ Main \in Process /\ Marker \subseteq Process
      /\ MaxTime \in Nat /\ Patience \in Nat /\ Interval \in Nat
  BY ClosingAssumption DEF ClosingAssumption, Process
<1>1. CASE Tick
  BY <1>0, <1>1 DEF Tick, TypeOK, Time, store, history
<1>2. ASSUME NEW p \in Marker, NEW w \in ProfTW, MarkModified(p, w)
      PROVE  TypeOK'
  <2>1. now \in Time
    BY DEF TypeOK
  <2>2. proc' \in [Process -> ProcState]
    BY <1>0, <1>2, <2>1, States, GotoType DEF MarkModified
  <2>3. QED
    BY <1>2, <2>2 DEF MarkModified, TypeOK, store, history
<1>3. ASSUME NEW p \in Marker, StoreModified(p)
      PROVE  TypeOK'
  <2>1. proc[p].tw \in ProfTW /\ proc[p].time \in Time
    BY <1>0, <1>3, Shape DEF StoreModified
  <2>2. proc' \in [Process -> ProcState]
    BY <1>0, <1>3, States, GotoType DEF StoreModified
  <2>3. /\ DOMAIN ModifiedTW' \subseteq ProfTW
        /\ \A w \in DOMAIN ModifiedTW' : ModifiedTW'[w] \in Time
    BY <1>3, <2>1 DEF StoreModified, Zadd, TypeOK
  <2>4. marks' \in [ProfTW -> Nat]
    BY <1>3, <2>1 DEF StoreModified, TypeOK
  <2>5. QED
    BY <1>3, <2>1, <2>2, <2>3, <2>4 DEF StoreModified, TypeOK
<1>4. ASSUME NEW p \in Process, Check(p)
      PROVE  TypeOK'
  BY <1>4, CheckTypeStep
<1>5. CASE MainWakes
  <2>1. proc' \in [Process -> ProcState]
    BY <1>0, <1>5, States, GotoType DEF MainWakes
  <2>2. QED
    BY <1>5, <2>1 DEF MainWakes, TypeOK, store, history
<1>6. CASE MainReadsModified
  <2> DEFINE S == Since(ModifiedTW, slips_internal_time)
  <2>1. S \in SUBSET DOMAIN ModifiedTW
    BY DEF Since
  <2>2. S # {} => Latest(ModifiedTW, S) \in Time
    BY <2>1, LatestType
  <2>3. proc' \in [Process -> ProcState]
    <3> HIDE DEF S
    <3>1. Goto(Main, IF S = {} THEN [pc |-> "check"]
                     ELSE [pc |-> "settime", time |-> Latest(ModifiedTW, S)])
      BY <1>6 DEF MainReadsModified, S
    <3>2. CASE S = {}
      <4>1. Goto(Main, [pc |-> "check"])
        BY <3>1, <3>2
      <4>2. QED
        BY <1>0, <4>1, States, GotoType
    <3>3. CASE S # {}
      <4>1. Goto(Main, [pc |-> "settime", time |-> Latest(ModifiedTW, S)])
        BY <3>1, <3>3
      <4>2. QED
        BY <1>0, <2>2, <3>3, <4>1, States, GotoType
    <3>4. QED
      BY <3>2, <3>3
  <2>4. main' \in [wake : Nat, wait : 0 .. Patience, quiet : BOOLEAN]
    <3>1. main' = [main EXCEPT !.quiet = S = {}]
      BY <1>6 DEF MainReadsModified
    <3>2. QED
      BY <3>1 DEF TypeOK
  <2>5. QED
    BY <1>6, <2>3, <2>4 DEF MainReadsModified, TypeOK, store, history
<1>7. CASE MainSetsTime
  <2>1. proc[Main].time \in Time
    BY <1>0, <1>7, Shape DEF MainSetsTime
  <2>2. proc' \in [Process -> ProcState]
    BY <1>0, <1>7, States, GotoType DEF MainSetsTime
  <2>3. QED
    BY <1>7, <2>1, <2>2 DEF MainSetsTime, TypeOK, history
<1>8. CASE MainCounts
  <2>1. proc' \in [Process -> ProcState]
    BY <1>0, <1>8, States, GotoType DEF MainCounts
  <2>2. main' \in [wake : Nat, wait : 0 .. Patience, quiet : BOOLEAN]
    <3>1. CASE finite /\ main.quiet /\ main.wait = 0
      BY <1>8, <3>1 DEF MainCounts, TypeOK
    <3>2. CASE ~ (finite /\ main.quiet /\ main.wait = 0)
      <4>1. main' = [wake |-> now + Interval, quiet |-> TRUE,
                     wait |-> IF finite THEN Counting(main) ELSE Patience]
        BY <1>8, <3>2 DEF MainCounts
      <4>2. now + Interval \in Nat
        BY <1>0 DEF TypeOK, Time
      <4>3. finite => Counting(main) \in 0 .. Patience
        <5>1. main.wait \in 0 .. Patience
          BY DEF TypeOK
        <5>2. CASE main.quiet
          <6>1. finite => main.wait # 0
            BY <3>2, <5>2
          <6>2. Counting(main) = main.wait - 1
            BY <5>2 DEF Counting
          <6>3. QED
            BY <1>0, <5>1, <6>1, <6>2
        <5>3. CASE ~ main.quiet
          <6>1. Counting(main) = Patience
            BY <5>3 DEF Counting
          <6>2. QED
            BY <1>0, <6>1
        <5>4. QED
          BY <5>2, <5>3
      <4>4. Patience \in 0 .. Patience
        BY <1>0
      <4>5. QED
        BY <4>1, <4>2, <4>3, <4>4
    <3>3. QED
      BY <3>1, <3>2
  <2>3. QED
    BY <1>8, <2>1, <2>2 DEF MainCounts, TypeOK, store, history
<1>9. CASE UNCHANGED vars
  BY <1>9 DEF vars, TypeOK
<1>10. QED
  BY <1>1, <1>2, <1>3, <1>4, <1>5, <1>6, <1>7, <1>8, <1>9
  DEF Next, MainStep

(* The initial states have the types.                                      *)
LEMMA TypeInit == Init => TypeOK
<1> SUFFICES ASSUME Init
             PROVE  TypeOK
  OBVIOUS
<1>1. /\ MaxTime \in Nat /\ Interval \in Nat /\ Patience \in Nat
      /\ Finite \subseteq BOOLEAN
  BY ClosingAssumption DEF ClosingAssumption
<1>2. proc \in [Process -> ProcState]
  BY States DEF Init
<1>3. closings \in [Process -> [ProfTW -> Nat]] /\ marks \in [ProfTW -> Nat]
  BY DEF Init
<1>4. QED
  BY <1>1, <1>2, <1>3 DEF Init, TypeOK, Time

(* The variables have their types.                                         *)
THEOREM TypeCorrect == Spec => []TypeOK
<1>1. QED
  BY TypeInit, TypeStep, PTL DEF Spec

-----------------------------------------------------------------------------
(* No marked window is forgotten *)

(* A window is in ClosedTW before it is taken out of ModifiedTW.           *)
Recorded ==
    \A p \in Process, w \in ProfTW : InHand(p, w) => w \in ClosedTW

LEMMA ForgottenStep ==
    TypeOK /\ Recorded /\ NoneForgotten /\ [Next]_vars
        => Recorded' /\ NoneForgotten'
<1> SUFFICES ASSUME TypeOK, Recorded, NoneForgotten, [Next]_vars
             PROVE  Recorded' /\ NoneForgotten'
  OBVIOUS
<1>0. Main \in Process /\ Marker \subseteq Process /\ Main \notin Marker
  BY ClosingAssumption DEF ClosingAssumption, Process
<1>Q. ASSUME NEW q \in Process, NEW st, Goto(q, st),
             st.pc \notin {"zrem", "tell"}, proc[q].pc # "zrem",
             proc[q].pc # "tell",
             UNCHANGED <<ClosedTW, closings>>,
             DOMAIN ModifiedTW \subseteq DOMAIN ModifiedTW',
             \A w \in ProfTW : marks'[w] > 0 =>
                 marks[w] > 0 \/ w \in DOMAIN ModifiedTW'
      PROVE  Recorded' /\ NoneForgotten'
  <2>1. \A p \in Process, w \in ProfTW : InHand(p, w)' <=> InHand(p, w)
    BY <1>Q DEF Goto, TypeOK, InHand
  <2>2. Recorded'
    BY <1>Q, <2>1 DEF Recorded
  <2>3. NoneForgotten'
    BY <1>Q, <2>1 DEF NoneForgotten
  <2>4. QED
    BY <2>2, <2>3
<1>R. ASSUME UNCHANGED <<ClosedTW, closings, marks, ModifiedTW, proc>>
      PROVE  Recorded' /\ NoneForgotten'
  BY <1>R DEF Recorded, NoneForgotten, InHand
<1>1. CASE Tick \/ UNCHANGED vars
  BY <1>1, <1>R DEF Tick, vars, store, history
<1>2. ASSUME NEW p \in Marker, NEW w \in ProfTW, MarkModified(p, w)
      PROVE  Recorded' /\ NoneForgotten'
  BY <1>0, <1>2, <1>Q DEF MarkModified, Idle, store, history
<1>3. ASSUME NEW p \in Marker, StoreModified(p)
      PROVE  Recorded' /\ NoneForgotten'
  <2>1. proc[p].tw \in ProfTW
    BY <1>0, <1>3, Shape DEF StoreModified
  <2>2. /\ DOMAIN ModifiedTW \subseteq DOMAIN ModifiedTW'
        /\ proc[p].tw \in DOMAIN ModifiedTW'
    BY <1>3 DEF StoreModified, Zadd
  <2>3. \A w \in ProfTW : marks'[w] > 0 =>
            marks[w] > 0 \/ w \in DOMAIN ModifiedTW'
    BY <1>3, <2>1, <2>2 DEF StoreModified, TypeOK
  <2>4. QED
    BY <1>0, <1>3, <2>2, <2>3, <1>Q DEF StoreModified, At
<1>4. ASSUME NEW p \in Process, Check(p)
      PROVE  Recorded' /\ NoneForgotten'
  <2>1. CASE ReadInternalTime(p) \/ ReadOldWindows(p)
    BY <1>4, <2>1, <1>Q DEF ReadInternalTime, ReadOldWindows, At, store, history
  <2>2. CASE CheckDone(p)
    BY <1>4, <2>2, <1>Q DEF CheckDone, At, Idle, store, history
  <2>3. CASE AddClosed(p)
    <3>1. PICK w \in proc[p].todo :
            /\ ClosedTW' = ClosedTW \cup {w}
            /\ Goto(p, [pc |-> "zrem", todo |-> proc[p].todo \ {w}, tw |-> w])
      BY <2>3 DEF AddClosed
    <3>2. /\ proc'[p] = [pc |-> "zrem", todo |-> proc[p].todo \ {w}, tw |-> w]
          /\ \A q \in Process \ {p} : proc'[q] = proc[q]
      BY <1>4, <3>1 DEF Goto, TypeOK
    <3>3. w \in ProfTW
      BY <2>3, Shape DEF AddClosed
    <3>4. \A q \in Process, x \in ProfTW :
              InHand(q, x)' <=> (InHand(q, x) \/ (q = p /\ x = w))
      BY <2>3, <3>2 DEF InHand, AddClosed, At
    <3>5. Recorded'
      BY <3>1, <3>4 DEF Recorded
    <3>6. NoneForgotten'
      BY <1>4, <2>3, <3>1, <3>3, <3>4 DEF NoneForgotten, AddClosed, history
    <3>7. QED
      BY <3>5, <3>6
  <2>4. CASE RemoveModified(p)
    <3>1. proc[p].tw \in ProfTW
      BY <2>4, Shape DEF RemoveModified
    <3>2. /\ proc'[p].pc = "tell" /\ proc'[p].tw = proc[p].tw
          /\ \A q \in Process \ {p} : proc'[q] = proc[q]
      BY <1>4, <2>4, ToldShape DEF RemoveModified, Goto, TypeOK
    <3>3. \A q \in Process, x \in ProfTW : InHand(q, x)' <=> InHand(q, x)
      BY <2>4, <3>2 DEF InHand, RemoveModified, At
    <3>4. proc[p].tw \in ClosedTW
      BY <1>4, <2>4, <3>1 DEF Recorded, InHand, RemoveModified, At
    <3>5. DOMAIN ModifiedTW' = DOMAIN ModifiedTW \ {proc[p].tw}
      BY <2>4 DEF RemoveModified, Zrem
    <3>6. UNCHANGED <<ClosedTW, closings, marks>>
      BY <2>4 DEF RemoveModified, history
    <3>7. Recorded'
      BY <3>3, <3>6 DEF Recorded
    <3>8. NoneForgotten'
      BY <3>3, <3>4, <3>5, <3>6 DEF NoneForgotten
    <3>9. QED
      BY <3>7, <3>8
  <2>5. CASE AnnounceClosed(p)
    <3>1. proc[p].tw \in ProfTW
      BY <2>5, Shape DEF AnnounceClosed
    <3>2. /\ proc'[p].pc = "close"
          /\ \A q \in Process \ {p} : proc'[q] = proc[q]
      BY <1>4, <2>5 DEF AnnounceClosed, Goto, TypeOK
    <3>3. /\ closings'[p][proc[p].tw] > 0
          /\ \A q \in Process, x \in ProfTW :
                closings[q][x] > 0 => closings'[q][x] > 0
      BY <1>4, <2>5, <3>1 DEF AnnounceClosed, TypeOK
    <3>4. \A q \in Process, x \in ProfTW :
              /\ InHand(q, x)' => InHand(q, x)
              /\ InHand(q, x) => InHand(q, x)' \/ (q = p /\ x = proc[p].tw)
      BY <3>2 DEF InHand
    <3>5. UNCHANGED <<ClosedTW, ModifiedTW, marks>>
      BY <2>5 DEF AnnounceClosed, store
    <3>6. Recorded'
      BY <3>4, <3>5 DEF Recorded
    <3>7. ASSUME NEW x \in ProfTW
          PROVE  x \in ClosedTW' =>
                   \E q \in Process : closings'[q][x] > 0 \/ InHand(q, x)'
      BY <1>4, <3>3, <3>4, <3>5 DEF NoneForgotten
    <3>8. NoneForgotten'
      BY <3>5, <3>7 DEF NoneForgotten
    <3>9. QED
      BY <3>6, <3>8
  <2>6. QED
    BY <1>4, <2>1, <2>2, <2>3, <2>4, <2>5 DEF Check
<1>5. CASE MainWakes
  BY <1>0, <1>5, <1>Q DEF MainWakes, Idle, store, history
<1>6. CASE MainReadsModified
  <2> DEFINE S == Since(ModifiedTW, slips_internal_time)
             st == IF S = {} THEN [pc |-> "check"]
                   ELSE [pc |-> "settime", time |-> Latest(ModifiedTW, S)]
  <2>1. Goto(Main, st) /\ At(Main, "since")
    BY <1>6 DEF MainReadsModified
  <2>2. UNCHANGED <<ClosedTW, closings, marks, ModifiedTW>>
    BY <1>6 DEF MainReadsModified, store, history
  <2>3. st.pc \notin {"zrem", "tell"}
    OBVIOUS
  <2> HIDE DEF S, st
  <2>4. QED
    BY <1>0, <2>1, <2>2, <2>3, <1>Q DEF At
<1>7. CASE MainSetsTime
  BY <1>0, <1>7, <1>Q DEF MainSetsTime, At, history
<1>8. CASE MainCounts
  <2>1. \E st \in {Idle, [pc |-> "stopped"]} : Goto(Main, st)
    BY <1>8 DEF MainCounts
  <2>2. UNCHANGED <<ClosedTW, closings, marks, ModifiedTW>>
    BY <1>8 DEF MainCounts, store, history
  <2>3. QED
    BY <1>0, <1>8, <2>1, <2>2, <1>Q DEF MainCounts, At, Idle
<1>9. QED
  BY <1>1, <1>2, <1>3, <1>4, <1>5, <1>6, <1>7, <1>8 DEF Next, MainStep

(* A marked window is in ModifiedTW or in ClosedTW, and a closed one was,  *)
(* or is about to be, announced.                                           *)
THEOREM NoWindowEscapes == Spec => []NoneForgotten
<1>1. Init => Recorded /\ NoneForgotten
  BY DEF Init, Recorded, NoneForgotten, InHand, Idle
<1>2. QED
  BY <1>1, TypeInit, TypeStep, ForgottenStep, PTL DEF Spec

-----------------------------------------------------------------------------
(* No process announces a window more often than it was marked *)

(* A process has still to announce a window: it is among those it found    *)
(* old, or in its hand.                                                    *)
Listed(p, w) ==
    proc[p].pc \in {"close", "zrem", "tell"} /\ w \in proc[p].todo
Pending(p, w) == Listed(p, w) \/ InHand(p, w)
Told(p, w) == proc[p].pc = "tell" /\ proc[p].tw = w

(* Each announcement, made or pending, has a mark of its own; a window in  *)
(* ModifiedTW that p does not hold, or that p has just taken out, has a    *)
(* mark more than that.                                                    *)
Accounted ==
    \A p \in Process, w \in ProfTW :
        /\ ~ (Listed(p, w) /\ InHand(p, w))
        /\ closings[p][w] <= marks[w]
        /\ Pending(p, w) => closings[p][w] + 1 <= marks[w]
        /\ w \in DOMAIN ModifiedTW =>
              /\ ~ Pending(p, w) => closings[p][w] + 1 <= marks[w]
              /\ Told(p, w) => closings[p][w] + 2 <= marks[w]

(* A step that marks and announces nothing and puts nothing in a hand.     *)
LEMMA QuietAccounted ==
    ASSUME Accounted, UNCHANGED <<marks, closings>>,
           DOMAIN ModifiedTW' \subseteq DOMAIN ModifiedTW,
           \A p \in Process, w \in ProfTW :
               /\ Listed(p, w)' <=> Listed(p, w)
               /\ InHand(p, w)' <=> InHand(p, w)
               /\ Told(p, w)' => Told(p, w) \/ w \notin DOMAIN ModifiedTW'
    PROVE  Accounted'
BY DEF Accounted, Pending

LEMMA AccountedStep ==
    TypeOK /\ Accounted /\ [Next]_vars => Accounted'
<1> SUFFICES ASSUME TypeOK, Accounted, [Next]_vars
             PROVE  Accounted'
  OBVIOUS
<1>0. Main \in Process /\ Marker \subseteq Process /\ Main \notin Marker
  BY ClosingAssumption DEF ClosingAssumption, Process
<1>N. \A p \in Process, w \in ProfTW :
          closings[p][w] \in Nat /\ marks[w] \in Nat
  BY DEF TypeOK
<1>Q. ASSUME NEW q \in Process, NEW st, Goto(q, st),
             st.pc \notin {"close", "zrem", "tell"},
             \A w \in ProfTW : ~ Pending(q, w)
      PROVE  \A p \in Process, w \in ProfTW :
                 /\ Listed(p, w)' <=> Listed(p, w)
                 /\ InHand(p, w)' <=> InHand(p, w)
                 /\ Told(p, w)' => Told(p, w)
  BY <1>Q DEF Goto, TypeOK, Pending, Listed, InHand, Told
<1>1. CASE Tick \/ UNCHANGED vars
  BY <1>1, QuietAccounted
  DEF Tick, vars, store, history, Listed, InHand, Told
<1>2. ASSUME NEW p \in Marker, NEW w \in ProfTW, MarkModified(p, w)
      PROVE  Accounted'
  <2>1. \A x \in ProfTW : ~ Pending(p, x)
    BY <1>2 DEF MarkModified, Idle, Pending, Listed, InHand
  <2>2. \A q \in Process, x \in ProfTW :
            /\ Listed(q, x)' <=> Listed(q, x)
            /\ InHand(q, x)' <=> InHand(q, x)
            /\ Told(q, x)' => Told(q, x)
    BY <1>0, <1>2, <2>1, <1>Q DEF MarkModified
  <2>3. QED
    BY <1>2, <2>2, QuietAccounted DEF MarkModified, store, history
<1>3. ASSUME NEW p \in Marker, StoreModified(p)
      PROVE  Accounted'
  <2> DEFINE v == proc[p].tw
  <2>1. v \in ProfTW
    BY <1>0, <1>3, Shape DEF StoreModified
  <2>2. \A x \in ProfTW : ~ Pending(p, x)
    BY <1>3 DEF StoreModified, At, Pending, Listed, InHand
  <2>3. \A q \in Process, x \in ProfTW :
            /\ Listed(q, x)' <=> Listed(q, x)
            /\ InHand(q, x)' <=> InHand(q, x)
            /\ Told(q, x)' => Told(q, x)
    BY <1>0, <1>3, <2>2, <1>Q DEF StoreModified
  <2>4. /\ DOMAIN ModifiedTW' = DOMAIN ModifiedTW \cup {v}
        /\ closings' = closings
        /\ marks' = [marks EXCEPT ![v] = @ + 1]
    BY <1>3 DEF StoreModified, Zadd
  <2>5. \A x \in ProfTW : marks'[x] = IF x = v THEN marks[x] + 1 ELSE marks[x]
    BY <2>4 DEF TypeOK
  <2> HIDE DEF v
  <2>6. ASSUME NEW q \in Process, NEW x \in ProfTW
        PROVE  /\ ~ (Listed(q, x)' /\ InHand(q, x)')
               /\ closings'[q][x] <= marks'[x]
               /\ Pending(q, x)' => closings'[q][x] + 1 <= marks'[x]
               /\ x \in DOMAIN ModifiedTW' =>
                     /\ ~ Pending(q, x)' => closings'[q][x] + 1 <= marks'[x]
                     /\ Told(q, x)' => closings'[q][x] + 2 <= marks'[x]
    <3>1. Pending(q, x)' <=> Pending(q, x)
      BY <2>3 DEF Pending
    <3>2. Told(q, x) => Pending(q, x)
      BY DEF Told, Pending, InHand
    <3>3. CASE x = v
      <4>1. marks'[x] = marks[x] + 1 /\ closings'[q][x] = closings[q][x]
        BY <2>4, <2>5, <3>3
      <4>2. QED
        BY <1>N, <2>3, <3>1, <3>2, <4>1 DEF Accounted
    <3>4. CASE x # v
      <4>1. marks'[x] = marks[x] /\ closings'[q][x] = closings[q][x]
        BY <2>4, <2>5, <3>4
      <4>2. x \in DOMAIN ModifiedTW' => x \in DOMAIN ModifiedTW
        BY <2>4, <3>4
      <4>3. QED
        BY <2>3, <3>1, <4>1, <4>2 DEF Accounted
    <3>5. QED
      BY <3>3, <3>4
  <2>7. QED
    BY <2>6 DEF Accounted
<1>4. ASSUME NEW p \in Process, Check(p)
      PROVE  Accounted'
  <2>1. CASE ReadInternalTime(p)
    <3>1. \A x \in ProfTW : ~ Pending(p, x)
      BY <2>1 DEF ReadInternalTime, At, Pending, Listed, InHand
    <3>2. \A q \in Process, x \in ProfTW :
              /\ Listed(q, x)' <=> Listed(q, x)
              /\ InHand(q, x)' <=> InHand(q, x)
              /\ Told(q, x)' => Told(q, x)
      BY <1>4, <2>1, <3>1, <1>Q DEF ReadInternalTime
    <3>3. QED
      BY <2>1, <3>2, QuietAccounted DEF ReadInternalTime, store, history
  <2>2. CASE ReadOldWindows(p)
    <3> DEFINE T == ToClose(ModifiedTW, proc[p].time)
    <3>1. T \subseteq DOMAIN ModifiedTW
      BY DEF ToClose
    <3>2. /\ proc'[p] = [pc |-> "close", todo |-> T]
          /\ \A q \in Process \ {p} : proc'[q] = proc[q]
      BY <1>4, <2>2 DEF ReadOldWindows, Goto, TypeOK
    <3>3. UNCHANGED <<ModifiedTW, marks, closings>>
      BY <2>2 DEF ReadOldWindows, store, history
    <3> HIDE DEF T
    <3>4. \A x \in ProfTW : ~ Pending(p, x)
      BY <2>2 DEF ReadOldWindows, At, Pending, Listed, InHand
    <3>5. \A x \in ProfTW : /\ Listed(p, x)' <=> x \in T
                            /\ ~ InHand(p, x)' /\ ~ Told(p, x)'
      BY <3>2 DEF Listed, InHand, Told
    <3>6. \A q \in Process \ {p}, x \in ProfTW :
              /\ Listed(q, x)' <=> Listed(q, x)
              /\ InHand(q, x)' <=> InHand(q, x)
              /\ Told(q, x)' <=> Told(q, x)
      BY <3>2 DEF Listed, InHand, Told
    <3>7. QED
      BY <3>1, <3>3, <3>4, <3>5, <3>6 DEF Accounted, Pending
  <2>3. CASE AddClosed(p)
    <3>1. PICK w \in proc[p].todo :
            Goto(p, [pc |-> "zrem", todo |-> proc[p].todo \ {w}, tw |-> w])
      BY <2>3 DEF AddClosed
    <3>2. /\ proc'[p] = [pc |-> "zrem", todo |-> proc[p].todo \ {w}, tw |-> w]
          /\ \A q \in Process \ {p} : proc'[q] = proc[q]
      BY <1>4, <3>1 DEF Goto, TypeOK
    <3>3. UNCHANGED <<ModifiedTW, marks, closings>>
      BY <2>3 DEF AddClosed, history
    <3>4. \A x \in ProfTW : /\ Listed(p, x)' <=> Listed(p, x) /\ x # w
                            /\ InHand(p, x)' <=> x = w
                            /\ ~ Told(p, x)' /\ ~ Told(p, x)
                            /\ ~ InHand(p, x)
      BY <2>3, <3>2 DEF AddClosed, At, Listed, InHand, Told
    <3>5. Listed(p, w)
      BY <2>3 DEF AddClosed, At, Listed
    <3>6. \A q \in Process \ {p}, x \in ProfTW :
              /\ Listed(q, x)' <=> Listed(q, x)
              /\ InHand(q, x)' <=> InHand(q, x)
              /\ Told(q, x)' <=> Told(q, x)
      BY <3>2 DEF Listed, InHand, Told
    <3>7. \A q \in Process, x \in ProfTW :
              /\ Pending(q, x)' <=> Pending(q, x)
              /\ ~ (Listed(q, x)' /\ InHand(q, x)')
              /\ Told(q, x)' => Told(q, x)
      BY <3>4, <3>5, <3>6 DEF Pending, Accounted
    <3>8. QED
      BY <3>3, <3>7 DEF Accounted
  <2>4. CASE RemoveModified(p)
    <3>1. /\ proc'[p] = [pc |-> "tell", todo |-> proc[p].todo,
                         tw |-> proc[p].tw]
          /\ \A q \in Process \ {p} : proc'[q] = proc[q]
      BY <1>4, <2>4, ToldShape DEF RemoveModified, Goto, TypeOK
    <3>2. DOMAIN ModifiedTW' = DOMAIN ModifiedTW \ {proc[p].tw}
      BY <2>4 DEF RemoveModified, Zrem
    <3>3. UNCHANGED <<marks, closings>>
      BY <2>4 DEF RemoveModified, history
    <3>4. \A q \in Process, x \in ProfTW :
              /\ Listed(q, x)' <=> Listed(q, x)
              /\ InHand(q, x)' <=> InHand(q, x)
              /\ Told(q, x)' => Told(q, x) \/ x \notin DOMAIN ModifiedTW'
      BY <2>4, <3>1, <3>2 DEF RemoveModified, At, Listed, InHand, Told
    <3>5. QED
      BY <3>2, <3>3, <3>4, QuietAccounted
  <2>5. CASE AnnounceClosed(p)
    <3> DEFINE v == proc[p].tw
    <3>1. v \in ProfTW
      BY <2>5, Shape DEF AnnounceClosed
    <3>2. /\ proc'[p] = [pc |-> "close", todo |-> proc[p].todo]
          /\ \A q \in Process \ {p} : proc'[q] = proc[q]
      BY <1>4, <2>5 DEF AnnounceClosed, Goto, TypeOK
    <3>3. /\ marks' = marks /\ ModifiedTW' = ModifiedTW
          /\ closings' = [closings EXCEPT ![p][v] = @ + 1]
      BY <2>5 DEF AnnounceClosed, store
    <3>4. \A q \in Process, x \in ProfTW :
              closings'[q][x] = IF q = p /\ x = v THEN closings[q][x] + 1
                                ELSE closings[q][x]
      BY <3>3 DEF TypeOK
    <3>5. Told(p, v) /\ InHand(p, v)
      BY <2>5 DEF AnnounceClosed, At, Told, InHand
    <3>6. \A x \in ProfTW : /\ Listed(p, x)' <=> Listed(p, x)
                            /\ ~ InHand(p, x)' /\ ~ Told(p, x)'
                            /\ x # v => ~ InHand(p, x) /\ ~ Told(p, x)
      BY <2>5, <3>2 DEF AnnounceClosed, At, Listed, InHand, Told
    <3>7. \A q \in Process \ {p}, x \in ProfTW :
              /\ Listed(q, x)' <=> Listed(q, x)
              /\ InHand(q, x)' <=> InHand(q, x)
              /\ Told(q, x)' <=> Told(q, x)
      BY <3>2 DEF Listed, InHand, Told
    <3> HIDE DEF v
    <3>8. ASSUME NEW q \in Process, NEW x \in ProfTW
          PROVE  /\ ~ (Listed(q, x)' /\ InHand(q, x)')
                 /\ closings'[q][x] <= marks'[x]
                 /\ Pending(q, x)' => closings'[q][x] + 1 <= marks'[x]
                 /\ x \in DOMAIN ModifiedTW' =>
                       /\ ~ Pending(q, x)' => closings'[q][x] + 1 <= marks'[x]
                       /\ Told(q, x)' => closings'[q][x] + 2 <= marks'[x]
      <4>1. CASE q = p /\ x = v
        <5>1. ~ Pending(q, x)' /\ ~ Told(q, x)' /\ ~ InHand(q, x)'
          BY <3>5, <3>6, <4>1 DEF Accounted, Pending
        <5>2. closings'[q][x] = closings[q][x] + 1 /\ marks'[x] = marks[x]
          BY <3>3, <3>4, <4>1
        <5>3. /\ closings[q][x] + 1 <= marks[x]
              /\ x \in DOMAIN ModifiedTW => closings[q][x] + 2 <= marks[x]
          BY <3>5, <4>1 DEF Accounted, Pending
        <5>4. closings[q][x] + 2 = closings[q][x] + 1 + 1
          BY <1>N
        <5>5. QED
          BY <3>3, <5>1, <5>2, <5>3, <5>4
      <4>2. CASE ~ (q = p /\ x = v)
        <5>1. closings'[q][x] = closings[q][x] /\ marks'[x] = marks[x]
          BY <3>3, <3>4, <4>2
        <5>2. /\ Listed(q, x)' <=> Listed(q, x)
              /\ InHand(q, x)' <=> InHand(q, x)
              /\ Told(q, x)' <=> Told(q, x)
          BY <3>6, <3>7, <4>2
        <5>3. QED
          BY <3>3, <5>1, <5>2 DEF Accounted, Pending
      <4>3. QED
        BY <4>1, <4>2
    <3>9. QED
      BY <3>8 DEF Accounted
  <2>6. CASE CheckDone(p)
    <3>1. \A x \in ProfTW : ~ Pending(p, x)
      BY <2>6 DEF CheckDone, At, Pending, Listed, InHand
    <3>2. \A q \in Process, x \in ProfTW :
              /\ Listed(q, x)' <=> Listed(q, x)
              /\ InHand(q, x)' <=> InHand(q, x)
              /\ Told(q, x)' => Told(q, x)
      BY <1>4, <2>6, <3>1, <1>Q DEF CheckDone, Idle
    <3>3. QED
      BY <2>6, <3>2, QuietAccounted DEF CheckDone, store, history
  <2>7. QED
    BY <1>4, <2>1, <2>2, <2>3, <2>4, <2>5, <2>6 DEF Check
<1>5. ASSUME MainStep
      PROVE  Accounted'
  <2>1. \A x \in ProfTW : ~ Pending(Main, x)
    BY <1>5 DEF MainStep, MainWakes, MainReadsModified, MainSetsTime,
                MainCounts, At, Idle, Pending, Listed, InHand
  <2>2. \E st : Goto(Main, st) /\ st.pc \notin {"close", "zrem", "tell"}
    <3>1. CASE MainReadsModified
      <4> DEFINE S == Since(ModifiedTW, slips_internal_time)
                 st == IF S = {} THEN [pc |-> "check"]
                       ELSE [pc |-> "settime", time |-> Latest(ModifiedTW, S)]
      <4>1. Goto(Main, st)
        BY <3>1 DEF MainReadsModified
      <4>2. st.pc \notin {"close", "zrem", "tell"}
        OBVIOUS
      <4> HIDE DEF st
      <4>3. QED
        BY <4>1, <4>2
    <3>2. CASE MainCounts
      BY <3>2 DEF MainCounts, Idle
    <3>3. CASE MainWakes \/ MainSetsTime
      BY <3>3 DEF MainWakes, MainSetsTime
    <3>4. QED
      BY <1>5, <3>1, <3>2, <3>3 DEF MainStep
  <2>3. \A q \in Process, x \in ProfTW :
            /\ Listed(q, x)' <=> Listed(q, x)
            /\ InHand(q, x)' <=> InHand(q, x)
            /\ Told(q, x)' => Told(q, x)
    BY <1>0, <2>1, <2>2, <1>Q
  <2>4. UNCHANGED <<ModifiedTW, marks, closings>>
    BY <1>5 DEF MainStep, MainWakes, MainReadsModified, MainSetsTime,
                MainCounts, store, history
  <2>5. QED
    BY <2>3, <2>4, QuietAccounted
<1>6. QED
  BY <1>1, <1>2, <1>3, <1>4, <1>5 DEF Next

(* However the checks of Main and of the markers overlap, each process     *)
(* announces a window at most once for each time it was marked.            *)
THEOREM ClosingsBounded == Spec => []ClosedOncePerMark
<1>1. Init => Accounted
  <2> SUFFICES ASSUME Init
               PROVE  Accounted
    OBVIOUS
  <2>1. \A p \in Process, w \in ProfTW :
            ~ Pending(p, w) /\ closings[p][w] = 0 /\ marks[w] = 0
    BY DEF Init, Idle, Pending, Listed, InHand
  <2>2. DOMAIN ModifiedTW = {}
    BY DEF Init
  <2>3. QED
    BY <2>1, <2>2 DEF Accounted, Pending
<1>2. Accounted => ClosedOncePerMark
  BY DEF Accounted, ClosedOncePerMark
<1>3. QED
  BY <1>1, <1>2, TypeInit, TypeStep, AccountedStep, PTL DEF Spec
=============================================================================
