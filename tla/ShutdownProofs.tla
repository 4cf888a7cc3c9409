--------------------------- MODULE ShutdownProofs ---------------------------
(***************************************************************************)
(* Type correctness of Shutdown, that Main leaves no child behind, and     *)
(* that it kills a process at work only if forced, for any number of       *)
(* modules of any kind.                                                    *)
(***************************************************************************)
EXTENDS Shutdown, FiniteSetTheorems, TLAPS

Signal == Name \cup {"stop_process"}

(* A published name or signal keeps the type of the channel.               *)
LEMMA AppendType ==
    ASSUME NEW ch \in Seq(Signal), NEW x \in Signal
    PROVE  Append(ch, x) \in Seq(Signal)
OBVIOUS

(* What Main takes from its channel is a signal, and the rest a channel.   *)
LEMMA TakeType ==
    ASSUME NEW ch \in Seq(Signal), ch # <<>>
    PROVE  Head(ch) \in Signal /\ Tail(ch) \in Seq(Signal)
OBVIOUS

(* What Main takes was in the channel, and so is what it leaves.           *)
LEMMA TakeFrom ==
    ASSUME NEW ch \in Seq(Signal), ch # <<>>
    PROVE  /\ 1 \in 1 .. Len(ch) /\ Head(ch) = ch[1]
           /\ \A i \in 1 .. Len(Tail(ch)) :
                 i + 1 \in 1 .. Len(ch) /\ Tail(ch)[i] = ch[i + 1]
OBVIOUS

(* The processes Main interrupts are modules.                              *)
LEMMA InterruptedType == InterruptedCore \subseteq Module
BY ShutdownAssumption DEF InterruptedCore, ShutdownAssumption

(* An iteration of Main's loop keeps the types of its variables.           *)
LEMMA CountDownType ==
    ASSUME loops \in 0 .. MaxLoops, loops # 0, warned \in BOOLEAN,
           NEW fin, fin \subseteq Name,
           NEW left, left \subseteq Module,
           CountDown(fin, left)
    PROVE  /\ finished' \subseteq Name
           /\ PIDs' \subseteq Module
           /\ loops' \in 0 .. MaxLoops
           /\ warned' \in BOOLEAN
<1>1. GoneAmong(left) \subseteq Name
  BY DEF GoneAmong, Name
<1>2. finished' \subseteq Name
  BY <1>1 DEF CountDown
<1>3. loops' \in 0 .. MaxLoops
  BY ShutdownAssumption DEF CountDown, ShutdownAssumption
<1>4. PIDs' \subseteq Module /\ warned' \in BOOLEAN
  BY DEF CountDown
<1>5. QED
  BY <1>2, <1>3, <1>4

(* The steps of a module keep the types.                                   *)
LEMMA ModuleTypeStep ==
    ASSUME TypeOK, NEW m \in Module, ModuleStep(m)
    PROVE  TypeOK'
<1>1. ASSUME Announce(m), UNCHANGED <<port, told, sigint, main, pollVars,
                                      forced, stopSlips>>
      PROVE  TypeOK'
  <2>1. m \in Signal
    BY DEF Signal, Name
  <2>2. channel' \in Seq(Signal)
    BY <1>1, <2>1, AppendType DEF Announce, TypeOK, Signal
  <2>3. proc' \in [Module -> ProcState]
    BY <1>1 DEF Announce, TypeOK, ProcState
  <2>4. QED
    BY <1>1, <2>2, <2>3 DEF TypeOK, pollVars, Signal
<1>2. CASE EndOfInput(m)
  BY <1>1, <1>2 DEF EndOfInput
<1>3. CASE ReadStop(m)
  BY <1>1, <1>3 DEF ReadStop
<1>4. CASE Closed(m)
  BY <1>1, <1>4 DEF Closed
<1>5. CASE Interrupted(m)
  BY <1>5 DEF Interrupted, TypeOK, ProcState, pollVars
<1>6. CASE InterruptedAgain(m)
  BY <1>6 DEF InterruptedAgain, TypeOK, ProcState, pollVars
<1>7. CASE Crash(m)
  BY <1>7 DEF Crash, TypeOK, ProcState, pollVars
<1>8. QED
  BY <1>2, <1>3, <1>4, <1>5, <1>6, <1>7 DEF ModuleStep

(* The beginning of the shutdown keeps the types.                          *)
LEMMA BeginTypeStep ==
    ASSUME TypeOK,
           NEW ch \in Seq(Signal),
           BeginShutdown(ch)
    PROVE  TypeOK'
<1>1. channel' \in Seq(Signal)
  BY AppendType DEF BeginShutdown, Signal
<1>2. told' \subseteq Module
  BY ShutdownAssumption DEF BeginShutdown, ShutdownAssumption
<1>3. sigint' \subseteq Module
  BY DEF BeginShutdown, Alive
<1>4. main' \in MainState
  BY DEF BeginShutdown, MainState
<1>5. QED
  BY <1>1, <1>2, <1>3, <1>4
  DEF BeginShutdown, TypeOK, pollVars, Signal

(* Every step keeps the types.                                             *)
LEMMA TypeStep == TypeOK /\ [Next]_vars => TypeOK'
<1> SUFFICES ASSUME TypeOK, [Next]_vars
             PROVE  TypeOK'
  OBVIOUS
<1>1. ASSUME NEW m \in Module, ModuleStep(m)
      PROVE  TypeOK'
  BY <1>1, ModuleTypeStep
<1>2. CASE StopSlips
  <2>1. channel' \in Seq(Signal)
    BY <1>2, AppendType DEF StopSlips, TypeOK, Signal, Name
  <2>2. stopSlips' \in 0 .. MaxStopSlips
    BY <1>2, ShutdownAssumption DEF StopSlips, TypeOK, ShutdownAssumption
  <2>3. QED
    BY <1>2, <2>1, <2>2
    DEF StopSlips, TypeOK, Signal, moduleVars, pollVars
<1>3. CASE MainReads
  <2>1. Tail(channel) \in Seq(Signal)
    BY <1>3, TakeType DEF MainReads, TypeOK, Signal
  <2>2. CASE BeginShutdown(Tail(channel))
    BY <2>1, <2>2, BeginTypeStep DEF TypeOK
  <2>3. CASE /\ channel' = Tail(channel)
             /\ UNCHANGED <<port, moduleVars, main, pollVars, forced,
                            stopSlips>>
    BY <2>1, <2>3 DEF TypeOK, Signal, moduleVars, pollVars
  <2>4. QED
    BY <1>3, <2>2, <2>3 DEF MainReads
<1>4. CASE MainIdle
  BY <1>4, BeginTypeStep DEF MainIdle, TypeOK, Signal
<1>5. CASE CtrlC
  BY <1>5 DEF CtrlC, TypeOK, MainState, Alive, pollVars
<1>51. CASE MainInterrupted
  BY <1>51, BeginTypeStep DEF MainInterrupted, TypeOK, Signal
<1>6. CASE CtrlCAgain
  BY <1>6 DEF CtrlCAgain, TypeOK, MainState, Alive, pollVars
<1>7. CASE MainPolls
  <2>1. channel' \in Seq(Signal)
    BY <1>7, TakeType DEF MainPolls, TypeOK, Signal
  <2>2. /\ finished' \subseteq Name
        /\ PIDs' \subseteq Module
        /\ loops' \in 0 .. MaxLoops
        /\ warned' \in BOOLEAN
    <3>1. CASE channel = <<>>
      BY <1>7, <3>1, CountDownType DEF MainPolls, TypeOK
    <3>2. CASE channel # <<>> /\ Head(channel) = "stop_process"
      BY <1>7, <3>2 DEF MainPolls, TypeOK, pollVars
    <3>3. CASE channel # <<>> /\ Head(channel) # "stop_process"
      <4>1. Head(channel) \in Name
        BY <3>3, TakeType DEF TypeOK, Signal
      <4>2. finished \cup {Head(channel)} \subseteq Name
        BY <4>1 DEF TypeOK
      <4>3. PIDs \ {Head(channel)} \subseteq Module
        BY DEF TypeOK
      <4>4. CountDown(finished \cup {Head(channel)}, PIDs \ {Head(channel)})
        BY <1>7, <3>3 DEF MainPolls
      <4>5. QED
        BY <1>7, <4>2, <4>3, <4>4, CountDownType DEF MainPolls, TypeOK
    <3>4. QED
      BY <3>1, <3>2, <3>3
  <2>3. QED
    BY <1>7, <2>1, <2>2 DEF MainPolls, TypeOK, Signal, moduleVars
<1>8. CASE MainLoopEnds
  BY <1>8 DEF MainLoopEnds, TypeOK, MainState, moduleVars, pollVars
<1>9. CASE KillRest
  <2>1. proc' \in [Module -> ProcState]
    BY <1>9 DEF KillRest, TypeOK, ProcState
  <2>2. QED
    BY <1>9, <2>1 DEF KillRest, TypeOK, MainState, pollVars
<1>10. CASE UNCHANGED vars
  BY <1>10 DEF vars, TypeOK
<1>11. QED
  BY <1>1, <1>2, <1>3, <1>4, <1>5, <1>51, <1>6, <1>7, <1>8, <1>9, <1>10
  DEF Next, MainStep

(* The initial states have the types.                                      *)
LEMMA TypeInit == Init => TypeOK
<1> SUFFICES ASSUME Init
             PROVE  TypeOK
  OBVIOUS
<1>1. proc \in [Module -> ProcState]
  BY DEF Init, ProcState
<1>2. channel \in Seq(Name \cup {"stop_process"})
  BY DEF Init
<1>3. port \in BOOLEAN /\ loops \in 0 .. MaxLoops
      /\ stopSlips \in 0 .. MaxStopSlips
  BY ShutdownAssumption DEF Init, ShutdownAssumption
<1>4. QED
  BY <1>1, <1>2, <1>3 DEF Init, TypeOK, MainState, Started

(* The variables of Main and of the processes keep their types.            *)
THEOREM TypeCorrect == Spec => []TypeOK
<1>1. QED
  BY TypeInit, TypeStep, PTL DEF Spec

-----------------------------------------------------------------------------
(* No child is left: a process that is alive has not published its name,   *)
(* so Main cannot have crossed it out of PIDs.                             *)

Unpublished ==
    \A m \in Alive : \A i \in 1 .. Len(channel) : channel[i] # m

Accounted == Alive \subseteq PIDs

OrphanInv == TypeOK /\ Unpublished /\ Accounted /\ NoOrphan

(* A step that adds no process and only a name that is not alive to the    *)
(* channel keeps the names of the living unpublished.                      *)
LEMMA UnpublishedAppend ==
    ASSUME Unpublished, channel \in Seq(Signal), NEW x \in Signal,
           Alive' \subseteq Alive, x \notin Alive',
           channel' = Append(channel, x)
    PROVE  Unpublished'
<1> SUFFICES ASSUME NEW m \in Alive', NEW i \in 1 .. Len(channel')
             PROVE  channel'[i] # m
  BY DEF Unpublished
<1>1. CASE i \in 1 .. Len(channel)
  <2>1. channel'[i] = channel[i]
    BY <1>1
  <2>2. QED
    BY <1>1, <2>1 DEF Unpublished
<1>2. CASE i = Len(channel) + 1
  <2>1. channel'[i] = x
    BY <1>2
  <2>2. QED
    BY <2>1
<1>3. QED
  BY <1>1, <1>2

(* Taking a message keeps the names of the living unpublished.             *)
LEMMA UnpublishedTail ==
    ASSUME Unpublished, channel \in Seq(Signal), channel # <<>>
    PROVE  \A m \in Alive : \A i \in 1 .. Len(Tail(channel)) :
              Tail(channel)[i] # m
BY TakeFrom DEF Unpublished

(* The end of a process: it is not alive any more when its name appears.   *)
LEMMA AnnounceKeepsOrphanInv ==
    ASSUME OrphanInv, NEW m \in Module, m \in Alive, Announce(m),
           UNCHANGED <<main, PIDs>>, TypeOK'
    PROVE  OrphanInv'
<1>1. Alive' = Alive \ {m}
  BY DEF OrphanInv, TypeOK, Announce, Alive
<1>2. Unpublished'
  <2>1. CASE m \in Silent
    BY <1>1, <2>1 DEF Announce, OrphanInv, Unpublished
  <2>2. CASE m \notin Silent
    BY <1>1, <2>2, UnpublishedAppend
    DEF Announce, OrphanInv, TypeOK, Signal, Name
  <2>3. QED
    BY <2>1, <2>2
<1>3. QED
  BY <1>1, <1>2 DEF OrphanInv, Accounted, NoOrphan

(* A step that leaves the channel, Main and the list alone, and starts     *)
(* nothing.                                                                *)
LEMMA QuietKeepsOrphanInv ==
    ASSUME OrphanInv, Alive' \subseteq Alive,
           UNCHANGED <<channel, PIDs>>, main' # "exited" \/ main' = main,
           TypeOK'
    PROVE  OrphanInv'
BY DEF OrphanInv, Unpublished, Accounted, NoOrphan

(* Each step of the system keeps the invariant.                            *)
LEMMA OrphanInvStep == OrphanInv /\ [Next]_vars => OrphanInv'
<1> SUFFICES ASSUME OrphanInv, [Next]_vars
             PROVE  OrphanInv'
  OBVIOUS
<1>0. TypeOK'
  BY TypeStep DEF OrphanInv
<1>1. ASSUME NEW m \in Module, ModuleStep(m)
      PROVE  OrphanInv'
  <2>1. CASE EndOfInput(m)
    BY <1>0, <2>1, AnnounceKeepsOrphanInv DEF EndOfInput, Alive, pollVars
  <2>2. CASE ReadStop(m)
    BY <1>0, <2>2, AnnounceKeepsOrphanInv DEF ReadStop, Alive, pollVars
  <2>3. CASE Closed(m)
    BY <1>0, <2>3, AnnounceKeepsOrphanInv DEF Closed, Alive, pollVars
  <2>4. CASE Interrupted(m)
    <3>1. Alive' = Alive
      BY <2>4 DEF Interrupted, Alive, OrphanInv, TypeOK
    <3>2. QED
      BY <1>0, <2>4, <3>1, QuietKeepsOrphanInv DEF Interrupted, pollVars
  <2>5. CASE InterruptedAgain(m)
    <3>1. Alive' \subseteq Alive
      BY <2>5 DEF InterruptedAgain, Alive, OrphanInv, TypeOK
    <3>2. QED
      BY <1>0, <2>5, <3>1, QuietKeepsOrphanInv
      DEF InterruptedAgain, pollVars
  <2>6. CASE Crash(m)
    <3>1. Alive' \subseteq Alive
      BY <2>6 DEF Crash, Alive, OrphanInv, TypeOK
    <3>2. QED
      BY <1>0, <2>6, <3>1, QuietKeepsOrphanInv DEF Crash, pollVars
  <2>7. QED
    BY <1>1, <2>1, <2>2, <2>3, <2>4, <2>5, <2>6 DEF ModuleStep
<1>2. CASE StopSlips
  <2>1. Alive' = Alive
    BY <1>2 DEF StopSlips, moduleVars, Alive
  <2>2. "stop_slips" \notin Alive
    BY ShutdownAssumption DEF Alive, ShutdownAssumption
  <2>3. Unpublished'
    BY <1>2, <2>1, <2>2, UnpublishedAppend
    DEF StopSlips, OrphanInv, TypeOK, Signal, Name
  <2>4. QED
    BY <1>0, <1>2, <2>1, <2>3
    DEF StopSlips, OrphanInv, Accounted, NoOrphan, pollVars
<1>3. ASSUME NEW ch \in Seq(Signal), BeginShutdown(ch),
             \A m \in Alive : \A i \in 1 .. Len(ch) : ch[i] # m
      PROVE  OrphanInv'
  <2>1. Alive' = Alive
    BY <1>3 DEF BeginShutdown, Alive
  <2>2. "stop_process" \notin Alive
    BY ShutdownAssumption DEF Alive, ShutdownAssumption
  <2>3. Unpublished'
    <3> SUFFICES ASSUME NEW m \in Alive', NEW i \in 1 .. Len(channel')
                 PROVE  channel'[i] # m
      BY DEF Unpublished
    <3>1. channel' = Append(ch, "stop_process")
      BY <1>3 DEF BeginShutdown
    <3>2. CASE i \in 1 .. Len(ch)
      BY <1>3, <2>1, <3>1, <3>2
    <3>3. CASE i = Len(ch) + 1
      BY <2>1, <2>2, <3>1, <3>3
    <3>4. QED
      BY <3>1, <3>2, <3>3
  <2>4. main' # "exited"
    BY <1>3 DEF BeginShutdown
  <2>5. QED
    BY <1>0, <1>3, <2>1, <2>3, <2>4
    DEF BeginShutdown, OrphanInv, Accounted, NoOrphan, pollVars
<1>4. CASE MainReads
  <2>1. /\ Tail(channel) \in Seq(Signal)
        /\ \A m \in Alive : \A i \in 1 .. Len(Tail(channel)) :
              Tail(channel)[i] # m
    BY <1>4, TakeType, UnpublishedTail DEF MainReads, OrphanInv, TypeOK, Signal
  <2>2. CASE BeginShutdown(Tail(channel))
    BY <1>3, <1>4, <2>1, <2>2 DEF MainReads
  <2>3. CASE /\ channel' = Tail(channel)
             /\ UNCHANGED <<port, moduleVars, main, pollVars, forced,
                            stopSlips>>
    BY <1>0, <2>1, <2>3
    DEF OrphanInv, Unpublished, Accounted, NoOrphan, Alive, moduleVars,
        pollVars
  <2>4. QED
    BY <1>4, <2>2, <2>3 DEF MainReads
<1>5. CASE MainIdle
  BY <1>3, <1>5 DEF MainIdle, OrphanInv, TypeOK, Signal, Unpublished
<1>6. CASE CtrlC
  BY <1>0, <1>6, QuietKeepsOrphanInv DEF CtrlC, Alive, pollVars
<1>61. CASE MainInterrupted
  BY <1>3, <1>61 DEF MainInterrupted, OrphanInv, TypeOK, Signal, Unpublished
<1>7. CASE CtrlCAgain
  BY <1>0, <1>7, QuietKeepsOrphanInv DEF CtrlCAgain, Alive, pollVars
<1>8. CASE MainPolls
  <2>1. Alive' = Alive
    BY <1>8 DEF MainPolls, moduleVars, Alive
  <2>2. Unpublished'
    BY <1>8, <2>1, UnpublishedTail
    DEF MainPolls, OrphanInv, TypeOK, Signal, Unpublished
  <2>3. Accounted'
    <3>1. CASE channel = <<>>
      BY <1>8, <2>1, <3>1
      DEF MainPolls, CountDown, OrphanInv, Accounted
    <3>2. CASE channel # <<>>
      <4>1. Head(channel) \notin Alive
        BY <3>2, TakeFrom DEF OrphanInv, Unpublished, TypeOK, Signal
      <4>2. PIDs' = PIDs \/ PIDs' = PIDs \ {Head(channel)}
        BY <1>8, <3>2 DEF MainPolls, CountDown, pollVars
      <4>3. QED
        BY <2>1, <4>1, <4>2 DEF OrphanInv, Accounted
    <3>3. QED
      BY <3>1, <3>2
  <2>4. main' # "exited"
    BY <1>8 DEF MainPolls
  <2>5. QED
    BY <1>0, <2>2, <2>3, <2>4 DEF OrphanInv, NoOrphan
<1>9. CASE MainLoopEnds
  <2>1. Alive' = Alive
    BY <1>9 DEF MainLoopEnds, moduleVars, Alive
  <2>2. QED
    BY <1>0, <1>9, <2>1, QuietKeepsOrphanInv DEF MainLoopEnds, pollVars
<1>10. CASE KillRest
  <2>1. Alive' = {}
    BY <1>10 DEF KillRest, Left, Alive, OrphanInv, Accounted
  <2>2. QED
    BY <1>0, <2>1 DEF OrphanInv, Unpublished, Accounted, NoOrphan
<1>11. CASE UNCHANGED vars
  BY <1>0, <1>11, QuietKeepsOrphanInv DEF vars, Alive
<1>12. QED
  BY <1>1, <1>2, <1>4, <1>5, <1>6, <1>61, <1>7, <1>8, <1>9, <1>10, <1>11
  DEF Next, MainStep

(* Every reachable state accounts for the living.                          *)
THEOREM OrphanInvariance == Spec => []OrphanInv
<1>1. Init => OrphanInv
  <2> SUFFICES ASSUME Init
               PROVE  OrphanInv
    OBVIOUS
  <2>1. TypeOK
    BY TypeInit
  <2>2. Unpublished /\ Accounted /\ NoOrphan
    BY DEF Init, Unpublished, Accounted, NoOrphan, Alive, Started
  <2>3. QED
    BY <2>1, <2>2 DEF OrphanInv
<1>2. QED
  BY <1>1, OrphanInvStep, PTL DEF Spec

(* Main leaves no child behind, whatever it has heard and in what order.   *)
THEOREM NoChildSurvives == Spec => []NoOrphan
<1>1. OrphanInv => NoOrphan
  BY DEF OrphanInv
<1>2. QED
  BY <1>1, OrphanInvariance, PTL

-----------------------------------------------------------------------------
(* Nobody at work is killed without need.  Main stops waiting because the  *)
(* user insists, because the counter is at 0, which happens only under -P  *)
(* or when nobody is left, or because it has counted enough names; unless  *)
(* stop_slips is one of them these are the names of all the modules.       *)

(* What is no process's name on finished_modules *)
Request == {"stop_slips", "stop_process"}

HeardStarted ==
    /\ \A i \in 1 .. Len(channel) : channel[i] \in Started \cup Request
    /\ finished \subseteq Started \cup {"stop_slips"}

FinishedEnded == finished \cap Alive = {}

CounterHeld == ~ port /\ PIDs # {} => loops >= 1

KillExcused ==
    main = "killing" =>
        \/ forced
        \/ port
        \/ "stop_slips" \in finished
        \/ PIDs \cap Alive = {}

KillInv ==
    /\ OrphanInv
    /\ HeardStarted
    /\ FinishedEnded
    /\ CounterHeld
    /\ KillExcused
    /\ KilledOnlyIfForced

(* When the names of processes only are counted and there are as many as   *)
(* were started, everybody has been counted.                               *)
LEMMA AllCounted ==
    ASSUME TypeOK, HeardStarted, AllFinished, "stop_slips" \notin finished
    PROVE  finished = Started
<1>1. IsFiniteSet(Started)
  <2>1. IsFiniteSet(Module) /\ Started \in SUBSET Module
    BY ShutdownAssumption DEF ShutdownAssumption, Started
  <2>2. QED
    BY <2>1, FS_Subset
<1>2. finished \in SUBSET Started
  BY DEF HeardStarted
<1>3. /\ IsFiniteSet(finished)
      /\ Cardinality(finished) <= Cardinality(Started)
      /\ Cardinality(Started) = Cardinality(finished) => Started = finished
  BY <1>1, <1>2, FS_Subset
<1>4. Cardinality(finished) \in Nat /\ Cardinality(Started) \in Nat
  BY <1>1, <1>3, FS_CardinalityType
<1>5. QED
  BY <1>3, <1>4 DEF AllFinished

(* A step that starts nothing, counts nobody and publishes at most one     *)
(* name, of a process that was started.                                    *)
LEMMA HeardAppend ==
    ASSUME HeardStarted, Started' = Started, finished' = finished,
           NEW ch \in Seq(Signal),
           \A i \in 1 .. Len(ch) : ch[i] \in Started \cup Request,
           NEW x \in Signal, x \in Started \cup Request,
           channel' = Append(ch, x) \/ channel' = ch
    PROVE  HeardStarted'
<1>1. CASE channel' = ch
  BY <1>1 DEF HeardStarted
<1>2. CASE channel' = Append(ch, x)
  <2>1. ASSUME NEW i \in 1 .. Len(channel')
        PROVE  channel'[i] \in Started \cup Request
    <3>1. CASE i \in 1 .. Len(ch)
      <4>1. channel'[i] = ch[i]
        BY <1>2, <3>1
      <4>2. QED
        BY <3>1, <4>1
    <3>2. CASE i = Len(ch) + 1
      BY <1>2, <3>2
    <3>3. QED
      BY <1>2, <2>1, <3>1, <3>2
  <2>2. QED
    BY <2>1 DEF HeardStarted
<1>3. QED
  BY <1>1, <1>2

(* What Main takes from its channel, and what it leaves, is the name of a  *)
(* process that was started, or a request.                                 *)
LEMMA HeardTail ==
    ASSUME TypeOK, HeardStarted, channel # <<>>
    PROVE  /\ Tail(channel) \in Seq(Signal)
           /\ Head(channel) \in Started \cup Request
           /\ \A i \in 1 .. Len(Tail(channel)) :
                 Tail(channel)[i] \in Started \cup Request
<1>1. channel \in Seq(Signal)
  BY DEF TypeOK, Signal
<1>2. QED
  BY <1>1, TakeType, TakeFrom DEF HeardStarted

(* Each step keeps the names on the channel and the names counted among    *)
(* those of the processes that were started.                               *)
LEMMA HeardStep == TypeOK /\ HeardStarted /\ [Next]_vars => HeardStarted'
<1> SUFFICES ASSUME TypeOK, HeardStarted, [Next]_vars
             PROVE  HeardStarted'
  OBVIOUS
<1>0. /\ channel \in Seq(Signal)
      /\ \A i \in 1 .. Len(channel) : channel[i] \in Started \cup Request
      /\ "stop_slips" \in Signal \cap Request
      /\ "stop_process" \in Signal \cap Request
      /\ Started \subseteq Signal
  BY DEF TypeOK, Signal, HeardStarted, Name, Request, Started
<1>1. ASSUME NEW m \in Module, ModuleStep(m)
      PROVE  HeardStarted'
  <2>1. /\ UNCHANGED finished
        /\ \E s \in {"zombie", "closing"} : proc' = [proc EXCEPT ![m] = s]
        /\ m \in Started
        /\ channel' = Append(channel, m) \/ channel' = channel
    BY <1>1
    DEF ModuleStep, EndOfInput, ReadStop, Closed, Announce, Interrupted,
        InterruptedAgain, Crash, Started, pollVars
  <2>2. Started' = Started
    BY <2>1 DEF Started, TypeOK
  <2>3. QED
    BY <1>0, <2>1, <2>2, HeardAppend
<1>2. CASE StopSlips
  BY <1>0, <1>2, HeardAppend DEF StopSlips, moduleVars, pollVars, Started
<1>3. ASSUME NEW ch \in Seq(Signal), BeginShutdown(ch),
             \A i \in 1 .. Len(ch) : ch[i] \in Started \cup Request
      PROVE  HeardStarted'
  BY <1>0, <1>3, HeardAppend DEF BeginShutdown, pollVars, Started
<1>4. CASE MainReads
  <2>1. CASE BeginShutdown(Tail(channel))
    BY <1>3, <1>4, <2>1, HeardTail DEF MainReads
  <2>2. CASE /\ channel' = Tail(channel)
             /\ UNCHANGED <<port, moduleVars, main, pollVars, forced,
                            stopSlips>>
    BY <1>4, <2>2, HeardTail
    DEF MainReads, HeardStarted, Started, moduleVars, pollVars
  <2>3. QED
    BY <1>4, <2>1, <2>2 DEF MainReads
<1>5. CASE MainIdle
  BY <1>0, <1>3, <1>5 DEF MainIdle
<1>6. CASE CtrlC
  BY <1>6 DEF CtrlC, HeardStarted, Started, pollVars
<1>61. CASE MainInterrupted
  BY <1>0, <1>3, <1>61 DEF MainInterrupted
<1>7. CASE CtrlCAgain
  BY <1>7 DEF CtrlCAgain, HeardStarted, Started, pollVars
<1>8. CASE MainPolls
  <2>1. Started' = Started
    BY <1>8 DEF MainPolls, moduleVars, Started
  <2>2. ASSUME NEW fin, fin \subseteq Started \cup {"stop_slips"},
               NEW left, CountDown(fin, left)
        PROVE  finished' \subseteq Started \cup {"stop_slips"}
    <3>1. left \subseteq Module => GoneAmong(left) \subseteq Started
      BY DEF GoneAmong, Started
    <3>2. GoneAmong(left) \subseteq left
      BY DEF GoneAmong
    <3>3. left = PIDs'
      BY <2>2 DEF CountDown
    <3>4. PIDs' \subseteq Module
      BY <1>8, TypeStep DEF Next, MainStep, TypeOK
    <3>5. QED
      BY <2>2, <3>1, <3>3, <3>4 DEF CountDown
  <2>3. finished' \subseteq Started \cup {"stop_slips"}
    <3>1. CASE channel = <<>>
      BY <1>8, <2>2, <3>1 DEF MainPolls, HeardStarted
    <3>2. CASE channel # <<>> /\ Head(channel) = "stop_process"
      BY <1>8, <3>2 DEF MainPolls, HeardStarted, pollVars
    <3>3. CASE channel # <<>> /\ Head(channel) # "stop_process"
      <4>1. finished \cup {Head(channel)} \subseteq Started \cup {"stop_slips"}
        BY <3>3, HeardTail DEF HeardStarted, Request
      <4>2. CountDown(finished \cup {Head(channel)}, PIDs \ {Head(channel)})
        BY <1>8, <3>3 DEF MainPolls
      <4>3. QED
        BY <2>2, <4>1, <4>2
    <3>4. QED
      BY <3>1, <3>2, <3>3
  <2>4. \A i \in 1 .. Len(channel') : channel'[i] \in Started \cup Request
    BY <1>0, <1>8, HeardTail DEF MainPolls
  <2>5. QED
    BY <2>1, <2>3, <2>4 DEF HeardStarted
<1>9. CASE MainLoopEnds
  BY <1>9 DEF MainLoopEnds, HeardStarted, Started, moduleVars, pollVars
<1>10. CASE KillRest
  <2>1. Started' = Started
    BY <1>10 DEF KillRest, Started, Alive, TypeOK
  <2>2. QED
    BY <1>10, <2>1 DEF KillRest, HeardStarted, pollVars
<1>11. CASE UNCHANGED vars
  BY <1>11 DEF vars, HeardStarted, Started
<1>12. QED
  BY <1>1, <1>2, <1>4, <1>5, <1>6, <1>61, <1>7, <1>8, <1>9, <1>10, <1>11
  DEF Next, MainStep

(* A step that ends processes at most, by other means than kill -9, and    *)
(* does not touch what Main knows.                                         *)
LEMMA QuietKeepsKillInv ==
    ASSUME KillInv, OrphanInv', HeardStarted', Alive' \subseteq Alive,
           \A m \in Module : proc'[m] = "killed" => proc[m] = "killed",
           UNCHANGED <<finished, PIDs, loops, port>>,
           forced => forced',
           main' = "killing" => main = "killing" \/ forced'
    PROVE  KillInv'
<1>1. FinishedEnded' /\ CounterHeld'
  BY DEF KillInv, FinishedEnded, CounterHeld
<1>2. KillExcused'
  BY DEF KillInv, KillExcused
<1>3. KilledOnlyIfForced'
  BY DEF KillInv, KilledOnlyIfForced
<1>4. QED
  BY <1>1, <1>2, <1>3 DEF KillInv

(* An iteration of Main's loop counts nobody who is alive, and leaves the  *)
(* counter above 0 while somebody is left to wait for.                     *)
LEMMA CountDownSound ==
    ASSUME loops \in Nat, loops # 0, port \in BOOLEAN,
           NEW fin, fin \cap Alive = {}, NEW left,
           CountDown(fin, left)
    PROVE  /\ fin \subseteq finished'
           /\ finished' \cap Alive = {}
           /\ ~ port /\ PIDs' # {} => loops' >= 1
<1>1. GoneAmong(left) \cap Alive = {}
  BY DEF GoneAmong, Alive
<1>2. QED
  BY <1>1 DEF CountDown

(* Each step of the system keeps the invariant.                            *)
LEMMA KillInvStep == KillInv /\ [Next]_vars => KillInv'
<1> SUFFICES ASSUME KillInv, [Next]_vars
             PROVE  KillInv'
  OBVIOUS
<1>0. OrphanInv' /\ HeardStarted' /\ TypeOK
  BY OrphanInvStep, HeardStep DEF KillInv, OrphanInv
<1>1. ASSUME NEW m \in Module, ModuleStep(m)
      PROVE  KillInv'
  <2>1. /\ UNCHANGED <<main, pollVars, port, forced>>
        /\ \E s \in {"zombie", "closing"} : proc' = [proc EXCEPT ![m] = s]
        /\ m \in Alive
    BY <1>1
    DEF ModuleStep, EndOfInput, ReadStop, Closed, Announce, Interrupted,
        InterruptedAgain, Crash, Alive
  <2>2. /\ Alive' \subseteq Alive
        /\ \A n \in Module : proc'[n] = "killed" => proc[n] = "killed"
    BY <1>0, <2>1 DEF Alive, TypeOK
  <2>3. QED
    BY <1>0, <2>1, <2>2, QuietKeepsKillInv DEF pollVars
<1>2. CASE StopSlips
  BY <1>0, <1>2, QuietKeepsKillInv DEF StopSlips, moduleVars, pollVars, Alive
<1>3. ASSUME NEW ch, BeginShutdown(ch)
      PROVE  KillInv'
  BY <1>0, <1>3, QuietKeepsKillInv DEF BeginShutdown, pollVars, Alive
<1>4. CASE MainReads
  <2>1. CASE BeginShutdown(Tail(channel))
    BY <1>3, <2>1
  <2>2. CASE UNCHANGED <<port, moduleVars, main, pollVars, forced,
                         stopSlips>>
    BY <1>0, <2>2, QuietKeepsKillInv DEF moduleVars, pollVars, Alive
  <2>3. QED
    BY <1>4, <2>1, <2>2 DEF MainReads
<1>5. CASE MainIdle
  BY <1>3, <1>5 DEF MainIdle
<1>6. CASE CtrlC
  BY <1>0, <1>6, QuietKeepsKillInv DEF CtrlC, pollVars, Alive
<1>61. CASE MainInterrupted
  BY <1>3, <1>61 DEF MainInterrupted
<1>7. CASE CtrlCAgain
  BY <1>0, <1>7, QuietKeepsKillInv DEF CtrlCAgain, pollVars, Alive
<1>8. CASE MainPolls
  <2>1. UNCHANGED <<proc, Alive, main, port, forced>> /\ main = "polling"
    BY <1>8 DEF MainPolls, moduleVars, Alive
  <2>2. loops \in Nat /\ loops # 0 /\ port \in BOOLEAN
    BY <1>0, <1>8, ShutdownAssumption
    DEF MainPolls, TypeOK, ShutdownAssumption
  <2>3. /\ finished \subseteq finished'
        /\ finished' \cap Alive = {}
        /\ ~ port /\ PIDs' # {} => loops' >= 1
    <3>1. CASE channel = <<>>
      <4>1. finished \cap Alive = {}
        BY DEF KillInv, FinishedEnded
      <4>2. CountDown(finished, PIDs)
        BY <1>8, <3>1 DEF MainPolls
      <4>3. QED
        BY <2>2, <4>1, <4>2, CountDownSound
    <3>2. CASE channel # <<>> /\ Head(channel) = "stop_process"
      BY <1>8, <3>2
      DEF MainPolls, pollVars, KillInv, FinishedEnded, CounterHeld
    <3>3. CASE channel # <<>> /\ Head(channel) # "stop_process"
      <4>1. Head(channel) \notin Alive
        BY <1>0, <3>3, TakeFrom
        DEF KillInv, OrphanInv, Unpublished, TypeOK, Signal
      <4>2. (finished \cup {Head(channel)}) \cap Alive = {}
        BY <4>1 DEF KillInv, FinishedEnded
      <4>3. CountDown(finished \cup {Head(channel)}, PIDs \ {Head(channel)})
        BY <1>8, <3>3 DEF MainPolls
      <4>4. finished \cup {Head(channel)} \subseteq finished'
            /\ finished' \cap Alive = {}
            /\ (~ port /\ PIDs' # {} => loops' >= 1)
        BY <2>2, <4>2, <4>3, CountDownSound
      <4>5. QED
        BY <4>4
    <3>4. QED
      BY <3>1, <3>2, <3>3
  <2>4. FinishedEnded' /\ CounterHeld' /\ KillExcused'
    BY <2>1, <2>3 DEF FinishedEnded, CounterHeld, KillExcused
  <2>5. KilledOnlyIfForced'
    BY <2>1, <2>3 DEF KillInv, KilledOnlyIfForced
  <2>6. QED
    BY <1>0, <2>4, <2>5 DEF KillInv
<1>9. CASE MainLoopEnds
  <2>1. UNCHANGED <<proc, Alive, PIDs, finished, loops, port, forced>>
    BY <1>9 DEF MainLoopEnds, moduleVars, pollVars, Alive
  <2>2. KillExcused'
    <3>1. CASE AllFinished
      <4>1. "stop_slips" \in finished \/ Alive = {}
        BY <1>0, <3>1, AllCounted
        DEF KillInv, FinishedEnded, Alive, Started
      <4>2. QED
        BY <2>1, <4>1 DEF KillExcused
    <3>2. CASE loops = 0
      <4>1. port \/ PIDs = {}
        BY <3>2 DEF KillInv, CounterHeld
      <4>2. QED
        BY <2>1, <4>1 DEF KillExcused
    <3>3. QED
      BY <1>9, <3>1, <3>2 DEF MainLoopEnds
  <2>3. FinishedEnded' /\ CounterHeld' /\ KilledOnlyIfForced'
    BY <2>1 DEF KillInv, FinishedEnded, CounterHeld, KilledOnlyIfForced
  <2>4. QED
    BY <1>0, <2>2, <2>3 DEF KillInv
<1>10. CASE KillRest
  <2>1. UNCHANGED <<PIDs, finished, loops, port, forced>>
        /\ main' = "exited"
    BY <1>10 DEF KillRest, pollVars
  <2>2. Alive' \subseteq Alive
    BY <1>10 DEF KillRest, Alive
  <2>3. FinishedEnded' /\ CounterHeld' /\ KillExcused'
    BY <2>1, <2>2 DEF KillInv, FinishedEnded, CounterHeld, KillExcused
  <2>4. KilledOnlyIfForced'
    <3> SUFFICES ASSUME NEW m \in Module, proc'[m] = "killed"
                 PROVE  (forced \/ port \/ "stop_slips" \in finished)'
      BY DEF KilledOnlyIfForced
    <3>1. CASE proc[m] = "killed"
      BY <2>1, <3>1 DEF KillInv, KilledOnlyIfForced
    <3>2. CASE m \in PIDs \cap Alive
      BY <1>10, <2>1, <3>2 DEF KillRest, KillInv, KillExcused
    <3>3. QED
      BY <1>10, <3>1, <3>2 DEF KillRest, Left
  <2>5. QED
    BY <1>0, <2>3, <2>4 DEF KillInv
<1>11. CASE UNCHANGED vars
  BY <1>0, <1>11, QuietKeepsKillInv DEF vars, Alive
<1>12. QED
  BY <1>1, <1>2, <1>4, <1>5, <1>6, <1>61, <1>7, <1>8, <1>9, <1>10, <1>11
  DEF Next, MainStep

(* Main kills a process at work only if the user insists, under -P, or     *)
(* because it took a stop_slips for the end of a module.                   *)
THEOREM NobodyKilledUnforced == Spec => []KilledOnlyIfForced
<1>1. Init => KillInv
  <2> SUFFICES ASSUME Init
               PROVE  KillInv
    OBVIOUS
  <2>1. OrphanInv
    BY TypeInit
    DEF Init, OrphanInv, Unpublished, Accounted, NoOrphan, Alive, Started
  <2>2. CounterHeld
    BY ShutdownAssumption DEF Init, CounterHeld, ShutdownAssumption
  <2>3. KilledOnlyIfForced
    BY DEF Init, KilledOnlyIfForced
  <2>4. HeardStarted
    BY DEF Init, HeardStarted
  <2>5. QED
    BY <2>1, <2>2, <2>3, <2>4 DEF Init, KillInv, FinishedEnded, KillExcused
<1>2. KillInv => KilledOnlyIfForced
  BY DEF KillInv
<1>3. QED
  BY <1>1, <1>2, KillInvStep, PTL DEF Spec
=============================================================================
