------------------------------ MODULE Shutdown ------------------------------
(***************************************************************************)
(* How Main (slips.py) stops the processes it started.                     *)
(*                                                                         *)
(* Main keeps the PIDs of its children in redis and listens to the channel *)
(* finished_modules, on which a process announces its end and filemonitor  *)
(* asks Main to stop.  shutdown_gracefully tells everybody to stop (a      *)
(* message on every channel, and SIGINT to the processes without one),     *)
(* polls finished_modules until every process has answered, and kills      *)
(* what is left.                                                           *)
(*                                                                         *)
(* A dead child stays a zombie, which signal 0 finds alive, unless it died *)
(* before Main started its last child (Process.start reaps the dead ones). *)
(* The model begins when everything has been started.                      *)
(***************************************************************************)
EXTENDS Integers, FiniteSets, Sequences

CONSTANTS
    Module,        \* the processes slips.py may start
    Optional,      \* those not always started: logsProcess, modules
    Subscribed,    \* modules whose main loop reads stop_process
    Core,          \* the processes shutdown_gracefully interrupts, in order
    Finite,        \* modules that end with the input: Input, Profiler
    Silent,        \* modules that end without a message: logsProcess
    MayCrash,      \* modules an exception may end: return True, no message
    Early,         \* modules that may be dead before the last start
    Port,          \* values of args.port: -P is for integration tests
    MaxLoops,      \* max_loops: 430
    MaxStopSlips   \* bound: stop_slips messages of filemonitor

ASSUME ShutdownAssumption ==
    /\ IsFiniteSet(Module)
    /\ Core \in Seq(Module)
    /\ Optional \subseteq Module
    /\ Subscribed \subseteq Module
    /\ Finite \subseteq Module
    /\ Silent \subseteq Module
    /\ MayCrash \subseteq Module
    /\ Early \subseteq Module
    /\ {"stop_slips", "stop_process"} \cap Module = {}
    /\ Port \subseteq BOOLEAN
    /\ MaxLoops \in Nat \ {0}
    /\ MaxStopSlips \in Nat

VARIABLES
    port,       \* args.port
    proc,       \* module -> state of its process
    told,       \* modules with stop_process in their channel
    sigint,     \* modules with a pending SIGINT
    channel,    \* Main's subscription to finished_modules
    main,       \* control point of Main
    PIDs,       \* shutdown_gracefully: modules not known to have stopped
    finished,   \* finished_modules
    loops,      \* max_loops
    warned,     \* warning_printed
    forced,     \* history: Ctrl-C pressed again while polling
    stopSlips   \* stop_slips messages so far

vars == <<port, proc, told, sigint, channel, main, PIDs, finished, loops,
          warned, forced, stopSlips>>
moduleVars == <<proc, told, sigint>>
pollVars == <<PIDs, finished, loops, warned>>

ProcState == {"absent", "running", "closing", "zombie", "killed", "reaped"}
MainState == {"running", "interrupted", "polling", "killing", "exited", "raised"}
Name == Module \cup {"stop_slips"}

Started == {m \in Module : proc[m] # "absent"}
Alive == {m \in Module : proc[m] \in {"running", "closing"}}

-----------------------------------------------------------------------------
Init ==
    /\ port \in Port
    /\ proc \in {f \in [Module -> {"absent", "running", "reaped"}] :
                   \A m \in Module : /\ f[m] = "absent" => m \in Optional
                                     /\ f[m] = "reaped" => m \in Early}
    /\ told = {}
    /\ sigint = {}
    /\ channel = <<>>
    /\ main = "running"
    /\ PIDs = Started
    /\ finished = {}
    /\ loops = MaxLoops
    /\ warned = FALSE
    /\ forced = FALSE
    /\ stopSlips = 0

-----------------------------------------------------------------------------
(* The modules *)

(* The last thing a module does is to publish its name, if it does *)
Announce(m) ==
    /\ proc' = [proc EXCEPT ![m] = "zombie"]
    /\ channel' = IF m \in Silent THEN channel ELSE Append(channel, m)

(* The end of the input ends InputProcess, and 'stop' ProfilerProcess *)
EndOfInput(m) ==
    /\ m \in Finite
    /\ proc[m] = "running"
    /\ Announce(m)
    /\ UNCHANGED <<port, told, sigint, main, pollVars, forced, stopSlips>>

(* The main loop of a module reads stop_process *)
ReadStop(m) ==
    /\ m \in told
    /\ proc[m] = "running"
    /\ Announce(m)
    /\ UNCHANGED <<port, told, sigint, main, pollVars, forced, stopSlips>>

(* except KeyboardInterrupt: the module begins its shutdown_gracefully *)
Interrupted(m) ==
    /\ m \in sigint
    /\ proc[m] = "running"
    /\ proc' = [proc EXCEPT ![m] = "closing"]
    /\ sigint' = sigint \ {m}
    /\ UNCHANGED <<port, told, channel, main, pollVars, forced, stopSlips>>

Closed(m) ==
    /\ proc[m] = "closing"
    /\ Announce(m)
    /\ UNCHANGED <<port, told, sigint, main, pollVars, forced, stopSlips>>

(* A second SIGINT in the handler of the first is not caught *)
InterruptedAgain(m) ==
    /\ m \in sigint
    /\ proc[m] = "closing"
    /\ proc' = [proc EXCEPT ![m] = "zombie"]
    /\ sigint' = sigint \ {m}
    /\ UNCHANGED <<port, told, channel, main, pollVars, forced, stopSlips>>

(* except Exception: ... return True *)
Crash(m) ==
    /\ m \in MayCrash
    /\ proc[m] = "running"
    /\ proc' = [proc EXCEPT ![m] = "zombie"]
    /\ UNCHANGED <<port, told, sigint, channel, main, pollVars, forced,
                   stopSlips>>

(* filemonitor: reporter.log tells that zeek received a termination signal *)
StopSlips ==
    /\ stopSlips < MaxStopSlips
    /\ main \in {"running", "interrupted", "polling"}
    /\ stopSlips' = stopSlips + 1
    /\ channel' = Append(channel, "stop_slips")
    /\ UNCHANGED <<port, moduleVars, main, pollVars, forced>>

-----------------------------------------------------------------------------
(* Main *)

(* SIGINT to the core processes, in their order; one that has not been     *)
(* started is skipped, a pid that is gone raises ProcessLookupError, which *)
(* nobody catches.                                                         *)
Gone == {i \in 1 .. Len(Core) : proc[Core[i]] = "reaped"}
InterruptedCore ==
    {Core[i] : i \in {j \in 1 .. Len(Core) : \A k \in Gone : j < k}}

(* shutdown_gracefully up to its loop: publish_stop, which Main, being     *)
(* subscribed to finished_modules, receives as well, then SIGINT to the    *)
(* core.  ch is what Main's subscription still holds.                      *)
BeginShutdown(ch) ==
    /\ told' = Subscribed \cap Started
    /\ channel' = Append(ch, "stop_process")
    /\ sigint' = (sigint \cup InterruptedCore) \cap Alive
    /\ main' = IF Gone = {} THEN "polling" ELSE "raised"
    /\ UNCHANGED <<port, proc, pollVars, forced, stopSlips>>

(* The main loop takes one message every five seconds and looks only for   *)
(* stop_slips: the end of a module is taken and forgotten.                 *)
MainReads ==
    /\ main = "running"
    /\ channel # <<>>
    /\ IF Head(channel) = "stop_slips"
       THEN BeginShutdown(Tail(channel))
       ELSE /\ channel' = Tail(channel)
            /\ UNCHANGED <<port, moduleVars, main, pollVars, forced,
                           stopSlips>>

(* Nothing was modified for five intervals *)
MainIdle ==
    /\ main = "running"
    /\ BeginShutdown(channel)

(* The terminal sends SIGINT to Main and to all its children: the core     *)
(* gets a second one from Main, perhaps in its handler of the first.       *)
CtrlC ==
    /\ main = "running"
    /\ main' = "interrupted"
    /\ sigint' = Alive
    /\ UNCHANGED <<port, proc, told, channel, pollVars, forced, stopSlips>>

MainInterrupted ==
    /\ main = "interrupted"
    /\ BeginShutdown(channel)

CtrlCAgain ==
    /\ main = "polling"
    /\ main' = "killing"
    /\ forced' = TRUE
    /\ sigint' = Alive
    /\ UNCHANGED <<port, proc, told, channel, pollVars, stopSlips>>

AllButOneFinished == Cardinality(finished) >= Cardinality(Started) - 1
AllFinished == Cardinality(finished) >= Cardinality(Started)

(* os.kill(pid, 0) fails only for a process that was reaped *)
NotFoundAmong(left) == {}
GoneAmong(left) == {m \in left : proc[m] = "reaped"}

(* What a loop that did not continue at stop_process does after reading:   *)
(* with the names in fin, and the processes in left still to come.         *)
CountDownDelayed(fin, left) ==
    /\ finished' = fin
    /\ PIDs' = left
    /\ warned' = warned
    /\ loops' = IF port THEN loops - 1 ELSE loops + 1
CountDown(fin, left) ==
    LET last == left # {} /\ loops - 1 < 2
        check == last /\ ~ warned
        fin2 == IF check THEN fin \cup GoneAmong(left) ELSE fin
    IN  /\ finished' = fin2
        /\ PIDs' = left
        /\ warned' = (warned \/ (check /\ left \ fin2 # {}))
        /\ loops' = IF last /\ ~ port THEN loops ELSE loops - 1

(* One iteration of the loop of shutdown_gracefully *)
MainPolls ==
    /\ main = "polling"
    /\ ~ AllFinished
    /\ loops # 0
    /\ channel' = IF channel = <<>> THEN channel ELSE Tail(channel)
    /\ IF channel = <<>> THEN CountDown(finished, PIDs)
       ELSE IF Head(channel) = "stop_process" THEN UNCHANGED pollVars
       ELSE CountDown(finished \cup {Head(channel)}, PIDs \ {Head(channel)})
    /\ UNCHANGED <<port, moduleVars, main, forced, stopSlips>>

MainLoopEnds ==
    /\ main = "polling"
    /\ AllFinished \/ loops = 0
    /\ main' = "killing"
    /\ UNCHANGED <<port, moduleVars, channel, pollVars, forced, stopSlips>>

(* kill -9 for everybody left in PIDs, then os._exit *)
LeftIfForced == IF forced THEN PIDs ELSE {}
Left == PIDs

KillRest ==
    /\ main = "killing"
    /\ proc' = [m \in Module |-> IF m \in Left \cap Alive
                                 THEN "killed" ELSE proc[m]]
    /\ main' = "exited"
    /\ UNCHANGED <<port, told, sigint, channel, pollVars, forced, stopSlips>>

-----------------------------------------------------------------------------
ModuleStep(m) ==
    \/ EndOfInput(m)
    \/ ReadStop(m)
    \/ Interrupted(m)
    \/ Closed(m)
    \/ InterruptedAgain(m)
    \/ Crash(m)

MainStep == MainInterrupted \/ MainPolls \/ MainLoopEnds \/ KillRest

Next ==
    \/ \E m \in Module : ModuleStep(m)
    \/ StopSlips
    \/ MainReads
    \/ MainIdle
    \/ CtrlC
    \/ CtrlCAgain
    \/ MainStep

(* Main's loop never blocks.  A module polls its channel, and the handler  *)
(* of a SIGINT runs to its end; nothing obliges the input to end, a module *)
(* to crash or the user to press Ctrl-C.                                   *)
Fairness ==
    /\ WF_vars(MainStep)
    /\ \A m \in Module : WF_vars(ReadStop(m) \/ Interrupted(m) \/ Closed(m))

Spec == Init /\ [][Next]_vars
FairSpec == Spec /\ Fairness

-----------------------------------------------------------------------------
TypeOK ==
    /\ port \in BOOLEAN
    /\ proc \in [Module -> ProcState]
    /\ told \subseteq Module
    /\ sigint \subseteq Module
    /\ channel \in Seq(Name \cup {"stop_process"})
    /\ main \in MainState
    /\ PIDs \subseteq Module
    /\ finished \subseteq Name
    /\ loops \in 0 .. MaxLoops
    /\ warned \in BOOLEAN
    /\ forced \in BOOLEAN
    /\ stopSlips \in 0 .. MaxStopSlips

-----------------------------------------------------------------------------
(* Properties *)

(* Main leaves no child behind: when it exits no module is running, though *)
(* it counts names it hears and not processes it waits for.                *)
NoOrphan == main = "exited" => Alive = {}

(* "Wait for all modules to confirm that they're done processing and then  *)
(* shutdown": a running module is killed only if the user insists, under   *)
(* -P, or if a stop_slips was counted as the end of a module.              *)
KilledOnlyIfForced ==
    (\E m \in Module : proc[m] = "killed")
        => forced \/ port \/ "stop_slips" \in finished

(* A module that died without Main knowing: its name was never published,  *)
(* or Main took it from the channel before it began to count.              *)
Unheard(m) ==
    /\ proc[m] = "zombie"
    /\ m \notin finished
    /\ \A i \in 1 .. Len(channel) : channel[i] # m

(* A shutdown ends unless a module is unheard, and under -P in any case:   *)
(* modules found dead and reaped are no reason to wait.                    *)
ShutdownEnds ==
    main = "polling" ~>
        (main = "exited" \/ (~ port /\ \E m \in Module : Unheard(m)))

-----------------------------------------------------------------------------
(* What a comment promises and the code does not keep *)

(* slips.py 402, "timeout variable so we don't loop forever".              *)
ShutdownTerminates == main = "polling" ~> main = "exited"
=============================================================================
