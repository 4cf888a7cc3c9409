--------------------------- MODULE WindowClosing ---------------------------
(***************************************************************************)
(* How Slips closes the time windows nobody writes any more, and how Main  *)
(* notices that nothing happens.                                           *)
(*                                                                         *)
(* markProfileTWAsModified puts a window in the sorted set ModifiedTW with *)
(* the time of the clock, and then calls check_TW_to_close, as Main does   *)
(* every check_time_sleep seconds: the windows modified 20 seconds before  *)
(* slips_internal_time are removed and announced on tw_closed.  The        *)
(* internal time is the last modification Main has seen.  Each redis       *)
(* command is one step; ProfilerProcess, timeline and Main execute theirs  *)
(* at the same time, without a lock.                                       *)
(*                                                                         *)
(* Times are integers.  A profileid_twid key is a member of ProfTW.        *)
(***************************************************************************)
EXTENDS Integers, FiniteSets

CONSTANTS
    ProfTW,      \* profileid_twid keys
    Marker,      \* processes that mark windows: ProfilerProcess, timeline
    Main,        \* slips.py
    Age,         \* 20
    Interval,    \* check_time_sleep: 5
    Patience,    \* limit_minimum_intervals_to_wait: 4
    Finite,      \* whether the input is a file that ends (set of choices)
    MaxTime,     \* bound: the clock, after which Main does not sleep
    MaxMarks     \* bound: marks of a window, reached by each marker

ASSUME ClosingAssumption ==
    /\ Main \notin Marker
    /\ Age \in Nat \ {0}
    /\ Interval \in Nat \ {0}
    /\ Patience \in Nat
    /\ Finite \subseteq BOOLEAN
    /\ MaxTime \in Nat
    /\ MaxMarks \in Nat

VARIABLES
    now,                  \* time.time()
    finite,               \* whether Main may stop by itself
    ModifiedTW,           \* the sorted set: window -> its score
    ClosedTW,             \* the set ClosedTW
    slips_internal_time,
    proc,                 \* process -> control point and locals
    main,                 \* locals of the loop of Main
    marks,                \* history: window -> how often it was marked
    closings              \* history: process -> window -> tw_closed sent

vars == <<now, finite, ModifiedTW, ClosedTW, slips_internal_time, proc, main,
          marks, closings>>
store == <<ModifiedTW, ClosedTW, slips_internal_time>>
history == <<marks, closings>>

Process == Marker \cup {Main}
Time == 0 .. MaxTime

(* time is the timestamp of a mark, or the internal time of a check; todo  *)
(* the windows a check has still to close, tw the one in hand.             *)
Idle == [pc |-> "idle"]
ProcState ==
    {Idle}
    \cup [pc : {"zadd"}, tw : ProfTW, time : Time]
    \cup [pc : {"check", "stopped", "since", "count"}]
    \cup [pc : {"settime"}, time : Time]
    \cup [pc : {"range"}, time : Time]
    \cup [pc : {"close"}, todo : SUBSET ProfTW]
    \cup [pc : {"zrem", "tell"}, todo : SUBSET ProfTW, tw : ProfTW]

At(p, pc) == proc[p].pc = pc
Goto(p, state) == proc' = [proc EXCEPT ![p] = state]

-----------------------------------------------------------------------------
(* The sorted set *)

Zadd(f, w, t) ==
    [x \in DOMAIN f \cup {w} |-> IF x = w THEN t ELSE f[x]]
ZremNothing(f, w) == f
ZremOlder(f, w) ==
    [x \in {y \in DOMAIN f : w \in DOMAIN f /\ f[y] > f[w]} |-> f[x]]
Zrem(f, w) == [x \in DOMAIN f \ {w} |-> f[x]]

(* zrangebyscore from 0 to the internal time less Age *)
ToCloseOlder(f, sit) == {w \in DOMAIN f : f[w] < sit - Age}
ToClose(f, sit) == {w \in DOMAIN f : f[w] <= sit - Age}

(* zrangebyscore from the internal time + 1 on *)
Since(f, sit) == {w \in DOMAIN f : f[w] >= sit + 1}

Latest(f, S) == f[CHOOSE w \in S : \A x \in S : f[x] <= f[w]]

-----------------------------------------------------------------------------
Init ==
    /\ now = 0
    /\ finite \in Finite
    /\ ModifiedTW = [w \in {} |-> 0]
    /\ ClosedTW = {}
    /\ slips_internal_time = 0
    /\ proc = [p \in Process |-> Idle]
    /\ main = [wake |-> Interval, wait |-> Patience, quiet |-> TRUE]
    /\ marks = [w \in ProfTW |-> 0]
    /\ closings = [p \in Process |-> [w \in ProfTW |-> 0]]

Tick ==
    /\ now < MaxTime
    /\ now' = now + 1
    /\ UNCHANGED <<finite, store, proc, main, history>>

-----------------------------------------------------------------------------
(* markProfileTWAsModified: the time it was given is dropped *)
MarkModified(p, w) ==
    /\ p \in Marker
    /\ proc[p] = Idle
    /\ marks[w] < MaxMarks
    /\ Goto(p, [pc |-> "zadd", tw |-> w, time |-> now])
    /\ UNCHANGED <<now, finite, store, main, history>>

StoreModified(p) ==
    /\ At(p, "zadd")
    /\ ModifiedTW' = Zadd(ModifiedTW, proc[p].tw, proc[p].time)
    /\ marks' = [marks EXCEPT ![proc[p].tw] = @ + 1]
    /\ Goto(p, [pc |-> "check"])
    /\ UNCHANGED <<now, finite, ClosedTW, slips_internal_time, main, closings>>

-----------------------------------------------------------------------------
(* check_TW_to_close *)

ReadInternalTime(p) ==
    /\ At(p, "check")
    /\ Goto(p, [pc |-> "range", time |-> slips_internal_time])
    /\ UNCHANGED <<now, finite, store, main, history>>

ReadOldWindows(p) ==
    /\ At(p, "range")
    /\ Goto(p, [pc |-> "close", todo |-> ToClose(ModifiedTW, proc[p].time)])
    /\ UNCHANGED <<now, finite, store, main, history>>

(* markProfileTWAsClosed: sadd, zrem and publish *)
AddClosed(p) ==
    /\ At(p, "close")
    /\ \E w \in proc[p].todo :
         /\ ClosedTW' = ClosedTW \cup {w}
         /\ Goto(p, [pc |-> "zrem", todo |-> proc[p].todo \ {w}, tw |-> w])
    /\ UNCHANGED <<now, finite, ModifiedTW, slips_internal_time, main,
                   history>>

RemoveModified(p) ==
    /\ At(p, "zrem")
    /\ ModifiedTW' = Zrem(ModifiedTW, proc[p].tw)
    /\ Goto(p, [proc[p] EXCEPT !.pc = "tell"])
    /\ UNCHANGED <<now, finite, ClosedTW, slips_internal_time, main, history>>

AnnounceClosed(p) ==
    /\ At(p, "tell")
    /\ closings' = [closings EXCEPT ![p][proc[p].tw] = @ + 1]
    /\ Goto(p, [pc |-> "close", todo |-> proc[p].todo])
    /\ UNCHANGED <<now, finite, store, main, marks>>

CheckDone(p) ==
    /\ At(p, "close")
    /\ proc[p].todo = {}
    /\ Goto(p, IF p = Main THEN [pc |-> "count"] ELSE Idle)
    /\ UNCHANGED <<now, finite, store, main, history>>

-----------------------------------------------------------------------------
(* The loop of Main *)

MainWakes ==
    /\ proc[Main] = Idle
    /\ now >= main.wake \/ now = MaxTime
    /\ Goto(Main, [pc |-> "since"])
    /\ UNCHANGED <<now, finite, store, main, history>>

(* getModifiedProfilesSince(slips_internal_time + 1).  Only Main writes    *)
(* the internal time, so reading it and the set are one step.              *)
MainReadsModified ==
    /\ At(Main, "since")
    /\ LET S == Since(ModifiedTW, slips_internal_time)
       IN  /\ main' = [main EXCEPT !.quiet = S = {}]
           /\ Goto(Main, IF S = {} THEN [pc |-> "check"]
                         ELSE [pc |-> "settime",
                               time |-> Latest(ModifiedTW, S)])
    /\ UNCHANGED <<now, finite, store, history>>

MainSetsTime ==
    /\ At(Main, "settime")
    /\ slips_internal_time' = proc[Main].time
    /\ Goto(Main, [pc |-> "check"])
    /\ UNCHANGED <<now, finite, ModifiedTW, ClosedTW, main, history>>

(* minimum_intervals_to_wait, for an input that ends *)
CountingDown(m) == m.wait - 1
Counting(m) == IF m.quiet THEN m.wait - 1 ELSE Patience

MainCounts ==
    /\ At(Main, "count")
    /\ IF finite /\ main.quiet /\ main.wait = 0
       THEN Goto(Main, [pc |-> "stopped"]) /\ UNCHANGED main
       ELSE /\ Goto(Main, Idle)
            /\ main' = [wake |-> now + Interval, quiet |-> TRUE,
                        wait |-> IF finite THEN Counting(main) ELSE Patience]
    /\ UNCHANGED <<now, finite, store, history>>

-----------------------------------------------------------------------------
Check(p) ==
    \/ ReadInternalTime(p)
    \/ ReadOldWindows(p)
    \/ AddClosed(p)
    \/ RemoveModified(p)
    \/ AnnounceClosed(p)
    \/ CheckDone(p)

MainStep ==
    \/ MainWakes
    \/ MainReadsModified
    \/ MainSetsTime
    \/ MainCounts

Next ==
    \/ Tick
    \/ \E p \in Marker, w \in ProfTW : MarkModified(p, w)
    \/ \E p \in Marker : StoreModified(p)
    \/ \E p \in Process : Check(p)
    \/ MainStep

(* Time passes, a process finishes the check it has begun, and Main's loop *)
(* goes on; nothing obliges anybody to mark a window.                      *)
Fairness ==
    /\ WF_vars(Tick)
    /\ WF_vars(MainStep)
    /\ \A p \in Process : WF_vars(Check(p))

Spec == Init /\ [][Next]_vars
FairSpec == Spec /\ Fairness

-----------------------------------------------------------------------------
TypeOK ==
    /\ now \in Time
    /\ finite \in BOOLEAN
    /\ DOMAIN ModifiedTW \subseteq ProfTW
    /\ \A w \in DOMAIN ModifiedTW : ModifiedTW[w] \in Time
    /\ ClosedTW \subseteq ProfTW
    /\ slips_internal_time \in Time
    /\ proc \in [Process -> ProcState]
    /\ main \in [wake : Nat, wait : 0 .. Patience, quiet : BOOLEAN]
    /\ marks \in [ProfTW -> Nat]
    /\ closings \in [Process -> [ProfTW -> Nat]]

-----------------------------------------------------------------------------
(* Properties *)

InHand(p, w) == proc[p].pc \in {"zrem", "tell"} /\ proc[p].tw = w

(* No window that was ever marked escapes: it is still to be looked at, or *)
(* closed, and what is closed has been announced or is about to be.        *)
NoneForgotten ==
    \A w \in ProfTW :
        /\ marks[w] > 0 => w \in DOMAIN ModifiedTW \cup ClosedTW
        /\ w \in ClosedTW =>
             \E p \in Process : closings[p][w] > 0 \/ InHand(p, w)

(* Processes may close the same window at once, but none of them announces *)
(* a window more often than it was marked.                                 *)
ClosedOncePerMark ==
    \A p \in Process, w \in ProfTW : closings[p][w] <= marks[w]

(* A window that is old for the internal time is closed or marked again,   *)
(* while Main runs.                                                        *)
OldIn(w) == /\ w \in DOMAIN ModifiedTW
            /\ ModifiedTW[w] + Age <= slips_internal_time

OldWindowsClose ==
    \A w \in ProfTW :
        OldIn(w) ~> (~ OldIn(w) \/ At(Main, "stopped"))
=============================================================================
