---------------------------- MODULE TimeWindows ----------------------------
(***************************************************************************)
(* How the ProfilerProcess places flows in the time windows of profiles.   *)
(*                                                                         *)
(* The sorted set tws<profileid> of redis maps the number of each          *)
(* timewindow<n> to its start.  get_timewindow finds the window a flow     *)
(* belongs to; flows arrive in any order, so it may have to append windows *)
(* after the last one or prepend windows before the first, numbered        *)
(* downwards through 0 to negative numbers.  Only the ProfilerProcess      *)
(* writes these sets, one flow at a time, so a flow is one step.           *)
(*                                                                         *)
(* Times are integers here and floats in the code; a profile is named by   *)
(* its address.                                                            *)
(***************************************************************************)
EXTENDS Integers, FiniteSets

CONSTANTS
    Address,       \* addresses, and so profiles
    Time,          \* start times of flows
    Width,         \* widths of a time window to choose from
    OnlyOneTW,     \* the width that stands for only_one_tw: 9999999999
    Century,       \* 31536000 * 100
    HomeNet,       \* home networks to choose from, {} for none
    MaxFlows       \* bound: flows of a behavior

ASSUME TimeWindowsAssumption ==
    /\ Time \subseteq Int
    /\ Width \subseteq Nat \ {0}
    /\ OnlyOneTW \in Nat \ {0}
    /\ Century \in Nat
    /\ Century < OnlyOneTW
    /\ HomeNet \subseteq SUBSET Address
    /\ MaxFlows \in Nat

VARIABLES
    config,       \* width, home_network and analysis_direction, read once
    tws,          \* address -> the sorted set tws<profileid>
    profiles,     \* the set profiles
    flows         \* history: the flows and the window each was stored in

vars == <<config, tws, profiles, flows>>

Config == [width : Width, homeNet : HomeNet, direction : {"out", "all"}]
Flow == [profile : Address, time : Time, tw : Int]

NoWindows == [i \in {} |-> 0]

-----------------------------------------------------------------------------
(* The queries on the sorted set *)

(* getLastTWforProfile and getFirstTWforProfile: zrange by score *)
LastTW(f) == CHOOSE i \in DOMAIN f : \A j \in DOMAIN f : f[j] <= f[i]
FirstTW(f) == CHOOSE i \in DOMAIN f : \A j \in DOMAIN f : f[i] <= f[j]

(* getTWofTime: of the windows that start at time t or before, the last *)
StartedBy(f, t) == {i \in DOMAIN f : f[i] <= t}
TWofTime(f, t) ==
    CHOOSE i \in StartedBy(f, t) : \A j \in StartedBy(f, t) : f[j] <= f[i]

(* zadd of the windows of g, one score per member *)
Zadd(f, g) ==
    [i \in DOMAIN f \cup DOMAIN g |-> IF i \in DOMAIN g THEN g[i] ELSE f[i]]

-----------------------------------------------------------------------------
(* get_timewindow, with the width w *)

End(f, w) == f[LastTW(f)] + w

(* Where the first window of a profile starts *)
FirstStart(t, w) == IF w = OnlyOneTW THEN t - Century ELSE t

(* amount_of_new_tw + 1 windows after the last one *)
AmountMissingOne(f, t, w) == (t - End(f, w)) \div w
NewerAmount(f, t, w) == (t - End(f, w)) \div w + 1

NewerTWs(f, t, w) ==
    [i \in LastTW(f) + 1 .. LastTW(f) + NewerAmount(f, t, w) |->
       End(f, w) + (i - LastTW(f) - 1) * w]

(* diff + 1 windows before the first one *)
OlderAmount(f, t, w) == (End(f, w) - t) \div w - Cardinality(DOMAIN f) + 1

OverlappingTWs(f, t, w) ==
    [i \in FirstTW(f) - OlderAmount(f, t, w) .. FirstTW(f) - 1 |->
       f[FirstTW(f)] - (FirstTW(f) - 1 - i) * w]
RenumberedTWs(f, t, w) ==
    [i \in FirstTW(f) - OlderAmount(f, t, w) + 1 .. FirstTW(f) |->
       f[FirstTW(f)] - (FirstTW(f) + 1 - i) * w]
OlderTWs(f, t, w) ==
    [i \in FirstTW(f) - OlderAmount(f, t, w) .. FirstTW(f) - 1 |->
       f[FirstTW(f)] - (FirstTW(f) - i) * w]

(* The sorted set after get_timewindow, and the window it returns *)
TWsWith(f, t, w) ==
    IF f = NoWindows THEN [i \in {1} |-> FirstStart(t, w)]
    ELSE IF End(f, w) <= t THEN Zadd(f, NewerTWs(f, t, w))
    ELSE IF StartedBy(f, t) = {} THEN Zadd(f, OlderTWs(f, t, w))
    ELSE f

TWofOldFlow(f, t, w) ==
    IF StartedBy(f, t) = {} THEN FirstTW(f) - OlderAmount(f, t, w)
    ELSE TWofTime(f, t)

GetTimewindow(f, t, w) ==
    IF f = NoWindows THEN 1
    ELSE IF End(f, w) <= t THEN LastTW(f) + NewerAmount(f, t, w)
    ELSE IF f[LastTW(f)] <= t THEN LastTW(f)
    ELSE TWofOldFlow(f, t, w)

-----------------------------------------------------------------------------
(* add_flow_to_profile *)

(* Which of the two profiles of a flow the analysis stores features for;   *)
(* the window of the source is looked up, and created, in any case.        *)
InHome(a) == config.homeNet = {} \/ a \in config.homeNet
StoresOutAlways(s) == TRUE
StoresOut(s) == InHome(s)
StoresIn(d) == config.direction = "all" /\ InHome(d)

(* addProfile: should_add lets only the home network in *)
Addable(A) == {a \in A : InHome(a)}

StoredAtStart(a, f, t) ==
    [profile |-> a,
     time |-> IF f = NoWindows THEN FirstStart(t, config.width) ELSE t,
     tw |-> GetTimewindow(f, t, config.width)]
Stored(a, f, t) ==
    [profile |-> a, time |-> t, tw |-> GetTimewindow(f, t, config.width)]

(* The window of the source; addProfile of the source if its features are  *)
(* stored; then, in get_rev_profile, the same for the destination.         *)
AddFlow(s, d, t) ==
    LET out == [tws EXCEPT ![s] = TWsWith(tws[s], t, config.width)]
        in == [out EXCEPT ![d] = TWsWith(out[d], t, config.width)]
        stored == (IF StoresOut(s) THEN {Stored(s, tws[s], t)} ELSE {})
                  \cup (IF StoresIn(d) THEN {Stored(d, out[d], t)} ELSE {})
    IN  /\ Cardinality(flows) + 2 <= MaxFlows
        /\ tws' = IF StoresIn(d) THEN in ELSE out
        /\ profiles' = profiles
                         \cup (IF StoresOut(s) THEN Addable({s}) ELSE {})
                         \cup (IF StoresIn(d) THEN Addable({d}) ELSE {})
        /\ flows' = flows \cup stored
        /\ UNCHANGED config

Init ==
    /\ config \in Config
    /\ tws = [a \in Address |-> NoWindows]
    /\ profiles = {}
    /\ flows = {}

Next == \E s, d \in Address, t \in Time : AddFlow(s, d, t)

Spec == Init /\ [][Next]_vars

-----------------------------------------------------------------------------
(* Properties *)

TypeOK ==
    /\ config \in Config
    /\ \A a \in Address : /\ DOMAIN tws[a] \subseteq Int
                          /\ \A i \in DOMAIN tws[a] : tws[a][i] \in Int
    /\ DOMAIN tws = Address
    /\ profiles \subseteq Address
    /\ flows \subseteq Flow

(* The windows of a profile are numbered without a gap and in the order of *)
(* their starts, and each begins where the one before it ends: whatever    *)
(* the order of the flows, the empty windows in the middle are created.    *)
Contiguous ==
    \A a \in Address : \A i, j \in DOMAIN tws[a] :
        /\ i .. j \subseteq DOMAIN tws[a]
        /\ tws[a][j] - tws[a][i] = (j - i) * config.width

(* Window i of f covers the time t: it has started, and not ended.  The    *)
(* end itself is allowed to windows below 0 only: for a flow a whole       *)
(* multiple of the width before the first window get_timewindow makes one  *)
(* window too many (profilerProcess.py 2931-2941), two or more before the  *)
(* first, and the flow is stored in that one.                              *)
Covers(f, i, t, w) ==
    /\ i \in DOMAIN f
    /\ f[i] <= t
    /\ t < f[i] + w \/ (i < 0 /\ t = f[i] + w)

(* Every flow is stored in a window that exists and covers its time: for   *)
(* windows 0 and up, and for times that are no boundary, exactly.          *)
FlowInWindow ==
    \A x \in flows : Covers(tws[x.profile], x.tw, x.time, config.width)

(* Features are stored only for registered profiles, and these belong to   *)
(* the home network if there is one.                                       *)
FlowsOfProfiles ==
    \A x \in flows : /\ x.profile \in profiles
                     /\ InHome(x.profile)

(* A window once created keeps its number and its start.                   *)
WindowsNeverMove ==
    [][\A a \in Address : \A i \in DOMAIN tws[a] :
         i \in DOMAIN tws'[a] /\ tws'[a][i] = tws[a][i]]_vars

=============================================================================
