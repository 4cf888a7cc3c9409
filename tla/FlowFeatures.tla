---------------------------- MODULE FlowFeatures ----------------------------
(***************************************************************************)
(* What ProfilerProcess stores of a flow: the letters of its tuple, its    *)
(* addresses, its ports and the flow itself, one command of the database   *)
(* after the other, for the profile it goes out of and, when the direction *)
(* is "all", for the profile it goes in to.  Every one of the first four   *)
(* announces on tw_modified that the window has changed, so the detectors  *)
(* see a window while the features of a flow are half stored.              *)
(*                                                                         *)
(* A flow is [uid, saddr, daddr, sport, dport, proto, flags, tw, ts, dur,  *)
(* bytes, pkts, dpkts]; dur and bytes are the classes of the duration and  *)
(* the size that a letter tells apart, tw is the number of the window.  A  *)
(* window of a profile is <<address, tw>>.  Times are whole seconds, and   *)
(* none is 0.                                                              *)
(***************************************************************************)
EXTENDS Integers, Sequences, FiniteSets, TLC, SequencesExt

CONSTANTS
    Flow,               \* flows the input may give
    analysis_direction, \* "out" or "all"
    MaxFlows            \* bound: flows read

ASSUME FlowFeaturesAssumption ==
    /\ analysis_direction \in {"out", "all"}
    /\ MaxFlows \in Nat
    /\ \A f \in Flow : f.ts \in Nat \ {0} /\ f.pkts \in Nat /\ f.dpkts \in Nat

VARIABLES
    seen,       \* history: flows read, in their order
    todo,       \* what is left to store of the last one: <<role, feature>>
    tuples,     \* [window, role, id] -> [letters, times]
    contacts,   \* [window, role, ip] -> flows
    ips,        \* [window, role, proto, state, ip] -> port -> packets back
    ports,      \* [window, role, type, proto, state, port] -> ip -> packets
    flows,      \* [window, uid] of the flows stored
    new_flow,   \* messages of that channel
    tw_modified,\* messages of that channel not yet read by portscan_detector
    new_letters \* tuple -> number of characters last announced

tables == <<tuples, contacts, ips, ports>>
featureVars == <<seen, todo, tables, flows, new_flow, tw_modified, new_letters>>

(* A hash of redis, or a dictionary: a function on the keys it has         *)
Nothing == [k \in {} |-> 0]
At(hash, k, default) == IF k \in DOMAIN hash THEN hash[k] ELSE default
Put(hash, k, v) == [j \in DOMAIN hash \cup {k} |-> IF j = k THEN v ELSE hash[j]]

FeaturesInit ==
    /\ seen = <<>>
    /\ todo = <<>>
    /\ tuples = Nothing
    /\ contacts = Nothing
    /\ ips = Nothing
    /\ ports = Nothing
    /\ flows = {}
    /\ new_flow = <<>>
    /\ tw_modified = <<>>
    /\ new_letters = Nothing

-----------------------------------------------------------------------------
(* The state of a connection                                               *)

NotEstablishedZeek == {"S0", "REJ", "RSTOS0", "RSTRH", "SH", "SHR"}
EstablishedZeek == {"S1", "SF", "S2", "S3", "RSTO", "OTH"}

(* flags: [word, pre, suf]; word is a state that is one word, or "flags"   *)
(* when argus gives the sets of letters pre and suf of both ends; suf is   *)
(* {} when there is only one.  RSTR, of zeek, is in neither list above: it *)
(* is judged like the RST of argus.                                        *)
getFinalStateFromFlags(flags, pkts) ==
    LET Both(letters) == letters \subseteq flags.pre /\ letters \subseteq flags.suf
    IN  CASE flags.word \in {"new", "established"} \cup EstablishedZeek -> "Established"
          [] flags.word \in {"closed", "INT"} \cup NotEstablishedZeek -> "NotEstablished"
          [] flags.word \in {"ECO", "ECR", "URH", "URP"} /\ flags.suf # {} -> "ICMP"
          [] flags.word \in {"ECO", "UNK", "CON", "EST"} /\ flags.suf = {} -> "Established"
          [] flags.word \in {"RST", "RSTR", "FIN"} ->
                IF pkts <= 3 THEN "NotEstablished" ELSE "Established"
          [] OTHER -> IF Both({"S", "A"}) \/ Both({"P", "A"})
                      THEN "Established" ELSE "NotEstablished"

-----------------------------------------------------------------------------
(* The letters of the behavioral model *)

tto == 3600

(* How regular the last two intervals are, 1 the most.  An interval that   *)
(* is zero or negative makes the flow strongly periodic.                   *)
compute_periodicity(T1, T2) ==
    LET big == IF T2 >= T1 THEN T2 ELSE T1
        small == IF T2 >= T1 THEN T1 ELSE T2
    IN  CASE small <= 0 \/ 20 * big <= 21 * small -> 1
          [] small > 0 /\ 20 * big > 21 * small /\ 10 * big <= 13 * small -> 2
          [] small > 0 /\ 10 * big > 13 * small /\ big <= 5 * small -> 3
          [] small > 0 /\ big > 5 * small -> 4

compute_timechar(T2) ==
    CASE T2 <= 5 -> "."
      [] T2 > 5 /\ T2 <= 60 -> ","
      [] T2 > 60 /\ T2 <= 300 -> "+"
      [] T2 > 300 /\ T2 <= 3600 -> "*"
      [] OTHER -> ""

(* A symbol: zeros for the hours passed, a letter that stands for the      *)
(* three classes, and a mark for the interval.  times: the last two        *)
(* timestamps of the tuple, 0 for the False of the code.                   *)
compute_symbol(f, times) ==
    LET T1 == times[2] - times[1]
        T2 == f.ts - times[2]
        twice == times[1] # 0 /\ times[2] # 0
    IN  [zeros |-> IF twice /\ T2 >= tto THEN T2 \div tto ELSE 0,
         letter |-> <<IF twice THEN compute_periodicity(T1, T2) ELSE -1, f.bytes, f.dur>>,
         timechar |-> IF times[2] = 0 THEN "" ELSE compute_timechar(T2)]

Length(symbol) == symbol.zeros + 1 + IF symbol.timechar = "" THEN 0 ELSE 1
Characters(letters) == FoldLeft(LAMBDA n, s : n + Length(s), 0, letters)

-----------------------------------------------------------------------------
(* One flow *)

Current == Last(seen)
StateOf(f) == getFinalStateFromFlags(f.flags, f.pkts)
WindowOf(f, role) == <<IF role = "Client" THEN f.saddr ELSE f.daddr, f.tw>>
PeerOf(f, role) == IF role = "Client" THEN f.daddr ELSE f.saddr
TupleKey(f, role) ==
    [window |-> WindowOf(f, role), role |-> role,
     id |-> <<PeerOf(f, role), f.dport, f.proto>>]

Features(role) == [i \in 1..5 |-> <<role, <<"tuple", "ips", "dport", "sport", "flow">>[i]>>]
AllFeatures ==
    Features("Client") \o IF analysis_direction = "all" THEN Features("Server") ELSE <<>>

(* A line has been read, parsed, and is not whitelisted *)
ReadFlow(f) ==
    /\ todo = <<>>
    /\ Len(seen) < MaxFlows
    /\ seen' = Append(seen, f)
    /\ todo' = AllFeatures
    /\ UNCHANGED <<tables, flows, new_flow, tw_modified, new_letters>>

(* The feature at hand is stored, and the next one comes *)
Storing(role, feature) ==
    /\ todo # <<>>
    /\ Head(todo) = <<role, feature>>
    /\ todo' = Tail(todo)
    /\ UNCHANGED seen

markProfileTWAsModified(w) == tw_modified' = Append(tw_modified, w)

(* The last two timestamps of a tuple, after one more flow *)
FirstTimes(times, ts) == <<times[1], ts>>

NewTimes(times, ts) == <<times[2], ts>>

(* compute_symbol reads the two timestamps that add_tuple then replaces    *)
add_tuple(role) ==
    LET k == TupleKey(Current, role)
        old == At(tuples, k, [letters |-> <<>>, times |-> <<0, 0>>])
        new == Append(old.letters, compute_symbol(Current, old.times))
    IN  /\ Storing(role, "tuple")
        /\ tuples' = Put(tuples, k, [letters |-> new, times |-> NewTimes(old.times, Current.ts)])
        /\ new_letters' = IF k \in DOMAIN tuples /\ Characters(new) % 3 = 0
                          THEN Put(new_letters, k, Characters(new)) ELSE new_letters
        /\ markProfileTWAsModified(k.window)
        /\ UNCHANGED <<contacts, ips, ports, flows, new_flow>>

(* n more of k in the dictionary kept for an address or a port *)
CountedAnew(inner, k, n) == Put(Nothing, k, n)

Counted(inner, k, n) == Put(inner, k, At(inner, k, 0) + n)

add_ips(role) ==
    LET w == WindowOf(Current, role)
        ip == PeerOf(Current, role)
        c == [window |-> w, role |-> role, ip |-> ip]
        k == [window |-> w, role |-> role, proto |-> Current.proto,
              state |-> StateOf(Current), ip |-> ip]
        dstports == At(ips, k, Nothing)
    IN  /\ Storing(role, "ips")
        /\ contacts' = Counted(contacts, c, 1)
        /\ ips' = Put(ips, k, Counted(dstports, Current.dport, Current.dpkts))
        /\ markProfileTWAsModified(w)
        /\ UNCHANGED <<tuples, ports, flows, new_flow, new_letters>>

(* The address is the destination whatever the role is *)
add_port(role, port_type) ==
    LET w == WindowOf(Current, role)
        k == [window |-> w, role |-> role, type |-> port_type, proto |-> Current.proto,
              state |-> StateOf(Current),
              port |-> IF port_type = "Dst" THEN Current.dport ELSE Current.sport]
        pkts == At(ports, k, Nothing)
    IN  /\ Storing(role, IF port_type = "Dst" THEN "dport" ELSE "sport")
        /\ ports' = Put(ports, k, Counted(pkts, Current.daddr, Current.pkts))
        /\ markProfileTWAsModified(w)
        /\ UNCHANGED <<tuples, contacts, ips, flows, new_flow, new_letters>>

(* A flow whose uid the window has already replaces it in silence *)
add_flow(role) ==
    LET k == [window |-> WindowOf(Current, role), uid |-> Current.uid]
    IN  /\ Storing(role, "flow")
        /\ flows' = flows \cup {k}
        /\ new_flow' = IF k \in flows THEN new_flow ELSE Append(new_flow, k)
        /\ UNCHANGED <<tables, tw_modified, new_letters>>

StoreFeature ==
    \E role \in {"Client", "Server"} :
        \/ add_tuple(role)
        \/ add_ips(role)
        \/ \E port_type \in {"Dst", "Src"} : add_port(role, port_type)
        \/ add_flow(role)

FeaturesNext == (\E f \in Flow : ReadFlow(f)) \/ StoreFeature
=============================================================================
