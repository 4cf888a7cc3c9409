----------------------------- MODULE ScanReports -----------------------------
(***************************************************************************)
(* What portscan_detector promises of one kind of scan: it reports amounts *)
(* of targets, each a multiple of the threshold, each larger than those it *)
(* has reported before, and never more than were really tried.  How it     *)
(* learns of the targets, and how late, is not its promise.                *)
(***************************************************************************)
EXTENDS Integers, Sequences, FiniteSets

CONSTANTS
    Key,        \* what is counted for: a port, or an address
    Target,
    Threshold

VARIABLES
    targets,    \* key -> targets tried
    reported    \* key -> the amounts reported, in their order

scanVars == <<targets, reported>>

ScanInit ==
    /\ targets = [k \in Key |-> {}]
    /\ reported = [k \in Key |-> <<>>]

Try(k, t) ==
    /\ targets' = [targets EXCEPT ![k] = @ \cup {t}]
    /\ UNCHANGED reported

Report(k, n) ==
    /\ n % Threshold = 0
    /\ \A i \in 1..Len(reported[k]) : reported[k][i] < n
    /\ n <= Cardinality(targets[k])
    /\ reported' = [reported EXCEPT ![k] = Append(@, n)]
    /\ UNCHANGED targets

ScanNext ==
    \E k \in Key :
        \/ \E t \in Target : Try(k, t)
        \/ \E n \in 1..Cardinality(Target) : Report(k, n)

ScanSpec == ScanInit /\ [][ScanNext]_scanVars

(* No scan is reported more often than once per Threshold of its targets.  *)
SeldomReported ==
    \A k \in Key : Len(reported[k]) * Threshold <= Cardinality(targets[k])
=============================================================================
