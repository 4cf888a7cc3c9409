---------------------------- MODULE EvidenceStore ----------------------------
(***************************************************************************)
(* What the evidence store promises for time windows with one writer: that *)
(* it is a set to which evidence is added and from which nothing is taken. *)
(* A description is announced once and stored after that; an alert stands  *)
(* on what is stored and reaches the threshold; a window is blocked after  *)
(* an alert of its own, and has no alert after that.  That reading and     *)
(* writing are commands of their own, without a lock, is not to be seen.   *)
(***************************************************************************)
CONSTANTS
    Window,
    Desc,
    Report,     \* what setEvidence is called for: [desc, ...]
    Enough      \* <<window, descriptions>> that reach the threshold

VARIABLES
    announced,  \* window -> reports that went to evidence_added
    stored,     \* window -> descriptions kept
    alerts,     \* [window, evidence]
    blocked     \* windows

storeVars == <<announced, stored, alerts, blocked>>

DescsOf(reports) == {r.desc : r \in reports}

StoreInit ==
    /\ announced = [w \in Window |-> {}]
    /\ stored = [w \in Window |-> {}]
    /\ alerts = {}
    /\ blocked = {}

Announce(w, r) ==
    /\ r.desc \notin DescsOf(announced[w])
    /\ announced' = [announced EXCEPT ![w] = @ \cup {r}]
    /\ UNCHANGED <<stored, alerts, blocked>>

Store(w, d) ==
    /\ d \in DescsOf(announced[w])
    /\ stored' = [stored EXCEPT ![w] = @ \cup {d}]
    /\ UNCHANGED <<announced, alerts, blocked>>

Alert(w, evidence) ==
    /\ evidence \subseteq stored[w]
    /\ <<w, evidence>> \in Enough
    /\ w \notin blocked
    /\ alerts' = alerts \cup {[window |-> w, evidence |-> evidence]}
    /\ UNCHANGED <<announced, stored, blocked>>

Block(w) ==
    /\ \E a \in alerts : a.window = w
    /\ blocked' = blocked \cup {w}
    /\ UNCHANGED <<announced, stored, alerts>>

StoreNext ==
    \E w \in Window :
        \/ \E r \in Report : Announce(w, r)
        \/ \E d \in Desc : Store(w, d)
        \/ \E evidence \in SUBSET Desc : Alert(w, evidence)
        \/ Block(w)

StoreSpec == StoreInit /\ [][StoreNext]_storeVars

(* What an alert stands on was announced, and stays in the store for       *)
(* whoever looks the alert up.                                             *)
AlertsKept ==
    \A a \in alerts : a.evidence \subseteq stored[a.window] \cap DescsOf(announced[a.window])
=============================================================================
