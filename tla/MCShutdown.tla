----------------------------- MODULE MCShutdown -----------------------------
(* One process of every kind: input is interrupted and ends by itself,     *)
(* evidence is interrupted and subscribed, may be dead before the last     *)
(* start and may crash, arp is a module like any other, and logs, which is *)
(* not always started, is interrupted and says nothing when it ends.       *)
EXTENDS Shutdown

CONSTANTS input, evidence, arp, logs

MCCore ==
    SelectSeq(<<evidence, input, logs>>, LAMBDA m : m \in Module)
=============================================================================
