-------------------------- MODULE MCWindowClosing --------------------------
(* ProfilerProcess marks two windows, each at most twice.                  *)
EXTENDS WindowClosing

CONSTANTS profiler, slips, tw1, tw2
=============================================================================
