--------------------------- MODULE MCTimeWindows ---------------------------
(* One address of the home network and one outside, windows of three time  *)
(* units or a single one, and flows up to four widths apart.               *)
EXTENDS TimeWindows

CONSTANTS home, outside

MCTime == 0 .. 12
MCWidth == {3, OnlyOneTW}
MCHomeNet == {{}, {home}}
=============================================================================
