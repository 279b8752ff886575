------------------------------- MODULE MCRing -------------------------------
(* Small rings for TLC.  Timestamps start in the middle of a lap, as epoch *)
(* times do, and run over several laps.                                    *)
EXTENDS RingBuffer

CONSTANT MaxTime    \* bound on the timestamps callers use

Times == 0 .. MaxTime
=============================================================================
