------------------------------ MODULE MCExport ------------------------------
(* A small exported tier for TLC.                                          *)
EXTENDS Export

CONSTANTS MinTime, MaxTime   \* bounds on the recorded timestamps

Times == MinTime .. MaxTime
=============================================================================
