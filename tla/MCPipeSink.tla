----------------------------- MODULE MCPipeSink -----------------------------
(* PipeSink for TLC: two children at a time, a queue of two items and two  *)
(* backoff delays.                                                         *)
EXTENDS PipeSink

CONSTANTS k1, k2

TwoDelays == <<1, 2>>
=============================================================================
