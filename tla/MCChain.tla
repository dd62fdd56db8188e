------------------------------ MODULE MCChain ------------------------------
(* Chain for TLC: two encoders, one sink of either kind, a few blocks of   *)
(* each track.  Formats are only compared: the second encoder's is the     *)
(* first one's, or differs in the size or in the parameter sets.           *)
EXTENDS Chain
CONSTANTS s1, small, large, plain, tuned
MCInit ==
  /\ Init
  /\ format[1] = [size |-> small, params |-> plain]
  /\ format[2].size = small \/ format[2].params = plain
=============================================================================
