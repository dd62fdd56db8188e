------------------------------ MODULE MCCutOver ------------------------------
(* CutOver for TLC: three generations, and as few blocks as let a cut      *)
(* complete, be given up and be overtaken by a death.                      *)
EXTENDS CutOver
=============================================================================
