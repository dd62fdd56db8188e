------------------------------- MODULE MCAdapt -------------------------------
(* AdaptController with four rungs and thresholds in the order of the      *)
(* defaults of AdaptConfig.                                                *)
EXTENDS AdaptController
=============================================================================
