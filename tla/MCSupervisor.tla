---------------------------- MODULE MCSupervisor ----------------------------
(* Supervisor for TLC, on devices of both kinds; the values of the         *)
(* constants are in the configurations.                                    *)
EXTENDS Supervisor

CONSTANTS low, high, gpu, cpu
=============================================================================
