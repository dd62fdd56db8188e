-------------------------- MODULE MCProgramCamera --------------------------
(* ProgramCamera for TLC; the values are in the configurations.            *)
EXTENDS ProgramCamera

CONSTANTS canon, link, page
=============================================================================
