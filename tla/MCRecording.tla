----------------------------- MODULE MCRecording -----------------------------
(* Instances of Recording for TLC.                                         *)
EXTENDS Recording

CONSTANTS h264, av1

OneCodec == {h264}
TwoCodecs == {h264, av1}
=============================================================================
