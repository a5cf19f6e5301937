-------------------------------- MODULE MCSim --------------------------------
(* The whole simulation: two or three sources on a few square metres.       *)
EXTENDS NoiseSim

Anything == SUBSET Cells
Eager == {"eager"}
=============================================================================
