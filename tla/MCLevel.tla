------------------------------- MODULE MCLevel -------------------------------
(* One square metre with the levels of the shipped configuration.             *)
EXTENDS NoiseLevel
=============================================================================
