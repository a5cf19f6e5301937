------------------------------ MODULE MCSensor ------------------------------
(* The sensor with a network that breaks, is slow, a broker that refuses or    *)
(* goes away.                                                                 *)
EXTENDS NoiseSensor

Anything == {"close", "slow", "refuse", "die"}
Unwelcome == {"refuse"}
Both == {"noise-sensor", "noise-simulated-sensor"}
IoT == {"noise-sensor"}
=============================================================================
