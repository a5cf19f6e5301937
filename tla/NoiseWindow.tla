----------------------------- MODULE NoiseWindow -----------------------------
(***************************************************************************)
(* The readings a sensor keeps and what it publishes of them.  This part of *)
(* the IoT sensor (noise-sensor.c 266-320, 445-452) and of the virtual one  *)
(* (noise-simulated-sensor.c 275-318, 339-342, 460-467) is the same code.   *)
(***************************************************************************)
EXTENDS Integers, Functions

CONSTANTS
    MAX_WINDOW_SIZE,  \* readings kept
    AVG_THRESHOLD_DB  \* from this average on all of them are published

ASSUME WindowAssumption == MAX_WINDOW_SIZE \in Nat \ {0} /\ AVG_THRESHOLD_DB \in Nat

VARIABLES
    noise_values,  \* the readings, in a ring
    position       \* the place of the next one

windowVars == <<noise_values, position>>

Ring == 0 .. (MAX_WINDOW_SIZE - 1)

init_noise_values ==
    /\ position = 0
    /\ noise_values = [i \in Ring |-> 0]

\* "%.2f", in hundredths of a decibel.
publish_avg(sum) ==
    [mode |-> "avg", noise |-> <<(100 * sum + MAX_WINDOW_SIZE \div 2) \div MAX_WINDOW_SIZE>>]

\* In the order of the ring, not of the readings.
publish_raw(values) ==
    [mode |-> "raw", noise |-> [i \in 1 .. MAX_WINDOW_SIZE |-> 100 * values[i - 1]]]

publish_noise(values) ==
    IF SumFunction(values) < MAX_WINDOW_SIZE * AVG_THRESHOLD_DB
    THEN publish_avg(SumFunction(values))
    ELSE publish_raw(values)

\* Mutation: the last place of the ring is never used.
TakeReadingShort(noise) ==
    /\ noise_values' = [noise_values EXCEPT ![position] = noise]
    /\ position' = IF position + 2 >= MAX_WINDOW_SIZE THEN 0 ELSE position + 1

\* Mutation: the ring is not closed.
TakeReadingOn(noise) ==
    /\ noise_values' = [noise_values EXCEPT ![position] = noise]
    /\ position' = position + 1

\* noise_processing, around publish_noise.
TakeReading(noise) ==
    /\ noise_values' = [noise_values EXCEPT ![position] = noise]
    /\ position' = (position + 1) % MAX_WINDOW_SIZE
=============================================================================
