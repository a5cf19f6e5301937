----------------------------- MODULE NoiseLevel -----------------------------
(***************************************************************************)
(* The level of one square metre in one cycle, as a number of decibels:    *)
(* each rank adds up its sources that are heard there, one at a time       *)
(* (compute_noise_sqm), then rank 0, its owner, adds the ranks' levels in   *)
(* the order in which MPI_ANY_SOURCE delivers them.  sum_noises rounds to  *)
(* an integer every time, so the result depends on the order and drifts.   *)
(***************************************************************************)
EXTENDS Integers, FiniteSets, Functions

CONSTANTS
    world_size, \* number of MPI ranks
    P, V,       \* bound: people and vehicles heard on the square metre
    Np, Nv      \* their levels (simulation.cfg: 40 and 45 decibels)

Ranks == 0 .. (world_size - 1)

ASSUME LevelAssumption ==
    /\ world_size \in Nat \ {0}
    /\ P \in Nat /\ V \in Nat
    /\ Np \in 1 .. 180 /\ Nv \in Np .. 180

VARIABLES
    people, vehicles, \* how many of each rank's sources have been added
    noise_sqm,        \* the entry of each rank's matrix
    noise_level,      \* the owner's sum
    got               \* the ranks in the owner's sum

vars == <<people, vehicles, noise_sqm, noise_level, got>>

-----------------------------------------------------------------------------
\* Mutation: the sum is cut off instead of rounded.
GainFloor(d) == CASE d = 0 -> 3
                  [] d \in 1 .. 2 -> 2
                  [] d \in 3 .. 5 -> 1
                  [] d >= 6 -> 0

\* Mutation: only equal levels reinforce each other.
GainOfEquals(d) == IF d = 0 THEN 3 ELSE 0

\* round(10 * log10(10^(a/10) + 10^(b/10))) is the larger of a and b plus
\* round(10 * log10(1 + 10^(-d/10))), where d is their distance.
Gain(d) == CASE d <= 1 -> 3
             [] d \in 2 .. 3 -> 2
             [] d \in 4 .. 9 -> 1
             [] d >= 10 -> 0

sum_noises(noise1, noise2) ==
    IF noise1 = 0 THEN noise2
    ELSE IF noise2 = 0 THEN noise1
    ELSE IF noise1 >= noise2 THEN noise1 + Gain(noise1 - noise2)
    ELSE noise2 + Gain(noise2 - noise1)

Total(f) == SumFunction(f)

Init ==
    /\ people = [p \in Ranks |-> 0]
    /\ vehicles = [p \in Ranks |-> 0]
    /\ noise_sqm = [p \in Ranks |-> 0]
    /\ noise_level = 0
    /\ got = {}

\* compute_noise_sqm, source by source: the array of a rank has its people
\* before its vehicles.  A rank's level is complete before it is sent or stored.
AddPerson(p) ==
    /\ got = {}
    /\ vehicles[p] = 0
    /\ Total(people) < P
    /\ people' = [people EXCEPT ![p] = @ + 1]
    /\ noise_sqm' = [noise_sqm EXCEPT ![p] = sum_noises(@, Np)]
    /\ UNCHANGED <<vehicles, noise_level, got>>

AddVehicle(p) ==
    /\ got = {}
    /\ Total(vehicles) < V
    /\ vehicles' = [vehicles EXCEPT ![p] = @ + 1]
    /\ noise_sqm' = [noise_sqm EXCEPT ![p] = sum_noises(@, Nv)]
    /\ UNCHANGED <<people, noise_level, got>>

StartOwn ==
    /\ got = {}
    /\ noise_level' = noise_sqm[0]
    /\ got' = {0}
    /\ UNCHANGED <<people, vehicles, noise_sqm>>

Recv(p) ==
    /\ 0 \in got /\ p \notin got
    /\ noise_level' = sum_noises(noise_level, noise_sqm[p])
    /\ got' = got \cup {p}
    /\ UNCHANGED <<people, vehicles, noise_sqm>>

Done == got = Ranks

Next ==
    \/ \E p \in Ranks : AddPerson(p) \/ AddVehicle(p) \/ Recv(p)
    \/ StartOwn
    \/ Done /\ UNCHANGED vars

Spec == Init /\ [][Next]_vars

-----------------------------------------------------------------------------
\* The power of h half decibels, in thousandths; twenty of them are ten times
\* the power.
HalfDecibel ==
    <<1000, 1122, 1259, 1413, 1585, 1778, 1995, 2239, 2512, 2818,
      3162, 3548, 3981, 4467, 5012, 5623, 6310, 7079, 7943, 8913>>
Power[h \in Nat] == IF h < 20 THEN HalfDecibel[h + 1] ELSE 10 * Power[h - 20]

\* A level in half decibels, from so far below a person's that no property
\* looks further down.
Above(level) == 2 * (level - Np) + P + V + 3

Sources == Total(people) + Total(vehicles)
TotalPower == Total(people) * Power[Above(Np)] + Total(vehicles) * Power[Above(Nv)]

\* A level is within h half decibels of the level of a power.
Within(level, h, power) ==
    /\ Power[Above(level) - h] <= power
    /\ power <= Power[Above(level) + h]

\* Rounding after every addition keeps the level within one and a half
\* decibels of the level of the summed power, although no single addition of a
\* source 10 decibels below the sum changes it (noise_sim.c 209-220).
Accurate == Done /\ Sources > 0 => Within(noise_level, 3, TotalPower)

\* Whatever the number of sources, their ranks and the order of arrival, each
\* addition of sum_noises drifts by half a decibel at most: the errors of the
\* ranks' own sums and of the owner's sum never reinforce each other beyond
\* one rounding per source after the first (noise_sim.c 209-220, main.c 133-137).
BoundedDrift == Done /\ Sources > 0 => Within(noise_level, Sources - 1, TotalPower)

\* The sum in the order of the ranks.
InRankOrder ==
    LET upto[k \in 0 .. world_size] ==
            IF k = 0 THEN 0 ELSE sum_noises(upto[k - 1], noise_sqm[k - 1])
    IN  upto[world_size]

\* The order in which the messages happen to arrive changes the published
\* level by one decibel at most (main.c 133-137).
ArrivalOrder == Done => noise_level - InRankOrder \in -1 .. 1

\* The ranks of S that hear anything on the square metre.
Hearing(S) == {p \in S : noise_sqm[p] > 0}

\* Each rank that hears anything, after the first, moves the level by half a
\* decibel either way in each of two orders of arrival; a rank that hears
\* nothing can arrive at any time (main.c 133-137, noise_sim.c 210-217).
OrderDrift ==
    Done /\ Hearing(Ranks) # {} =>
        LET n == Cardinality(Hearing(Ranks))
        IN  noise_level - InRankOrder \in (1 - n) .. (n - 1)
=============================================================================
