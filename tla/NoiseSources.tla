---------------------------- MODULE NoiseSources ----------------------------
(***************************************************************************)
(* The people and vehicles of the simulated region (mpi/main.c 47-107 and  *)
(* mpi/utils/noise_sim.c 172-264): rank 0 places them at random, scatters  *)
(* them over the ranks, and each rank moves its own after every cycle.     *)
(***************************************************************************)
EXTENDS Region, Sequences, FiniteSets

CONSTANTS
    P, V,    \* number of people, of vehicles
    Dp, Dv,  \* distance at which they are heard
    Vp, Vv   \* metres they move in a cycle

ASSUME SourcesAssumption ==
    /\ P \in Nat /\ V \in Nat /\ Dp \in Nat /\ Dv \in Nat /\ Vp \in Nat /\ Vv \in Nat

\* A source that would leave the region turns back instead, which keeps it
\* inside only if the region is at least two steps wide (simulation.cfg has
\* 100 metres and steps of 2 and 10).
ASSUME RoomAssumption ==
    \A speed \in {Vp, Vv} : 2 * speed <= MAX_X /\ 2 * speed <= MAX_Y

VARIABLE local_arr    \* local_arr[p]: the sources of rank p

Xs == 0 .. (MAX_X - 1)
Ys == 0 .. (MAX_Y - 1)

person == [distance_affected |-> Dp, moving_speed |-> Vp]
vehicle == [distance_affected |-> Dv, moving_speed |-> Vv]

-----------------------------------------------------------------------------
(* Who has which sources.                                                  *)

num_elem_per_proc == (P + V) \div world_size
elem_res == (P + V) % world_size

\* Mutation: one rank too many gets a source of the remainder.
elem_send_count_more(p) == IF p <= elem_res THEN num_elem_per_proc + 1 ELSE num_elem_per_proc

elem_send_count(p) == IF p + 1 <= elem_res THEN num_elem_per_proc + 1 ELSE num_elem_per_proc

\* The sum of the counts before p.
elem_displs(p) == p * num_elem_per_proc + (IF p <= elem_res THEN p ELSE elem_res)

\* Every array init_sources_array can build: people first, then vehicles.
init_sources_array ==
    {[i \in 1 .. (P + V) |-> [x |-> at[i][1], y |-> at[i][2],
                              kind |-> IF i <= P THEN person ELSE vehicle]] :
        at \in [1 .. (P + V) -> Xs \X Ys]}

SourcesInit ==
    \E sources \in init_sources_array :
        local_arr = [p \in Ranks |->
            SubSeq(sources, elem_displs(p) + 1, elem_displs(p) + elem_send_count(p))]

-----------------------------------------------------------------------------
(* compute_noise_sqm: the squares a source is heard on, clipped at the     *)
(* border, and those the sources a rank looks at are heard on.             *)

hi(a, b) == IF a > b THEN a ELSE b
lo(a, b) == IF a < b THEN a ELSE b

\* Mutation: < instead of <= in the column loop.
HeardShort(s) ==
    {<<x, y>> : x \in hi(0, s.x - s.kind.distance_affected)
                        .. lo(s.x + s.kind.distance_affected, MAX_X) - 1,
                y \in hi(0, s.y - s.kind.distance_affected)
                        .. lo(s.y + s.kind.distance_affected, MAX_Y - 1)}

\* Mutation: the rows are not clipped at the border.
HeardBeyond(s) ==
    {<<x, y>> : x \in hi(0, s.x - s.kind.distance_affected)
                        .. lo(s.x + s.kind.distance_affected, MAX_X - 1),
                y \in hi(0, s.y - s.kind.distance_affected) .. s.y + s.kind.distance_affected}

Heard(s) ==
    {<<x, y>> : x \in hi(0, s.x - s.kind.distance_affected)
                        .. lo(s.x + s.kind.distance_affected, MAX_X - 1),
                y \in hi(0, s.y - s.kind.distance_affected)
                        .. lo(s.y + s.kind.distance_affected, MAX_Y - 1)}

\* The loops of compute_noise_sqm and move_noise_sources run over the first
\* num_elem entries; both are called with num_elem_per_proc.
num_elem == num_elem_per_proc

compute_noise_sqm(p) == UNION {Heard(local_arr[p][i]) : i \in 1 .. num_elem}

\* Mutation: only the far border is looked at.
TurnedFar(at, delta, size) == IF at + delta >= size THEN at - delta ELSE at + delta

\* One coordinate: if the step leaves the region the source goes the other way.
Turned(at, delta, size) == IF at + delta >= size \/ at + delta < 0 THEN at - delta ELSE at + delta

Moved(s, dx, dy) ==
    [x |-> Turned(s.x, dx * s.kind.moving_speed, MAX_X),
     y |-> Turned(s.y, dy * s.kind.moving_speed, MAX_Y),
     kind |-> s.kind]

\* move_noise_sources: a random direction for each source.
MoveSources(p) ==
    \E dx, dy \in [1 .. num_elem -> {-1, 0, 1}] :
        local_arr' = [local_arr EXCEPT ![p] = [i \in 1 .. elem_send_count(p) |->
            IF i <= num_elem THEN Moved(local_arr[p][i], dx[i], dy[i]) ELSE local_arr[p][i]]]

SourcesNext == \E p \in Ranks : MoveSources(p)

SourcesSpec == SourcesInit /\ [][SourcesNext]_local_arr

-----------------------------------------------------------------------------
\* No source ever leaves the region: its coordinates index the matrix of every
\* cycle (noise_sim.c 253-262).
InRegion ==
    \A p \in Ranks : \A i \in 1 .. elem_send_count(p) :
        local_arr[p][i].x \in Xs /\ local_arr[p][i].y \in Ys

\* The scatter loses and repeats nobody: the ranks together have the P people
\* and the V vehicles, and a rank has at most one source more than another
\* (main.c 77-88, 107).
Everyone ==
    LET all == UNION {{<<p, i>> : i \in DOMAIN local_arr[p]} : p \in Ranks}
    IN  /\ Cardinality({e \in all : local_arr[e[1]][e[2]].kind = vehicle}) = V
        /\ Cardinality(all) = P + V
        /\ \A p, q \in Ranks : Len(local_arr[p]) <= Len(local_arr[q]) + 1
=============================================================================
