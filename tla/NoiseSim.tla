------------------------------ MODULE NoiseSim ------------------------------
(***************************************************************************)
(* The whole MPI simulation: the shuffle of NoiseShuffle, in which the     *)
(* cells a rank affects in a cycle are those its people and vehicles       *)
(* (NoiseSources) are heard on.                                            *)
(***************************************************************************)
EXTENDS NoiseShuffle, NoiseSources

VARIABLE
    trail   \* trail[p][r]: the sources of rank p when it computed cycle r

simVars == <<vars, local_arr, trail>>

\* The shuffle on its own lets a rank affect any set of cells.
ASSUME AnyFootprint == Footprints = SUBSET Cells

\* Row y, column x of the matrix.
CellAt(square) == square[2] * MAX_X + square[1]

Affected(p) == {CellAt(square) : square \in compute_noise_sqm(p)}

SimInit == Init /\ SourcesInit /\ trail = [p \in Ranks |-> <<>>]

SimCompute(p) ==
    /\ ComputeCells(p, Affected(p))
    /\ trail' = [trail EXCEPT ![p] = Append(@, local_arr[p])]
    /\ UNCHANGED local_arr

SimMove(p) == Move(p) /\ MoveSources(p) /\ UNCHANGED trail

\* The other steps of the rank, or the library reads one of its send buffers.
SimShuffle(p) ==
    /\ \/ Isend(p) \/ StartOwn(p) \/ EndOwn(p) \/ Publish(p) \/ Reset(p)
       \/ \E q \in Ranks : Recv(p, q) \/ Pack(p, q)
    /\ UNCHANGED <<local_arr, trail>>

SimStep(p) == SimCompute(p) \/ SimMove(p) \/ SimShuffle(p)

SimNext ==
    \/ \E p \in Ranks : SimStep(p)
    \/ Done /\ UNCHANGED simVars

SimSpec == SimInit /\ [][SimNext]_simVars

-----------------------------------------------------------------------------
\* Cell c is at most d metres away from source s in both directions.
Away(s, c, d) ==
    /\ (c % MAX_X) - s.x \in (-d) .. d
    /\ (c \div MAX_X) - s.y \in (-d) .. d

\* Source s is heard on cell c.  This is the distance of compute_noise_sqm; the
\* configuration file describes another one (SideAsConfigured).
Near(s, c) == Away(s, c, s.kind.distance_affected)

\* In every cycle the squares reported by a rank are those of its squares on
\* which any person or vehicle of the simulation was heard in that cycle
\* (main.c 115-149; README: every squared metre of the region, considering the
\* people and vehicles moving in it).  How far a source is heard is the code's
\* business here; whom it reports, of all ranks' sources, is the property's.
EveryoneIsHeard ==
    \A p \in Ranks : \A r \in DOMAIN published[p] :
        {e.cell : e \in published[p][r]} =
            {c \in Owned(p) : \E q \in Ranks : \E i \in DOMAIN trail[q][r] : Near(trail[q][r][i], c)}

\* Read as simulation.cfg 20-23 has it, the distance is the side of the square
\* area a source affects: wherever the source is in that area, a square reported
\* is less than the side away from some source (noise_sim.c 234-241).
SideAsConfigured ==
    \A p \in Ranks : \A r \in DOMAIN published[p] : \A e \in published[p][r] :
        \E q \in Ranks : \E i \in DOMAIN trail[q][r] :
            Away(trail[q][r][i], e.cell, trail[q][r][i].kind.distance_affected - 1)

\* The simulation is an instance of the shuffle.
ImplementsShuffle == Spec
=============================================================================
