------------------------------- MODULE Region -------------------------------
(***************************************************************************)
(* What all parts of the MPI simulation share: the ranks and the square    *)
(* metres of the simulated region.  Cell (i, j) of the matrix, the square  *)
(* in row i and column j, is the number i * MAX_X + j.                     *)
(***************************************************************************)
EXTENDS Integers

CONSTANTS
    world_size,   \* number of MPI ranks (Makefile: NPROC)
    MAX_X, MAX_Y  \* size of the region in metres (simulation.cfg)

ASSUME WorldAssumption == world_size \in Nat \ {0}
ASSUME GridAssumption == MAX_X \in Nat \ {0} /\ MAX_Y \in Nat \ {0}

Ranks == 0 .. (world_size - 1)
NCells == MAX_X * MAX_Y
Cells == 0 .. (NCells - 1)
=============================================================================
