------------------------------ MODULE NoiseMap ------------------------------
(***************************************************************************)
(* What the MPI simulation promises, without saying how: in every cycle    *)
(* each rank senses some cells, and for each cell it is responsible for it  *)
(* reports, once, the levels all ranks sensed there in that cycle.         *)
(***************************************************************************)
EXTENDS Naturals, Sequences

CONSTANTS
    Ranks,      \* the processes
    Cells,      \* the square metres of the region
    Owner,      \* Owner[c]: the rank that reports cell c
    Footprints, \* the sets of cells one rank may sense
    MaxRounds   \* bound: cycles per rank

VARIABLES
    loud,       \* loud[p][r]: the cells rank p sensed in cycle r
    published   \* published[p][r]: the reports of rank p for cycle r

\* The ranks that sensed cell c in cycle r, as contributions to its level.
Level(c, r) ==
    {[from |-> q, cell |-> c, round |-> r] : q \in {x \in Ranks : c \in loud[x][r]}}

Reports(p, r) ==
    {[cell |-> c, noise_level |-> Level(c, r)] :
        c \in {x \in Cells : Owner[x] = p /\ Level(x, r) # {}}}

Init ==
    /\ loud = [p \in Ranks |-> <<>>]
    /\ published = [p \in Ranks |-> <<>>]

Sense(p) ==
    /\ Len(loud[p]) = Len(published[p])
    /\ Len(loud[p]) < MaxRounds
    /\ \E N \in Footprints : loud' = [loud EXCEPT ![p] = Append(@, N)]
    /\ UNCHANGED published

\* A cycle is reported only when every rank has sensed it.
Report(p) ==
    LET r == Len(published[p]) + 1
    IN  /\ \A q \in Ranks : Len(loud[q]) >= r
        /\ published' = [published EXCEPT ![p] = Append(@, Reports(p, r))]
        /\ UNCHANGED loud

Next == \E p \in Ranks : Sense(p) \/ Report(p)

Spec == Init /\ [][Next]_<<loud, published>>
=============================================================================
