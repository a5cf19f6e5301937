---------------------------- MODULE NoiseShuffle ----------------------------
(***************************************************************************)
(* The cycle of the MPI noise simulation (mpi/main.c, lines 103-173): every *)
(* rank computes the noise its own sources make on every square metre of   *)
(* the region, the ranks exchange these partial levels so that each square *)
(* metre is added up by one rank, the rank publishes what it owns, moves    *)
(* its sources, zeroes its matrix and sleeps.                              *)
(*                                                                         *)
(* A noise level is the set of the contributions that were added into it:  *)
(* {} is the level 0, the neutral element of sum_noises.  A contribution   *)
(* names the rank, the cell and the cycle it was computed for, so a level  *)
(* that adds up the wrong things is told apart from one that adds up the   *)
(* right ones.                                                             *)
(***************************************************************************)
EXTENDS Region, Sequences, FiniteSets

CONSTANTS
    Footprints,   \* which cells the sources of one rank may affect in a cycle
    SendModes,    \* when MPI_Isend reads its buffer: "eager", "deferred"
    MaxRounds     \* bound: cycles each rank runs

ASSUME RoundsAssumption == MaxRounds \in Nat
ASSUME ModesAssumption == SendModes \subseteq {"eager", "deferred"}

\* No footprint reaches outside the matrix (compute_noise_sqm clips at the border).
ASSUME FootprintAssumption == Footprints \subseteq SUBSET Cells

\* Every rank owns a square metre (100 x 100 cells, two processes).
ASSUME OwnerAssumption == NCells >= world_size

VARIABLES
    pc,         \* where each rank is in the while loop
    cell,       \* the cell the shuffle loops are at
    recvd,      \* p, the counter of the inner receive loop
    count,      \* number of entries of my_noises completed in this cycle
    noise_sqm,  \* each rank's matrix
    my_noises,  \* each rank's array of the cells it adds up
    chan,       \* chan[s][d]: messages from s to d that d has not received
    loud,       \* loud[p][r]: the cells the sources of p affected in cycle r
    published   \* published[p][r]: what p published at the end of cycle r

vars == <<pc, cell, recvd, count, noise_sqm, my_noises, chan, loud, published>>

Tag == [from : Ranks, cell : Cells, round : Nat]
Levels == SUBSET Tag

\* cell and round identify the message for the properties; the code sends the
\* bare integer, and no receive looks at them.
Message == [cell : Cells, round : Nat, packed : BOOLEAN, data : Levels]

NoData == [x |-> "uninitialised"]
Entry == [cell : Cells, noise_level : Levels]

-----------------------------------------------------------------------------
(* Who adds up which cell.                                                 *)

receiver(c) == c % world_size

\* The cells before c that go to each rank, the uneven rest of the grid aside.
Block(c) == c \div world_size

\* Mutation: the rest of the grid is dealt out to one rank too few.
noises_recv_count_short(p) ==
    IF p + 1 < NCells % world_size THEN (NCells \div world_size) + 1 ELSE NCells \div world_size

\* noises_recv_count, and noise_size for the rank itself.
noises_recv_count(p) ==
    LET noises_per_proc == NCells \div world_size
        noises_res == NCells % world_size
    IN  IF p + 1 <= noises_res THEN noises_per_proc + 1 ELSE noises_per_proc

Slots(p) == 0 .. (noises_recv_count(p) - 1)

Round(p) == Len(loud[p])

\* What the sources of p add to cell c in cycle r.
Contribution(p, c, r) ==
    IF c \in loud[p][r] THEN {[from |-> p, cell |-> c, round |-> r]} ELSE {}

\* The level 0 is neutral and is tested for before any logarithm is taken.
sum_noises(noise1, noise2) == noise1 \cup noise2

-----------------------------------------------------------------------------
\* What init_noise_sqm allocates (calloc) and reset_matrix leaves behind.
init_noise_sqm == [c \in Cells |-> {}]
reset_matrix == [c \in Cells |-> {}]

Init ==
    /\ pc = [p \in Ranks |-> "compute"]
    /\ cell = [p \in Ranks |-> 0]
    /\ recvd = [p \in Ranks |-> 0]
    /\ count = [p \in Ranks |-> 0]
    /\ noise_sqm = [p \in Ranks |-> init_noise_sqm]
    /\ my_noises = [p \in Ranks |-> [k \in Slots(p) |-> NoData]]
    /\ chan = [s \in Ranks |-> [d \in Ranks |-> <<>>]]
    /\ loud = [p \in Ranks |-> <<>>]
    /\ published = [p \in Ranks |-> <<>>]

\* compute_noise_sqm adds to what the matrix holds, for the cells N that the
\* sources of p affect; then the shuffle starts.
ComputeCells(p, N) ==
    /\ pc[p] = "compute"
    /\ Round(p) < MaxRounds
    /\ loud' = [loud EXCEPT ![p] = Append(@, N)]
    /\ noise_sqm' = [noise_sqm EXCEPT ![p] = [c \in Cells |->
           sum_noises(noise_sqm[p][c],
                      IF c \in N THEN {[from |-> p, cell |-> c, round |-> Round(p) + 1]}
                                 ELSE {})]]
    /\ pc' = [pc EXCEPT ![p] = "shuffle"]
    /\ cell' = [cell EXCEPT ![p] = 0]
    /\ count' = [count EXCEPT ![p] = 0]
    /\ UNCHANGED <<recvd, my_noises, chan, published>>

Compute(p) == \E N \in Footprints : ComputeCells(p, N)

\* The cell belongs to another rank: post a non-blocking send of the address
\* of the matrix entry.  The library either copies the integer at once or
\* keeps the address and reads it later (Pack); the request is never waited for.
Isend(p) ==
    /\ pc[p] = "shuffle"
    /\ cell[p] < NCells
    /\ receiver(cell[p]) # p
    /\ \E mode \in SendModes :
         chan' = [chan EXCEPT ![p][receiver(cell[p])] = Append(@,
             [cell |-> cell[p], round |-> Round(p), packed |-> (mode = "eager"),
              data |-> IF mode = "eager" THEN noise_sqm[p][cell[p]] ELSE {}])]
    /\ cell' = [cell EXCEPT ![p] = @ + 1]
    /\ UNCHANGED <<pc, recvd, count, noise_sqm, my_noises, loud, published>>

\* The MPI library reads the buffer of a send it had only queued.
Packed(m, level) == [cell |-> m.cell, round |-> m.round, packed |-> TRUE, data |-> level]

Pack(s, d) ==
    /\ \E i \in 1 .. Len(chan[s][d]) :
         /\ ~ chan[s][d][i].packed
         /\ chan' = [chan EXCEPT ![s][d][i] = Packed(@, noise_sqm[s][@.cell])]
    /\ UNCHANGED <<pc, cell, recvd, count, noise_sqm, my_noises, loud, published>>

\* The cell is the rank's own: start its entry with the rank's own level.
StartOwn(p) ==
    /\ pc[p] = "shuffle"
    /\ cell[p] < NCells
    /\ receiver(cell[p]) = p
    /\ my_noises' = [my_noises EXCEPT ![p][count[p]] =
           [cell |-> cell[p], noise_level |-> noise_sqm[p][cell[p]]]]
    /\ recvd' = [recvd EXCEPT ![p] = 0]
    /\ pc' = [pc EXCEPT ![p] = "recv"]
    /\ UNCHANGED <<cell, count, noise_sqm, chan, loud, published>>

\* MPI_Recv from MPI_ANY_SOURCE: the oldest message of any sender.
AddNoise(e, level) ==
    [cell |-> e.cell, noise_level |-> sum_noises(e.noise_level, level)]

\* Mutation: p <= world_size - 1 in the receive loop.
RecvOneMore(p, s) ==
    /\ pc[p] = "recv"
    /\ recvd[p] <= world_size - 1
    /\ chan[s][p] # <<>>
    /\ Head(chan[s][p]).packed
    /\ my_noises' = [my_noises EXCEPT ![p][count[p]] = AddNoise(@, Head(chan[s][p]).data)]
    /\ chan' = [chan EXCEPT ![s][p] = Tail(@)]
    /\ recvd' = [recvd EXCEPT ![p] = @ + 1]
    /\ UNCHANGED <<pc, cell, count, noise_sqm, loud, published>>

Recv(p, s) ==
    /\ pc[p] = "recv"
    /\ recvd[p] < world_size - 1
    /\ chan[s][p] # <<>>
    /\ Head(chan[s][p]).packed
    /\ my_noises' = [my_noises EXCEPT ![p][count[p]] = AddNoise(@, Head(chan[s][p]).data)]
    /\ chan' = [chan EXCEPT ![s][p] = Tail(@)]
    /\ recvd' = [recvd EXCEPT ![p] = @ + 1]
    /\ UNCHANGED <<pc, cell, count, noise_sqm, loud, published>>

\* Mutation: the receive loop ends one message early.
EndOwnEarly(p) ==
    /\ pc[p] = "recv"
    /\ recvd[p] >= world_size - 2
    /\ count' = [count EXCEPT ![p] = @ + 1]
    /\ cell' = [cell EXCEPT ![p] = @ + 1]
    /\ pc' = [pc EXCEPT ![p] = "shuffle"]
    /\ UNCHANGED <<recvd, noise_sqm, my_noises, chan, loud, published>>

\* Mutation: count is not incremented.
EndOwnSameSlot(p) ==
    /\ pc[p] = "recv"
    /\ recvd[p] >= world_size - 1
    /\ cell' = [cell EXCEPT ![p] = @ + 1]
    /\ pc' = [pc EXCEPT ![p] = "shuffle"]
    /\ UNCHANGED <<recvd, count, noise_sqm, my_noises, chan, loud, published>>

\* The inner loop is over: count++ and on to the next cell.
EndOwn(p) ==
    /\ pc[p] = "recv"
    /\ recvd[p] >= world_size - 1
    /\ count' = [count EXCEPT ![p] = @ + 1]
    /\ cell' = [cell EXCEPT ![p] = @ + 1]
    /\ pc' = [pc EXCEPT ![p] = "shuffle"]
    /\ UNCHANGED <<recvd, noise_sqm, my_noises, chan, loud, published>>

\* Mutation: the last entry is left out.
publish_data_short(noises, noises_size) ==
    {noises[k] : k \in {i \in 0 .. (noises_size - 2) : noises[i].noise_level # {}}}

\* publish_data: every entry of my_noises, silent ones skipped.  A payload too
\* long for the buffer would end it early; three integers always fit.
publish_data(noises, noises_size) ==
    {noises[k] : k \in {i \in 0 .. (noises_size - 1) : noises[i].noise_level # {}}}

Publish(p) ==
    /\ pc[p] = "shuffle"
    /\ cell[p] = NCells
    /\ published' = [published EXCEPT ![p] =
           Append(@, publish_data(my_noises[p], noises_recv_count(p)))]
    /\ pc' = [pc EXCEPT ![p] = "move"]
    /\ UNCHANGED <<cell, recvd, count, noise_sqm, my_noises, chan, loud>>

\* move_noise_sources: which cells are affected next is chosen in Compute.
Move(p) ==
    /\ pc[p] = "move"
    /\ pc' = [pc EXCEPT ![p] = "reset"]
    /\ UNCHANGED <<cell, recvd, count, noise_sqm, my_noises, chan, loud, published>>

\* Mutation: the matrix is not zeroed.
ResetKeeps(p) ==
    /\ pc[p] = "reset"
    /\ pc' = [pc EXCEPT ![p] = "compute"]
    /\ UNCHANGED <<cell, recvd, count, noise_sqm, my_noises, chan, loud, published>>

\* Mutation: the next cycle is never started.
ResetLoops(p) ==
    /\ pc[p] = "reset"
    /\ noise_sqm' = [noise_sqm EXCEPT ![p] = reset_matrix]
    /\ pc' = [pc EXCEPT ![p] = "move"]
    /\ UNCHANGED <<cell, recvd, count, my_noises, chan, loud, published>>

\* reset_matrix, then sleep(t): the next cycle starts any time later.
Reset(p) ==
    /\ pc[p] = "reset"
    /\ noise_sqm' = [noise_sqm EXCEPT ![p] = reset_matrix]
    /\ pc' = [pc EXCEPT ![p] = "compute"]
    /\ UNCHANGED <<cell, recvd, count, my_noises, chan, loud, published>>

RankStep(p) ==
    \/ Compute(p) \/ Isend(p) \/ StartOwn(p) \/ EndOwn(p)
    \/ Publish(p) \/ Move(p) \/ Reset(p)
    \/ \E s \in Ranks : Recv(p, s)

\* All ranks have run the cycles the bound allows (the program runs for ever).
Done == \A p \in Ranks : pc[p] = "compute" /\ Round(p) = MaxRounds

Next ==
    \/ \E p \in Ranks : RankStep(p)
    \/ \E s, d \in Ranks : Pack(s, d)
    \/ Done /\ UNCHANGED vars

Spec == Init /\ [][Next]_vars

\* The operating system runs every process, MPI delivers every message.
Fairness ==
    /\ \A p \in Ranks : WF_vars(RankStep(p))
    /\ \A s, d \in Ranks : WF_vars(Pack(s, d))

FairSpec == Spec /\ Fairness
-----------------------------------------------------------------------------
(* Properties.                                                             *)

TypeOK ==
    /\ pc \in [Ranks -> {"compute", "shuffle", "recv", "move", "reset"}]
    /\ cell \in [Ranks -> 0 .. NCells]
    /\ recvd \in [Ranks -> 0 .. (world_size - 1)]
    /\ count \in [Ranks -> Nat]
    /\ noise_sqm \in [Ranks -> [Cells -> Levels]]
    /\ DOMAIN my_noises = Ranks
    /\ \A p \in Ranks : my_noises[p] \in [Slots(p) -> Entry \cup {NoData}]
    /\ chan \in [Ranks -> [Ranks -> Seq(Message)]]
    /\ loud \in [Ranks -> Seq(SUBSET Cells)]
    /\ published \in [Ranks -> Seq(SUBSET Entry)]

\* The cells rank p is responsible for.
Owned(p) == {c \in Cells : receiver(c) = p}

\* The level of cell c in cycle r: what every rank's sources add to it.
TrueLevel(c, r) ==
    UNION {Contribution(q, c, r) : q \in {x \in Ranks : r \in DOMAIN loud[x]}}

TrueReport(p, r) ==
    {[cell |-> c, noise_level |-> TrueLevel(c, r)] :
        c \in {x \in Owned(p) : TrueLevel(x, r) # {}}}

\* What a rank publishes at the end of a cycle is, for each of its cells that
\* is not silent, one report that adds up the levels all ranks computed for
\* that very cell in that very cycle (main.c 122-149).
ReportsExact ==
    \A p \in Ranks : \A r \in DOMAIN published[p] : published[p][r] = TrueReport(p, r)

\* my_noises has noise_size entries, and the loop that fills it never writes
\* past the end (main.c 104, 128-138).
CountInBounds ==
    \A p \in Ranks :
        (pc[p] = "recv" \/ (pc[p] = "shuffle" /\ cell[p] \in Owned(p)))
            => count[p] \in Slots(p)

\* publish_data reads every entry of my_noises: each of them was written in
\* this cycle, the k-th one for the k-th cell of the rank, and holds at least
\* the rank's own level (main.c 128-130, 149).
SlotsFresh ==
    \A p \in Ranks : pc[p] = "shuffle" /\ cell[p] = NCells =>
        \A k \in Slots(p) :
            /\ my_noises[p][k] \in Entry
            /\ my_noises[p][k].cell = p + k * world_size
            /\ Contribution(p, my_noises[p][k].cell, Round(p)) \subseteq my_noises[p][k].noise_level

Reported(p) == UNION {e.noise_level : e \in UNION {published[p][r] : r \in DOMAIN published[p]}}
InFlight == UNION {UNION {{chan[s][d][i].data : i \in DOMAIN chan[s][d]} : d \in Ranks} : s \in Ranks}

\* No contribution is added into two reports, and none that was reported is
\* still on its way, whichever sender each receive happened to match
\* (main.c 132-138).
NoDoubleCount ==
    \A p \in Ranks :
        /\ Reported(p) \cap UNION InFlight = {}
        /\ \A q \in Ranks \ {p} : Reported(p) \cap Reported(q) = {}
        /\ \A r1, r2 \in DOMAIN published[p] : \A e1 \in published[p][r1], e2 \in published[p][r2] :
               <<r1, e1>> # <<r2, e2>> => e1.noise_level \cap e2.noise_level = {}

\* When every rank has finished its cycles no message is left over and every
\* contribution computed is in some report.
NothingLost ==
    Done => /\ \A s, d \in Ranks : chan[s][d] = <<>>
            /\ UNION {Reported(p) : p \in Ranks} =
                 UNION {Contribution(p, c, r) : p \in Ranks, c \in Cells, r \in 1 .. MaxRounds}

\* No two ranks are ever more than one cycle apart: the receives are the only
\* thing that keeps the ranks together, there is no barrier in the loop.
RoundSkew == \A p, q \in Ranks : Round(p) <= Round(q) + 1

\* The next turn of rank d that rank p comes to in its loops, as the cycle and
\* the number of the turn within the cycle.  NextFor(d, d) is d's own.
NextFor(p, d) ==
    LET b == Block(cell[p]) + (IF receiver(cell[p]) > d THEN 1 ELSE 0)
    IN  IF pc[p] \in {"shuffle", "recv"} /\ b < Block(NCells)
        THEN <<Round(p), b>> ELSE <<Round(p) + 1, 0>>

NextTurn(t) == IF t[2] + 1 < Block(NCells) THEN <<t[1], t[2] + 1>> ELSE <<t[1] + 1, 0>>

PairInStep(s, d) ==
    \/ chan[s][d] = <<>> /\ NextFor(s, d) = NextFor(d, d)
    \/ /\ Len(chan[s][d]) = 1
       /\ <<chan[s][d][1].round, Block(chan[s][d][1].cell)>> = NextFor(d, d)
       /\ receiver(chan[s][d][1].cell) = d
       /\ NextFor(s, d) = NextTurn(NextFor(d, d))
    \/ /\ pc[d] = "recv"
       /\ chan[s][d] = <<>>
       /\ NextFor(s, d) = NextTurn(NextFor(d, d))

\* If the ranks divide the cells evenly they stay in step: towards the turn d
\* is at, another rank has not sent yet, or its message is the only one on the
\* way, or d has received it.  So a receive from any source cannot take a
\* message that is meant for a later turn (main.c 121-145).
InStep == \A d \in Ranks : \A s \in Ranks \ {d} : PairInStep(s, d)

\* Every rank gets through every cycle: no send or receive blocks for ever.
Terminates == <>Done

-----------------------------------------------------------------------------
NM == INSTANCE NoiseMap WITH Owner <- [c \in Cells |-> receiver(c)]

\* The simulation does what the map promises: a cycle of a rank is one sensing
\* step and one report of what all ranks sensed (main.c 113-173).
ImplementsNoiseMap == NM!Spec
=============================================================================
