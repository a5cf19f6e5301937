------------------------- MODULE NoiseShuffleProofs -------------------------
(***************************************************************************)
(* Proofs about the shuffle of the MPI simulation, for every number of     *)
(* ranks, every size of the region and every number of cycles.             *)
(***************************************************************************)
EXTENDS NoiseShuffle, Arithmetic, FiniteSetTheorems, SequenceTheorems, TLAPS

-----------------------------------------------------------------------------
(* The cells as blocks of world_size consecutive cells, one for each rank. *)

LEMMA NCellsType == NCells \in Nat \ {0}
  BY GridAssumption DEF NCells

LEMMA BlockType ==
    ASSUME NEW c \in Nat
    PROVE  Block(c) \in Nat /\ receiver(c) \in Ranks
  <1>1. c \div world_size \in Nat /\ c % world_size \in 0 .. (world_size - 1)
    BY DivMod, WorldAssumption
  <1>2. QED
    BY <1>1 DEF Block, receiver, Ranks

LEMMA BlockZero == Block(0) = 0 /\ receiver(0) = 0
  <1>1. 0 = world_size * 0 + 0
    BY WorldAssumption
  <1>2. 0 \in Nat /\ 0 \in 0 .. (world_size - 1)
    BY WorldAssumption
  <1>3. QED
    BY <1>1, <1>2, DivModUnique, WorldAssumption DEF Block, receiver

\* Going to the next cell is going to the next rank, or to the next block.
LEMMA BlockStep ==
    ASSUME NEW c \in Nat
    PROVE  \/ /\ receiver(c) + 1 < world_size
              /\ receiver(c + 1) = receiver(c) + 1
              /\ Block(c + 1) = Block(c)
           \/ /\ receiver(c) + 1 = world_size
              /\ receiver(c + 1) = 0
              /\ Block(c + 1) = Block(c) + 1
  <1> DEFINE w == world_size
             q == c \div w
             r == c % w
  <1>1. w \in Nat \ {0}
    BY WorldAssumption
  <1>2. q \in Nat /\ r \in 0 .. (w - 1) /\ c = (w * q) + r
    BY <1>1, DivMod
  <1> HIDE DEF q, r, w
  <1>3. CASE r + 1 < w
    <2>1. c + 1 = w * q + (r + 1)
      BY <1>1, <1>2
    <2>2. r + 1 \in 0 .. (w - 1)
      BY <1>1, <1>2, <1>3
    <2>3. (c + 1) \div w = q /\ (c + 1) % w = r + 1
      BY <2>1, <2>2, <1>1, <1>2, DivModUnique
    <2>4. QED
      BY <2>3, <1>3 DEF Block, receiver, q, r, w
  <1>4. CASE r + 1 = w
    <2>1. c + 1 = w * (q + 1) + 0
      BY <1>1, <1>2, <1>4
    <2>2. 0 \in 0 .. (w - 1) /\ q + 1 \in Nat
      BY <1>1, <1>2
    <2> DEFINE n == q + 1
    <2> HIDE DEF n
    <2>3. (w * n + 0) \div w = n /\ (w * n + 0) % w = 0
      BY <2>2, <1>1, DivModUnique DEF n
    <2>4. QED
      BY <2>1, <2>3, <1>4 DEF Block, receiver, n, q, r, w
  <1>5. QED
    BY <1>1, <1>2, <1>3, <1>4

\* Block and rank determine the cell.
LEMMA BlockUnique ==
    ASSUME NEW a \in Nat, NEW b \in Nat, Block(a) = Block(b), receiver(a) = receiver(b)
    PROVE  a = b
  <1>1. a = (world_size * (a \div world_size)) + (a % world_size)
    BY DivMod, WorldAssumption
  <1>2. b = (world_size * (b \div world_size)) + (b % world_size)
    BY DivMod, WorldAssumption
  <1>3. QED
    BY <1>1, <1>2 DEF Block, receiver

LEMMA SlotsType ==
    ASSUME NEW p \in Ranks
    PROVE  noises_recv_count(p) \in Nat
  <1>1. Block(NCells) \in Nat /\ receiver(NCells) \in Ranks
    BY BlockType, NCellsType
  <1>2. QED
    BY <1>1 DEF noises_recv_count, Block, receiver, Ranks

\* The k-th cell of a rank fits into its array.
LEMMA OwnCellHasSlot ==
    ASSUME NEW c \in Cells
    PROVE  Block(c) \in Slots(receiver(c))
  <1> DEFINE w == world_size
             q == c \div w
             r == c % w
             Q == NCells \div w
             R == NCells % w
  <1>1. w \in Nat \ {0} /\ c \in Nat /\ NCells \in Nat /\ c < NCells
    BY WorldAssumption, NCellsType DEF Cells
  <1>2. q \in Nat /\ r \in 0 .. (w - 1) /\ c = (w * q) + r
    BY <1>1, DivMod
  <1>3. Q \in Nat /\ R \in 0 .. (w - 1) /\ NCells = (w * Q) + R
    BY <1>1, DivMod
  <1>4. w * q \in Nat /\ w * Q \in Nat
    BY <1>1, <1>2, <1>3
  <1> HIDE DEF q, r, Q, R
  <1>5. ~ (Q < q)
    <2>1. SUFFICES ASSUME Q < q PROVE FALSE
      OBVIOUS
    <2>2. w * Q + w <= w * q
      BY <1>1, <1>2, <1>3, <2>1, MultiplesApart
    <2>3. QED
      BY <2>2, <1>1, <1>2, <1>3, <1>4
  <1>6. q = Q => r < R
    BY <1>1, <1>2, <1>3, <1>4
  <1>7. q \in 0 .. ((IF r + 1 <= R THEN Q + 1 ELSE Q) - 1)
    BY <1>1, <1>2, <1>3, <1>5, <1>6
  <1>8. QED
    BY <1>7 DEF Slots, noises_recv_count, Block, receiver, q, r, Q, R, w

-----------------------------------------------------------------------------
(* Types and control, for every world_size and both ways of sending.       *)

InCycle(p) == pc[p] \in {"shuffle", "recv"}

\* The turns of p that its loops have passed.
Passed(p) == Block(cell[p]) + (IF receiver(cell[p]) > p THEN 1 ELSE 0)

\* Entry k was written in this cycle, for the k-th cell of p.
Written(p, k) ==
    /\ my_noises[p][k] \in Entry
    /\ receiver(my_noises[p][k].cell) = p
    /\ Block(my_noises[p][k].cell) = k
    /\ Contribution(p, my_noises[p][k].cell, Round(p)) \subseteq my_noises[p][k].noise_level

RankOK(p) ==
    /\ pc[p] = "recv" => /\ cell[p] < NCells
                         /\ receiver(cell[p]) = p
                         /\ Written(p, count[p])
    /\ InCycle(p) => /\ Round(p) >= 1
                     /\ count[p] = Passed(p)
                     /\ \A k \in Slots(p) : k < count[p] => Written(p, k)
                     /\ \A c \in Cells : noise_sqm[p][c] = Contribution(p, c, Round(p))
    /\ pc[p] = "compute" => \A c \in Cells : noise_sqm[p][c] = {}

Control == \A p \in Ranks : RankOK(p)

TypeInv == TypeOK /\ Control

LEMMA TypeInit == Init => TypeInv
  <1> SUFFICES ASSUME Init PROVE TypeInv
    OBVIOUS
  <1>1. TypeOK
    <2>1. 0 \in 0 .. NCells /\ 0 \in 0 .. (world_size - 1)
      BY NCellsType, WorldAssumption
    <2>2. QED
      BY <2>1 DEF Init, init_noise_sqm, TypeOK, Levels
  <1>2. Control
    BY DEF Init, init_noise_sqm, Control, RankOK, InCycle
  <1>3. QED
    BY <1>1, <1>2 DEF TypeInv

\* A rank whose own state a step leaves alone stays as it was.
LEMMA Frame ==
    ASSUME NEW q \in Ranks, RankOK(q),
           pc'[q] = pc[q], cell'[q] = cell[q], count'[q] = count[q],
           noise_sqm'[q] = noise_sqm[q], my_noises'[q] = my_noises[q],
           loud'[q] = loud[q]
    PROVE  RankOK(q)'
  <1>1. Round(q)' = Round(q) /\ Passed(q)' = Passed(q) /\ InCycle(q)' = InCycle(q)
    BY DEF Round, Passed, InCycle
  <1>2. \A c, r : Contribution(q, c, r)' = Contribution(q, c, r)
    BY DEF Contribution
  <1>3. \A k : Written(q, k)' = Written(q, k)
    BY <1>1, <1>2 DEF Written
  <1>4. QED
    BY <1>1, <1>2, <1>3 DEF RankOK

\* The loop variables of one rank.
LEMMA LoopTypes ==
    ASSUME TypeOK, NEW p \in Ranks
    PROVE  /\ p \in Nat /\ p < world_size
           /\ cell[p] \in 0 .. NCells /\ cell[p] \in Nat
           /\ recvd[p] \in 0 .. (world_size - 1)
           /\ count[p] \in Nat
           /\ Block(cell[p]) \in Nat
           /\ receiver(cell[p]) \in Ranks /\ receiver(cell[p]) \in Nat
  <1>1. cell[p] \in 0 .. NCells /\ recvd[p] \in 0 .. (world_size - 1) /\ count[p] \in Nat
    BY DEF TypeOK
  <1>2. cell[p] \in Nat
    BY <1>1, NCellsType
  <1>3. p \in Nat /\ p < world_size
    BY WorldAssumption DEF Ranks
  <1>4. Block(cell[p]) \in Nat /\ receiver(cell[p]) \in Ranks
    BY <1>2, BlockType
  <1>5. receiver(cell[p]) \in Nat
    BY <1>4 DEF Ranks
  <1>6. QED
    BY <1>1, <1>2, <1>3, <1>4, <1>5

\* The data of one rank.
LEMMA DataTypes ==
    ASSUME TypeOK, NEW p \in Ranks
    PROVE  /\ noise_sqm[p] \in [Cells -> Levels]
           /\ my_noises[p] \in [Slots(p) -> Entry \cup {NoData}]
           /\ \A d \in Ranks : chan[p][d] \in Seq(Message)
           /\ loud[p] \in Seq(SUBSET Cells)
           /\ Round(p) \in Nat
           /\ published[p] \in Seq(SUBSET Entry)
  BY DEF TypeOK, Round

LEMMA CellInGrid ==
    ASSUME TypeOK, NEW p \in Ranks, cell[p] < NCells
    PROVE  cell[p] \in Cells /\ cell[p] + 1 \in 0 .. NCells
  BY LoopTypes, NCellsType DEF Cells

LEMMA ChanUpdate ==
    ASSUME TypeOK, NEW s \in Ranks, NEW d \in Ranks, NEW x \in Seq(Message)
    PROVE  [chan EXCEPT ![s][d] = x] \in [Ranks -> [Ranks -> Seq(Message)]]
  BY DEF TypeOK

LEMMA TypeCompute ==
    ASSUME TypeInv, NEW p \in Ranks, NEW N \in SUBSET Cells, ComputeCells(p, N)
    PROVE  TypeInv'
  <1> USE DEF TypeInv
  <1>1. /\ pc' = [pc EXCEPT ![p] = "shuffle"]
        /\ cell' = [cell EXCEPT ![p] = 0]
        /\ count' = [count EXCEPT ![p] = 0]
        /\ loud' = [loud EXCEPT ![p] = Append(loud[p], N)]
        /\ UNCHANGED <<recvd, my_noises, chan, published>>
    BY DEF ComputeCells
  <1>2. loud[p] \in Seq(SUBSET Cells) /\ loud'[p] = Append(loud[p], N)
    BY <1>1 DEF TypeOK
  <1>3. Round(p) \in Nat /\ Round(p)' = Round(p) + 1 /\ loud'[p][Round(p)'] = N
    BY <1>2 DEF Round
  <1>4. \A c \in Cells : Contribution(p, c, Round(p))' =
          IF c \in N THEN {[from |-> p, cell |-> c, round |-> Round(p) + 1]} ELSE {}
    BY <1>3 DEF Contribution
  <1>5. noise_sqm' = [noise_sqm EXCEPT ![p] = [c \in Cells |-> Contribution(p, c, Round(p))']]
    <2>1. \A c \in Cells : noise_sqm[p][c] = {}
      BY DEF Control, RankOK, ComputeCells
    <2>2. noise_sqm' = [noise_sqm EXCEPT ![p] = [c \in Cells |->
              noise_sqm[p][c] \cup
                (IF c \in N THEN {[from |-> p, cell |-> c, round |-> Round(p) + 1]} ELSE {})]]
      BY DEF ComputeCells, sum_noises
    <2>3. QED
      BY <1>4, <2>1, <2>2
  <1>6. TypeOK'
    <2>1. \A c \in Cells : Contribution(p, c, Round(p))' \in Levels
      <3>1. \A c \in Cells : [from |-> p, cell |-> c, round |-> Round(p) + 1] \in Tag
        BY <1>3 DEF Tag
      <3>2. QED
        BY <3>1, <1>4 DEF Levels
    <2>2. noise_sqm' \in [Ranks -> [Cells -> Levels]]
      BY <1>5, <2>1 DEF TypeOK
    <2>3. loud' \in [Ranks -> Seq(SUBSET Cells)]
      <3>1. Append(loud[p], N) \in Seq(SUBSET Cells)
        BY <1>2
      <3>2. QED
        BY <1>1, <3>1 DEF TypeOK
    <2>4. cell' \in [Ranks -> 0 .. NCells] /\ count' \in [Ranks -> Nat]
      BY <1>1, NCellsType DEF TypeOK
    <2>5. QED
      BY <1>1, <2>2, <2>3, <2>4 DEF TypeOK
  <1>7. ASSUME NEW q \in Ranks PROVE RankOK(q)'
    <2>1. CASE q # p
      <3>1. /\ pc'[q] = pc[q] /\ cell'[q] = cell[q] /\ count'[q] = count[q]
            /\ noise_sqm'[q] = noise_sqm[q] /\ my_noises'[q] = my_noises[q]
            /\ loud'[q] = loud[q]
        BY <1>1, <1>5, <2>1 DEF TypeOK
      <3>2. QED
        BY <3>1, Frame DEF Control
    <2>2. CASE q = p
      <3>1. pc'[p] = "shuffle" /\ cell'[p] = 0 /\ count'[p] = 0
        BY <1>1 DEF TypeOK
      <3>2. Passed(p)' = 0
        BY <3>1, BlockZero DEF Passed, Ranks
      <3>3. \A c \in Cells : noise_sqm'[p][c] = Contribution(p, c, Round(p))'
        BY <1>5 DEF TypeOK
      <3>4. \A k \in Slots(p) : ~ (k < 0)
        BY SlotsType DEF Slots
      <3>5. Round(p)' >= 1
        BY <1>3
      <3>6. QED
        BY <2>2, <3>1, <3>2, <3>3, <3>4, <3>5 DEF RankOK, InCycle
    <2>3. QED
      BY <2>1, <2>2
  <1>8. QED
    BY <1>6, <1>7 DEF Control

LEMMA TypeIsend ==
    ASSUME TypeInv, NEW p \in Ranks, Isend(p)
    PROVE  TypeInv'
  <1> USE DEF TypeInv
  <1>1. /\ pc[p] = "shuffle" /\ cell[p] < NCells /\ receiver(cell[p]) # p
        /\ cell' = [cell EXCEPT ![p] = cell[p] + 1]
        /\ UNCHANGED <<pc, recvd, count, noise_sqm, my_noises, loud, published>>
    BY DEF Isend
  <1>2. /\ cell[p] \in Cells /\ cell[p] \in Nat /\ cell[p] + 1 \in 0 .. NCells
        /\ receiver(cell[p]) \in Ranks /\ Block(cell[p]) \in Nat
    BY <1>1, LoopTypes, CellInGrid
  <1>3. TypeOK'
    <2>1. PICK mode \in SendModes :
            chan' = [chan EXCEPT ![p][receiver(cell[p])] = Append(@,
                [cell |-> cell[p], round |-> Round(p), packed |-> (mode = "eager"),
                 data |-> IF mode = "eager" THEN noise_sqm[p][cell[p]] ELSE {}])]
      BY DEF Isend
    <2> DEFINE m == [cell |-> cell[p], round |-> Round(p), packed |-> (mode = "eager"),
                     data |-> IF mode = "eager" THEN noise_sqm[p][cell[p]] ELSE {}]
    <2>2. m \in Message
      <3>1. noise_sqm[p][cell[p]] \in Levels /\ {} \in Levels /\ Round(p) \in Nat
        BY <1>2, DataTypes DEF Levels
      <3>2. QED
        BY <1>2, <3>1 DEF Message
    <2>3. chan' \in [Ranks -> [Ranks -> Seq(Message)]]
      <3> HIDE DEF m
      <3>1. chan' = [chan EXCEPT ![p][receiver(cell[p])] =
                         Append(chan[p][receiver(cell[p])], m)]
        BY <2>1 DEF m
      <3>2. Append(chan[p][receiver(cell[p])], m) \in Seq(Message)
        BY <1>2, <2>2, DataTypes
      <3>3. QED
        BY <1>2, <3>1, <3>2, ChanUpdate
    <2>4. cell' \in [Ranks -> 0 .. NCells]
      BY <1>1, <1>2 DEF TypeOK
    <2>5. QED
      BY <1>1, <2>3, <2>4 DEF TypeOK
  <1>4. ASSUME NEW q \in Ranks PROVE RankOK(q)'
    <2>1. CASE q # p
      <3>1. cell'[q] = cell[q]
        BY <1>1, <2>1 DEF TypeOK
      <3>2. QED
        BY <1>1, <3>1, Frame DEF Control
    <2>2. CASE q = p
      <3>1. cell'[p] = cell[p] + 1 /\ RankOK(p)
        BY <1>1 DEF TypeOK, Control
      <3>2. Passed(p)' = Passed(p)
        <4>1. p \in Nat /\ p < world_size /\ world_size \in Nat /\ receiver(cell[p]) \in Nat
          BY LoopTypes, WorldAssumption
        <4>2. QED
          BY <1>1, <1>2, <3>1, <4>1, BlockStep DEF Passed
      <3>3. QED
        BY <1>1, <2>2, <3>1, <3>2 DEF RankOK, InCycle, Written, Contribution, Round
    <2>3. QED
      BY <2>1, <2>2
  <1>5. QED
    BY <1>3, <1>4 DEF Control

LEMMA TypePack ==
    ASSUME TypeInv, NEW s \in Ranks, NEW d \in Ranks, Pack(s, d)
    PROVE  TypeInv'
  <1> USE DEF Pack, TypeInv
  <1>1. TypeOK'
    <2>1. PICK i \in 1 .. Len(chan[s][d]) :
            chan' = [chan EXCEPT ![s][d][i] = Packed(@, noise_sqm[s][@.cell])]
      OBVIOUS
    <2> DEFINE m == Packed(chan[s][d][i], noise_sqm[s][chan[s][d][i].cell])
    <2>2. chan[s][d] \in Seq(Message) /\ chan[s][d][i] \in Message
      BY DEF TypeOK
    <2>3. m \in Message
      <3>1. /\ chan[s][d][i].cell \in Cells
            /\ chan[s][d][i].round \in Nat
            /\ noise_sqm[s] \in [Cells -> Levels]
        BY <2>2 DEF TypeOK, Message
      <3>2. noise_sqm[s][chan[s][d][i].cell] \in Levels
        BY <3>1
      <3>3. QED
        BY <3>1, <3>2 DEF Message, Packed
    <2>4. chan' \in [Ranks -> [Ranks -> Seq(Message)]]
      <3> HIDE DEF m
      <3>1. chan' = [chan EXCEPT ![s][d] = [chan[s][d] EXCEPT ![i] = m]]
        BY <2>1 DEF m
      <3>2. [chan[s][d] EXCEPT ![i] = m] \in Seq(Message)
        BY <2>2, <2>3
      <3>3. QED
        BY <3>1, <3>2, ChanUpdate
    <2>5. QED
      BY <2>4 DEF TypeOK
  <1>2. \A q \in Ranks : RankOK(q)'
    BY Frame DEF TypeOK, Control
  <1>3. QED
    BY <1>1, <1>2 DEF Control

\* An entry of the array is replaced.
LEMMA NoisesUpdate ==
    ASSUME TypeOK, NEW p \in Ranks, NEW k \in Slots(p), NEW e \in Entry,
           my_noises' = [my_noises EXCEPT ![p][k] = e]
    PROVE  /\ DOMAIN my_noises' = Ranks
           /\ \A q \in Ranks : my_noises'[q] \in [Slots(q) -> Entry \cup {NoData}]
           /\ \A q \in Ranks \ {p} : my_noises'[q] = my_noises[q]
           /\ my_noises'[p][k] = e
           /\ \A i \in Slots(p) \ {k} : my_noises'[p][i] = my_noises[p][i]
  <1>1. DOMAIN my_noises = Ranks /\ \A q \in Ranks : my_noises[q] \in [Slots(q) -> Entry \cup {NoData}]
    BY DEF TypeOK
  <1>2. my_noises'[p] = [my_noises[p] EXCEPT ![k] = e]
    BY <1>1
  <1>3. my_noises'[p] \in [Slots(p) -> Entry \cup {NoData}]
    BY <1>1, <1>2
  <1>4. \A q \in Ranks \ {p} : my_noises'[q] = my_noises[q]
    BY <1>1
  <1>5. QED
    BY <1>1, <1>2, <1>3, <1>4

LEMMA TypeStartOwn ==
    ASSUME TypeInv, NEW p \in Ranks, StartOwn(p)
    PROVE  TypeInv'
  <1> USE DEF TypeInv
  <1> DEFINE e == [cell |-> cell[p], noise_level |-> noise_sqm[p][cell[p]]]
  <1>1. /\ pc[p] = "shuffle" /\ cell[p] < NCells /\ receiver(cell[p]) = p
        /\ my_noises' = [my_noises EXCEPT ![p][count[p]] = e]
        /\ recvd' = [recvd EXCEPT ![p] = 0]
        /\ pc' = [pc EXCEPT ![p] = "recv"]
        /\ UNCHANGED <<cell, count, noise_sqm, chan, loud, published>>
    BY DEF StartOwn
  <1>2. /\ cell[p] \in Cells /\ RankOK(p) /\ InCycle(p)
        /\ Round(p) >= 1 /\ Round(p)' = Round(p)
    BY <1>1, CellInGrid DEF Control, RankOK, InCycle, Round
  <1>3. e \in Entry
    BY <1>2, DataTypes DEF Entry
  <1>4. count[p] = Block(cell[p])
    BY <1>1, <1>2, LoopTypes DEF RankOK, Passed
  <1>5. count[p] \in Slots(p)
    BY <1>1, <1>2, <1>4, OwnCellHasSlot
  <1> HIDE DEF e
  <1>6. /\ DOMAIN my_noises' = Ranks
        /\ \A q \in Ranks : my_noises'[q] \in [Slots(q) -> Entry \cup {NoData}]
        /\ \A q \in Ranks \ {p} : my_noises'[q] = my_noises[q]
        /\ my_noises'[p][count[p]] = e
        /\ \A i \in Slots(p) \ {count[p]} : my_noises'[p][i] = my_noises[p][i]
    BY <1>1, <1>3, <1>5, NoisesUpdate
  <1>7. TypeOK'
    <2>1. recvd' \in [Ranks -> 0 .. (world_size - 1)]
      BY <1>1, WorldAssumption DEF TypeOK
    <2>2. QED
      BY <1>1, <1>6, <2>1 DEF TypeOK
  <1>8. ASSUME NEW q \in Ranks PROVE RankOK(q)'
    <2>1. CASE q # p
      <3>1. pc'[q] = pc[q] /\ my_noises'[q] = my_noises[q]
        BY <1>1, <1>6, <2>1 DEF TypeOK
      <3>2. QED
        BY <1>1, <3>1, Frame DEF Control
    <2>2. CASE q = p
      <3>1. \A c, r : Contribution(p, c, r)' = Contribution(p, c, r)
        BY <1>1 DEF Contribution
      <3>2. Written(p, count[p])'
        BY <1>1, <1>2, <1>3, <1>4, <1>6, <3>1 DEF Written, RankOK, e
      <3>3. \A k \in Slots(p) : k < count[p] => Written(p, k)'
        <4>1. SUFFICES ASSUME NEW k \in Slots(p), k < count[p] PROVE Written(p, k)'
          OBVIOUS
        <4>2. my_noises'[p][k] = my_noises[p][k]
          <5>1. k # count[p]
            BY <4>1, SlotsType DEF Slots
          <5>2. QED
            BY <1>6, <5>1
        <4>3. Written(p, k)
          BY <1>2, <4>1 DEF RankOK
        <4>4. QED
          BY <1>2, <3>1, <4>2, <4>3 DEF Written
      <3>4. pc'[p] = "recv" /\ Passed(p)' = Passed(p)
        BY <1>1 DEF TypeOK, Passed
      <3>5. QED
        BY <1>1, <1>2, <2>2, <3>1, <3>2, <3>3, <3>4 DEF RankOK, InCycle
    <2>3. QED
      BY <2>1, <2>2
  <1>9. QED
    BY <1>7, <1>8 DEF Control

LEMMA TypeRecv ==
    ASSUME TypeInv, NEW p \in Ranks, NEW s \in Ranks, Recv(p, s)
    PROVE  TypeInv'
  <1> USE DEF TypeInv
  <1> DEFINE old == my_noises[p][count[p]]
             e == [cell |-> old.cell, noise_level |-> old.noise_level \cup Head(chan[s][p]).data]
  <1>1. /\ pc[p] = "recv" /\ recvd[p] < world_size - 1 /\ chan[s][p] # <<>>
        /\ my_noises' = [my_noises EXCEPT ![p][count[p]] = e]
        /\ chan' = [chan EXCEPT ![s][p] = Tail(chan[s][p])]
        /\ recvd' = [recvd EXCEPT ![p] = recvd[p] + 1]
        /\ UNCHANGED <<pc, cell, count, noise_sqm, loud, published>>
    BY DEF Recv, AddNoise, sum_noises
  <1>2. /\ RankOK(p) /\ InCycle(p) /\ Written(p, count[p])
        /\ cell[p] \in Cells /\ receiver(cell[p]) = p /\ Round(p)' = Round(p)
    BY <1>1, CellInGrid DEF Control, RankOK, InCycle, Round
  <1>3. chan[s][p] \in Seq(Message) /\ Head(chan[s][p]) \in Message
        /\ Tail(chan[s][p]) \in Seq(Message)
    BY <1>1, DataTypes
  <1>4. old \in Entry /\ e \in Entry
    <2>1. old \in Entry
      BY <1>2 DEF Written
    <2>2. old.cell \in Cells /\ old.noise_level \in Levels /\ Head(chan[s][p]).data \in Levels
      BY <1>3, <2>1 DEF Entry, Message
    <2>3. old.noise_level \cup Head(chan[s][p]).data \in Levels
      BY <2>2 DEF Levels
    <2>4. QED
      BY <2>1, <2>2, <2>3 DEF Entry
  <1>5. count[p] \in Slots(p)
    <2>1. count[p] = Block(cell[p])
      BY <1>2, LoopTypes DEF RankOK, Passed
    <2>2. QED
      BY <1>2, <2>1, OwnCellHasSlot
  <1> HIDE DEF e, old
  <1>7. /\ DOMAIN my_noises' = Ranks
        /\ \A q \in Ranks : my_noises'[q] \in [Slots(q) -> Entry \cup {NoData}]
        /\ \A q \in Ranks \ {p} : my_noises'[q] = my_noises[q]
        /\ my_noises'[p][count[p]] = e
        /\ \A i \in Slots(p) \ {count[p]} : my_noises'[p][i] = my_noises[p][i]
    BY <1>1, <1>4, <1>5, NoisesUpdate
  <1>8. TypeOK'
    <2>1. recvd' \in [Ranks -> 0 .. (world_size - 1)]
      <3>1. recvd[p] + 1 \in 0 .. (world_size - 1)
        <4>1. recvd[p] \in 0 .. (world_size - 1) /\ recvd[p] < world_size - 1 /\ world_size \in Nat
          BY <1>1, LoopTypes, WorldAssumption
        <4>2. QED
          BY <4>1
      <3>2. QED
        BY <1>1, <3>1 DEF TypeOK
    <2>2. chan' \in [Ranks -> [Ranks -> Seq(Message)]]
      BY <1>1, <1>3, ChanUpdate
    <2>3. QED
      BY <1>1, <1>7, <2>1, <2>2 DEF TypeOK
  <1>9. ASSUME NEW q \in Ranks PROVE RankOK(q)'
    <2>1. CASE q # p
      <3>1. my_noises'[q] = my_noises[q]
        BY <1>7, <2>1
      <3>2. QED
        BY <1>1, <3>1, Frame DEF Control
    <2>2. CASE q = p
      <3>1. \A c, r : Contribution(p, c, r)' = Contribution(p, c, r)
        BY <1>1 DEF Contribution
      <3>2. e.cell = old.cell /\ old.noise_level \subseteq e.noise_level
        BY DEF e
      <3>3. Written(p, count[p])'
        BY <1>1, <1>2, <1>4, <1>7, <3>1, <3>2 DEF Written, old
      <3>4. \A k \in Slots(p) : k < count[p] => Written(p, k)'
        <4>1. SUFFICES ASSUME NEW k \in Slots(p), k < count[p] PROVE Written(p, k)'
          OBVIOUS
        <4>2. my_noises'[p][k] = my_noises[p][k]
          <5>1. k # count[p]
            BY <4>1, SlotsType DEF Slots
          <5>2. QED
            BY <1>7, <5>1
        <4>3. Written(p, k)
          BY <1>2, <4>1 DEF RankOK
        <4>4. QED
          BY <1>2, <3>1, <4>2, <4>3 DEF Written
      <3>5. Passed(p)' = Passed(p)
        BY <1>1 DEF Passed
      <3>6. QED
        BY <1>1, <1>2, <2>2, <3>1, <3>3, <3>4, <3>5 DEF RankOK, InCycle
    <2>3. QED
      BY <2>1, <2>2
  <1>10. QED
    BY <1>8, <1>9 DEF Control

LEMMA TypeEndOwn ==
    ASSUME TypeInv, NEW p \in Ranks, EndOwn(p)
    PROVE  TypeInv'
  <1> USE DEF TypeInv
  <1>1. /\ pc[p] = "recv"
        /\ count' = [count EXCEPT ![p] = count[p] + 1]
        /\ cell' = [cell EXCEPT ![p] = cell[p] + 1]
        /\ pc' = [pc EXCEPT ![p] = "shuffle"]
        /\ UNCHANGED <<recvd, noise_sqm, my_noises, chan, loud, published>>
    BY DEF EndOwn
  <1>2. /\ RankOK(p) /\ InCycle(p) /\ Written(p, count[p])
        /\ cell[p] \in Cells /\ cell[p] + 1 \in 0 .. NCells
        /\ receiver(cell[p]) = p /\ Round(p)' = Round(p)
    BY <1>1, CellInGrid DEF Control, RankOK, InCycle, Round
  <1>3. TypeOK'
    <2>1. cell' \in [Ranks -> 0 .. NCells]
      BY <1>1, <1>2 DEF TypeOK
    <2>2. count' \in [Ranks -> Nat]
      <3>1. count[p] + 1 \in Nat
        BY LoopTypes
      <3>2. QED
        BY <1>1, <3>1 DEF TypeOK
    <2>3. QED
      BY <1>1, <2>1, <2>2 DEF TypeOK
  <1>4. ASSUME NEW q \in Ranks PROVE RankOK(q)'
    <2>1. CASE q # p
      <3>1. pc'[q] = pc[q] /\ cell'[q] = cell[q] /\ count'[q] = count[q]
        BY <1>1, <2>1 DEF TypeOK
      <3>2. QED
        BY <1>1, <3>1, Frame DEF Control
    <2>2. CASE q = p
      <3>1. pc'[p] = "shuffle" /\ cell'[p] = cell[p] + 1 /\ count'[p] = count[p] + 1
        BY <1>1 DEF TypeOK
      <3>2. Passed(p) = Block(cell[p]) /\ Passed(p)' = Block(cell[p]) + 1
        <4>1. /\ p \in Nat /\ p < world_size /\ world_size \in Nat
              /\ cell[p] \in Nat /\ Block(cell[p]) \in Nat
          BY LoopTypes, WorldAssumption
        <4>2. QED
          BY <1>2, <3>1, <4>1, BlockStep DEF Passed
      <3>3. \A k : Written(p, k)' = Written(p, k)
        <4>1. \A c, r : Contribution(p, c, r)' = Contribution(p, c, r)
          BY <1>1 DEF Contribution
        <4>2. QED
          BY <1>1, <1>2, <4>1 DEF Written
      <3>4. \A k \in Slots(p) : k < count'[p] => Written(p, k)'
        <4>1. SUFFICES ASSUME NEW k \in Slots(p), k < count'[p] PROVE Written(p, k)
          BY <3>3
        <4>2. k < count[p] \/ k = count[p]
          BY <3>1, <4>1, LoopTypes, SlotsType DEF Slots
        <4>3. QED
          BY <1>2, <4>2 DEF RankOK
      <3>5. \A c \in Cells : noise_sqm'[p][c] = Contribution(p, c, Round(p))'
        BY <1>1, <1>2 DEF RankOK, Contribution
      <3>6. count'[p] = Passed(p)' /\ Round(p)' >= 1
        BY <1>2, <3>1, <3>2 DEF RankOK
      <3>7. QED
        BY <2>2, <3>1, <3>4, <3>5, <3>6 DEF RankOK, InCycle
    <2>3. QED
      BY <2>1, <2>2
  <1>5. QED
    BY <1>3, <1>4 DEF Control

\* When the loops are over, every entry has been written.
LEMMA AllWritten ==
    ASSUME TypeInv, NEW p \in Ranks, pc[p] = "shuffle", cell[p] = NCells
    PROVE  \A k \in Slots(p) : Written(p, k)
  <1>1. count[p] = Passed(p) /\ \A k \in Slots(p) : k < count[p] => Written(p, k)
    BY DEF TypeInv, Control, RankOK, InCycle
  <1>2. Passed(p) = noises_recv_count(p)
    <2>1. NCells \div world_size \in Nat /\ NCells % world_size \in 0 .. (world_size - 1)
      BY DivMod, NCellsType, WorldAssumption
    <2>2. p \in Nat /\ world_size \in Nat
      BY WorldAssumption DEF Ranks
    <2>3. QED
      BY <2>1, <2>2 DEF Passed, noises_recv_count, Block, receiver
  <1>3. \A k \in Slots(p) : k < noises_recv_count(p)
    BY SlotsType DEF Slots
  <1>4. QED
    BY <1>1, <1>2, <1>3

LEMMA TypePublish ==
    ASSUME TypeInv, NEW p \in Ranks, Publish(p)
    PROVE  TypeInv'
  <1> USE DEF TypeInv
  <1>1. /\ pc[p] = "shuffle" /\ cell[p] = NCells
        /\ published' = [published EXCEPT ![p] =
               Append(published[p], publish_data(my_noises[p], noises_recv_count(p)))]
        /\ pc' = [pc EXCEPT ![p] = "move"]
        /\ UNCHANGED <<cell, recvd, count, noise_sqm, my_noises, chan, loud>>
    BY DEF Publish
  <1>2. publish_data(my_noises[p], noises_recv_count(p)) \in SUBSET Entry
    BY <1>1, AllWritten DEF publish_data, Slots, Written
  <1>3. TypeOK'
    <2>1. Append(published[p], publish_data(my_noises[p], noises_recv_count(p)))
            \in Seq(SUBSET Entry)
      BY <1>2, DataTypes
    <2>2. published' \in [Ranks -> Seq(SUBSET Entry)]
      BY <1>1, <2>1 DEF TypeOK
    <2>3. QED
      BY <1>1, <2>2 DEF TypeOK
  <1>4. ASSUME NEW q \in Ranks PROVE RankOK(q)'
    <2>1. CASE q # p
      <3>1. pc'[q] = pc[q]
        BY <1>1, <2>1 DEF TypeOK
      <3>2. QED
        BY <1>1, <3>1, Frame DEF Control
    <2>2. CASE q = p
      BY <1>1, <2>2 DEF TypeOK, RankOK, InCycle
    <2>3. QED
      BY <2>1, <2>2
  <1>5. QED
    BY <1>3, <1>4 DEF Control

LEMMA TypeMove ==
    ASSUME TypeInv, NEW p \in Ranks, Move(p)
    PROVE  TypeInv'
  <1> USE DEF TypeInv
  <1>1. TypeOK'
    BY DEF TypeOK, Move
  <1>2. ASSUME NEW q \in Ranks PROVE RankOK(q)'
    <2>1. CASE q # p
      <3>1. pc'[q] = pc[q] /\ UNCHANGED <<cell, count, noise_sqm, my_noises, loud>>
        BY <2>1 DEF TypeOK, Move
      <3>2. QED
        BY <3>1, Frame DEF Control
    <2>2. CASE q = p
      BY <2>2 DEF TypeOK, Move, RankOK, InCycle
    <2>3. QED
      BY <2>1, <2>2
  <1>3. QED
    BY <1>1, <1>2 DEF Control

LEMMA TypeReset ==
    ASSUME TypeInv, NEW p \in Ranks, Reset(p)
    PROVE  TypeInv'
  <1> USE DEF TypeInv
  <1>1. /\ noise_sqm' = [noise_sqm EXCEPT ![p] = [c \in Cells |-> {}]]
        /\ pc' = [pc EXCEPT ![p] = "compute"]
        /\ UNCHANGED <<cell, recvd, count, my_noises, chan, loud, published>>
    BY DEF Reset, reset_matrix
  <1>2. TypeOK'
    <2>1. noise_sqm' \in [Ranks -> [Cells -> Levels]]
      BY <1>1 DEF TypeOK, Levels
    <2>2. QED
      BY <1>1, <2>1 DEF TypeOK
  <1>3. ASSUME NEW q \in Ranks PROVE RankOK(q)'
    <2>1. CASE q # p
      <3>1. pc'[q] = pc[q] /\ noise_sqm'[q] = noise_sqm[q]
        BY <1>1, <2>1 DEF TypeOK
      <3>2. QED
        BY <1>1, <3>1, Frame DEF Control
    <2>2. CASE q = p
      BY <1>1, <2>2 DEF TypeOK, RankOK, InCycle
    <2>3. QED
      BY <2>1, <2>2
  <1>4. QED
    BY <1>2, <1>3 DEF Control

LEMMA TypeStep == TypeInv /\ [Next]_vars => TypeInv'
  <1> SUFFICES ASSUME TypeInv, [Next]_vars PROVE TypeInv'
    OBVIOUS
  <1>1. ASSUME NEW p \in Ranks, Compute(p) PROVE TypeInv'
    <2>1. PICK N \in Footprints : ComputeCells(p, N)
      BY <1>1 DEF Compute
    <2>2. N \in SUBSET Cells
      BY FootprintAssumption
    <2>3. QED
      BY <2>1, <2>2, TypeCompute
  <1>2. ASSUME NEW p \in Ranks, RankStep(p) PROVE TypeInv'
    BY <1>1, <1>2, TypeIsend, TypeStartOwn, TypeRecv, TypeEndOwn, TypePublish, TypeMove, TypeReset
       DEF RankStep
  <1>3. CASE UNCHANGED vars
    <2>1. TypeOK'
      BY <1>3 DEF TypeInv, TypeOK, vars
    <2>2. \A q \in Ranks : RankOK(q)'
      BY <1>3, Frame DEF TypeInv, Control, vars
    <2>3. QED
      BY <2>1, <2>2 DEF TypeInv, Control
  <1>4. QED
    BY <1>2, <1>3, TypePack DEF Next

LEMMA TypeInvariant == Spec => []TypeInv
  BY TypeInit, TypeStep, PTL DEF Spec

\* Type correctness: whatever the number of ranks, the size of the region and
\* the way MPI sends, the variables of the loop stay in their types, in
\* particular cell never runs past the matrix.
THEOREM TypeCorrect == Spec => []TypeOK
  <1>1. TypeInv => TypeOK
    BY DEF TypeInv
  <1>2. QED
    BY <1>1, TypeInvariant, PTL

\* For every number of ranks, also one that does not divide the number of
\* cells, the loop that fills my_noises stays inside the array that main.c 104
\* allocates.
THEOREM CountStaysInBounds == Spec => []CountInBounds
  <1>1. ASSUME TypeInv PROVE CountInBounds
    <2>1. SUFFICES ASSUME NEW p \in Ranks,
                          pc[p] = "recv" \/ (pc[p] = "shuffle" /\ cell[p] \in Owned(p))
                   PROVE  count[p] \in Slots(p)
      BY DEF CountInBounds
    <2>2. RankOK(p) /\ InCycle(p) /\ TypeOK
      BY <1>1, <2>1 DEF TypeInv, Control, InCycle
    <2>3. cell[p] \in Cells /\ receiver(cell[p]) = p
      BY <2>1, <2>2, CellInGrid DEF RankOK, Owned
    <2>4. count[p] = Block(cell[p])
      BY <2>2, <2>3, LoopTypes DEF RankOK, Passed
    <2>5. QED
      BY <2>3, <2>4, OwnCellHasSlot
  <1>2. QED
    BY <1>1, TypeInvariant, PTL

\* Every entry publish_data reads was written in the same cycle, for the right
\* cell: no uninitialised or stale entry is ever published.
THEOREM SlotsStayFresh == Spec => []SlotsFresh
  <1>1. ASSUME TypeInv PROVE SlotsFresh
    <2>1. SUFFICES ASSUME NEW p \in Ranks, pc[p] = "shuffle", cell[p] = NCells,
                          NEW k \in Slots(p)
                   PROVE  /\ my_noises[p][k] \in Entry
                          /\ my_noises[p][k].cell = p + k * world_size
                          /\ Contribution(p, my_noises[p][k].cell, Round(p))
                               \subseteq my_noises[p][k].noise_level
      BY DEF SlotsFresh
    <2>2. Written(p, k)
      BY <1>1, <2>1, AllWritten
    <2> DEFINE c == my_noises[p][k].cell
    <2>3. c \in Nat
      BY <2>2, NCellsType DEF Written, Entry, Cells
    <2>4. c = (world_size * (c \div world_size)) + (c % world_size)
      BY <2>3, DivMod, WorldAssumption
    <2>5. c % world_size = p /\ c \div world_size = k
      BY <2>2 DEF Written, receiver, Block
    <2>6. k \in Nat /\ p \in Nat /\ world_size \in Nat
      BY SlotsType, WorldAssumption DEF Slots, Ranks
    <2> HIDE DEF c
    <2>7. c = p + k * world_size
      BY <2>3, <2>4, <2>5, <2>6
    <2>8. QED
      BY <2>2, <2>7 DEF Written, c
  <1>2. QED
    BY <1>1, TypeInvariant, PTL

-----------------------------------------------------------------------------
(* When the number of ranks divides the number of cells, the shuffle keeps *)
(* the ranks in step although it has no barrier and every receive takes    *)
(* any source.                                                             *)

\* Every rank owns the same number of cells.
EvenSplit == NCells % world_size = 0

Q == Block(NCells)
Turns == Nat \X (0 .. (Q - 1))

LEMMA TurnsPerCycle ==
    ASSUME EvenSplit
    PROVE  /\ Q \in Nat /\ Q >= 1
           /\ \A c \in Cells : Block(c) < Q
           /\ receiver(NCells) = 0
  <1>1. Q \in Nat /\ receiver(NCells) = 0
    BY BlockType, NCellsType DEF Q, EvenSplit, receiver
  <1>2. ASSUME NEW c \in Cells PROVE Block(c) < Q
    <2>1. Block(c) \in Slots(receiver(c)) /\ c \in Nat
      BY OwnCellHasSlot, NCellsType DEF Cells
    <2>2. receiver(c) \in Ranks
      BY <2>1, BlockType
    <2>3. receiver(c) + 1 > 0
      BY <2>2 DEF Ranks
    <2>4. noises_recv_count(receiver(c)) = Q
      BY <2>3, <2>2 DEF noises_recv_count, Q, Block, EvenSplit, Ranks
    <2>5. QED
      BY <1>1, <2>1, <2>4 DEF Slots
  <1>3. Q >= 1
    <2>1. 0 \in Cells
      BY NCellsType DEF Cells
    <2>2. Block(0) < Q
      BY <1>2, <2>1
    <2>3. QED
      BY <1>1, <2>2, BlockZero
  <1>4. QED
    BY <1>1, <1>2, <1>3

Before(t, u) == t[1] < u[1] \/ (t[1] = u[1] /\ t[2] < u[2])

LEMMA NextTurnIsLater ==
    ASSUME EvenSplit, NEW t \in Turns
    PROVE  NextTurn(t) \in Turns /\ Before(t, NextTurn(t))
  <1>1. Q \in Nat /\ Q >= 1
    BY TurnsPerCycle
  <1>2. t[1] \in Nat /\ t[2] \in 0 .. (Q - 1)
    BY DEF Turns
  <1>3. CASE t[2] + 1 < Q
    <2>1. NextTurn(t) = <<t[1], t[2] + 1>>
      BY <1>3 DEF NextTurn, Q
    <2>2. QED
      BY <1>1, <1>2, <1>3, <2>1 DEF Before, Turns
  <1>4. CASE ~ (t[2] + 1 < Q)
    <2>1. NextTurn(t) = <<t[1] + 1, 0>>
      BY <1>4 DEF NextTurn, Q
    <2>2. QED
      BY <1>1, <1>2, <2>1 DEF Before, Turns
  <1>5. QED
    BY <1>3, <1>4

LEMMA BeforeIsStrict ==
    ASSUME EvenSplit, NEW t \in Turns, NEW u \in Turns, NEW v \in Turns
    PROVE  /\ ~ Before(t, t)
           /\ Before(t, u) /\ Before(u, v) => Before(t, v)
  <1>1. /\ t[1] \in Nat /\ t[2] \in 0 .. (Q - 1)
        /\ u[1] \in Nat /\ u[2] \in 0 .. (Q - 1)
        /\ v[1] \in Nat /\ v[2] \in 0 .. (Q - 1)
    BY DEF Turns
  <1>2. Q \in Nat
    BY TurnsPerCycle
  <1>3. QED
    BY <1>1, <1>2 DEF Before

\* The order of turns has no short cycles.
LEMMA TurnOrder ==
    ASSUME EvenSplit, NEW t \in Turns
    PROVE  /\ NextTurn(t) \in Turns
           /\ NextTurn(t) # t
           /\ NextTurn(NextTurn(t)) # t
           /\ NextTurn(NextTurn(t)) # NextTurn(t)
           /\ NextTurn(NextTurn(NextTurn(t))) # t
           /\ NextTurn(NextTurn(NextTurn(t))) # NextTurn(t)
  <1> DEFINE t1 == NextTurn(t)
             t2 == NextTurn(t1)
             t3 == NextTurn(t2)
  <1>1. t1 \in Turns /\ Before(t, t1)
    BY NextTurnIsLater
  <1> HIDE DEF t1
  <1>2. t2 \in Turns /\ Before(t1, t2)
    BY <1>1, NextTurnIsLater
  <1> HIDE DEF t2
  <1>3. t3 \in Turns /\ Before(t2, t3)
    BY <1>2, NextTurnIsLater
  <1> HIDE DEF t3
  <1>4. Before(t, t2) /\ Before(t1, t3)
    BY <1>1, <1>2, <1>3, BeforeIsStrict
  <1>5. Before(t, t3)
    BY <1>1, <1>3, <1>4, BeforeIsStrict
  <1>6. t1 # t /\ t2 # t /\ t2 # t1 /\ t3 # t /\ t3 # t1
    BY <1>1, <1>2, <1>3, <1>4, <1>5, BeforeIsStrict
  <1>7. QED
    BY <1>1, <1>6 DEF t1, t2, t3

\* How far a rank is on its way to the next turn of d.
Ahead(p, d) == Block(cell[p]) + (IF receiver(cell[p]) > d THEN 1 ELSE 0)

LEMMA NextForValue ==
    ASSUME TypeInv, EvenSplit, NEW p \in Ranks, NEW d \in Ranks
    PROVE  /\ Ahead(p, d) \in Nat
           /\ Round(p) \in Nat
           /\ NextFor(p, d) = IF InCycle(p) /\ Ahead(p, d) < Q
                              THEN <<Round(p), Ahead(p, d)>> ELSE <<Round(p) + 1, 0>>
           /\ NextFor(p, d) \in Turns
  <1>1. Ahead(p, d) \in Nat /\ Round(p) \in Nat
    <2>1. TypeOK
      BY DEF TypeInv
    <2>2. Block(cell[p]) \in Nat
      BY <2>1, LoopTypes
    <2>3. QED
      BY <2>1, <2>2, DataTypes DEF Ahead
  <1>2. NextFor(p, d) = IF InCycle(p) /\ Ahead(p, d) < Q
                        THEN <<Round(p), Ahead(p, d)>> ELSE <<Round(p) + 1, 0>>
    BY DEF NextFor, Ahead, InCycle, Q
  <1>3. Q \in Nat /\ Q >= 1
    BY TurnsPerCycle
  <1>4. QED
    BY <1>1, <1>2, <1>3 DEF Turns

\* A rank that goes to the next cell passes the turn of the rank that owns the
\* cell, and no other.
LEMMA NextForAdvance ==
    ASSUME TypeInv, TypeInv', EvenSplit, NEW p \in Ranks, NEW d \in Ranks,
           InCycle(p), InCycle(p)', cell[p] < NCells, cell'[p] = cell[p] + 1,
           Round(p)' = Round(p)
    PROVE  /\ receiver(cell[p]) = d => /\ NextFor(p, d) = <<Round(p), Block(cell[p])>>
                                       /\ NextFor(p, d)' = NextTurn(NextFor(p, d))
           /\ receiver(cell[p]) # d => NextFor(p, d)' = NextFor(p, d)
  <1> DEFINE b == Block(cell[p])
             o == receiver(cell[p])
  <1>1. /\ b \in Nat /\ o \in Nat /\ cell[p] \in Nat /\ cell[p] \in Cells
        /\ o < world_size
    BY LoopTypes, CellInGrid DEF TypeInv, Ranks
  <1>2. d \in Nat /\ d < world_size /\ world_size \in Nat
    BY WorldAssumption DEF Ranks
  <1>3. Q \in Nat /\ b < Q
    BY <1>1, TurnsPerCycle
  <1>4. Ahead(p, d)' = Ahead(p, d) + (IF o = d THEN 1 ELSE 0)
    BY <1>1, <1>2, BlockStep DEF Ahead
  <1>5. o = d => Ahead(p, d) = b
    BY <1>1, <1>2 DEF Ahead
  <1>6. NextFor(p, d) = IF Ahead(p, d) < Q
                        THEN <<Round(p), Ahead(p, d)>> ELSE <<Round(p) + 1, 0>>
    BY NextForValue
  <1>7. NextFor(p, d)' = IF Ahead(p, d)' < Q
                         THEN <<Round(p), Ahead(p, d)'>> ELSE <<Round(p) + 1, 0>>
    BY DEF NextFor, Ahead, InCycle, Q
  <1>8. Ahead(p, d) \in Nat /\ Round(p) \in Nat
    BY NextForValue
  <1>9. CASE o = d
    <2>1. NextFor(p, d) = <<Round(p), b>>
      BY <1>3, <1>5, <1>6, <1>9
    <2>2. NextFor(p, d)' = IF b + 1 < Q THEN <<Round(p), b + 1>> ELSE <<Round(p) + 1, 0>>
      BY <1>4, <1>5, <1>7, <1>9
    <2>3. NextTurn(<<Round(p), b>>) =
            IF b + 1 < Q THEN <<Round(p), b + 1>> ELSE <<Round(p) + 1, 0>>
      BY DEF NextTurn, Q
    <2>4. QED
      BY <1>9, <2>1, <2>2, <2>3
  <1>10. CASE o # d
    BY <1>4, <1>6, <1>7, <1>8, <1>10
  <1>11. QED
    BY <1>9, <1>10

\* Steps outside the two loops pass no turn.
LEMMA NextForStays ==
    ASSUME TypeInv, EvenSplit, NEW p \in Ranks, NEW d \in Ranks,
           \/ /\ InCycle(p) = InCycle(p)'
              /\ cell'[p] = cell[p] /\ Round(p)' = Round(p)
           \/ /\ pc[p] = "shuffle" /\ cell[p] = NCells
              /\ ~ InCycle(p)' /\ Round(p)' = Round(p)
           \/ /\ ~ InCycle(p) /\ pc'[p] = "shuffle" /\ cell'[p] = 0
              /\ Round(p)' = Round(p) + 1
    PROVE  NextFor(p, d)' = NextFor(p, d)
  <1>1. CASE InCycle(p) = InCycle(p)' /\ cell'[p] = cell[p] /\ Round(p)' = Round(p)
    BY <1>1 DEF NextFor, InCycle
  <1>2. CASE /\ pc[p] = "shuffle" /\ cell[p] = NCells
             /\ ~ InCycle(p)' /\ Round(p)' = Round(p)
    <2>1. Q \in Nat /\ Ahead(p, d) = Q
      BY <1>2, TurnsPerCycle DEF Ahead, Q, Ranks
    <2>2. NextFor(p, d) = <<Round(p) + 1, 0>>
      BY <2>1, NextForValue
    <2>3. NextFor(p, d)' = <<Round(p) + 1, 0>>
      BY <1>2 DEF NextFor, InCycle
    <2>4. QED
      BY <2>2, <2>3
  <1>3. CASE /\ ~ InCycle(p) /\ pc'[p] = "shuffle" /\ cell'[p] = 0
             /\ Round(p)' = Round(p) + 1
    <2>1. NextFor(p, d) = <<Round(p) + 1, 0>>
      BY <1>3, NextForValue
    <2>2. Ahead(p, d)' = 0 /\ 0 < Q
      BY <1>3, BlockZero, TurnsPerCycle DEF Ahead, Ranks
    <2>3. NextFor(p, d)' = <<Round(p) + 1, 0>>
      BY <1>3, <2>2 DEF NextFor, Ahead, Q
    <2>4. QED
      BY <2>1, <2>3
  <1>4. QED
    BY <1>1, <1>2, <1>3

-----------------------------------------------------------------------------
(* The inductive invariant.                                                *)

\* The ranks whose message for the turn d is at has been received.
Got(d) == {s \in Ranks \ {d} : chan[s][d] = <<>> /\ NextFor(s, d) = NextTurn(NextFor(d, d))}

SelfEmpty == \A p \in Ranks : chan[p][p] = <<>>
RecvdIsGot == \A p \in Ranks : pc[p] = "recv" => recvd[p] = Cardinality(Got(p))

StepInv == InStep /\ SelfEmpty /\ RecvdIsGot

LEMMA RanksFinite ==
    /\ IsFiniteSet(Ranks) /\ Cardinality(Ranks) = world_size
    /\ \A p \in Ranks : /\ IsFiniteSet(Ranks \ {p})
                        /\ Cardinality(Ranks \ {p}) = world_size - 1
  <1>1. 0 \in Int /\ world_size - 1 \in Int
    BY WorldAssumption
  <1>2. IsFiniteSet(Ranks) /\ Cardinality(Ranks) = world_size
    BY <1>1, FS_Interval, WorldAssumption DEF Ranks
  <1>3. QED
    BY <1>2, FS_RemoveElement

LEMMA PairFrame ==
    ASSUME NEW s \in Ranks, NEW d \in Ranks, PairInStep(s, d),
           NextFor(s, d)' = NextFor(s, d), NextFor(d, d)' = NextFor(d, d),
           chan'[s][d] = chan[s][d], pc[d] = "recv" => pc'[d] = "recv"
    PROVE  PairInStep(s, d)'
  <1>1. NextTurn(NextFor(d, d))' = NextTurn(NextFor(d, d))
    BY DEF NextTurn
  <1>2. QED
    BY <1>1 DEF PairInStep

LEMMA GotFrame ==
    ASSUME NEW d \in Ranks,
           \A s \in Ranks : NextFor(s, d)' = NextFor(s, d) /\ chan'[s][d] = chan[s][d]
    PROVE  Got(d)' = Got(d)
  <1>1. NextTurn(NextFor(d, d))' = NextTurn(NextFor(d, d))
    BY DEF NextTurn
  <1>2. QED
    BY <1>1 DEF Got

\* A step that passes no turn, sends nothing and receives nothing.
LEMMA QuietStep ==
    ASSUME StepInv, \A p, d \in Ranks : NextFor(p, d)' = NextFor(p, d), chan' = chan,
           \A q \in Ranks : pc[q] = "recv" => pc'[q] = "recv"
    PROVE  /\ InStep' /\ SelfEmpty'
           /\ \A q \in Ranks : Got(q)' = Got(q)
           /\ \A q \in Ranks : /\ pc[q] = "recv" /\ recvd'[q] = recvd[q]
                               => recvd'[q] = Cardinality(Got(q)')
  <1>1. InStep'
    BY PairFrame DEF StepInv, InStep
  <1>2. SelfEmpty'
    BY DEF StepInv, SelfEmpty
  <1>3. \A q \in Ranks : Got(q)' = Got(q)
    BY GotFrame
  <1>4. QED
    BY <1>1, <1>2, <1>3 DEF StepInv, RecvdIsGot

LEMMA StepInit == EvenSplit /\ Init => StepInv
  <1> SUFFICES ASSUME EvenSplit, Init PROVE StepInv
    OBVIOUS
  <1>1. \A p, d \in Ranks : NextFor(p, d) = <<1, 0>> /\ chan[p][d] = <<>>
    BY DEF Init, NextFor, Round
  <1>2. QED
    BY <1>1 DEF StepInv, InStep, PairInStep, SelfEmpty, RecvdIsGot, Init

LEMMA StepCompute ==
    ASSUME TypeInv, TypeInv', EvenSplit, StepInv, NEW p \in Ranks, Compute(p)
    PROVE  StepInv' /\ \A q \in Ranks : Got(q)' = Got(q)
  <1>1. PICK N \in Footprints : ComputeCells(p, N)
    BY DEF Compute
  <1>2. /\ pc[p] = "compute" /\ pc' = [pc EXCEPT ![p] = "shuffle"]
        /\ cell' = [cell EXCEPT ![p] = 0]
        /\ loud' = [loud EXCEPT ![p] = Append(loud[p], N)]
        /\ UNCHANGED <<recvd, chan>>
    BY <1>1 DEF ComputeCells
  <1>3. /\ pc'[p] = "shuffle" /\ cell'[p] = 0 /\ ~ InCycle(p)
        /\ \A q \in Ranks \ {p} : pc'[q] = pc[q] /\ cell'[q] = cell[q] /\ loud'[q] = loud[q]
    BY <1>2 DEF TypeInv, TypeOK, InCycle
  <1>4. Round(p)' = Round(p) + 1
    BY <1>2, DataTypes DEF Round, TypeInv, TypeOK
  <1>5. \A q, d \in Ranks : NextFor(q, d)' = NextFor(q, d)
    BY <1>3, <1>4, NextForStays DEF InCycle, Round
  <1>6. \A q \in Ranks : (pc[q] = "recv") = (pc'[q] = "recv")
    BY <1>2, <1>3
  <1>7. QED
    BY <1>2, <1>5, <1>6, QuietStep DEF StepInv, RecvdIsGot

LEMMA StepLocal ==
    ASSUME TypeInv, TypeInv', EvenSplit, StepInv, NEW p \in Ranks,
           Publish(p) \/ Move(p) \/ Reset(p)
    PROVE  StepInv' /\ \A q \in Ranks : Got(q)' = Got(q)
  <1>1. /\ pc[p] \in {"shuffle", "move", "reset"} /\ pc'[p] \in {"move", "reset", "compute"}
        /\ pc[p] = "shuffle" => cell[p] = NCells
        /\ \A q \in Ranks \ {p} : pc'[q] = pc[q]
        /\ UNCHANGED <<cell, recvd, chan, loud>>
    BY DEF Publish, Move, Reset, TypeInv, TypeOK
  <1>2. \A q, d \in Ranks : NextFor(q, d)' = NextFor(q, d)
    BY <1>1, NextForStays DEF InCycle, Round
  <1>3. \A q \in Ranks : (pc[q] = "recv") = (pc'[q] = "recv")
    BY <1>1
  <1>4. QED
    BY <1>1, <1>2, <1>3, QuietStep DEF StepInv, RecvdIsGot

LEMMA StepStartOwn ==
    ASSUME TypeInv, TypeInv', EvenSplit, StepInv, NEW p \in Ranks, StartOwn(p)
    PROVE  StepInv' /\ Got(p)' = {} /\ \A q \in Ranks \ {p} : Got(q)' = Got(q)
  <1>1. /\ pc[p] = "shuffle" /\ pc'[p] = "recv" /\ recvd'[p] = 0
        /\ \A q \in Ranks \ {p} : pc'[q] = pc[q] /\ recvd'[q] = recvd[q]
        /\ UNCHANGED <<cell, chan, loud>>
    BY DEF StartOwn, TypeInv, TypeOK
  <1>2. \A q, d \in Ranks : NextFor(q, d)' = NextFor(q, d)
    BY <1>1, NextForStays DEF InCycle, Round
  <1>3. \A q \in Ranks : pc[q] = "recv" => pc'[q] = "recv"
    BY <1>1
  <1>4. Got(p)' = {}
    <2>1. Got(p)' = Got(p)
      BY <1>1, <1>2, GotFrame
    <2>2. ASSUME NEW s \in Ranks \ {p} PROVE s \notin Got(p)
      <3>1. NextTurn(NextFor(p, p)) # NextFor(p, p)
        BY NextForValue, TurnOrder
      <3>2. PairInStep(s, p)
        BY DEF StepInv, InStep
      <3>3. QED
        BY <1>1, <3>1, <3>2 DEF PairInStep, Got
    <2>3. QED
      BY <2>1, <2>2 DEF Got
  <1>5. RecvdIsGot'
    <2>1. ASSUME NEW q \in Ranks, pc'[q] = "recv" PROVE recvd'[q] = Cardinality(Got(q)')
      <3>1. CASE q = p
        BY <1>1, <1>4, <3>1, FS_EmptySet
      <3>2. CASE q # p
        BY <1>1, <1>2, <1>3, <2>1, <3>2, QuietStep
      <3>3. QED
        BY <3>1, <3>2
    <2>2. QED
      BY <2>1 DEF RecvdIsGot
  <1>6. QED
    BY <1>1, <1>2, <1>3, <1>4, <1>5, QuietStep DEF StepInv

\* On its way through the cells a rank meets the turns of lower ranks first.
LEMMA TurnsInRankOrder ==
    ASSUME TypeInv, EvenSplit, NEW p \in Ranks, NEW x \in Ranks, NEW y \in Ranks, x < y
    PROVE  NextFor(p, x) = NextFor(p, y) \/ NextFor(p, x) = NextTurn(NextFor(p, y))
  <1>1. /\ Ahead(p, x) \in Nat /\ Ahead(p, y) \in Nat /\ Round(p) \in Nat
        /\ NextFor(p, x) = IF InCycle(p) /\ Ahead(p, x) < Q
                           THEN <<Round(p), Ahead(p, x)>> ELSE <<Round(p) + 1, 0>>
        /\ NextFor(p, y) = IF InCycle(p) /\ Ahead(p, y) < Q
                           THEN <<Round(p), Ahead(p, y)>> ELSE <<Round(p) + 1, 0>>
    BY NextForValue
  <1>2. Ahead(p, x) = Ahead(p, y) \/ Ahead(p, x) = Ahead(p, y) + 1
    <2>1. x \in Nat /\ y \in Nat
      BY DEF Ranks
    <2>2. Block(cell[p]) \in Nat /\ receiver(cell[p]) \in Nat
      BY LoopTypes DEF TypeInv
    <2>3. QED
      BY <2>1, <2>2 DEF Ahead
  <1>3. Q \in Nat
    BY TurnsPerCycle
  <1>4. CASE Ahead(p, x) = Ahead(p, y)
    BY <1>1, <1>4
  <1>5. CASE Ahead(p, x) = Ahead(p, y) + 1
    <2>1. NextTurn(<<Round(p), Ahead(p, y)>>) =
            IF Ahead(p, y) + 1 < Q THEN <<Round(p), Ahead(p, y) + 1>> ELSE <<Round(p) + 1, 0>>
      BY DEF NextTurn, Q
    <2>2. QED
      BY <1>1, <1>3, <1>5, <2>1
  <1>6. QED
    BY <1>2, <1>4, <1>5

\* The key step: a rank that is about to send to d cannot be a whole turn ahead
\* of d, for in between it had a turn of its own, at which it received from d.
LEMMA NotSentYet ==
    ASSUME TypeInv, EvenSplit, StepInv, NEW s \in Ranks, NEW d \in Ranks, s # d,
           pc[s] = "shuffle", cell[s] < NCells, receiver(cell[s]) = d
    PROVE  chan[s][d] = <<>> /\ NextFor(s, d) = NextFor(d, d)
  <1> DEFINE t == NextFor(d, d)
  <1>1. PairInStep(s, d) /\ PairInStep(d, s)
    BY DEF StepInv, InStep
  <1>2. SUFFICES ASSUME NextFor(s, d) = NextTurn(t) PROVE FALSE
    BY <1>1 DEF PairInStep
  <1>3. t \in Turns /\ NextFor(d, s) \in Turns /\ NextFor(s, s) \in Turns
    BY NextForValue
  <1>4. NextFor(d, s) = NextFor(s, s) \/ NextFor(d, s) = NextTurn(NextFor(s, s))
    BY <1>1 DEF PairInStep
  <1>5. /\ Block(cell[s]) \in Nat /\ Block(cell[s]) < Q /\ Q \in Nat /\ Round(s) \in Nat
        /\ s \in Nat /\ d \in Nat
    <2>1. TypeOK /\ cell[s] \in Cells
      BY CellInGrid DEF TypeInv
    <2>2. QED
      BY <2>1, LoopTypes, DataTypes, TurnsPerCycle
  <1>6. NextFor(s, d) = <<Round(s), Block(cell[s])>>
    <2>1. Ahead(s, d) = Block(cell[s])
      BY <1>5 DEF Ahead
    <2>2. QED
      BY <1>5, <2>1, NextForValue DEF InCycle
  <1>7. CASE s < d
    <2>1. Ahead(s, s) = Block(cell[s]) + 1
      BY <1>5, <1>7 DEF Ahead
    <2>2. NextFor(s, s) = NextTurn(NextFor(s, d))
      <3>1. NextFor(s, s) = IF Block(cell[s]) + 1 < Q THEN <<Round(s), Block(cell[s]) + 1>>
                                                     ELSE <<Round(s) + 1, 0>>
        BY <2>1, NextForValue DEF InCycle
      <3>2. NextTurn(<<Round(s), Block(cell[s])>>) =
              IF Block(cell[s]) + 1 < Q THEN <<Round(s), Block(cell[s]) + 1>>
                                       ELSE <<Round(s) + 1, 0>>
        BY DEF NextTurn, Q
      <3>3. QED
        BY <1>6, <3>1, <3>2
    <2>3. NextFor(d, s) = t \/ NextFor(d, s) = NextTurn(t)
      BY <1>7, TurnsInRankOrder
    <2>4. QED
      BY <1>2, <1>3, <1>4, <2>2, <2>3, TurnOrder
  <1>8. CASE d < s
    <2>1. NextFor(s, s) = NextFor(s, d)
      <3>1. Ahead(s, s) = Block(cell[s])
        BY <1>5, <1>8 DEF Ahead
      <3>2. QED
        BY <1>5, <1>6, <3>1, NextForValue DEF InCycle
    <2>2. t = NextFor(d, s) \/ t = NextTurn(NextFor(d, s))
      BY <1>8, TurnsInRankOrder
    <2>3. QED
      BY <1>2, <1>3, <1>4, <2>1, <2>2, TurnOrder
  <1>9. QED
    BY <1>5, <1>7, <1>8

LEMMA StepIsend ==
    ASSUME TypeInv, TypeInv', EvenSplit, StepInv, NEW p \in Ranks, Isend(p)
    PROVE  StepInv' /\ \A q \in Ranks : Got(q)' = Got(q)
  <1>0. PICK d \in Ranks : d = receiver(cell[p])
    BY LoopTypes DEF TypeInv
  <1>1. /\ pc[p] = "shuffle" /\ cell[p] < NCells /\ d # p
        /\ UNCHANGED <<pc, recvd, loud>>
        /\ cell'[p] = cell[p] + 1 /\ \A q \in Ranks \ {p} : cell'[q] = cell[q]
    BY <1>0 DEF Isend, TypeInv, TypeOK
  <1>3. PICK m : /\ m.cell = cell[p] /\ m.round = Round(p)
                 /\ chan' = [chan EXCEPT ![p][d] = Append(chan[p][d], m)]
    BY <1>0 DEF Isend
  <1>4. /\ chan'[p][d] = Append(chan[p][d], m)
        /\ \A s, e \in Ranks : s # p \/ e # d => chan'[s][e] = chan[s][e]
    BY <1>0, <1>3 DEF TypeInv, TypeOK
  <1>5. chan[p][d] = <<>> /\ NextFor(p, d) = NextFor(d, d)
    BY <1>1, <1>0, NotSentYet
  <1>6. /\ NextFor(p, d) = <<Round(p), Block(cell[p])>>
        /\ NextFor(p, d)' = NextTurn(NextFor(p, d))
        /\ \A e \in Ranks \ {d} : NextFor(p, e)' = NextFor(p, e)
    BY <1>1, <1>0, NextForAdvance DEF InCycle, Round
  <1>7. \A q \in Ranks \ {p} : \A e \in Ranks : NextFor(q, e)' = NextFor(q, e)
    BY <1>1, NextForStays DEF InCycle, Round
  <1>8. Len(chan'[p][d]) = 1 /\ chan'[p][d][1] = m
    BY <1>4, <1>5
  <1>9. InStep'
    <2>1. ASSUME NEW e \in Ranks, NEW s \in Ranks \ {e} PROVE PairInStep(s, e)'
      <3>1. CASE s = p /\ e = d
        <4>1. NextFor(d, d)' = NextFor(d, d)
          BY <1>1, <1>0, <1>7
        <4>2. NextTurn(NextFor(d, d))' = NextTurn(NextFor(d, d))
          BY <4>1 DEF NextTurn
        <4>3. /\ <<m.round, Block(m.cell)>> = NextFor(d, d)'
              /\ receiver(m.cell) = d
              /\ NextFor(p, d)' = NextTurn(NextFor(d, d))'
          BY <1>0, <1>3, <1>5, <1>6, <4>1, <4>2
        <4>4. QED
          BY <1>8, <3>1, <4>3 DEF PairInStep
      <3>2. CASE ~ (s = p /\ e = d)
        <4>1. NextFor(s, e)' = NextFor(s, e) /\ NextFor(e, e)' = NextFor(e, e)
          BY <1>1, <1>6, <1>7, <3>2
        <4>2. chan'[s][e] = chan[s][e] /\ PairInStep(s, e)
          BY <1>4, <3>2 DEF StepInv, InStep
        <4>3. QED
          BY <1>1, <4>1, <4>2, PairFrame
      <3>3. QED
        BY <3>1, <3>2
    <2>2. QED
      BY <2>1 DEF InStep
  <1>10. SelfEmpty'
    BY <1>1, <1>4 DEF StepInv, SelfEmpty
  <1>11. ASSUME NEW e \in Ranks PROVE Got(e)' = Got(e)
    <2>1. CASE e # d
      BY <1>4, <1>6, <1>7, <2>1, GotFrame
    <2>2. CASE e = d
      <3>1. /\ NextTurn(NextFor(d, d))' = NextTurn(NextFor(d, d))
            /\ NextTurn(NextFor(d, d)) # NextFor(d, d)
        BY <1>1, <1>0, <1>7, NextForValue, TurnOrder DEF NextTurn
      <3>2. p \notin Got(d) /\ p \notin Got(d)'
        BY <1>5, <1>8, <3>1 DEF Got
      <3>3. \A s \in Ranks \ {p} : s \in Got(d)' <=> s \in Got(d)
        BY <1>4, <1>7, <3>1 DEF Got
      <3>4. QED
        BY <2>2, <3>2, <3>3 DEF Got
    <2>3. QED
      BY <2>1, <2>2
  <1>12. RecvdIsGot'
    BY <1>1, <1>11 DEF StepInv, RecvdIsGot
  <1>13. QED
    BY <1>9, <1>10, <1>11, <1>12 DEF StepInv

LEMMA StepRecv ==
    ASSUME TypeInv, TypeInv', EvenSplit, StepInv, NEW p \in Ranks, NEW s \in Ranks, Recv(p, s)
    PROVE  StepInv' /\ Got(p)' = Got(p) \cup {s} /\ \A q \in Ranks \ {p} : Got(q)' = Got(q)
  <1>1. /\ pc[p] = "recv" /\ chan[s][p] # <<>>
        /\ chan' = [chan EXCEPT ![s][p] = Tail(chan[s][p])]
        /\ recvd' = [recvd EXCEPT ![p] = recvd[p] + 1]
        /\ UNCHANGED <<pc, cell, loud>>
    BY DEF Recv
  <1>2. /\ chan'[s][p] = Tail(chan[s][p])
        /\ \A q, e \in Ranks : q # s \/ e # p => chan'[q][e] = chan[q][e]
        /\ recvd'[p] = recvd[p] + 1
        /\ \A q \in Ranks \ {p} : recvd'[q] = recvd[q]
    BY <1>1 DEF TypeInv, TypeOK
  <1>3. s # p
    BY <1>1 DEF StepInv, SelfEmpty
  <1>4. \A q, e \in Ranks : NextFor(q, e)' = NextFor(q, e)
    BY <1>1, NextForStays DEF InCycle, Round
  <1>5. Len(chan[s][p]) = 1 /\ NextFor(s, p) = NextTurn(NextFor(p, p))
    BY <1>1, <1>3 DEF StepInv, InStep, PairInStep
  <1>6. chan'[s][p] = <<>>
    <2>1. chan[s][p] \in Seq(Message)
      BY DataTypes DEF TypeInv
    <2>2. Tail(chan[s][p]) \in Seq(Message) /\ Len(Tail(chan[s][p])) = 0
      BY <1>1, <1>5, <2>1
    <2>3. QED
      BY <1>2, <2>2, EmptySeq
  <1>7. NextTurn(NextFor(p, p))' = NextTurn(NextFor(p, p))
    BY <1>4 DEF NextTurn
  <1>8. InStep'
    <2>1. ASSUME NEW e \in Ranks, NEW q \in Ranks \ {e} PROVE PairInStep(q, e)'
      <3>1. CASE q = s /\ e = p
        BY <1>1, <1>4, <1>5, <1>6, <1>7, <3>1 DEF PairInStep
      <3>2. CASE ~ (q = s /\ e = p)
        BY <1>1, <1>2, <1>4, <3>2, PairFrame DEF StepInv, InStep
      <3>3. QED
        BY <3>1, <3>2
    <2>2. QED
      BY <2>1 DEF InStep
  <1>9. SelfEmpty'
    BY <1>2, <1>3 DEF StepInv, SelfEmpty
  <1>10. Got(p)' = Got(p) \cup {s} /\ s \notin Got(p)
    <2>1. s \notin Got(p) /\ s \in Got(p)'
      BY <1>1, <1>3, <1>4, <1>5, <1>6, <1>7 DEF Got
    <2>2. \A q \in Ranks \ {s} : q \in Got(p)' <=> q \in Got(p)
      BY <1>2, <1>4, <1>7 DEF Got
    <2>3. QED
      BY <2>1, <2>2 DEF Got
  <1>11. \A e \in Ranks \ {p} : Got(e)' = Got(e)
    BY <1>2, <1>4, GotFrame
  <1>12. RecvdIsGot'
    <2>1. ASSUME NEW e \in Ranks, pc'[e] = "recv" PROVE recvd'[e] = Cardinality(Got(e)')
      <3>1. CASE e = p
        <4>1. IsFiniteSet(Got(p))
          BY RanksFinite, FS_Subset DEF Got
        <4>2. Cardinality(Got(p) \cup {s}) = Cardinality(Got(p)) + 1
          BY <1>10, <4>1, FS_AddElement
        <4>3. QED
          BY <1>1, <1>2, <1>10, <3>1, <4>2 DEF StepInv, RecvdIsGot
      <3>2. CASE e # p
        BY <1>1, <1>2, <1>11, <2>1, <3>2 DEF StepInv, RecvdIsGot
      <3>3. QED
        BY <3>1, <3>2
    <2>2. QED
      BY <2>1 DEF RecvdIsGot
  <1>13. QED
    BY <1>8, <1>9, <1>10, <1>11, <1>12 DEF StepInv

\* A rank leaves its turn only when it has a message from each other rank.
LEMMA AllGot ==
    ASSUME TypeInv, StepInv, NEW p \in Ranks, EndOwn(p)
    PROVE  Got(p) = Ranks \ {p}
  <1>1. recvd[p] = Cardinality(Got(p)) /\ recvd[p] >= world_size - 1
    BY DEF EndOwn, StepInv, RecvdIsGot
  <1>2. recvd[p] \in 0 .. (world_size - 1) /\ world_size \in Nat
    BY LoopTypes, WorldAssumption DEF TypeInv
  <1>3. Cardinality(Got(p)) = world_size - 1
    BY <1>1, <1>2
  <1>4. Got(p) \in SUBSET (Ranks \ {p})
    BY DEF Got
  <1>5. QED
    BY <1>3, <1>4, RanksFinite, FS_Subset

LEMMA StepEndOwn ==
    ASSUME TypeInv, TypeInv', EvenSplit, StepInv, NEW p \in Ranks, EndOwn(p)
    PROVE  StepInv' /\ \A q \in Ranks \ {p} : Got(q)' = Got(q)
  <1>1. /\ pc[p] = "recv" /\ pc'[p] = "shuffle" /\ cell'[p] = cell[p] + 1
        /\ \A q \in Ranks \ {p} : pc'[q] = pc[q] /\ cell'[q] = cell[q]
        /\ UNCHANGED <<recvd, chan, loud>>
    BY DEF EndOwn, TypeInv, TypeOK
  <1>2. cell[p] < NCells /\ receiver(cell[p]) = p
    BY <1>1 DEF TypeInv, Control, RankOK
  <1>3. /\ NextFor(p, p)' = NextTurn(NextFor(p, p))
        /\ \A e \in Ranks \ {p} : NextFor(p, e)' = NextFor(p, e)
    BY <1>1, <1>2, NextForAdvance DEF InCycle, Round
  <1>4. \A q \in Ranks \ {p} : \A e \in Ranks : NextFor(q, e)' = NextFor(q, e)
    BY <1>1, NextForStays DEF InCycle, Round
  <1>5. InStep'
    <2>1. ASSUME NEW e \in Ranks, NEW s \in Ranks \ {e} PROVE PairInStep(s, e)'
      <3>1. CASE e = p
        <4>1. s \in Got(p)
          BY <3>1, AllGot
        <4>2. chan[s][p] = <<>> /\ NextFor(s, p) = NextTurn(NextFor(p, p))
          BY <4>1 DEF Got
        <4>3. QED
          BY <1>1, <1>3, <1>4, <3>1, <4>2 DEF PairInStep
      <3>2. CASE e # p
        BY <1>1, <1>3, <1>4, <3>2, PairFrame DEF StepInv, InStep
      <3>3. QED
        BY <3>1, <3>2
    <2>2. QED
      BY <2>1 DEF InStep
  <1>6. SelfEmpty'
    BY <1>1 DEF StepInv, SelfEmpty
  <1>7. \A e \in Ranks \ {p} : Got(e)' = Got(e)
    BY <1>1, <1>3, <1>4, GotFrame
  <1>8. RecvdIsGot'
    BY <1>1, <1>7 DEF StepInv, RecvdIsGot
  <1>9. QED
    BY <1>5, <1>6, <1>7, <1>8 DEF StepInv

LEMMA StepPack ==
    ASSUME TypeInv, TypeInv', EvenSplit, StepInv, NEW s \in Ranks, NEW d \in Ranks, Pack(s, d)
    PROVE  StepInv' /\ \A q \in Ranks : Got(q)' = Got(q)
  <1>1. PICK i \in 1 .. Len(chan[s][d]) :
          chan' = [chan EXCEPT ![s][d][i] = Packed(@, noise_sqm[s][@.cell])]
    BY DEF Pack
  <1>2. UNCHANGED <<pc, cell, recvd, loud>>
    BY DEF Pack
  <1>3. \A q, e \in Ranks : NextFor(q, e)' = NextFor(q, e)
    BY <1>2, NextForStays DEF InCycle, Round
  <1>4. chan[s][d] \in Seq(Message)
    BY DataTypes DEF TypeInv
  <1>5. \A q, e \in Ranks : /\ Len(chan'[q][e]) = Len(chan[q][e])
                            /\ chan'[q][e] = <<>> <=> chan[q][e] = <<>>
                            /\ \A j \in 1 .. Len(chan[q][e]) :
                                 /\ chan'[q][e][j].cell = chan[q][e][j].cell
                                 /\ chan'[q][e][j].round = chan[q][e][j].round
    <2>1. chan'[s][d] = [chan[s][d] EXCEPT ![i] = Packed(@, noise_sqm[s][@.cell])]
      BY <1>1 DEF TypeInv, TypeOK
    <2>2. \A q, e \in Ranks : q # s \/ e # d => chan'[q][e] = chan[q][e]
      BY <1>1 DEF TypeInv, TypeOK
    <2>3. /\ Len(chan'[s][d]) = Len(chan[s][d])
          /\ chan'[s][d] # <<>> /\ chan[s][d] # <<>>
      BY <1>4, <2>1
    <2>4. \A j \in 1 .. Len(chan[s][d]) : /\ chan'[s][d][j].cell = chan[s][d][j].cell
                                          /\ chan'[s][d][j].round = chan[s][d][j].round
      BY <1>4, <2>1 DEF Packed
    <2>5. QED
      BY <2>2, <2>3, <2>4
  <1>6. \A e \in Ranks : NextTurn(NextFor(e, e))' = NextTurn(NextFor(e, e))
    BY <1>3 DEF NextTurn
  <1>7. InStep'
    <2>1. ASSUME NEW e \in Ranks, NEW q \in Ranks \ {e} PROVE PairInStep(q, e)'
      <3>1. PairInStep(q, e)
        BY DEF StepInv, InStep
      <3>2. Len(chan[q][e]) = 1 => /\ chan'[q][e][1].cell = chan[q][e][1].cell
                                   /\ chan'[q][e][1].round = chan[q][e][1].round
        BY <1>5
      <3>3. QED
        BY <1>2, <1>3, <1>5, <1>6, <3>1, <3>2 DEF PairInStep
    <2>2. QED
      BY <2>1 DEF InStep
  <1>8. SelfEmpty'
    BY <1>5 DEF StepInv, SelfEmpty
  <1>9. \A e \in Ranks : Got(e)' = Got(e)
    BY <1>3, <1>5, <1>6 DEF Got
  <1>10. RecvdIsGot'
    BY <1>2, <1>9 DEF StepInv, RecvdIsGot
  <1>11. QED
    BY <1>7, <1>8, <1>9, <1>10 DEF StepInv

LEMMA StepStep ==
    ASSUME EvenSplit
    PROVE  TypeInv /\ TypeInv' /\ StepInv /\ [Next]_vars => StepInv'
  <1> SUFFICES ASSUME TypeInv, TypeInv', StepInv, [Next]_vars PROVE StepInv'
    OBVIOUS
  <1>1. ASSUME NEW p \in Ranks, RankStep(p) PROVE StepInv'
    BY <1>1, StepCompute, StepIsend, StepStartOwn, StepRecv, StepEndOwn, StepLocal DEF RankStep
  <1>2. CASE UNCHANGED vars
    <2>1. UNCHANGED <<pc, cell, recvd, chan, loud>>
      BY <1>2 DEF vars
    <2>2. \A q, e \in Ranks : NextFor(q, e)' = NextFor(q, e)
      BY <2>1, NextForStays DEF InCycle, Round
    <2>3. QED
      BY <2>1, <2>2, QuietStep DEF StepInv, RecvdIsGot
  <1>3. QED
    BY <1>1, <1>2, StepPack DEF Next

LEMMA StepInvariant ==
    ASSUME EvenSplit
    PROVE  Spec => [](TypeInv /\ StepInv)
  <1>1. Init => StepInv
    BY StepInit
  <1>2. TypeInv /\ TypeInv' /\ StepInv /\ [Next]_vars => StepInv'
    BY StepStep
  <1>3. QED
    BY <1>1, <1>2, TypeInvariant, PTL DEF Spec

\* When the number of ranks divides the number of cells, every rank stays
\* within one message of every other, however MPI_ANY_SOURCE matches and
\* whenever MPI reads the send buffers (main.c 121-145).
THEOREM RanksStayInStep ==
    ASSUME EvenSplit
    PROVE  Spec => []InStep
  <1>1. StepInv => InStep
    BY DEF StepInv
  <1>2. QED
    BY <1>1, StepInvariant, PTL

-----------------------------------------------------------------------------
(* Counting the messages.                                                  *)

\* The turns of d that the loops of s have passed in this cycle.
PassedFor(s, d) == Block(cell[s]) + (IF receiver(cell[s]) > d THEN 1 ELSE 0)

\* The turns of d that s has passed since the start: for s # d the messages s
\* has posted for d, for s = d the entries d has completed.
PastTurns(s, d) ==
    IF InCycle(s) THEN (Round(s) - 1) * noises_recv_count(d) + PassedFor(s, d)
                  ELSE Round(s) * noises_recv_count(d)

\* The messages d has received: <<s, k>> is the k-th one of s.
Taken(d) == {m \in (Ranks \ {d}) \X (Nat \ {0}) :
                m[2] + Len(chan[m[1]][d]) <= PastTurns(m[1], d)}

\* Every entry completed has taken world_size - 1 messages, from whatever
\* senders, and the entry at hand has taken recvd.
CountOK(d) ==
    /\ \A s \in Ranks \ {d} : Len(chan[s][d]) <= PastTurns(s, d)
    /\ IsFiniteSet(Taken(d))
    /\ Cardinality(Taken(d)) =
         (world_size - 1) * PastTurns(d, d) + (IF pc[d] = "recv" THEN recvd[d] ELSE 0)

CountInv == SelfEmpty /\ \A d \in Ranks : CountOK(d)

\* A rank passes the turns of d one after the other, and at the end of its
\* loops it has passed them all.
LEMMA PassedBound ==
    ASSUME NEW c \in 0 .. NCells, NEW d \in Ranks
    PROVE  LET n == Block(c) + (IF receiver(c) > d THEN 1 ELSE 0)
           IN  /\ n \in Nat /\ n <= noises_recv_count(d)
               /\ c = NCells => n = noises_recv_count(d)
  <1> DEFINE w == world_size
             q == c \div w
             r == c % w
             QQ == NCells \div w
             RR == NCells % w
  <1>1. w \in Nat \ {0} /\ c \in Nat /\ NCells \in Nat /\ c <= NCells /\ d \in Nat
    BY WorldAssumption, NCellsType DEF Ranks
  <1>2. q \in Nat /\ r \in 0 .. (w - 1) /\ c = (w * q) + r
    BY <1>1, DivMod
  <1>3. QQ \in Nat /\ RR \in 0 .. (w - 1) /\ NCells = (w * QQ) + RR
    BY <1>1, DivMod
  <1>4. w * q \in Nat /\ w * QQ \in Nat
    BY <1>1, <1>2, <1>3
  <1>5. c = NCells => q = QQ /\ r = RR
    OBVIOUS
  <1>6. noises_recv_count(d) = QQ + (IF RR > d THEN 1 ELSE 0)
    BY <1>1, <1>3 DEF noises_recv_count
  <1> HIDE DEF q, r, QQ, RR
  <1>7. ~ (QQ < q)
    <2>1. SUFFICES ASSUME QQ < q PROVE FALSE
      OBVIOUS
    <2>2. w * QQ + w <= w * q
      BY <1>1, <1>2, <1>3, <2>1, MultiplesApart
    <2>3. QED
      BY <2>2, <1>1, <1>2, <1>3, <1>4
  <1>8. q = QQ => r <= RR
    BY <1>1, <1>2, <1>3, <1>4
  <1>9. LET n == q + (IF r > d THEN 1 ELSE 0)
        IN  /\ n \in Nat /\ n <= noises_recv_count(d)
            /\ c = NCells => n = noises_recv_count(d)
    BY <1>1, <1>2, <1>3, <1>5, <1>6, <1>7, <1>8
  <1>10. QED
    BY <1>9 DEF Block, receiver, q, r, w

\* Going to the next cell passes a turn of the rank the cell belongs to.
LEMMA PassedStep ==
    ASSUME NEW c \in Nat, NEW d \in Ranks
    PROVE  Block(c + 1) + (IF receiver(c + 1) > d THEN 1 ELSE 0) =
             Block(c) + (IF receiver(c) > d THEN 1 ELSE 0) + (IF receiver(c) = d THEN 1 ELSE 0)
  <1>1. /\ Block(c) \in Nat /\ receiver(c) \in Nat /\ receiver(c) < world_size
        /\ d \in Nat /\ d < world_size /\ world_size \in Nat
    BY BlockType, WorldAssumption DEF Ranks
  <1>2. QED
    BY <1>1, BlockStep

LEMMA TurnsType ==
    ASSUME TypeInv, NEW s \in Ranks, NEW d \in Ranks
    PROVE  /\ noises_recv_count(d) \in Nat /\ Round(s) \in Nat
           /\ PassedFor(s, d) \in Nat
           /\ InCycle(s) => Round(s) - 1 \in Nat
           /\ PastTurns(s, d) \in Nat
           /\ PastTurns(s, d) <= Round(s) * noises_recv_count(d)
  <1>1. noises_recv_count(d) \in Nat /\ Round(s) \in Nat
    BY SlotsType, DataTypes DEF TypeInv
  <1>2. PassedFor(s, d) \in Nat /\ PassedFor(s, d) <= noises_recv_count(d)
    BY PassedBound, LoopTypes DEF TypeInv, PassedFor
  <1>3. InCycle(s) => Round(s) - 1 \in Nat
    BY <1>1 DEF TypeInv, Control, RankOK
  <1>4. CASE InCycle(s)
    <2>1. PICK m \in Nat : m = Round(s) - 1
      BY <1>3, <1>4
    <2>2. PICK n \in Nat : n = noises_recv_count(d)
      BY <1>1
    <2>3. PICK f \in Nat : f = PassedFor(s, d) /\ f <= n
      BY <1>2, <2>2
    <2>4. PastTurns(s, d) = m * n + f
      BY <1>4, <2>1, <2>2, <2>3 DEF PastTurns
    <2>5. Round(s) = m + 1
      BY <1>1, <2>1
    <2>6. m * n + f \in Nat /\ m * n + f <= (m + 1) * n
      <3>1. m * n \in Nat /\ (m + 1) * n = m * n + n
        BY <2>1, <2>2
      <3>2. QED
        BY <3>1, <2>3
    <2>7. QED
      BY <1>1, <1>2, <1>3, <2>2, <2>4, <2>5, <2>6
  <1>5. CASE ~ InCycle(s)
    <2>1. PastTurns(s, d) = Round(s) * noises_recv_count(d)
      BY <1>5 DEF PastTurns
    <2>2. QED
      BY <1>1, <1>2, <1>3, <2>1
  <1>6. QED
    BY <1>4, <1>5

\* A rank that has finished its loops has passed all the turns of its cycles.
LEMMA TurnsAtEnd ==
    ASSUME TypeInv, NEW s \in Ranks, NEW d \in Ranks,
           ~ InCycle(s) \/ cell[s] = NCells
    PROVE  PastTurns(s, d) = Round(s) * noises_recv_count(d)
  <1>1. CASE ~ InCycle(s)
    BY <1>1 DEF PastTurns
  <1>2. CASE InCycle(s) /\ cell[s] = NCells
    <2>1. PassedFor(s, d) = noises_recv_count(d)
      BY <1>2, PassedBound, LoopTypes DEF TypeInv, PassedFor
    <2>2. PICK m \in Nat : m = Round(s) - 1
      BY <1>2, TurnsType
    <2>3. PICK n \in Nat : n = noises_recv_count(d)
      BY TurnsType
    <2>4. Round(s) = m + 1
      BY <2>2, TurnsType
    <2>5. m * n + n = (m + 1) * n
      BY <2>2, <2>3
    <2>6. QED
      BY <1>2, <2>1, <2>2, <2>3, <2>4, <2>5 DEF PastTurns
  <1>3. QED
    BY <1>1, <1>2

LEMMA TurnsFrame ==
    ASSUME NEW s \in Ranks, NEW d \in Ranks,
           InCycle(s)' = InCycle(s), cell'[s] = cell[s], loud'[s] = loud[s]
    PROVE  PastTurns(s, d)' = PastTurns(s, d)
  BY DEF PastTurns, PassedFor, Round

\* A step over a cell passes a turn of its rank and of no other.
LEMMA TurnsAdvance ==
    ASSUME TypeInv, NEW p \in Ranks, InCycle(p), InCycle(p)', cell'[p] = cell[p] + 1,
           loud'[p] = loud[p], NEW d \in Ranks
    PROVE  PastTurns(p, d)' = PastTurns(p, d) + (IF receiver(cell[p]) = d THEN 1 ELSE 0)
  <1>1. PassedFor(p, d)' = PassedFor(p, d) + (IF receiver(cell[p]) = d THEN 1 ELSE 0)
    BY PassedStep, LoopTypes DEF TypeInv, PassedFor
  <1>2. PICK m \in Nat : m = (Round(p) - 1) * noises_recv_count(d)
    BY TurnsType
  <1>3. Round(p)' = Round(p)
    BY DEF Round
  <1>4. PastTurns(p, d) = m + PassedFor(p, d) /\ PastTurns(p, d)' = m + PassedFor(p, d)'
    BY <1>2, <1>3 DEF PastTurns
  <1>5. PassedFor(p, d) \in Nat
    BY TurnsType
  <1>6. QED
    BY <1>1, <1>2, <1>4, <1>5

LEMMA CountersAreNat ==
    ASSUME TypeInv
    PROVE  \A s, d \in Ranks : PastTurns(s, d) \in Nat /\ Len(chan[s][d]) \in Nat
  <1>1. ASSUME NEW s \in Ranks, NEW d \in Ranks
        PROVE  PastTurns(s, d) \in Nat /\ Len(chan[s][d]) \in Nat
    <2>1. chan[s][d] \in Seq(Message)
      BY DataTypes DEF TypeInv
    <2>2. Len(chan[s][d]) \in Nat
      BY <2>1
    <2>3. PastTurns(s, d) \in Nat
      BY TurnsType
    <2>4. QED
      BY <2>2, <2>3
  <1>2. QED
    BY <1>1

\* What d has received, what it has completed and where it is at stay the same.
LEMMA CountFrame ==
    ASSUME TypeInv, NEW d \in Ranks, CountOK(d),
           \A s \in Ranks \ {d} : \E n \in Nat : /\ PastTurns(s, d)' = PastTurns(s, d) + n
                                                 /\ Len(chan'[s][d]) = Len(chan[s][d]) + n,
           PastTurns(d, d)' = PastTurns(d, d),
           (IF pc'[d] = "recv" THEN recvd'[d] ELSE 0) = (IF pc[d] = "recv" THEN recvd[d] ELSE 0)
    PROVE  CountOK(d)'
  <1>1. \A s \in Ranks : PastTurns(s, d) \in Nat /\ Len(chan[s][d]) \in Nat
    BY CountersAreNat
  <1>2. \A s \in Ranks \ {d} : Len(chan'[s][d]) <= PastTurns(s, d)'
    BY <1>1 DEF CountOK
  <1>3. ASSUME NEW s \in Ranks \ {d}, NEW k \in Nat
        PROVE  (k + Len(chan'[s][d]) <= PastTurns(s, d)') <=> (k + Len(chan[s][d]) <= PastTurns(s, d))
    <2>1. PICK n \in Nat : /\ PastTurns(s, d)' = PastTurns(s, d) + n
                           /\ Len(chan'[s][d]) = Len(chan[s][d]) + n
      OBVIOUS
    <2>2. PastTurns(s, d) \in Nat /\ Len(chan[s][d]) \in Nat
      BY <1>1
    <2>3. QED
      BY <2>1, <2>2
  <1>4. Taken(d)' = Taken(d)
    BY <1>3 DEF Taken
  <1>5. QED
    BY <1>2, <1>4 DEF CountOK

\* A step of rank p that passes no turn and touches no channel.
LEMMA CountQuiet ==
    ASSUME TypeInv, CountInv, NEW p \in Ranks, chan' = chan,
           \A d \in Ranks : PastTurns(p, d)' = PastTurns(p, d),
           \A q \in Ranks \ {p} : /\ pc'[q] = pc[q] /\ cell'[q] = cell[q]
                                  /\ loud'[q] = loud[q] /\ recvd'[q] = recvd[q],
           (IF pc'[p] = "recv" THEN recvd'[p] ELSE 0) = (IF pc[p] = "recv" THEN recvd[p] ELSE 0)
    PROVE  CountInv'
  <1>1. \A s, d \in Ranks : PastTurns(s, d)' = PastTurns(s, d)
    BY TurnsFrame DEF InCycle
  <1>2. ASSUME NEW d \in Ranks PROVE CountOK(d)'
    <2>1. ASSUME NEW s \in Ranks \ {d}
          PROVE  \E n \in Nat : /\ PastTurns(s, d)' = PastTurns(s, d) + n
                                /\ Len(chan'[s][d]) = Len(chan[s][d]) + n
      <3>1. PastTurns(s, d) \in Nat /\ Len(chan[s][d]) \in Nat
        BY CountersAreNat
      <3>2. PastTurns(s, d)' = PastTurns(s, d) + 0 /\ Len(chan'[s][d]) = Len(chan[s][d]) + 0
        BY <1>1, <3>1
      <3>3. QED
        BY <3>2
    <2>2. CountOK(d)
      BY DEF CountInv
    <2>3. (IF pc'[d] = "recv" THEN recvd'[d] ELSE 0) = (IF pc[d] = "recv" THEN recvd[d] ELSE 0)
      OBVIOUS
    <2>4. QED
      BY <1>1, <2>1, <2>2, <2>3, CountFrame
  <1>3. SelfEmpty'
    BY DEF CountInv, SelfEmpty
  <1>4. QED
    BY <1>2, <1>3 DEF CountInv

\* The start of a cycle, and the steps of a rank that go to no other cell, pass
\* no turn.
LEMMA TurnsCompute ==
    ASSUME TypeInv, NEW p \in Ranks, NEW N \in SUBSET Cells, ComputeCells(p, N)
    PROVE  \A s, d \in Ranks : PastTurns(s, d)' = PastTurns(s, d)
  <1>1. /\ pc[p] = "compute" /\ pc'[p] = "shuffle" /\ cell'[p] = 0
        /\ loud[p] \in Seq(SUBSET Cells) /\ loud'[p] = Append(loud[p], N)
        /\ \A q \in Ranks \ {p} : pc'[q] = pc[q] /\ cell'[q] = cell[q] /\ loud'[q] = loud[q]
    BY DEF ComputeCells, TypeInv, TypeOK
  <1>2. Round(p) \in Nat /\ Round(p)' = Round(p) + 1
    BY <1>1 DEF Round
  <1>3. ASSUME NEW d \in Ranks PROVE PastTurns(p, d)' = PastTurns(p, d)
    <2>1. PassedFor(p, d)' = 0
      BY <1>1, BlockZero DEF PassedFor, Ranks
    <2>2. PastTurns(p, d) = Round(p) * noises_recv_count(d)
      BY <1>1 DEF PastTurns, InCycle
    <2>3. PastTurns(p, d)' = Round(p) * noises_recv_count(d) + 0
      <3>1. PastTurns(p, d)' = (Round(p)' - 1) * noises_recv_count(d) + PassedFor(p, d)'
        BY <1>1 DEF PastTurns, InCycle
      <3>2. Round(p)' - 1 = Round(p)
        BY <1>2
      <3>3. QED
        BY <2>1, <3>1, <3>2
    <2>4. PastTurns(p, d) \in Nat
      BY TurnsType
    <2>5. QED
      BY <2>2, <2>3, <2>4
  <1>4. \A s, d \in Ranks : s # p => PastTurns(s, d)' = PastTurns(s, d)
    BY <1>1, TurnsFrame DEF InCycle
  <1>5. QED
    BY <1>3, <1>4

LEMMA TurnsLocal ==
    ASSUME TypeInv, NEW p \in Ranks, StartOwn(p) \/ Publish(p) \/ Move(p) \/ Reset(p)
    PROVE  \A s, d \in Ranks : PastTurns(s, d)' = PastTurns(s, d)
  <1>1. UNCHANGED <<cell, loud>> /\ \A q \in Ranks \ {p} : pc'[q] = pc[q]
    BY DEF StartOwn, Publish, Move, Reset, TypeInv, TypeOK
  <1>2. ASSUME NEW d \in Ranks PROVE PastTurns(p, d)' = PastTurns(p, d)
    <2>1. CASE InCycle(p)' = InCycle(p)
      BY <1>1, <2>1, TurnsFrame
    <2>2. CASE Publish(p)
      <3>1. cell[p] = NCells /\ pc'[p] = "move" /\ Round(p)' = Round(p)
        BY <2>2 DEF Publish, Round, TypeInv, TypeOK
      <3>2. PastTurns(p, d) = Round(p) * noises_recv_count(d)
        BY <3>1, TurnsAtEnd
      <3>3. QED
        BY <3>1, <3>2 DEF PastTurns, InCycle
    <2>3. QED
      BY <2>1, <2>2 DEF StartOwn, Move, Reset, TypeInv, TypeOK, InCycle
  <1>3. \A s, d \in Ranks : s # p => PastTurns(s, d)' = PastTurns(s, d)
    BY <1>1, TurnsFrame DEF InCycle
  <1>4. QED
    BY <1>2, <1>3

LEMMA CountCompute ==
    ASSUME TypeInv, CountInv, NEW p \in Ranks, NEW N \in SUBSET Cells, ComputeCells(p, N)
    PROVE  CountInv'
  <1>1. /\ pc[p] = "compute" /\ pc'[p] = "shuffle" /\ UNCHANGED <<recvd, chan>>
        /\ \A q \in Ranks \ {p} : pc'[q] = pc[q] /\ cell'[q] = cell[q] /\ loud'[q] = loud[q]
    BY DEF ComputeCells, TypeInv, TypeOK
  <1>2. QED
    BY <1>1, TurnsCompute, CountQuiet

LEMMA CountLocal ==
    ASSUME TypeInv, CountInv, NEW p \in Ranks,
           StartOwn(p) \/ Publish(p) \/ Move(p) \/ Reset(p)
    PROVE  CountInv'
  <1>1. /\ UNCHANGED <<cell, chan, loud>>
        /\ \A q \in Ranks \ {p} : pc'[q] = pc[q] /\ recvd'[q] = recvd[q]
    BY DEF StartOwn, Publish, Move, Reset, TypeInv, TypeOK
  <1>2. (IF pc'[p] = "recv" THEN recvd'[p] ELSE 0) = (IF pc[p] = "recv" THEN recvd[p] ELSE 0)
    BY DEF StartOwn, Publish, Move, Reset, TypeInv, TypeOK
  <1>3. QED
    BY <1>1, <1>2, TurnsLocal, CountQuiet

LEMMA CountIsend ==
    ASSUME TypeInv, CountInv, NEW p \in Ranks, Isend(p)
    PROVE  CountInv'
  <1>1. PICK e \in Ranks : e = receiver(cell[p]) /\ e # p
    BY LoopTypes DEF TypeInv, Isend
  <1>2. /\ pc[p] = "shuffle" /\ UNCHANGED <<pc, recvd, loud>>
        /\ cell'[p] = cell[p] + 1
        /\ \A q \in Ranks \ {p} : cell'[q] = cell[q]
    BY DEF Isend, TypeInv, TypeOK
  <1>3. PICK m : chan' = [chan EXCEPT ![p][e] = Append(chan[p][e], m)]
    BY <1>1 DEF Isend
  <1>4. /\ chan'[p][e] = Append(chan[p][e], m) /\ chan[p][e] \in Seq(Message)
        /\ \A s, d \in Ranks : s # p \/ d # e => chan'[s][d] = chan[s][d]
    BY <1>3 DEF TypeInv, TypeOK
  <1>5. Len(chan'[p][e]) = Len(chan[p][e]) + 1
    BY <1>4
  <1>6. \A d \in Ranks : PastTurns(p, d)' = PastTurns(p, d) + (IF d = e THEN 1 ELSE 0)
    BY <1>1, <1>2, TurnsAdvance DEF InCycle
  <1>7. \A s, d \in Ranks : s # p => PastTurns(s, d)' = PastTurns(s, d)
    BY <1>2, TurnsFrame DEF InCycle
  <1>8. \A s, d \in Ranks : PastTurns(s, d) \in Nat /\ Len(chan[s][d]) \in Nat
    BY CountersAreNat
  <1>9. ASSUME NEW d \in Ranks PROVE CountOK(d)'
    <2>1. ASSUME NEW s \in Ranks \ {d}
          PROVE  \E n \in Nat : /\ PastTurns(s, d)' = PastTurns(s, d) + n
                                /\ Len(chan'[s][d]) = Len(chan[s][d]) + n
      <3>1. CASE s = p /\ d = e
        BY <1>5, <1>6, <3>1
      <3>2. CASE ~ (s = p /\ d = e)
        <4>1. PastTurns(s, d)' = PastTurns(s, d) + 0 /\ Len(chan'[s][d]) = Len(chan[s][d]) + 0
          <5>1. chan'[s][d] = chan[s][d]
            BY <1>4, <3>2
          <5>2. PastTurns(s, d)' = PastTurns(s, d) + 0
            BY <1>6, <1>7, <1>8, <3>2
          <5>3. QED
            BY <1>8, <5>1, <5>2
        <4>2. QED
          BY <4>1
      <3>3. QED
        BY <3>1, <3>2
    <2>2. PastTurns(d, d)' = PastTurns(d, d)
      BY <1>1, <1>6, <1>7, <1>8
    <2>3. QED
      BY <1>2, <2>1, <2>2, CountFrame DEF CountInv
  <1>10. SelfEmpty'
    BY <1>1, <1>4 DEF CountInv, SelfEmpty
  <1>11. QED
    BY <1>9, <1>10 DEF CountInv

LEMMA CountPack ==
    ASSUME TypeInv, CountInv, NEW s \in Ranks, NEW d \in Ranks, Pack(s, d)
    PROVE  CountInv'
  <1>1. PICK i \in 1 .. Len(chan[s][d]) :
          chan' = [chan EXCEPT ![s][d][i] = Packed(chan[s][d][i], noise_sqm[s][chan[s][d][i].cell])]
    BY DEF Pack
  <1>2. UNCHANGED <<pc, cell, recvd, loud>>
    BY DEF Pack
  <1>3. chan \in [Ranks -> [Ranks -> Seq(Message)]]
    BY DEF TypeInv, TypeOK
  <1>4. PICK m : m = Packed(chan[s][d][i], noise_sqm[s][chan[s][d][i].cell])
    OBVIOUS
  <1>5. chan' = [chan EXCEPT ![s][d][i] = m]
    BY <1>1, <1>4
  <1>6. /\ chan'[s][d] = [chan[s][d] EXCEPT ![i] = m] /\ chan[s][d] \in Seq(Message)
        /\ \A q, e \in Ranks : q # s \/ e # d => chan'[q][e] = chan[q][e]
    BY <1>3, <1>5
  <1>7. Len(chan'[s][d]) = Len(chan[s][d])
    BY <1>6
  <1>8. \A q, e \in Ranks : PastTurns(q, e)' = PastTurns(q, e)
    BY <1>2, TurnsFrame DEF InCycle
  <1>9. \A q, e \in Ranks : PastTurns(q, e) \in Nat /\ Len(chan[q][e]) \in Nat
    BY CountersAreNat
  <1>10. ASSUME NEW e \in Ranks PROVE CountOK(e)'
    <2>1. ASSUME NEW q \in Ranks \ {e}
          PROVE  \E n \in Nat : /\ PastTurns(q, e)' = PastTurns(q, e) + n
                                /\ Len(chan'[q][e]) = Len(chan[q][e]) + n
      <3>1. PastTurns(q, e)' = PastTurns(q, e) + 0 /\ Len(chan'[q][e]) = Len(chan[q][e]) + 0
        <4>1. Len(chan'[q][e]) = Len(chan[q][e])
          BY <1>6, <1>7
        <4>2. QED
          BY <1>8, <1>9, <4>1
      <3>2. QED
        BY <3>1
    <2>2. QED
      BY <1>2, <1>8, <2>1, CountFrame DEF CountInv
  <1>11. SelfEmpty'
    <2>1. chan[s][d] # <<>>
      BY <1>1, <1>6
    <2>2. s # d
      BY <2>1 DEF CountInv, SelfEmpty
    <2>3. QED
      BY <1>6, <2>2 DEF CountInv, SelfEmpty
  <1>12. QED
    BY <1>10, <1>11 DEF CountInv

LEMMA CountEndOwn ==
    ASSUME TypeInv, CountInv, NEW p \in Ranks, EndOwn(p)
    PROVE  CountInv'
  <1>1. /\ pc[p] = "recv" /\ pc'[p] = "shuffle" /\ UNCHANGED <<recvd, loud, chan>>
        /\ cell'[p] = cell[p] + 1 /\ recvd[p] >= world_size - 1
        /\ \A q \in Ranks \ {p} : cell'[q] = cell[q] /\ pc'[q] = pc[q]
    BY DEF EndOwn, TypeInv, TypeOK
  <1>2. receiver(cell[p]) = p
    BY <1>1 DEF TypeInv, Control, RankOK
  <1>3. \A d \in Ranks : PastTurns(p, d)' = PastTurns(p, d) + (IF d = p THEN 1 ELSE 0)
    BY <1>1, <1>2, TurnsAdvance DEF InCycle
  <1>4. \A s, d \in Ranks : s # p => PastTurns(s, d)' = PastTurns(s, d)
    BY <1>1, TurnsFrame DEF InCycle
  <1>5. \A s, d \in Ranks : PastTurns(s, d) \in Nat /\ Len(chan[s][d]) \in Nat
    BY CountersAreNat
  <1>6. ASSUME NEW d \in Ranks \ {p} PROVE CountOK(d)'
    <2>1. ASSUME NEW s \in Ranks \ {d}
          PROVE  \E n \in Nat : /\ PastTurns(s, d)' = PastTurns(s, d) + n
                                /\ Len(chan'[s][d]) = Len(chan[s][d]) + n
      <3>1. PastTurns(s, d)' = PastTurns(s, d) + 0 /\ Len(chan'[s][d]) = Len(chan[s][d]) + 0
        BY <1>1, <1>3, <1>4, <1>5
      <3>2. QED
        BY <3>1
    <2>2. PastTurns(d, d)' = PastTurns(d, d)
      BY <1>4
    <2>3. QED
      BY <1>1, <2>1, <2>2, CountFrame DEF CountInv
  <1>7. CountOK(p)'
    <2>1. CountOK(p)
      BY DEF CountInv
    <2>2. Taken(p)' = Taken(p)
      BY <1>1, <1>4 DEF Taken
    <2>3. recvd[p] = world_size - 1 /\ world_size \in Nat
      BY <1>1, LoopTypes, WorldAssumption DEF TypeInv
    <2>4. PICK n \in Nat : n = PastTurns(p, p)
      BY <1>5
    <2>5. PICK w \in Int : w = world_size - 1
      BY WorldAssumption
    <2>6. Cardinality(Taken(p)) = w * n + w
      BY <1>1, <2>1, <2>3, <2>4, <2>5 DEF CountOK
    <2>7. w * n + w = w * (n + 1) + 0
      BY <2>4, <2>5
    <2>8. Cardinality(Taken(p)') = (world_size - 1) * PastTurns(p, p)' + 0
      BY <1>3, <2>2, <2>4, <2>5, <2>6, <2>7
    <2>9. \A s \in Ranks \ {p} : Len(chan'[s][p]) <= PastTurns(s, p)'
      BY <1>1, <1>4, <2>1 DEF CountOK
    <2>10. QED
      BY <1>1, <2>1, <2>2, <2>8, <2>9 DEF CountOK
  <1>8. SelfEmpty'
    BY <1>1 DEF CountInv, SelfEmpty
  <1>9. QED
    BY <1>6, <1>7, <1>8 DEF CountInv

LEMMA CountRecv ==
    ASSUME TypeInv, CountInv, NEW p \in Ranks, NEW s \in Ranks, Recv(p, s)
    PROVE  CountInv'
  <1>1. /\ pc[p] = "recv" /\ UNCHANGED <<pc, cell, loud>>
        /\ recvd'[p] = recvd[p] + 1 /\ \A q \in Ranks \ {p} : recvd'[q] = recvd[q]
    BY DEF Recv, TypeInv, TypeOK
  <1>2. chan[s][p] # <<>> /\ s # p
    BY DEF Recv, CountInv, SelfEmpty
  <1>3. /\ chan[s][p] \in Seq(Message) /\ chan'[s][p] = Tail(chan[s][p])
        /\ \A q, d \in Ranks : q # s \/ d # p => chan'[q][d] = chan[q][d]
    BY DEF Recv, TypeInv, TypeOK
  <1>4. \A q, d \in Ranks : PastTurns(q, d)' = PastTurns(q, d)
    BY <1>1, TurnsFrame DEF InCycle
  <1>5. \A q, d \in Ranks : PastTurns(q, d) \in Nat /\ Len(chan[q][d]) \in Nat
    BY CountersAreNat
  <1>6. ASSUME NEW d \in Ranks \ {p} PROVE CountOK(d)'
    <2>1. ASSUME NEW q \in Ranks \ {d}
          PROVE  \E n \in Nat : /\ PastTurns(q, d)' = PastTurns(q, d) + n
                                /\ Len(chan'[q][d]) = Len(chan[q][d]) + n
      <3>1. PastTurns(q, d)' = PastTurns(q, d) + 0 /\ Len(chan'[q][d]) = Len(chan[q][d]) + 0
        <4>1. chan'[q][d] = chan[q][d]
          BY <1>3
        <4>2. QED
          BY <1>4, <1>5, <4>1
      <3>2. QED
        BY <3>1
    <2>2. QED
      BY <1>1, <1>4, <2>1, CountFrame DEF CountInv
  <1>7. CountOK(p)'
    <2>1. CountOK(p)
      BY DEF CountInv
    <2>2. Len(chan'[s][p]) = Len(chan[s][p]) - 1 /\ Len(chan[s][p]) >= 1
      BY <1>2, <1>3, <1>5
    <2>3. PICK k \in Nat \ {0} : k = PastTurns(s, p) - Len(chan[s][p]) + 1
      BY <1>2, <1>5, <2>1 DEF CountOK
    <2>4. ASSUME NEW m \in (Ranks \ {p}) \X (Nat \ {0})
          PROVE  (m[2] + Len(chan'[m[1]][p]) <= PastTurns(m[1], p)) <=>
                 (m[2] + Len(chan[m[1]][p]) <= PastTurns(m[1], p) \/ m = <<s, k>>)
      <3>1. PICK q \in Ranks \ {p}, j \in Nat \ {0} : m = <<q, j>>
        OBVIOUS
      <3>2. CASE q = s
        <4>1. PastTurns(s, p) \in Nat /\ Len(chan[s][p]) \in Nat
          BY <1>5
        <4>2. (j + Len(chan'[s][p]) <= PastTurns(s, p)) <=>
              (j + Len(chan[s][p]) <= PastTurns(s, p) \/ j = k)
          BY <2>2, <2>3, <4>1
        <4>3. QED
          BY <3>1, <3>2, <4>2
      <3>3. CASE q # s
        BY <1>3, <1>5, <3>1, <3>3
      <3>4. QED
        BY <3>2, <3>3
    <2>5. <<s, k>> \in (Ranks \ {p}) \X (Nat \ {0}) /\ <<s, k>> \notin Taken(p)
      BY <1>2, <1>5, <2>3 DEF Taken
    <2>6. Taken(p)' = Taken(p) \cup {<<s, k>>}
      BY <1>4, <2>4, <2>5 DEF Taken
    <2>7. /\ IsFiniteSet(Taken(p)) /\ IsFiniteSet(Taken(p)')
          /\ Cardinality(Taken(p)') = Cardinality(Taken(p)) + 1
      BY <2>1, <2>5, <2>6, FS_AddElement DEF CountOK
    <2>8. PICK n \in Nat : n = (world_size - 1) * PastTurns(p, p)
      BY <1>5, WorldAssumption
    <2>9. Cardinality(Taken(p)) = n + recvd[p] /\ recvd[p] \in Nat
      BY <1>1, <2>1, <2>8, LoopTypes, WorldAssumption DEF CountOK, TypeInv
    <2>10. Cardinality(Taken(p)') = n + recvd'[p]
      BY <1>1, <2>7, <2>8, <2>9
    <2>11. \A q \in Ranks \ {p} : Len(chan'[q][p]) <= PastTurns(q, p)'
      <3>1. ASSUME NEW q \in Ranks \ {p} PROVE Len(chan'[q][p]) <= PastTurns(q, p)
        <4>1. Len(chan[q][p]) <= PastTurns(q, p) /\ PastTurns(q, p) \in Nat /\ Len(chan[q][p]) \in Nat
          BY <1>5, <2>1 DEF CountOK
        <4>2. CASE q = s
          BY <2>2, <4>1, <4>2
        <4>3. CASE q # s
          BY <1>3, <4>1, <4>3
        <4>4. QED
          BY <4>2, <4>3
      <3>2. QED
        BY <1>4, <3>1
    <2>12. QED
      BY <1>1, <1>4, <2>7, <2>8, <2>10, <2>11 DEF CountOK
  <1>8. SelfEmpty'
    BY <1>2, <1>3 DEF CountInv, SelfEmpty
  <1>9. QED
    BY <1>6, <1>7, <1>8 DEF CountInv

LEMMA CountInit == Init => CountInv
  <1> SUFFICES ASSUME Init PROVE CountInv
    OBVIOUS
  <1>1. \A s, d \in Ranks : /\ pc[s] = "compute" /\ Round(s) = 0 /\ chan[s][d] = <<>>
                            /\ Len(chan[s][d]) = 0
    BY DEF Init, Round
  <1>2. \A s, d \in Ranks : PastTurns(s, d) = 0
    <2>1. \A d \in Ranks : 0 * noises_recv_count(d) = 0
      BY SlotsType
    <2>2. QED
      BY <1>1, <2>1 DEF PastTurns, InCycle
  <1>3. ASSUME NEW d \in Ranks PROVE CountOK(d)
    <2>1. Taken(d) = {}
      <3>1. ASSUME NEW m \in (Ranks \ {d}) \X (Nat \ {0})
            PROVE  ~ (m[2] + Len(chan[m[1]][d]) <= PastTurns(m[1], d))
        BY <1>1, <1>2
      <3>2. QED
        BY <3>1 DEF Taken
    <2>2. IsFiniteSet(Taken(d)) /\ Cardinality(Taken(d)) = 0
      BY <2>1, FS_EmptySet
    <2>3. (world_size - 1) * PastTurns(d, d) = 0
      BY <1>2, WorldAssumption
    <2>4. QED
      BY <1>1, <1>2, <2>2, <2>3 DEF CountOK
  <1>4. QED
    BY <1>1, <1>3 DEF CountInv, SelfEmpty

LEMMA CountStep == TypeInv /\ CountInv /\ [Next]_vars => CountInv'
  <1> SUFFICES ASSUME TypeInv, CountInv, [Next]_vars PROVE CountInv'
    OBVIOUS
  <1>1. ASSUME NEW p \in Ranks, RankStep(p) PROVE CountInv'
    <2>1. ASSUME Compute(p) PROVE CountInv'
      <3>1. PICK N \in Footprints : ComputeCells(p, N)
        BY <2>1 DEF Compute
      <3>2. N \in SUBSET Cells
        BY FootprintAssumption
      <3>3. QED
        BY <3>1, <3>2, CountCompute
    <2>2. QED
      BY <1>1, <2>1, CountLocal, CountIsend, CountEndOwn, CountRecv DEF RankStep
  <1>2. CASE UNCHANGED vars
    <2>1. \A s, d \in Ranks : PastTurns(s, d)' = PastTurns(s, d)
      BY <1>2, TurnsFrame DEF InCycle, vars
    <2>2. \A d \in Ranks : Taken(d)' = Taken(d)
      BY <1>2, <2>1 DEF Taken, vars
    <2>3. \A d \in Ranks : CountOK(d)'
      BY <1>2, <2>1, <2>2 DEF CountInv, CountOK, vars
    <2>4. QED
      BY <1>2, <2>3 DEF CountInv, SelfEmpty, vars
  <1>3. QED
    BY <1>1, <1>2, CountPack DEF Next

LEMMA CountInvariant == Spec => [](TypeInv /\ CountInv)
  BY TypeInvariant, CountInit, CountStep, PTL DEF Spec

-----------------------------------------------------------------------------
(* The receives keep the ranks together.                                   *)

LEMMA OwnsOne == \A d \in Ranks : noises_recv_count(d) \in Nat \ {0}
  <1>1. NCells \div world_size \in Nat /\ NCells % world_size \in 0 .. (world_size - 1)
        /\ NCells = (world_size * (NCells \div world_size)) + (NCells % world_size)
    BY DivMod, NCellsType, WorldAssumption
  <1>2. NCells \div world_size # 0
    BY <1>1, OwnerAssumption, WorldAssumption, NCellsType
  <1>3. QED
    BY <1>1, <1>2 DEF noises_recv_count, Ranks

\* d has completed n entries, and no sender has passed more than n turns of d:
\* then every sender has passed all n, and no message is left.
LEMMA NoneIsBehind ==
    ASSUME TypeInv, CountInv, NEW d \in Ranks, pc[d] # "recv", NEW n \in Nat, n = PastTurns(d, d),
           \A s \in Ranks \ {d} : PastTurns(s, d) <= n
    PROVE  \A s \in Ranks \ {d} : PastTurns(s, d) = n /\ Len(chan[s][d]) = 0
  <1> DEFINE S == Ranks \ {d}
             W == 1 .. n
  <1>1. \A s \in Ranks : PastTurns(s, d) \in Nat /\ Len(chan[s][d]) \in Nat
    BY CountersAreNat
  <1>2. \A m \in Taken(d) : m \in S \X W
    <2>1. ASSUME NEW m \in Taken(d) PROVE m \in S \X W
      <3>1. PICK s \in S, k \in Nat \ {0} : m = <<s, k>> /\ k + Len(chan[s][d]) <= PastTurns(s, d)
        BY DEF Taken
      <3>2. k \in W
        BY <1>1, <3>1
      <3>3. QED
        BY <3>1, <3>2
    <2>2. QED
      BY <2>1
  <1>3. IsFiniteSet(S) /\ Cardinality(S) = world_size - 1
    BY RanksFinite
  <1>4. IsFiniteSet(W) /\ Cardinality(W) = n
    <2>1. 1 \in Int /\ n \in Int
      OBVIOUS
    <2>2. IsFiniteSet(1 .. n) /\ Cardinality(1 .. n) = IF 1 > n THEN 0 ELSE n - 1 + 1
      BY <2>1, FS_Interval
    <2>3. QED
      BY <2>2
  <1>5. Cardinality(Taken(d)) = (world_size - 1) * n
    <2>1. Cardinality(Taken(d)) = (world_size - 1) * n + 0
      BY DEF CountInv, CountOK
    <2>2. (world_size - 1) * n \in Int
      BY WorldAssumption
    <2>3. QED
      BY <2>1, <2>2
  <1> HIDE DEF S, W
  <1>6. IsFiniteSet(S \X W) /\ Cardinality(S \X W) = (world_size - 1) * n
    BY <1>3, <1>4, FS_Product
  <1>7. Taken(d) = S \X W
    <2>1. Taken(d) \in SUBSET (S \X W)
      BY <1>2
    <2>2. QED
      BY <1>5, <1>6, <2>1, FS_Subset
  <1>8. ASSUME NEW s \in Ranks \ {d} PROVE PastTurns(s, d) = n /\ Len(chan[s][d]) = 0
    <2>1. PastTurns(s, d) \in Nat /\ Len(chan[s][d]) \in Nat /\ PastTurns(s, d) <= n
      BY <1>1
    <2>2. Len(chan[s][d]) <= PastTurns(s, d)
      BY DEF CountInv, CountOK
    <2>3. CASE n = 0
      BY <2>1, <2>2, <2>3
    <2>4. CASE n # 0
      <3>1. <<s, n>> \in S \X W
        BY <2>4 DEF S, W
      <3>2. n + Len(chan[s][d]) <= PastTurns(s, d)
        BY <1>7, <3>1 DEF Taken
      <3>3. QED
        BY <2>1, <3>2
    <2>5. QED
      BY <2>3, <2>4
  <1>9. QED
    BY <1>8

\* A rank that is through with a cycle has waited for every other rank to
\* start that cycle.
LEMMA OthersHaveStarted ==
    ASSUME TypeInv, CountInv, RoundSkew, NEW p \in Ranks, ~ InCycle(p), NEW q \in Ranks
    PROVE  Round(p) <= Round(q)
  <1>1. \A s \in Ranks : Round(s) \in Nat
    BY DataTypes DEF TypeInv
  <1>2. SUFFICES ASSUME Round(q) < Round(p) PROVE FALSE
    BY <1>1
  <1>3. PICK R \in Nat : R = Round(p)
    BY <1>1
  <1>4. PICK N \in Nat \ {0} : N = noises_recv_count(p)
    BY OwnsOne
  <1>5. \A s \in Ranks : Round(s) <= R
    BY <1>1, <1>2, <1>3 DEF RoundSkew
  <1>6. PastTurns(p, p) = R * N /\ R * N \in Nat
    BY <1>3, <1>4, TurnsAtEnd
  <1>7. ASSUME NEW s \in Ranks \ {p} PROVE PastTurns(s, p) <= R * N
    <2>1. PICK x \in Nat : x = Round(s) /\ x <= R
      BY <1>1, <1>5
    <2>2. PastTurns(s, p) <= x * N /\ PastTurns(s, p) \in Nat
      BY <1>4, <2>1, TurnsType
    <2>3. x * N <= R * N
      <3>1. PICK y \in Nat : R = x + y
        BY <2>1, R - x \in Nat
      <3>2. R * N = x * N + y * N /\ y * N \in Nat /\ x * N \in Nat
        BY <3>1
      <3>3. QED
        BY <3>2
    <2>4. x * N \in Nat
      BY <2>1
    <2>5. QED
      BY <1>6, <2>2, <2>3, <2>4
  <1>8. q \in Ranks \ {p}
    BY <1>1, <1>2
  <1>9. PastTurns(q, p) = R * N
    <2>1. pc[p] # "recv"
      BY DEF InCycle
    <2>2. PICK n \in Nat : n = R * N
      BY <1>6
    <2>3. QED
      BY <1>6, <1>7, <1>8, <2>1, <2>2, NoneIsBehind
  <1>10. PICK x \in Nat : x = Round(q) /\ x < R
    BY <1>1, <1>2, <1>3
  <1>11. PastTurns(q, p) <= x * N
    BY <1>4, <1>10, TurnsType
  <1>12. N * x + N <= N * R
    BY <1>3, <1>4, <1>10, MultiplesApart
  <1>13. x * N = N * x /\ R * N = N * R /\ N * x \in Nat /\ N * R \in Nat
    BY <1>3, <1>4, <1>10
  <1>14. QED
    BY <1>4, <1>9, <1>11, <1>12, <1>13

\* For every number of ranks, also one that does not divide the number of
\* cells, and for both ways of sending: the receives alone keep the ranks
\* within one cycle of each other, there is no barrier (main.c 113-173).
THEOREM RanksStayTogether == Spec => []RoundSkew
  <1>1. Init => RoundSkew
    BY DEF Init, RoundSkew, Round
  <1>2. TypeInv /\ CountInv /\ RoundSkew /\ [Next]_vars => RoundSkew'
    <2> SUFFICES ASSUME TypeInv, CountInv, RoundSkew, [Next]_vars PROVE RoundSkew'
      OBVIOUS
    <2>1. \A s \in Ranks : Round(s) \in Nat
      BY DataTypes DEF TypeInv
    <2>2. ASSUME NEW p \in Ranks, NEW N \in Footprints, ComputeCells(p, N) PROVE RoundSkew'
      <3>1. loud[p] \in Seq(SUBSET Cells) /\ N \in SUBSET Cells
        BY FootprintAssumption DEF TypeInv, TypeOK
      <3>2. Round(p)' = Round(p) + 1
        BY <2>2, <3>1 DEF ComputeCells, Round, TypeInv, TypeOK
      <3>3. \A s \in Ranks \ {p} : Round(s)' = Round(s)
        BY <2>2 DEF ComputeCells, Round, TypeInv, TypeOK
      <3>4. \A q \in Ranks : Round(p) <= Round(q)
        BY <2>2, OthersHaveStarted DEF ComputeCells, InCycle
      <3>5. QED
        BY <2>1, <3>2, <3>3, <3>4 DEF RoundSkew
    <2>3. CASE UNCHANGED loud
      BY <2>3 DEF RoundSkew, Round
    <2>4. QED
      BY <2>2, <2>3 DEF Next, RankStep, Compute, Isend, StartOwn, Recv, EndOwn, Publish, Move,
                        Reset, Pack, vars
  <1>3. QED
    BY <1>1, <1>2, CountInvariant, PTL DEF Spec

\* When all ranks are through with all their cycles no message is left.
LEMMA AllReceived ==
    ASSUME TypeInv, CountInv, Done
    PROVE  \A s, d \in Ranks : chan[s][d] = <<>>
  <1>1. ASSUME NEW d \in Ranks, NEW s \in Ranks \ {d} PROVE chan[s][d] = <<>>
    <2>1. \A q \in Ranks : pc[q] = "compute" /\ Round(q) = MaxRounds
      BY DEF Done
    <2>2. \A q \in Ranks : PastTurns(q, d) = MaxRounds * noises_recv_count(d)
      BY <2>1 DEF PastTurns, InCycle
    <2>3. PICK n \in Nat : n = MaxRounds * noises_recv_count(d)
      BY RoundsAssumption, SlotsType
    <2>4. Len(chan[s][d]) = 0
      BY <2>1, <2>2, <2>3, NoneIsBehind
    <2>5. chan[s][d] \in Seq(Message)
      BY DataTypes DEF TypeInv
    <2>6. QED
      BY <2>4, <2>5
  <1>2. QED
    BY <1>1 DEF CountInv, SelfEmpty

-----------------------------------------------------------------------------
(* Turn by turn.  The messages from one rank to another are numbered by the  *)
(* turns they are for, and arrive in this order.                            *)

\* The messages of s that d has received.
Received(s, d) == PastTurns(s, d) - Len(chan[s][d])

\* m is for turn t of d, where the turns of d are counted from the start.
ForTurn(m, d, t) ==
    /\ receiver(m.cell) = d /\ m.round >= 1
    /\ (m.round - 1) * noises_recv_count(d) + Block(m.cell) = t

TurnsInOrder(s, d) ==
    \A i \in 1 .. Len(chan[s][d]) : ForTurn(chan[s][d][i], d, Received(s, d) + (i - 1))

OrderInv == \A d \in Ranks : \A s \in Ranks \ {d} : TurnsInOrder(s, d)

LEMMA ReceivedType ==
    ASSUME TypeInv, NEW s \in Ranks, NEW d \in Ranks
    PROVE  /\ Received(s, d) \in Int /\ PastTurns(s, d) \in Nat /\ Len(chan[s][d]) \in Nat
           /\ PastTurns(s, d) = Received(s, d) + Len(chan[s][d])
  <1>1. PastTurns(s, d) \in Nat /\ Len(chan[s][d]) \in Nat
    BY CountersAreNat
  <1>2. QED
    BY <1>1 DEF Received

LEMMA OrderFrame ==
    ASSUME NEW s \in Ranks, NEW d \in Ranks, TurnsInOrder(s, d),
           chan'[s][d] = chan[s][d], PastTurns(s, d)' = PastTurns(s, d)
    PROVE  TurnsInOrder(s, d)'
  <1>1. Received(s, d)' = Received(s, d)
    BY DEF Received
  <1>2. QED
    BY <1>1 DEF TurnsInOrder, ForTurn

\* A message is posted for the turn its sender passes with it.
LEMMA OrderIsend ==
    ASSUME TypeInv, OrderInv, NEW p \in Ranks, Isend(p)
    PROVE  /\ OrderInv'
           /\ \A d \in Ranks : PastTurns(d, d)' = PastTurns(d, d)
           /\ \A d \in Ranks : \A s \in Ranks \ {d} : Received(s, d)' = Received(s, d)
  <1>1. PICK e \in Ranks : e = receiver(cell[p]) /\ e # p
    BY LoopTypes DEF TypeInv, Isend
  <1>2. /\ pc[p] = "shuffle" /\ UNCHANGED <<pc, loud>>
        /\ cell'[p] = cell[p] + 1
        /\ \A q \in Ranks \ {p} : cell'[q] = cell[q]
    BY DEF Isend, TypeInv, TypeOK
  <1>3. PICK m : /\ chan' = [chan EXCEPT ![p][e] = Append(chan[p][e], m)]
                 /\ m.cell = cell[p] /\ m.round = Round(p)
    <2>1. PICK mode \in SendModes :
            chan' = [chan EXCEPT ![p][e] = Append(chan[p][e],
                [cell |-> cell[p], round |-> Round(p), packed |-> (mode = "eager"),
                 data |-> IF mode = "eager" THEN noise_sqm[p][cell[p]] ELSE {}])]
      BY <1>1 DEF Isend
    <2>2. PICK m : m = [cell |-> cell[p], round |-> Round(p), packed |-> (mode = "eager"),
                        data |-> IF mode = "eager" THEN noise_sqm[p][cell[p]] ELSE {}]
      OBVIOUS
    <2>3. m.cell = cell[p] /\ m.round = Round(p)
      BY <2>2
    <2>4. QED
      BY <2>1, <2>2, <2>3
  <1>4. /\ chan'[p][e] = Append(chan[p][e], m) /\ chan[p][e] \in Seq(Message)
        /\ \A s, d \in Ranks : s # p \/ d # e => chan'[s][d] = chan[s][d]
    BY <1>3 DEF TypeInv, TypeOK
  <1>5. \A d \in Ranks : PastTurns(p, d)' = PastTurns(p, d) + (IF d = e THEN 1 ELSE 0)
    BY <1>1, <1>2, TurnsAdvance DEF InCycle
  <1>6. \A s, d \in Ranks : s # p => PastTurns(s, d)' = PastTurns(s, d)
    BY <1>2, TurnsFrame DEF InCycle
  <1>7. \A s, d \in Ranks : PastTurns(s, d) \in Nat /\ Len(chan[s][d]) \in Nat
    BY CountersAreNat
  <1>8. TurnsInOrder(p, e)' /\ Received(p, e)' = Received(p, e)
    <2>1. PICK n \in Nat : n = Len(chan[p][e])
      BY <1>7
    <2>2. Len(chan'[p][e]) = n + 1
      BY <1>4, <2>1
    <2>3. PICK r \in Int : r = Received(p, e) /\ r + n = PastTurns(p, e)
      BY <2>1, ReceivedType
    <2>4. Received(p, e)' = r
      <3>1. PastTurns(p, e)' = (r + n) + 1
        BY <1>5, <2>3
      <3>2. Received(p, e)' = ((r + n) + 1) - (n + 1)
        BY <2>2, <3>1 DEF Received
      <3>3. QED
        BY <2>1, <2>3, <3>2
    <2>5. ForTurn(m, e, r + n)
      <3>1. PastTurns(p, e) = (Round(p) - 1) * noises_recv_count(e) + Block(cell[p])
        <4>1. PassedFor(p, e) = Block(cell[p])
          BY <1>1, LoopTypes DEF PassedFor, TypeInv
        <4>2. QED
          BY <1>2, <4>1 DEF PastTurns, InCycle
      <3>2. Round(p) >= 1
        BY <1>2 DEF TypeInv, Control, RankOK, InCycle
      <3>3. QED
        BY <1>1, <1>3, <2>3, <3>1, <3>2 DEF ForTurn
    <2>6. ASSUME NEW i \in 1 .. (n + 1) PROVE ForTurn(chan'[p][e][i], e, r + (i - 1))
      <3>1. CASE i \in 1 .. n
        <4>1. chan'[p][e][i] = chan[p][e][i]
          BY <1>4, <2>1, <3>1
        <4>2. ForTurn(chan[p][e][i], e, r + (i - 1))
          BY <1>1, <2>1, <2>3, <3>1 DEF OrderInv, TurnsInOrder
        <4>3. QED
          BY <4>1, <4>2
      <3>2. CASE i = n + 1
        <4>1. chan'[p][e][i] = m
          BY <1>4, <2>1, <3>2
        <4>2. r + (i - 1) = r + n
          BY <2>1, <2>3, <3>2
        <4>3. QED
          BY <2>5, <4>1, <4>2
      <3>3. QED
        BY <2>1, <3>1, <3>2
    <2>7. \A i \in 1 .. Len(chan'[p][e]) : ForTurn(chan[p][e][i], e, Received(p, e) + (i - 1))'
      BY <2>2, <2>4, <2>6 DEF ForTurn
    <2>8. QED
      BY <2>3, <2>4, <2>7 DEF TurnsInOrder
  <1>9. ASSUME NEW d \in Ranks, NEW s \in Ranks \ {d}
        PROVE  TurnsInOrder(s, d)' /\ Received(s, d)' = Received(s, d)
    <2>1. CASE s = p /\ d = e
      BY <1>8, <2>1
    <2>2. CASE ~ (s = p /\ d = e)
      <3>1. PastTurns(s, d)' = PastTurns(s, d)
        BY <1>5, <1>6, <1>7, <2>2
      <3>2. QED
        BY <1>4, <2>2, <3>1, OrderFrame DEF OrderInv, Received
    <2>3. QED
      BY <2>1, <2>2
  <1>10. \A d \in Ranks : PastTurns(d, d)' = PastTurns(d, d)
    BY <1>1, <1>5, <1>6, <1>7
  <1>11. QED
    BY <1>9, <1>10 DEF OrderInv

\* A receive takes the message for the earliest turn.
LEMMA OrderRecv ==
    ASSUME TypeInv, SelfEmpty, OrderInv, NEW p \in Ranks, NEW s \in Ranks, Recv(p, s)
    PROVE  /\ OrderInv'
           /\ s # p /\ ForTurn(Head(chan[s][p]), p, Received(s, p))
           /\ Received(s, p)' = Received(s, p) + 1
           /\ \A q, d \in Ranks : q # s \/ d # p => Received(q, d)' = Received(q, d)
           /\ \A q, d \in Ranks : PastTurns(q, d)' = PastTurns(q, d)
  <1>1. UNCHANGED <<pc, cell, loud>>
    BY DEF Recv
  <1>2. chan[s][p] # <<>> /\ s # p
    BY DEF Recv, SelfEmpty
  <1>3. /\ chan[s][p] \in Seq(Message) /\ chan'[s][p] = Tail(chan[s][p])
        /\ \A q, d \in Ranks : q # s \/ d # p => chan'[q][d] = chan[q][d]
    BY DEF Recv, TypeInv, TypeOK
  <1>4. \A q, d \in Ranks : PastTurns(q, d)' = PastTurns(q, d)
    BY <1>1, TurnsFrame DEF InCycle
  <1>5. \A q, d \in Ranks : PastTurns(q, d) \in Nat /\ Len(chan[q][d]) \in Nat
    BY CountersAreNat
  <1>6. PICK n \in Nat : n + 1 = Len(chan[s][p])
    <2>1. Len(chan[s][p]) \in Nat /\ Len(chan[s][p]) # 0
      BY <1>2, <1>3
    <2>2. Len(chan[s][p]) - 1 \in Nat /\ (Len(chan[s][p]) - 1) + 1 = Len(chan[s][p])
      BY <2>1
    <2>3. QED
      BY <2>2
  <1>7. Len(chan'[s][p]) = n
    BY <1>2, <1>3, <1>6
  <1>8. PICK r \in Int : r = Received(s, p)
    BY <1>5 DEF Received
  <1>9. Received(s, p)' = r + 1
    <2>1. PICK t \in Nat : t = PastTurns(s, p)
      BY <1>5
    <2>2. r = t - (n + 1) /\ Received(s, p)' = t - n
      BY <1>4, <1>6, <1>7, <1>8, <2>1 DEF Received
    <2>3. QED
      BY <2>1, <2>2
  <1>10. \A i \in 1 .. (n + 1) : ForTurn(chan[s][p][i], p, r + (i - 1))
    BY <1>2, <1>6, <1>8 DEF OrderInv, TurnsInOrder
  <1>11. ForTurn(Head(chan[s][p]), p, Received(s, p))
    <2>1. Head(chan[s][p]) = chan[s][p][1]
      BY <1>2, <1>3
    <2>2. ForTurn(chan[s][p][1], p, r + (1 - 1))
      BY <1>6, <1>10
    <2>3. r + (1 - 1) = r
      BY <1>8
    <2>4. QED
      BY <1>8, <2>1, <2>2, <2>3
  <1>12. TurnsInOrder(s, p)'
    <2>1. ASSUME NEW i \in 1 .. n PROVE ForTurn(chan'[s][p][i], p, (r + 1) + (i - 1))
      <3>1. chan'[s][p][i] = chan[s][p][i + 1]
        BY <1>2, <1>3, <1>6
      <3>2. i + 1 \in 1 .. (n + 1) /\ (r + 1) + (i - 1) = r + ((i + 1) - 1)
        BY <1>6, <1>8
      <3>3. ForTurn(chan[s][p][i + 1], p, r + ((i + 1) - 1))
        BY <1>10, <3>2
      <3>4. QED
        BY <3>1, <3>2, <3>3
    <2>2. \A i \in 1 .. Len(chan'[s][p]) : ForTurn(chan[s][p][i], p, Received(s, p) + (i - 1))'
      BY <1>7, <1>9, <2>1 DEF ForTurn
    <2>3. QED
      BY <2>2 DEF TurnsInOrder
  <1>13. ASSUME NEW d \in Ranks, NEW q \in Ranks \ {d} PROVE TurnsInOrder(q, d)'
    BY <1>3, <1>4, <1>12, OrderFrame DEF OrderInv
  <1>14. \A q, d \in Ranks : q # s \/ d # p => Received(q, d)' = Received(q, d)
    BY <1>3, <1>4 DEF Received
  <1>15. QED
    BY <1>2, <1>4, <1>8, <1>9, <1>11, <1>13, <1>14 DEF OrderInv

LEMMA OrderEndOwn ==
    ASSUME TypeInv, OrderInv, NEW p \in Ranks, EndOwn(p)
    PROVE  /\ OrderInv' /\ chan' = chan
           /\ \A s, d \in Ranks : s # p \/ d # p => PastTurns(s, d)' = PastTurns(s, d)
           /\ PastTurns(p, p)' = PastTurns(p, p) + 1
  <1>1. /\ pc[p] = "recv" /\ pc'[p] = "shuffle" /\ UNCHANGED <<loud, chan>>
        /\ cell'[p] = cell[p] + 1
        /\ \A q \in Ranks \ {p} : cell'[q] = cell[q] /\ pc'[q] = pc[q]
    BY DEF EndOwn, TypeInv, TypeOK
  <1>2. receiver(cell[p]) = p
    BY <1>1 DEF TypeInv, Control, RankOK
  <1>3. \A d \in Ranks : PastTurns(p, d)' = PastTurns(p, d) + (IF d = p THEN 1 ELSE 0)
    BY <1>1, <1>2, TurnsAdvance DEF InCycle
  <1>4. \A s, d \in Ranks : s # p => PastTurns(s, d)' = PastTurns(s, d)
    BY <1>1, TurnsFrame DEF InCycle
  <1>5. \A s, d \in Ranks : PastTurns(s, d) \in Nat
    BY CountersAreNat
  <1>6. \A s, d \in Ranks : s # p \/ d # p => PastTurns(s, d)' = PastTurns(s, d)
    BY <1>3, <1>4, <1>5
  <1>7. OrderInv'
    BY <1>1, <1>6, OrderFrame DEF OrderInv
  <1>8. QED
    BY <1>1, <1>3, <1>6, <1>7

\* Reading the buffer of a message changes neither its cell nor its cycle.
LEMMA OrderPack ==
    ASSUME TypeInv, OrderInv, NEW s \in Ranks, NEW d \in Ranks, Pack(s, d)
    PROVE  OrderInv'
  <1>1. PICK i \in 1 .. Len(chan[s][d]) :
          \E m : /\ m = Packed(chan[s][d][i], noise_sqm[s][chan[s][d][i].cell])
                 /\ chan' = [chan EXCEPT ![s][d][i] = m]
    BY DEF Pack
  <1>2. PICK m : /\ m = Packed(chan[s][d][i], noise_sqm[s][chan[s][d][i].cell])
                 /\ chan' = [chan EXCEPT ![s][d][i] = m]
    BY <1>1
  <1>3. UNCHANGED <<pc, cell, loud>>
    BY DEF Pack
  <1>4. /\ chan'[s][d] = [chan[s][d] EXCEPT ![i] = m] /\ chan[s][d] \in Seq(Message)
        /\ \A q, e \in Ranks : q # s \/ e # d => chan'[q][e] = chan[q][e]
    <2>1. chan' = [chan EXCEPT ![s][d][i] = m]
      BY <1>2
    <2>2. chan \in [Ranks -> [Ranks -> Seq(Message)]]
      BY DEF TypeInv, TypeOK
    <2>3. QED
      BY <2>1, <2>2
  <1>5. \A q, e \in Ranks : PastTurns(q, e)' = PastTurns(q, e)
    BY <1>3, TurnsFrame DEF InCycle
  <1>6. Len(chan'[s][d]) = Len(chan[s][d])
    BY <1>4
  <1>7. m.cell = chan[s][d][i].cell /\ m.round = chan[s][d][i].round
    BY <1>2 DEF Packed
  <1>8. \A j \in 1 .. Len(chan[s][d]) : /\ chan'[s][d][j].cell = chan[s][d][j].cell
                                        /\ chan'[s][d][j].round = chan[s][d][j].round
    <2>1. ASSUME NEW j \in 1 .. Len(chan[s][d])
          PROVE  chan'[s][d][j] = IF j = i THEN m ELSE chan[s][d][j]
      BY <1>4
    <2>2. QED
      BY <1>7, <2>1
  <1>9. Received(s, d)' = Received(s, d)
    BY <1>5, <1>6 DEF Received
  <1>10. TurnsInOrder(s, d) => TurnsInOrder(s, d)'
    BY <1>6, <1>8, <1>9 DEF TurnsInOrder, ForTurn
  <1>11. ASSUME NEW e \in Ranks, NEW q \in Ranks \ {e} PROVE TurnsInOrder(q, e)'
    <2>1. TurnsInOrder(q, e)
      BY DEF OrderInv
    <2>2. CASE q = s /\ e = d
      BY <1>10, <2>1, <2>2
    <2>3. CASE ~ (q = s /\ e = d)
      BY <1>4, <1>5, <2>1, <2>3, OrderFrame
    <2>4. QED
      BY <2>2, <2>3
  <1>12. QED
    BY <1>11 DEF OrderInv

LEMMA OrderInit == Init => OrderInv
  BY DEF Init, OrderInv, TurnsInOrder

LEMMA OrderStep == TypeInv /\ CountInv /\ OrderInv /\ [Next]_vars => OrderInv'
  <1> SUFFICES ASSUME TypeInv, CountInv, OrderInv, [Next]_vars PROVE OrderInv'
    OBVIOUS
  <1>1. ASSUME chan' = chan, \A s, d \in Ranks : PastTurns(s, d)' = PastTurns(s, d)
        PROVE  OrderInv'
    BY <1>1, OrderFrame DEF OrderInv
  <1>2. ASSUME NEW p \in Ranks, Compute(p) PROVE OrderInv'
    <2>1. PICK N \in Footprints : ComputeCells(p, N)
      BY <1>2 DEF Compute
    <2>2. N \in SUBSET Cells /\ chan' = chan
      BY <2>1, FootprintAssumption DEF ComputeCells
    <2>3. QED
      BY <1>1, <2>1, <2>2, TurnsCompute
  <1>3. ASSUME NEW p \in Ranks, StartOwn(p) \/ Publish(p) \/ Move(p) \/ Reset(p) PROVE OrderInv'
    <2>1. chan' = chan
      BY <1>3 DEF StartOwn, Publish, Move, Reset
    <2>2. QED
      BY <1>1, <1>3, <2>1, TurnsLocal
  <1>4. ASSUME NEW p \in Ranks, RankStep(p) PROVE OrderInv'
    BY <1>2, <1>3, <1>4, OrderIsend, OrderRecv, OrderEndOwn DEF RankStep, CountInv
  <1>5. CASE UNCHANGED vars
    BY <1>1, <1>5, TurnsFrame DEF vars, InCycle
  <1>6. QED
    BY <1>4, <1>5, OrderPack DEF Next

\* The two cases in which messages of different turns cannot be mixed up.
NoMixing == EvenSplit \/ world_size = 2

\* d has received from every other rank one message for each entry it has
\* completed, and at most one for the entry at hand.
OnePerTurn ==
    \A d \in Ranks : \A s \in Ranks \ {d} :
        Received(s, d) \in {PastTurns(d, d), PastTurns(d, d) + 1}

TurnInv == CountInv /\ OrderInv /\ OnePerTurn

\* The ranks d has received from for the entry at hand.
GotFrom(d) == {s \in Ranks \ {d} : Received(s, d) > PastTurns(d, d)}

\* The number of a turn, counted from the start.
TurnNumber(t) == (t[1] - 1) * Q + t[2]

LEMMA NumberOfNextTurn ==
    ASSUME EvenSplit, NEW t \in Turns
    PROVE  TurnNumber(NextTurn(t)) = TurnNumber(t) + 1
  <1>1. PICK r \in Nat, b \in 0 .. (Q - 1) : t = <<r, b>>
    BY DEF Turns
  <1>2. Q \in Nat /\ Q >= 1
    BY TurnsPerCycle
  <1>3. CASE b + 1 < Q
    <2>1. NextTurn(t) = <<r, b + 1>>
      BY <1>1, <1>3 DEF NextTurn, Q
    <2>2. PICK n \in Int : n = (r - 1) * Q
      BY <1>1, <1>2
    <2>3. TurnNumber(t) = n + b /\ TurnNumber(NextTurn(t)) = n + (b + 1)
      BY <1>1, <2>1, <2>2 DEF TurnNumber
    <2>4. QED
      BY <1>1, <1>2, <2>2, <2>3
  <1>4. CASE ~ (b + 1 < Q)
    <2>1. NextTurn(t) = <<r + 1, 0>> /\ b = Q - 1
      BY <1>1, <1>2, <1>4 DEF NextTurn, Q
    <2>2. PICK n \in Int : n = (r - 1) * Q
      BY <1>1, <1>2
    <2>3. ((r + 1) - 1) * Q = n + Q
      <3>1. (r + 1) - 1 = (r - 1) + 1
        BY <1>1
      <3>2. PICK x \in Int : x = r - 1
        BY <1>1
      <3>3. (x + 1) * Q = x * Q + Q
        BY <1>2, <3>2
      <3>4. QED
        BY <2>2, <3>1, <3>2, <3>3
    <2>4. TurnNumber(t) = n + (Q - 1) /\ TurnNumber(NextTurn(t)) = (n + Q) + 0
      BY <1>1, <2>1, <2>2, <2>3 DEF TurnNumber
    <2>5. QED
      BY <1>2, <2>2, <2>4
  <1>5. QED
    BY <1>3, <1>4

LEMMA NumberOfNextFor ==
    ASSUME TypeInv, EvenSplit, NEW p \in Ranks, NEW d \in Ranks
    PROVE  TurnNumber(NextFor(p, d)) = PastTurns(p, d)
  <1>1. Q \in Nat /\ Q >= 1 /\ d \in Nat
    BY TurnsPerCycle, LoopTypes DEF TypeInv
  <1>2. noises_recv_count(d) = Q
    BY <1>1 DEF Q, noises_recv_count, Block, EvenSplit
  <1>3. /\ Ahead(p, d) \in Nat /\ Round(p) \in Nat /\ Ahead(p, d) = PassedFor(p, d)
        /\ NextFor(p, d) = IF InCycle(p) /\ Ahead(p, d) < Q
                           THEN <<Round(p), Ahead(p, d)>> ELSE <<Round(p) + 1, 0>>
    BY NextForValue DEF Ahead, PassedFor
  <1>4. PassedFor(p, d) <= Q
    BY <1>2, PassedBound, LoopTypes DEF TypeInv, PassedFor
  <1>5. PICK a \in Nat : a = PassedFor(p, d)
    BY <1>3
  <1>6. PICK r \in Nat : r = Round(p)
    BY <1>3
  <1>7. CASE InCycle(p) /\ a < Q
    <2>1. NextFor(p, d) = <<r, a>>
      BY <1>3, <1>5, <1>6, <1>7
    <2>2. PastTurns(p, d) = (r - 1) * Q + a
      BY <1>2, <1>5, <1>6, <1>7 DEF PastTurns
    <2>3. QED
      BY <2>1, <2>2 DEF TurnNumber
  <1>8. CASE ~ (InCycle(p) /\ a < Q)
    <2>1. NextFor(p, d) = <<r + 1, 0>>
      BY <1>3, <1>5, <1>6, <1>8
    <2>2. TurnNumber(NextFor(p, d)) = ((r + 1) - 1) * Q + 0
      BY <2>1 DEF TurnNumber
    <2>3. (r + 1) - 1 = r /\ r * Q \in Nat
      BY <1>1, <1>6
    <2>4. TurnNumber(NextFor(p, d)) = r * Q
      BY <2>2, <2>3
    <2>5. CASE ~ InCycle(p)
      BY <1>2, <1>6, <2>4, <2>5 DEF PastTurns
    <2>6. CASE InCycle(p)
      <3>1. a = Q
        BY <1>1, <1>4, <1>5, <1>8, <2>6
      <3>2. PastTurns(p, d) = (r - 1) * Q + Q
        BY <1>2, <1>5, <1>6, <2>6, <3>1 DEF PastTurns
      <3>3. PICK x \in Int : x = r - 1 /\ r = x + 1
        BY <1>6
      <3>4. x * Q + Q = (x + 1) * Q
        BY <1>1, <3>3
      <3>5. QED
        BY <2>4, <3>2, <3>3, <3>4
    <2>7. QED
      BY <2>5, <2>6
  <1>9. QED
    BY <1>7, <1>8

\* Ranks that divide the cells stay in step, so each turn gets one message.
LEMMA InStepIsOnePerTurn ==
    ASSUME TypeInv, EvenSplit, InStep
    PROVE  OnePerTurn
  <1> SUFFICES ASSUME NEW d \in Ranks, NEW s \in Ranks \ {d}
               PROVE  Received(s, d) \in {PastTurns(d, d), PastTurns(d, d) + 1}
    BY DEF OnePerTurn
  <1>1. PICK n \in Nat : n = PastTurns(d, d)
    BY CountersAreNat
  <1>2. PICK k \in Nat : k = PastTurns(s, d)
    BY CountersAreNat
  <1>3. PICK l \in Nat : l = Len(chan[s][d])
    BY CountersAreNat
  <1>4. Received(s, d) = k - l
    BY <1>2, <1>3 DEF Received
  <1>5. TurnNumber(NextFor(d, d)) = n /\ TurnNumber(NextFor(s, d)) = k
    BY <1>1, <1>2, NumberOfNextFor
  <1>6. TurnNumber(NextTurn(NextFor(d, d))) = n + 1
    <2>1. NextFor(d, d) \in Turns
      BY NextForValue
    <2>2. QED
      BY <1>5, <2>1, NumberOfNextTurn
  <1>7. \/ l = 0 /\ NextFor(s, d) = NextFor(d, d)
        \/ l = 1 /\ NextFor(s, d) = NextTurn(NextFor(d, d))
        \/ l = 0 /\ NextFor(s, d) = NextTurn(NextFor(d, d))
    <2>1. PairInStep(s, d)
      BY DEF InStep
    <2>2. chan[s][d] = <<>> => l = 0
      BY <1>3
    <2>3. QED
      BY <1>3, <2>1, <2>2 DEF PairInStep
  <1>8. (l = 0 /\ k = n) \/ (l = 1 /\ k = n + 1) \/ (l = 0 /\ k = n + 1)
    BY <1>5, <1>6, <1>7
  <1>9. k - l = n \/ k - l = n + 1
    <2>1. \A x, y, z \in Nat : (z = 0 /\ y = x) \/ (z = 1 /\ y = x + 1) \/ (z = 0 /\ y = x + 1)
                               => y - z = x \/ y - z = x + 1
      OBVIOUS
    <2>2. QED
      BY <1>8, <2>1
  <1>10. QED
    BY <1>1, <1>4, <1>9

LEMMA TakenUpTo ==
    ASSUME TypeInv, CountInv, NEW d \in Ranks
    PROVE  /\ \A s \in Ranks \ {d} : Received(s, d) \in Nat
           /\ \A m : m \in Taken(d) <=>
                /\ m \in (Ranks \ {d}) \X (Nat \ {0})
                /\ m[2] <= Received(m[1], d)
  <1>1. ASSUME NEW s \in Ranks \ {d}
        PROVE  /\ Received(s, d) \in Nat
               /\ \A k \in Nat : k + Len(chan[s][d]) <= PastTurns(s, d) <=> k <= Received(s, d)
    <2>1. Len(chan[s][d]) <= PastTurns(s, d)
      BY DEF CountInv, CountOK
    <2>2. PICK t \in Nat : t = PastTurns(s, d)
      BY CountersAreNat
    <2>3. PICK l \in Nat : l = Len(chan[s][d])
      BY CountersAreNat
    <2>4. Received(s, d) = t - l
      BY <2>2, <2>3 DEF Received
    <2>5. t - l \in Nat /\ \A k \in Nat : k + l <= t <=> k <= t - l
      BY <2>1, <2>2, <2>3
    <2>6. QED
      BY <2>2, <2>3, <2>4, <2>5
  <1>2. ASSUME NEW m \in (Ranks \ {d}) \X (Nat \ {0})
        PROVE  m[2] + Len(chan[m[1]][d]) <= PastTurns(m[1], d) <=> m[2] <= Received(m[1], d)
    <2>1. m[1] \in Ranks \ {d} /\ m[2] \in Nat
      OBVIOUS
    <2>2. QED
      BY <1>1, <2>1
  <1>3. QED
    BY <1>1, <1>2 DEF Taken

\* The first n messages of every other rank.
FirstOfAll(d, n) == (Ranks \ {d}) \X (1 .. n)

LEMMA FirstOfAllSize ==
    ASSUME NEW d \in Ranks, NEW n \in Nat
    PROVE  IsFiniteSet(FirstOfAll(d, n)) /\ Cardinality(FirstOfAll(d, n)) = (world_size - 1) * n
  <1>1. IsFiniteSet(Ranks \ {d}) /\ Cardinality(Ranks \ {d}) = world_size - 1
    BY RanksFinite
  <1>2. IsFiniteSet(1 .. n) /\ Cardinality(1 .. n) = n
    <2>1. 1 \in Int /\ n \in Int
      OBVIOUS
    <2>2. IsFiniteSet(1 .. n) /\ Cardinality(1 .. n) = IF 1 > n THEN 0 ELSE n - 1 + 1
      BY <2>1, FS_Interval
    <2>3. QED
      BY <2>2
  <1>3. PICK S, W : S = Ranks \ {d} /\ W = 1 .. n
    OBVIOUS
  <1>4. IsFiniteSet(S \X W) /\ Cardinality(S \X W) = (world_size - 1) * n
    BY <1>1, <1>2, <1>3, FS_Product
  <1>5. QED
    BY <1>3, <1>4 DEF FirstOfAll

\* With two ranks there is only one sender, and its messages arrive in order.
LEMMA TwoIsOnePerTurn ==
    ASSUME TypeInv, CountInv, world_size = 2
    PROVE  OnePerTurn
  <1> SUFFICES ASSUME NEW d \in Ranks, NEW s \in Ranks \ {d}
               PROVE  Received(s, d) \in {PastTurns(d, d), PastTurns(d, d) + 1}
    BY DEF OnePerTurn
  <1>1. PICK n \in Nat : n = PastTurns(d, d)
    BY CountersAreNat
  <1>2. PICK r \in Nat : r = Received(s, d)
    BY TakenUpTo
  <1>3. Ranks \ {d} = {s}
    BY DEF Ranks
  <1>4. Taken(d) = FirstOfAll(d, r)
    <2>1. ASSUME NEW m PROVE m \in Taken(d) <=> m \in FirstOfAll(d, r)
      <3>1. m \in Taken(d) <=> m \in {s} \X (Nat \ {0}) /\ m[2] <= Received(m[1], d)
        BY <1>3, TakenUpTo
      <3>2. m \in {s} \X (Nat \ {0}) => m[1] = s /\ m[2] \in Nat \ {0}
        OBVIOUS
      <3>3. m \in Taken(d) <=> m \in {s} \X (Nat \ {0}) /\ m[2] <= r
        BY <1>2, <3>1, <3>2
      <3>4. m \in {s} \X (Nat \ {0}) /\ m[2] <= r <=> m \in {s} \X (1 .. r)
        BY <1>2
      <3>5. QED
        BY <1>3, <3>3, <3>4 DEF FirstOfAll
    <2>2. QED
      BY <2>1
  <1>5. Cardinality(Taken(d)) = (world_size - 1) * r
    BY <1>2, <1>4, FirstOfAllSize
  <1>6. PICK k \in 0 .. 1 : k = IF pc[d] = "recv" THEN recvd[d] ELSE 0
    BY LoopTypes DEF TypeInv
  <1>7. Cardinality(Taken(d)) = (world_size - 1) * n + k
    BY <1>1, <1>6 DEF CountInv, CountOK
  <1>8. world_size - 1 = 1 /\ 1 * r = r /\ 1 * n = n
    BY <1>1, <1>2
  <1>9. r = n + k
    BY <1>5, <1>7, <1>8
  <1>10. QED
    BY <1>1, <1>2, <1>6, <1>9

LEMMA TurnInvariant ==
    ASSUME NoMixing
    PROVE  Spec => [](TypeInv /\ TurnInv)
  <1>1. Spec => [](TypeInv /\ CountInv)
    BY CountInvariant
  <1>2. Spec => [](TypeInv /\ CountInv /\ OrderInv)
    BY <1>1, OrderInit, OrderStep, PTL DEF Spec
  <1>3. CASE EvenSplit
    <2>1. Spec => [](TypeInv /\ StepInv)
      BY <1>3, StepInvariant
    <2>2. TypeInv /\ StepInv => OnePerTurn
      BY <1>3, InStepIsOnePerTurn DEF StepInv
    <2>3. TypeInv /\ CountInv /\ OrderInv /\ OnePerTurn => TypeInv /\ TurnInv
      BY DEF TurnInv
    <2>4. QED
      BY <1>2, <2>1, <2>2, <2>3, PTL
  <1>4. CASE world_size = 2
    <2>1. TypeInv /\ CountInv => OnePerTurn
      BY <1>4, TwoIsOnePerTurn
    <2>2. TypeInv /\ CountInv /\ OrderInv /\ OnePerTurn => TypeInv /\ TurnInv
      BY DEF TurnInv
    <2>3. QED
      BY <1>2, <2>1, <2>2, PTL
  <1>5. QED
    BY <1>3, <1>4 DEF NoMixing

LEMMA GotFromFrame ==
    ASSUME NEW d \in Ranks, PastTurns(d, d)' = PastTurns(d, d),
           \A s \in Ranks \ {d} : Received(s, d)' = Received(s, d)
    PROVE  GotFrom(d)' = GotFrom(d)
  BY DEF GotFrom

\* A rank starts on an entry without a message for it.
LEMMA NoneGot ==
    ASSUME TypeInv, TurnInv, NEW d \in Ranks, pc[d] # "recv"
    PROVE  GotFrom(d) = {}
  <1>1. PICK n \in Nat : n = PastTurns(d, d)
    BY CountersAreNat
  <1>2. \A s \in Ranks \ {d} : Received(s, d) \in {n, n + 1}
    BY <1>1 DEF TurnInv, OnePerTurn
  <1>3. CountInv /\ IsFiniteSet(Taken(d)) /\ Cardinality(Taken(d)) = (world_size - 1) * n
    <2>1. CountInv /\ IsFiniteSet(Taken(d)) /\ Cardinality(Taken(d)) = (world_size - 1) * n + 0
      BY <1>1 DEF TurnInv, CountInv, CountOK
    <2>2. (world_size - 1) * n \in Int
      BY <1>1, WorldAssumption
    <2>3. QED
      BY <2>1, <2>2
  <1>4. FirstOfAll(d, n) \in SUBSET Taken(d)
    <2>1. ASSUME NEW m \in FirstOfAll(d, n) PROVE m \in Taken(d)
      <3>1. m \in (Ranks \ {d}) \X (1 .. n)
        BY DEF FirstOfAll
      <3>2. m[1] \in Ranks \ {d} /\ m[2] \in 1 .. n /\ m \in (Ranks \ {d}) \X (Nat \ {0})
        BY <1>1, <3>1
      <3>3. m[2] <= Received(m[1], d)
        BY <1>1, <1>2, <3>2
      <3>4. QED
        BY <1>3, <3>2, <3>3, TakenUpTo
    <2>2. QED
      BY <2>1
  <1>5. FirstOfAll(d, n) = Taken(d)
    BY <1>1, <1>3, <1>4, FirstOfAllSize, FS_Subset
  <1>6. ASSUME NEW s \in Ranks \ {d}, Received(s, d) > n PROVE FALSE
    <2>1. n + 1 \in Nat \ {0} /\ n + 1 <= Received(s, d)
      BY <1>1, <1>2, <1>6
    <2>2. <<s, n + 1>> \in (Ranks \ {d}) \X (Nat \ {0})
      BY <2>1
    <2>3. <<s, n + 1>> \in Taken(d)
      BY <1>3, <2>1, <2>2, TakenUpTo
    <2>4. n + 1 \in 1 .. n
      BY <1>5, <2>3 DEF FirstOfAll
    <2>5. QED
      BY <1>1, <2>4
  <1>7. QED
    BY <1>1, <1>6 DEF GotFrom

\* After world_size - 1 receives it has one from every other rank.
LEMMA OneFromEach ==
    ASSUME TypeInv, TurnInv, NEW d \in Ranks, pc[d] = "recv", recvd[d] >= world_size - 1
    PROVE  GotFrom(d) = Ranks \ {d}
  <1>1. PICK n \in Nat : n = PastTurns(d, d)
    BY CountersAreNat
  <1>2. \A s \in Ranks \ {d} : Received(s, d) \in {n, n + 1}
    BY <1>1 DEF TurnInv, OnePerTurn
  <1>3. recvd[d] = world_size - 1
    BY LoopTypes, WorldAssumption DEF TypeInv
  <1>4. CountInv /\ IsFiniteSet(Taken(d)) /\ Cardinality(Taken(d)) = (world_size - 1) * (n + 1)
    <2>1. PICK w \in Int : w = world_size - 1
      BY WorldAssumption
    <2>2. CountInv /\ IsFiniteSet(Taken(d)) /\ Cardinality(Taken(d)) = w * n + w
      BY <1>1, <1>3, <2>1 DEF TurnInv, CountInv, CountOK
    <2>3. w * n + w = w * (n + 1)
      BY <1>1, <2>1
    <2>4. QED
      BY <2>1, <2>2, <2>3
  <1>5. Taken(d) \in SUBSET FirstOfAll(d, n + 1)
    <2>1. ASSUME NEW m \in Taken(d) PROVE m \in FirstOfAll(d, n + 1)
      <3>1. m \in (Ranks \ {d}) \X (Nat \ {0}) /\ m[2] <= Received(m[1], d)
        BY <1>4, <2>1, TakenUpTo
      <3>2. m[1] \in Ranks \ {d} /\ m[2] \in Nat \ {0}
        BY <3>1
      <3>3. m[2] \in 1 .. (n + 1)
        BY <1>1, <1>2, <3>1, <3>2
      <3>4. QED
        BY <3>1, <3>3 DEF FirstOfAll
    <2>2. QED
      BY <2>1
  <1>6. Taken(d) = FirstOfAll(d, n + 1)
    <2>1. n + 1 \in Nat
      BY <1>1
    <2>2. QED
      BY <1>4, <1>5, <2>1, FirstOfAllSize, FS_Subset
  <1>7. ASSUME NEW s \in Ranks \ {d} PROVE Received(s, d) > n
    <2>1. <<s, n + 1>> \in FirstOfAll(d, n + 1)
      BY <1>1 DEF FirstOfAll
    <2>2. n + 1 <= Received(s, d)
      BY <1>4, <1>6, <2>1, TakenUpTo
    <2>3. QED
      BY <1>1, <1>2, <2>2
  <1>8. QED
    BY <1>1, <1>7 DEF GotFrom

-----------------------------------------------------------------------------
(* The data.  When the number of ranks divides the number of cells, or is    *)
(* two, and MPI copies the sent integers at once, what every rank publishes *)
(* is exact, and the simulation implements NoiseMap.                        *)

EagerSends == SendModes \subseteq {"eager"}

\* The level that the ranks in S give to cell c in cycle r.
SumOf(S, c, r) == UNION {Contribution(q, c, r) : q \in S}

\* A message carries the level of its sender for the cell and cycle it is for.
MessageOK(s, m) ==
    /\ m.packed
    /\ m.round \in 1 .. Round(s)
    /\ m.data = Contribution(s, m.cell, m.round)

MessagesOK == \A s, d \in Ranks : \A i \in 1 .. Len(chan[s][d]) : MessageOK(s, chan[s][d][i])

\* The entry being added up holds the levels of the ranks it was received
\* from; those before it are complete.
EntriesOK(p) ==
    /\ pc[p] = "recv" => my_noises[p][count[p]].noise_level =
                           SumOf({p} \cup GotFrom(p), cell[p], Round(p))
    /\ InCycle(p) => \A k \in Slots(p) : k < count[p] =>
           my_noises[p][k].noise_level = SumOf(Ranks, my_noises[p][k].cell, Round(p))

\* Once a rank has completed an entry, all ranks have computed this cycle.
AllComputed(p) == InCycle(p) /\ count[p] > 0 => \A q \in Ranks : Round(q) >= Round(p)

ReportsOK(p) ==
    /\ Len(published[p]) = IF InCycle(p) THEN Round(p) - 1 ELSE Round(p)
    /\ \A q \in Ranks : Len(published[p]) <= Round(q)
    /\ \A r \in 1 .. Len(published[p]) : published[p][r] = TrueReport(p, r)

DataInv ==
    /\ MessagesOK
    /\ \A p \in Ranks : EntriesOK(p) /\ AllComputed(p) /\ ReportsOK(p)

LEMMA DataInit == Init => DataInv
  <1> SUFFICES ASSUME Init PROVE DataInv
    OBVIOUS
  <1>1. \A p, d \in Ranks : /\ chan[p][d] = <<>> /\ pc[p] = "compute"
                            /\ published[p] = <<>> /\ Round(p) = 0
    BY DEF Init, Round
  <1>2. MessagesOK
    BY <1>1 DEF MessagesOK
  <1>3. ASSUME NEW p \in Ranks PROVE EntriesOK(p) /\ AllComputed(p) /\ ReportsOK(p)
    BY <1>1 DEF EntriesOK, AllComputed, ReportsOK, InCycle
  <1>4. QED
    BY <1>2, <1>3 DEF DataInv

\* At its turn, a rank is at the cell of that turn.
LEMMA OwnTurn ==
    ASSUME TypeInv, NEW p \in Ranks, pc[p] = "recv"
    PROVE  /\ PastTurns(p, p) = (Round(p) - 1) * noises_recv_count(p) + Block(cell[p])
           /\ cell[p] \in Cells /\ receiver(cell[p]) = p
           /\ count[p] = Block(cell[p]) /\ count[p] \in Slots(p)
           /\ my_noises[p][count[p]] \in Entry
           /\ my_noises[p][count[p]].cell = cell[p]
  <1>1. RankOK(p) /\ TypeOK /\ InCycle(p)
    BY DEF TypeInv, Control, InCycle
  <1>2. cell[p] < NCells /\ receiver(cell[p]) = p /\ Written(p, count[p])
    BY <1>1 DEF RankOK
  <1>3. cell[p] \in Cells /\ cell[p] \in Nat /\ Block(cell[p]) \in Nat /\ p \in Nat
    BY <1>1, <1>2, CellInGrid, LoopTypes
  <1>4. PassedFor(p, p) = Block(cell[p]) /\ Passed(p) = Block(cell[p])
    BY <1>2, <1>3 DEF PassedFor, Passed
  <1>5. PastTurns(p, p) = (Round(p) - 1) * noises_recv_count(p) + Block(cell[p])
    BY <1>1, <1>4 DEF PastTurns
  <1>6. count[p] = Block(cell[p]) /\ count[p] \in Slots(p)
    BY <1>1, <1>2, <1>3, <1>4, OwnCellHasSlot DEF RankOK
  <1>7. my_noises[p][count[p]] \in Entry
    BY <1>2 DEF Written
  <1>8. my_noises[p][count[p]].cell \in Nat
    BY <1>7, NCellsType DEF Entry, Cells
  <1>9. my_noises[p][count[p]].cell = cell[p]
    BY <1>2, <1>3, <1>6, <1>8, BlockUnique DEF Written
  <1>10. QED
    BY <1>2, <1>3, <1>5, <1>6, <1>7, <1>9

\* A rank that a message was received from is at least in the same cycle.
LEMMA GotIsNotBehind ==
    ASSUME TypeInv, TurnInv, NEW p \in Ranks, pc[p] = "recv", NEW q \in GotFrom(p)
    PROVE  q \in Ranks /\ Round(q) >= Round(p) /\ Round(p) \in Nat /\ Round(q) \in Nat
  <1>1. q \in Ranks \ {p} /\ Received(q, p) > PastTurns(p, p)
    BY DEF GotFrom
  <1>2. PICK n \in Nat : n = noises_recv_count(p)
    BY TurnsType
  <1>3. PICK r \in Nat : r + 1 = Round(p)
    <2>1. Round(p) \in Nat /\ Round(p) - 1 \in Nat
      BY TurnsType DEF InCycle
    <2>2. (Round(p) - 1) + 1 = Round(p)
      BY <2>1
    <2>3. QED
      BY <2>1, <2>2
  <1>4. PICK x \in Nat : x = Round(q)
    BY <1>1, TurnsType
  <1>5. PastTurns(q, p) <= x * n /\ PastTurns(q, p) \in Nat
    BY <1>1, <1>2, <1>4, TurnsType
  <1>6. PICK b \in Nat : PastTurns(p, p) = r * n + b
    <2>1. Block(cell[p]) \in Nat
      BY LoopTypes DEF TypeInv
    <2>2. Round(p) - 1 = r
      BY <1>3
    <2>3. QED
      BY <1>2, <2>1, <2>2, OwnTurn
  <1>7. Received(q, p) <= PastTurns(q, p)
    <2>1. PICK t \in Nat, l \in Nat : t = PastTurns(q, p) /\ l = Len(chan[q][p])
      BY <1>1, CountersAreNat
    <2>2. Received(q, p) = t - l
      BY <2>1 DEF Received
    <2>3. QED
      BY <2>1, <2>2
  <1>8. PICK v \in Int : v = Received(q, p)
    BY <1>1, ReceivedType
  <1>9. r * n < x * n
    <2>1. r * n \in Nat /\ x * n \in Nat
      BY <1>2, <1>3, <1>4
    <2>2. QED
      BY <1>1, <1>5, <1>6, <1>7, <1>8, <2>1
  <1>10. ~ (x <= r)
    <2>1. SUFFICES ASSUME x <= r PROVE FALSE
      OBVIOUS
    <2>2. PICK y \in Nat : r = x + y
      BY <1>3, <1>4, <2>1, r - x \in Nat
    <2>3. r * n = x * n + y * n /\ y * n \in Nat /\ x * n \in Nat
      BY <1>2, <1>4, <2>2
    <2>4. QED
      BY <1>9, <2>3
  <1>11. QED
    BY <1>1, <1>3, <1>4, <1>10

\* Two turns of a rank with the same number are the same.
LEMMA SameTurn ==
    ASSUME NEW n \in Nat \ {0}, NEW a \in Nat, NEW c \in Nat,
           NEW b \in 0 .. (n - 1), NEW e \in 0 .. (n - 1), a * n + b = c * n + e
    PROVE  a = c /\ b = e
  <1>1. a * n = n * a /\ c * n = n * c
    OBVIOUS
  <1>2. PICK t : t = n * a + b /\ t = n * c + e
    BY <1>1
  <1>3. t \div n = a /\ t % n = b
    BY <1>2, DivModUnique
  <1>4. t \div n = c /\ t % n = e
    BY <1>2, DivModUnique
  <1>5. QED
    BY <1>3, <1>4

\* A receive takes a message that is for the entry at hand.
LEMMA RecvOfTurn ==
    ASSUME TypeInv, TurnInv, OnePerTurn', NEW p \in Ranks, NEW s \in Ranks, Recv(p, s)
    PROVE  /\ s # p
           /\ Head(chan[s][p]).cell = cell[p] /\ Head(chan[s][p]).round = Round(p)
           /\ GotFrom(p)' = GotFrom(p) \cup {s}
           /\ \A q \in Ranks \ {p} : GotFrom(q)' = GotFrom(q)
  <1>1. /\ s # p /\ ForTurn(Head(chan[s][p]), p, Received(s, p))
        /\ Received(s, p)' = Received(s, p) + 1
        /\ \A q, d \in Ranks : q # s \/ d # p => Received(q, d)' = Received(q, d)
        /\ \A q, d \in Ranks : PastTurns(q, d)' = PastTurns(q, d)
    BY OrderRecv DEF TurnInv, CountInv
  <1>2. PICK t \in Nat : t = PastTurns(p, p)
    BY CountersAreNat
  <1>3. PICK v \in Int : v = Received(s, p)
    BY ReceivedType
  <1>4. v \in {t, t + 1}
    BY <1>1, <1>2, <1>3 DEF TurnInv, OnePerTurn
  <1>5. v + 1 \in {t, t + 1}
    <2>1. Received(s, p)' \in {PastTurns(p, p)', PastTurns(p, p)' + 1}
      BY <1>1 DEF OnePerTurn
    <2>2. QED
      BY <1>1, <1>2, <1>3, <2>1
  <1>6. v = t
    BY <1>2, <1>3, <1>4, <1>5
  <1>7. /\ pc[p] = "recv" /\ chan[s][p] # <<>> /\ chan[s][p] \in Seq(Message)
    BY DataTypes DEF Recv, TypeInv
  <1>8. PICK h \in Message : h = Head(chan[s][p])
    BY <1>7
  <1>9. h.cell \in Cells /\ h.round \in Nat
    BY DEF Message
  <1>10. receiver(h.cell) = p /\ h.round >= 1
         /\ (h.round - 1) * noises_recv_count(p) + Block(h.cell) = t
    BY <1>1, <1>3, <1>6, <1>8 DEF ForTurn
  <1>11. /\ cell[p] \in Cells /\ receiver(cell[p]) = p
         /\ t = (Round(p) - 1) * noises_recv_count(p) + Block(cell[p])
    BY <1>2, <1>7, OwnTurn
  <1>12. Block(h.cell) \in Slots(p) /\ Block(cell[p]) \in Slots(p)
    BY <1>9, <1>10, <1>11, OwnCellHasSlot
  <1>13. PICK n \in Nat \ {0} : n = noises_recv_count(p)
    BY OwnsOne
  <1>14. Round(p) - 1 \in Nat /\ Round(p) \in Nat
    BY <1>7, TurnsType DEF InCycle
  <1>15. h.round - 1 = Round(p) - 1 /\ Block(h.cell) = Block(cell[p])
    <2>1. PICK a \in Nat, c \in Nat : a = h.round - 1 /\ c = Round(p) - 1
      BY <1>9, <1>10, <1>14
    <2>2. PICK b \in 0 .. (n - 1), e \in 0 .. (n - 1) : b = Block(h.cell) /\ e = Block(cell[p])
      BY <1>12, <1>13 DEF Slots
    <2>3. a * n + b = c * n + e
      BY <1>10, <1>11, <1>13, <2>1, <2>2
    <2>4. a = c /\ b = e
      BY <2>3, SameTurn
    <2>5. QED
      BY <2>1, <2>2, <2>4
  <1>16. h.round = Round(p)
    BY <1>9, <1>14, <1>15
  <1>17. h.cell = cell[p]
    <2>1. h.cell \in Nat /\ cell[p] \in Nat
      BY <1>9, <1>11, NCellsType DEF Cells
    <2>2. QED
      BY <1>10, <1>11, <1>15, <2>1, BlockUnique
  <1>18. GotFrom(p)' = GotFrom(p) \cup {s}
    <2>1. PastTurns(p, p)' = t /\ t + 1 > t
      BY <1>1, <1>2
    <2>2. Received(s, p)' = t + 1 /\ \A q \in Ranks \ {p, s} : Received(q, p)' = Received(q, p)
      BY <1>1, <1>3, <1>6
    <2>3. QED
      BY <1>1, <1>2, <2>1, <2>2 DEF GotFrom
  <1>19. \A q \in Ranks \ {p} : GotFrom(q)' = GotFrom(q)
    BY <1>1, GotFromFrame
  <1>20. QED
    BY <1>1, <1>8, <1>16, <1>17, <1>18, <1>19

-----------------------------------------------------------------------------
(* What steps leave alone.                                                 *)

LEMMA SameLoud ==
    ASSUME loud' = loud
    PROVE  /\ \A q : Round(q)' = Round(q)
           /\ \A q, c, r : Contribution(q, c, r)' = Contribution(q, c, r)
           /\ \A S, c, r : SumOf(S, c, r)' = SumOf(S, c, r)
           /\ \A q, r : TrueReport(q, r)' = TrueReport(q, r)
  <1>1. \A q, c, r : Contribution(q, c, r)' = Contribution(q, c, r)
    BY DEF Contribution
  <1>2. \A S, c, r : SumOf(S, c, r)' = SumOf(S, c, r)
    BY <1>1 DEF SumOf
  <1>3. \A c, r : TrueLevel(c, r)' = TrueLevel(c, r)
    BY <1>1 DEF TrueLevel
  <1>4. \A q, r : TrueReport(q, r)' = TrueReport(q, r)
    BY <1>3 DEF TrueReport
  <1>5. QED
    BY <1>1, <1>2, <1>4 DEF Round

LEMMA MessagesFrame ==
    ASSUME MessagesOK, loud' = loud, chan' = chan
    PROVE  MessagesOK'
  BY SameLoud DEF MessagesOK, MessageOK

LEMMA EntriesFrame ==
    ASSUME NEW q \in Ranks, EntriesOK(q), loud' = loud, pc'[q] = pc[q], cell'[q] = cell[q],
           count'[q] = count[q], my_noises'[q] = my_noises[q], GotFrom(q)' = GotFrom(q)
    PROVE  EntriesOK(q)'
  <1>1. SumOf({q} \cup GotFrom(q), cell[q], Round(q))' =
          SumOf({q} \cup GotFrom(q), cell[q], Round(q))
    BY SameLoud DEF SumOf
  <1>2. \A k : SumOf(Ranks, my_noises[q][k].cell, Round(q))' =
               SumOf(Ranks, my_noises[q][k].cell, Round(q))
    BY SameLoud DEF SumOf
  <1>3. QED
    BY <1>1, <1>2 DEF EntriesOK, InCycle

LEMMA ComputedFrame ==
    ASSUME NEW q \in Ranks, AllComputed(q), loud' = loud,
           InCycle(q)' => InCycle(q), count'[q] = count[q]
    PROVE  AllComputed(q)'
  BY SameLoud DEF AllComputed

LEMMA ReportsFrame ==
    ASSUME NEW q \in Ranks, ReportsOK(q), loud' = loud, published'[q] = published[q],
           InCycle(q)' = InCycle(q)
    PROVE  ReportsOK(q)'
  BY SameLoud DEF ReportsOK

-----------------------------------------------------------------------------
(* The steps.                                                              *)

LEMMA DataIsend ==
    ASSUME TypeInv, TypeInv', EagerSends, TurnInv, DataInv, NEW p \in Ranks, Isend(p)
    PROVE  DataInv'
  <1>1. PICK d \in Ranks : d = receiver(cell[p])
    BY LoopTypes DEF TypeInv
  <1>2. /\ pc[p] = "shuffle" /\ cell[p] \in Cells
        /\ UNCHANGED <<pc, count, my_noises, loud, published>>
        /\ \A q \in Ranks \ {p} : cell'[q] = cell[q]
    BY CellInGrid DEF Isend, TypeInv, TypeOK
  <1> DEFINE m == [cell |-> cell[p], round |-> Round(p), packed |-> TRUE,
                   data |-> noise_sqm[p][cell[p]]]
  <1>3. chan' = [chan EXCEPT ![p][d] = Append(chan[p][d], m)]
    BY <1>1 DEF Isend, EagerSends
  <1>4. MessageOK(p, m)
    <2>1. Round(p) >= 1 /\ noise_sqm[p][cell[p]] = Contribution(p, cell[p], Round(p))
      BY <1>2 DEF TypeInv, Control, RankOK, InCycle
    <2>2. Round(p) \in Nat
      BY DataTypes DEF TypeInv
    <2>3. QED
      BY <2>1, <2>2 DEF MessageOK
  <1>5. PICK n : n = m
    OBVIOUS
  <1> HIDE DEF m
  <1>6. /\ chan'[p][d] = Append(chan[p][d], n) /\ chan[p][d] \in Seq(Message)
        /\ \A s, e \in Ranks : s # p \/ e # d => chan'[s][e] = chan[s][e]
    <2>1. chan' = [chan EXCEPT ![p][d] = Append(chan[p][d], n)]
      BY <1>3, <1>5
    <2>2. chan \in [Ranks -> [Ranks -> Seq(Message)]]
      BY DEF TypeInv, TypeOK
    <2>3. QED
      BY <2>1, <2>2
  <1>7. MessagesOK'
    <2>1. ASSUME NEW s \in Ranks, NEW e \in Ranks, NEW i \in 1 .. Len(chan'[s][e])
          PROVE  MessageOK(s, chan'[s][e][i])
      <3>1. CASE s = p /\ e = d
        <4>1. \A j \in 1 .. Len(chan[p][d]) : MessageOK(p, chan[p][d][j])
          BY DEF DataInv, MessagesOK
        <4>2. i \in 1 .. Len(chan[p][d]) + 1
          BY <1>6, <2>1, <3>1
        <4>3. CASE i \in 1 .. Len(chan[p][d])
          BY <1>6, <3>1, <4>1, <4>3
        <4>4. CASE i = Len(chan[p][d]) + 1
          BY <1>4, <1>5, <1>6, <3>1, <4>4
        <4>5. Len(chan[p][d]) \in Nat
          BY <1>6
        <4>6. QED
          BY <4>2, <4>3, <4>4, <4>5
      <3>2. CASE ~ (s = p /\ e = d)
        BY <1>6, <2>1, <3>2 DEF DataInv, MessagesOK
      <3>3. QED
        BY <3>1, <3>2
    <2>2. \A s, e \in Ranks : \A i \in 1 .. Len(chan'[s][e]) : MessageOK(s, chan'[s][e][i])
      BY <2>1
    <2>3. \A s, e \in Ranks : \A i \in 1 .. Len(chan'[s][e]) : MessageOK(s, chan[s][e][i])'
      BY <1>2, <2>2, SameLoud DEF MessageOK
    <2>4. QED
      BY <2>3 DEF MessagesOK
  <1>8. ASSUME NEW q \in Ranks PROVE EntriesOK(q)' /\ AllComputed(q)' /\ ReportsOK(q)'
    <2>1. EntriesOK(q) /\ AllComputed(q) /\ ReportsOK(q) /\ GotFrom(q)' = GotFrom(q)
      BY OrderIsend, GotFromFrame DEF DataInv, TurnInv
    <2>2. CASE q # p
      BY <1>2, <2>1, <2>2, EntriesFrame, ComputedFrame, ReportsFrame DEF InCycle
    <2>3. CASE q = p
      <3>1. EntriesOK(p)'
        <4>1. \A k : SumOf(Ranks, my_noises[p][k].cell, Round(p))' =
                     SumOf(Ranks, my_noises[p][k].cell, Round(p))
          BY <1>2, SameLoud DEF SumOf
        <4>2. QED
          BY <1>2, <2>1, <2>3, <4>1 DEF EntriesOK, InCycle
      <3>2. QED
        BY <1>2, <2>1, <2>3, <3>1, ComputedFrame, ReportsFrame DEF InCycle
    <2>4. QED
      BY <2>2, <2>3
  <1>9. QED
    BY <1>7, <1>8 DEF DataInv

LEMMA DataStartOwn ==
    ASSUME TypeInv, TypeInv', TurnInv, DataInv, NEW p \in Ranks, StartOwn(p)
    PROVE  DataInv'
  <1>1. /\ pc[p] = "shuffle" /\ pc'[p] = "recv" /\ cell[p] \in Cells /\ receiver(cell[p]) = p
        /\ UNCHANGED <<cell, count, chan, loud, published>>
        /\ \A q \in Ranks \ {p} : pc'[q] = pc[q]
        /\ my_noises' = [my_noises EXCEPT ![p][count[p]] =
               [cell |-> cell[p], noise_level |-> noise_sqm[p][cell[p]]]]
    BY CellInGrid DEF StartOwn, TypeInv, TypeOK
  <1>2. noise_sqm[p][cell[p]] = Contribution(p, cell[p], Round(p))
    BY <1>1 DEF TypeInv, Control, RankOK, InCycle
  <1>3. count[p] \in Slots(p)
    <2>1. count[p] = Passed(p) /\ p \in Nat /\ Block(cell[p]) \in Nat
      BY <1>1, LoopTypes DEF TypeInv, Control, RankOK, InCycle
    <2>2. count[p] = Block(cell[p])
      BY <1>1, <2>1 DEF Passed
    <2>3. QED
      BY <1>1, <2>2, OwnCellHasSlot
  <1>4. /\ my_noises'[p][count[p]].noise_level = Contribution(p, cell[p], Round(p))
        /\ \A k \in Slots(p) \ {count[p]} : my_noises'[p][k] = my_noises[p][k]
        /\ \A q \in Ranks \ {p} : my_noises'[q] = my_noises[q]
    <2>1. DOMAIN my_noises = Ranks /\ my_noises[p] \in [Slots(p) -> Entry \cup {NoData}]
      BY DEF TypeInv, TypeOK
    <2>2. QED
      BY <1>1, <1>2, <1>3, <2>1
  <1>5. GotFrom(p)' = {} /\ \A q \in Ranks \ {p} : GotFrom(q)' = GotFrom(q)
    <2>1. \A q \in Ranks : GotFrom(q)' = GotFrom(q)
      BY <1>1, TurnsLocal, GotFromFrame DEF Received
    <2>2. GotFrom(p) = {}
      BY <1>1, NoneGot
    <2>3. QED
      BY <2>1, <2>2
  <1>6. EntriesOK(p)'
    <2>1. SumOf({p} \cup GotFrom(p), cell[p], Round(p))' = Contribution(p, cell[p], Round(p))
      BY <1>1, <1>5, SameLoud DEF SumOf
    <2>2. ASSUME NEW k \in Slots(p), k < count[p]
          PROVE  my_noises'[p][k].noise_level = SumOf(Ranks, my_noises[p][k].cell, Round(p))'
      <3>1. k # count[p]
        BY <2>2, SlotsType DEF Slots
      <3>2. my_noises'[p][k] = my_noises[p][k]
        BY <1>4, <3>1
      <3>3. my_noises[p][k].noise_level = SumOf(Ranks, my_noises[p][k].cell, Round(p))
        BY <1>1, <2>2 DEF DataInv, EntriesOK, InCycle
      <3>4. QED
        BY <1>1, <3>2, <3>3, SameLoud DEF SumOf
    <2>3. QED
      BY <1>1, <1>4, <2>1, <2>2 DEF EntriesOK
  <1>7. ASSUME NEW q \in Ranks PROVE EntriesOK(q)' /\ AllComputed(q)' /\ ReportsOK(q)'
    <2>1. EntriesOK(q) /\ AllComputed(q) /\ ReportsOK(q)
      BY DEF DataInv
    <2>2. InCycle(q)' = InCycle(q)
      BY <1>1 DEF InCycle
    <2>3. AllComputed(q)' /\ ReportsOK(q)'
      BY <1>1, <2>1, <2>2, ComputedFrame, ReportsFrame
    <2>4. EntriesOK(q)'
      BY <1>1, <1>4, <1>5, <1>6, <2>1, EntriesFrame
    <2>5. QED
      BY <2>3, <2>4
  <1>8. QED
    BY <1>1, <1>7, MessagesFrame DEF DataInv

LEMMA DataRecv ==
    ASSUME TypeInv, TypeInv', TurnInv, TurnInv', DataInv,
           NEW p \in Ranks, NEW s \in Ranks, Recv(p, s)
    PROVE  DataInv'
  <1>1. /\ pc[p] = "recv" /\ chan[s][p] # <<>>
        /\ chan' = [chan EXCEPT ![s][p] = Tail(chan[s][p])]
        /\ my_noises' = [my_noises EXCEPT ![p][count[p]] =
               [cell |-> my_noises[p][count[p]].cell,
                noise_level |-> my_noises[p][count[p]].noise_level \cup Head(chan[s][p]).data]]
        /\ UNCHANGED <<pc, cell, count, loud, published>>
    BY DEF Recv, AddNoise, sum_noises
  <1>2. count[p] \in Slots(p)
    BY <1>1, OwnTurn
  <1>3. chan[s][p] \in Seq(Message)
    BY DataTypes DEF TypeInv
  <1>4. /\ Head(chan[s][p]).cell = cell[p] /\ Head(chan[s][p]).round = Round(p)
        /\ GotFrom(p)' = GotFrom(p) \cup {s}
        /\ \A q \in Ranks \ {p} : GotFrom(q)' = GotFrom(q)
    BY RecvOfTurn DEF TurnInv
  <1>5. Head(chan[s][p]).data = Contribution(s, cell[p], Round(p))
    <2>1. Head(chan[s][p]) = chan[s][p][1] /\ 1 \in 1 .. Len(chan[s][p])
      BY <1>1, <1>3
    <2>2. MessageOK(s, Head(chan[s][p]))
      BY <2>1 DEF DataInv, MessagesOK
    <2>3. QED
      BY <1>4, <2>2 DEF MessageOK
  <1>6. /\ my_noises'[p][count[p]].noise_level =
             my_noises[p][count[p]].noise_level \cup Contribution(s, cell[p], Round(p))
        /\ \A k \in Slots(p) \ {count[p]} : my_noises'[p][k] = my_noises[p][k]
        /\ \A q \in Ranks \ {p} : my_noises'[q] = my_noises[q]
    <2>1. DOMAIN my_noises = Ranks /\ my_noises[p] \in [Slots(p) -> Entry \cup {NoData}]
      BY DEF TypeInv, TypeOK
    <2>2. QED
      BY <1>1, <1>2, <1>5, <2>1
  <1>7. GotFrom(p)' = GotFrom(p) \cup {s} /\ \A q \in Ranks \ {p} : GotFrom(q)' = GotFrom(q)
    BY <1>4
  <1>8. EntriesOK(p)'
    <2>1. SumOf({p} \cup GotFrom(p), cell[p], Round(p))' =
            SumOf({p} \cup GotFrom(p), cell[p], Round(p)) \cup Contribution(s, cell[p], Round(p))
      <3>1. SumOf({p} \cup GotFrom(p), cell[p], Round(p))' =
              SumOf({p} \cup GotFrom(p) \cup {s}, cell[p], Round(p))
        BY <1>1, <1>7, SameLoud DEF SumOf
      <3>2. SumOf({p} \cup GotFrom(p) \cup {s}, cell[p], Round(p)) =
              SumOf({p} \cup GotFrom(p), cell[p], Round(p)) \cup Contribution(s, cell[p], Round(p))
        BY DEF SumOf
      <3>3. QED
        BY <3>1, <3>2
    <2>2. my_noises[p][count[p]].noise_level = SumOf({p} \cup GotFrom(p), cell[p], Round(p))
      BY <1>1 DEF DataInv, EntriesOK
    <2>3. ASSUME NEW k \in Slots(p), k < count[p]
          PROVE  my_noises'[p][k].noise_level = SumOf(Ranks, my_noises[p][k].cell, Round(p))'
      <3>1. k # count[p]
        BY <2>3, SlotsType DEF Slots
      <3>2. my_noises'[p][k] = my_noises[p][k]
        BY <1>6, <3>1
      <3>3. my_noises[p][k].noise_level = SumOf(Ranks, my_noises[p][k].cell, Round(p))
        BY <1>1, <2>3 DEF DataInv, EntriesOK, InCycle
      <3>4. QED
        BY <1>1, <3>2, <3>3, SameLoud DEF SumOf
    <2>4. QED
      BY <1>1, <1>6, <2>1, <2>2, <2>3 DEF EntriesOK
  <1>9. MessagesOK'
    <2>1. PICK c \in Seq(Message) : c = chan[s][p] /\ c # <<>>
      BY <1>1, <1>3
    <2>2. chan \in [Ranks -> [Ranks -> Seq(Message)]]
      BY DEF TypeInv, TypeOK
    <2>3. /\ chan'[s][p] = Tail(c)
          /\ \A q, e \in Ranks : q # s \/ e # p => chan'[q][e] = chan[q][e]
      BY <1>1, <2>1, <2>2
    <2>4. \A i \in 1 .. Len(Tail(c)) : i + 1 \in 1 .. Len(c) /\ Tail(c)[i] = c[i + 1]
      BY <2>1
    <2>5. \A i \in 1 .. Len(chan'[s][p]) : MessageOK(s, chan'[s][p][i])
      BY <2>1, <2>3, <2>4 DEF DataInv, MessagesOK
    <2>6. \A q, e \in Ranks : \A i \in 1 .. Len(chan'[q][e]) : MessageOK(q, chan'[q][e][i])
      <3>1. ASSUME NEW q \in Ranks, NEW e \in Ranks, NEW i \in 1 .. Len(chan'[q][e])
            PROVE  MessageOK(q, chan'[q][e][i])
        <4>1. CASE q = s /\ e = p
          BY <2>5, <4>1
        <4>2. CASE ~ (q = s /\ e = p)
          BY <2>3, <4>2 DEF DataInv, MessagesOK
        <4>3. QED
          BY <4>1, <4>2
      <3>2. QED
        BY <3>1
    <2>7. loud' = loud
      BY <1>1
    <2>8. \A q, e \in Ranks : \A i \in 1 .. Len(chan'[q][e]) : MessageOK(q, chan[q][e][i])'
      BY <2>6, <2>7, SameLoud DEF MessageOK
    <2>9. QED
      BY <2>8 DEF MessagesOK
  <1>10. ASSUME NEW q \in Ranks PROVE EntriesOK(q)' /\ AllComputed(q)' /\ ReportsOK(q)'
    <2>1. EntriesOK(q) /\ AllComputed(q) /\ ReportsOK(q)
      BY DEF DataInv
    <2>2. InCycle(q)' = InCycle(q)
      BY <1>1 DEF InCycle
    <2>3. AllComputed(q)' /\ ReportsOK(q)'
      BY <1>1, <2>1, <2>2, ComputedFrame, ReportsFrame
    <2>4. EntriesOK(q)'
      BY <1>1, <1>6, <1>7, <1>8, <2>1, EntriesFrame
    <2>5. QED
      BY <2>3, <2>4
  <1>11. QED
    BY <1>9, <1>10 DEF DataInv

LEMMA DataEndOwn ==
    ASSUME TypeInv, TypeInv', TurnInv, DataInv, NEW p \in Ranks, EndOwn(p)
    PROVE  DataInv'
  <1>1. /\ pc[p] = "recv" /\ pc'[p] = "shuffle" /\ count'[p] = count[p] + 1
        /\ UNCHANGED <<my_noises, chan, loud, published>>
        /\ \A q \in Ranks \ {p} : /\ pc'[q] = pc[q] /\ cell'[q] = cell[q]
                                  /\ count'[q] = count[q]
    BY DEF EndOwn, TypeInv, TypeOK
  <1>2. /\ count[p] \in Slots(p) /\ count[p] \in Nat
        /\ my_noises[p][count[p]].cell = cell[p]
    BY <1>1, OwnTurn, LoopTypes DEF TypeInv
  <1>3. GotFrom(p) = Ranks \ {p}
    BY OneFromEach DEF EndOwn
  <1>4. EntriesOK(p)'
    <2>1. my_noises[p][count[p]].noise_level = SumOf(Ranks, cell[p], Round(p))
      <3>1. {p} \cup GotFrom(p) = Ranks
        BY <1>3
      <3>2. QED
        BY <1>1, <3>1 DEF DataInv, EntriesOK
    <2>2. ASSUME NEW k \in Slots(p), k < count[p] + 1
          PROVE  my_noises[p][k].noise_level = SumOf(Ranks, my_noises[p][k].cell, Round(p))
      <3>1. CASE k = count[p]
        BY <1>2, <2>1, <3>1
      <3>2. CASE k # count[p]
        <4>1. k < count[p]
          BY <1>2, <2>2, <3>2, SlotsType DEF Slots
        <4>2. QED
          BY <1>1, <4>1 DEF DataInv, EntriesOK, InCycle
      <3>3. QED
        BY <3>1, <3>2
    <2>3. \A k \in Slots(p) : k < count'[p] =>
              my_noises'[p][k].noise_level = SumOf(Ranks, my_noises[p][k].cell, Round(p))'
      BY <1>1, <2>2, SameLoud DEF SumOf
    <2>4. QED
      BY <1>1, <2>3 DEF EntriesOK
  <1>5. AllComputed(p)'
    <2>1. \A q \in Ranks : Round(q) >= Round(p)
      BY <1>1, <1>3, GotIsNotBehind, DataTypes DEF TypeInv
    <2>2. QED
      BY <1>1, <2>1, SameLoud DEF AllComputed
  <1>6. ASSUME NEW q \in Ranks PROVE EntriesOK(q)' /\ AllComputed(q)' /\ ReportsOK(q)'
    <2>1. EntriesOK(q) /\ AllComputed(q) /\ ReportsOK(q)
      BY DEF DataInv
    <2>2. InCycle(q)' = InCycle(q)
      BY <1>1 DEF InCycle
    <2>3. ReportsOK(q)'
      BY <1>1, <2>1, <2>2, ReportsFrame
    <2>4. CASE q # p
      <3>1. GotFrom(q)' = GotFrom(q)
        <4>1. \A s, d \in Ranks : s # p \/ d # p => PastTurns(s, d)' = PastTurns(s, d)
          BY OrderEndOwn DEF TurnInv
        <4>2. QED
          BY <1>1, <2>4, <4>1, GotFromFrame DEF Received
      <3>2. QED
        BY <1>1, <2>1, <2>2, <2>3, <2>4, <3>1, EntriesFrame, ComputedFrame
    <2>5. QED
      BY <1>4, <1>5, <2>3, <2>4
  <1>7. QED
    BY <1>1, <1>6, MessagesFrame DEF DataInv

\* A sensing step changes no level of a cycle that has been computed.
LEMMA PastLevels ==
    ASSUME TypeInv, NEW p \in Ranks, NEW N, ComputeCells(p, N)
    PROVE  /\ Round(p)' = Round(p) + 1
           /\ \A q \in Ranks \ {p} : Round(q)' = Round(q)
           /\ \A q \in Ranks : \A c : \A r \in 1 .. Round(q) :
                  Contribution(q, c, r)' = Contribution(q, c, r)
  <1>1. loud' = [loud EXCEPT ![p] = Append(loud[p], N)]
    BY DEF ComputeCells
  <1>2. loud \in [Ranks -> Seq(SUBSET Cells)]
    BY DEF TypeInv, TypeOK
  <1>3. loud'[p] = Append(loud[p], N) /\ \A q \in Ranks \ {p} : loud'[q] = loud[q]
    BY <1>1, <1>2
  <1>4. loud[p] \in Seq(SUBSET Cells)
    BY <1>2
  <1>5. \A r \in 1 .. Round(p) : loud'[p][r] = loud[p][r]
    BY <1>3, <1>4 DEF Round
  <1>6. \A q \in Ranks : \A r \in 1 .. Round(q) : loud'[q][r] = loud[q][r]
    BY <1>3, <1>5
  <1>7. QED
    BY <1>3, <1>4, <1>6 DEF Round, Contribution

\* The level of a cycle every rank has computed is the sum over all ranks.
LEMMA TrueLevelIsSum ==
    ASSUME TypeInv, NEW r \in Nat, r >= 1, \A q \in Ranks : Round(q) >= r, NEW c
    PROVE  TrueLevel(c, r) = SumOf(Ranks, c, r)
  <1>1. \A q \in Ranks : Round(q) \in Nat /\ loud[q] \in Seq(SUBSET Cells)
    BY DataTypes DEF TypeInv
  <1>2. \A q \in Ranks : r \in DOMAIN loud[q]
    BY <1>1 DEF Round
  <1>3. {x \in Ranks : r \in DOMAIN loud[x]} = Ranks
    BY <1>2
  <1>4. QED
    BY <1>3 DEF TrueLevel, SumOf

LEMMA DataCompute ==
    ASSUME TypeInv, TypeInv', TurnInv, DataInv, NEW p \in Ranks, Compute(p)
    PROVE  DataInv'
  <1>1. PICK N \in Footprints : ComputeCells(p, N)
    BY DEF Compute
  <1>2. /\ pc[p] = "compute" /\ pc'[p] = "shuffle" /\ count'[p] = 0
        /\ UNCHANGED <<my_noises, chan, published>>
        /\ \A q \in Ranks \ {p} : /\ pc'[q] = pc[q] /\ cell'[q] = cell[q]
                                  /\ count'[q] = count[q]
    BY <1>1 DEF ComputeCells, TypeInv, TypeOK
  <1>3. /\ Round(p)' = Round(p) + 1
        /\ \A q \in Ranks \ {p} : Round(q)' = Round(q)
        /\ \A q \in Ranks : \A c : \A r \in 1 .. Round(q) :
               Contribution(q, c, r)' = Contribution(q, c, r)
    BY <1>1, PastLevels
  <1>4. \A q \in Ranks : Round(q) \in Nat /\ Round(q)' \in Nat /\ Round(q)' >= Round(q)
    BY <1>3, DataTypes DEF TypeInv
  <1>5. ASSUME NEW S \in SUBSET Ranks, NEW r \in Nat, r >= 1, \A q \in S : Round(q) >= r, NEW c
        PROVE  SumOf(S, c, r)' = SumOf(S, c, r)
    <2>1. \A q \in S : Contribution(q, c, r)' = Contribution(q, c, r)
      BY <1>3, <1>4, <1>5
    <2>2. QED
      BY <2>1 DEF SumOf
  <1>6. MessagesOK'
    <2>1. \A s, d \in Ranks : \A i \in 1 .. Len(chan[s][d]) : MessageOK(s, chan[s][d][i])
      BY DEF DataInv, MessagesOK
    <2>2. \A s, d \in Ranks : \A i \in 1 .. Len(chan'[s][d]) : MessageOK(s, chan[s][d][i])'
      BY <1>2, <1>3, <1>4, <2>1 DEF MessageOK
    <2>3. QED
      BY <2>2 DEF MessagesOK
  <1>7. ASSUME NEW q \in Ranks PROVE ReportsOK(q)'
    <2>1. ReportsOK(q)
      BY DEF DataInv
    <2>2. Len(published'[q]) = IF InCycle(q)' THEN Round(q)' - 1 ELSE Round(q)'
      BY <1>2, <1>3, <1>4, <2>1 DEF ReportsOK, InCycle
    <2>3. \A x \in Ranks : Len(published'[q]) <= Round(x)'
      <3>1. \A x \in Ranks : Len(published[q]) <= Round(x)
        BY <2>1 DEF ReportsOK
      <3>2. Len(published[q]) \in Nat
        BY DataTypes DEF TypeInv
      <3>3. QED
        BY <1>2, <1>4, <3>1, <3>2
    <2>4. ASSUME NEW r \in 1 .. Len(published[q]) PROVE TrueReport(q, r)' = TrueReport(q, r)
      <3>1. r \in Nat /\ r >= 1 /\ \A x \in Ranks : Round(x) >= r
        <4>1. Len(published[q]) \in Nat
          BY DataTypes DEF TypeInv
        <4>2. \A x \in Ranks : Len(published[q]) <= Round(x)
          BY <2>1 DEF ReportsOK
        <4>3. QED
          BY <1>4, <4>1, <4>2
      <3>2. \A x \in Ranks : Round(x)' >= r
        BY <1>4, <3>1
      <3>3. \A c : TrueLevel(c, r) = SumOf(Ranks, c, r)
        BY <3>1, TrueLevelIsSum
      <3>4. \A c : TrueLevel(c, r)' = SumOf(Ranks, c, r)'
        <4>1. \A x \in Ranks : loud'[x] \in Seq(SUBSET Cells)
          BY DEF TypeInv, TypeOK
        <4>2. \A x \in Ranks : r \in DOMAIN loud'[x]
          BY <3>1, <3>2, <4>1 DEF Round
        <4>3. {x \in Ranks : r \in DOMAIN loud'[x]} = Ranks
          BY <4>2
        <4>4. QED
          BY <4>3 DEF TrueLevel, SumOf
      <3>5. \A c : SumOf(Ranks, c, r)' = SumOf(Ranks, c, r)
        BY <1>5, <3>1
      <3>6. \A c : TrueLevel(c, r)' = TrueLevel(c, r)
        BY <3>3, <3>4, <3>5
      <3>7. QED
        BY <3>6 DEF TrueReport
    <2>5. \A r \in 1 .. Len(published'[q]) : published'[q][r] = TrueReport(q, r)'
      BY <1>2, <2>1, <2>4 DEF ReportsOK
    <2>6. QED
      BY <2>2, <2>3, <2>5 DEF ReportsOK
  <1>8. EntriesOK(p)' /\ AllComputed(p)'
    <2>1. \A k \in Slots(p) : ~ (k < 0)
      BY SlotsType DEF Slots
    <2>2. QED
      BY <1>2, <2>1 DEF EntriesOK, AllComputed
  <1>9. ASSUME NEW q \in Ranks \ {p} PROVE EntriesOK(q)' /\ AllComputed(q)'
    <2>1. EntriesOK(q) /\ AllComputed(q) /\ GotFrom(q)' = GotFrom(q)
      <3>1. N \in SUBSET Cells
        BY <1>1, FootprintAssumption
      <3>2. QED
        BY <1>1, <1>2, <3>1, TurnsCompute, GotFromFrame DEF DataInv, Received
    <2>2. AllComputed(q)'
      <3>1. InCycle(q)' = InCycle(q) /\ count'[q] = count[q] /\ Round(q)' = Round(q)
        BY <1>2, <1>3 DEF InCycle
      <3>2. QED
        BY <1>4, <2>1, <3>1 DEF AllComputed
    <2>3. InCycle(q) => Round(q) >= 1
      BY DEF TypeInv, Control, RankOK
    <2>4. pc[q] = "recv" => SumOf({q} \cup GotFrom(q), cell[q], Round(q))' =
                              SumOf({q} \cup GotFrom(q), cell[q], Round(q))
      <3> SUFFICES ASSUME pc[q] = "recv"
                   PROVE  SumOf({q} \cup GotFrom(q), cell[q], Round(q))' =
                            SumOf({q} \cup GotFrom(q), cell[q], Round(q))
        OBVIOUS
      <3>1. PICK S \in SUBSET Ranks : S = {q} \cup GotFrom(q)
        BY DEF GotFrom
      <3>2. PICK r \in Nat : r = Round(q)
        BY <1>4
      <3>3. \A x \in S : Round(x) >= r
        BY <1>4, <3>1, <3>2, GotIsNotBehind
      <3>4. PICK c : c = cell[q]
        OBVIOUS
      <3>5. SumOf(S, c, r)' = SumOf(S, c, r)
        BY <1>5, <2>3, <3>2, <3>3 DEF InCycle
      <3>6. SumOf({q} \cup GotFrom(q), cell[q], Round(q))' = SumOf(S, c, r)'
        BY <1>2, <1>3, <2>1, <3>1, <3>2, <3>4 DEF SumOf
      <3>7. QED
        BY <3>1, <3>2, <3>4, <3>5, <3>6
    <2>5. ASSUME InCycle(q), NEW k \in Slots(q), k < count[q]
          PROVE  SumOf(Ranks, my_noises[q][k].cell, Round(q))' =
                   SumOf(Ranks, my_noises[q][k].cell, Round(q))
      <3>1. PICK r \in Nat : r = Round(q)
        BY <1>4
      <3>2. PICK c : c = my_noises[q][k].cell
        OBVIOUS
      <3>3. count[q] \in Nat /\ k \in Nat
        BY LoopTypes, SlotsType DEF TypeInv, Slots
      <3>4. \A x \in Ranks : Round(x) >= r
        BY <2>1, <2>5, <3>1, <3>3 DEF AllComputed
      <3>5. SumOf(Ranks, c, r)' = SumOf(Ranks, c, r)
        BY <1>5, <2>3, <2>5, <3>1, <3>4
      <3>6. SumOf(Ranks, my_noises[q][k].cell, Round(q))' = SumOf(Ranks, c, r)'
        BY <1>2, <1>3, <3>1, <3>2 DEF SumOf
      <3>7. QED
        BY <3>1, <3>2, <3>5, <3>6
    <2>6. EntriesOK(q)'
      BY <1>2, <2>1, <2>4, <2>5 DEF EntriesOK, InCycle
    <2>7. QED
      BY <2>2, <2>6
  <1>10. QED
    BY <1>6, <1>7, <1>8, <1>9 DEF DataInv

\* What publish_data is given at the end of the loops is the rank's true report.
LEMMA PublishedIsTrue ==
    ASSUME TypeInv, DataInv, NEW p \in Ranks, pc[p] = "shuffle", cell[p] = NCells
    PROVE  /\ publish_data(my_noises[p], noises_recv_count(p)) = TrueReport(p, Round(p))
           /\ \A q \in Ranks : Round(q) >= Round(p)
           /\ Round(p) >= 1
  <1>1. /\ InCycle(p) /\ Round(p) >= 1 /\ count[p] = Passed(p)
        /\ EntriesOK(p) /\ AllComputed(p)
    BY DEF InCycle, TypeInv, Control, RankOK, DataInv
  <1>2. noises_recv_count(p) \in Nat \ {0} /\ Round(p) \in Nat
    BY OwnsOne, DataTypes DEF TypeInv
  <1>3. count[p] = noises_recv_count(p)
    <2>1. NCells \in 0 .. NCells
      BY NCellsType
    <2>2. Block(NCells) + (IF receiver(NCells) > p THEN 1 ELSE 0) = noises_recv_count(p)
      BY <2>1, PassedBound
    <2>3. QED
      BY <1>1, <2>2 DEF Passed
  <1>4. \A q \in Ranks : Round(q) >= Round(p)
    BY <1>1, <1>2, <1>3 DEF AllComputed
  <1>5. \A c : TrueLevel(c, Round(p)) = SumOf(Ranks, c, Round(p))
    <2>1. PICK r \in Nat : r = Round(p)
      BY <1>2
    <2>2. \A c : TrueLevel(c, r) = SumOf(Ranks, c, r)
      BY <1>1, <1>4, <2>1, TrueLevelIsSum
    <2>3. QED
      BY <2>1, <2>2
  <1>6. ASSUME NEW k \in Slots(p)
        PROVE  /\ my_noises[p][k] \in Entry
               /\ my_noises[p][k].cell \in Owned(p)
               /\ Block(my_noises[p][k].cell) = k
               /\ my_noises[p][k].noise_level = TrueLevel(my_noises[p][k].cell, Round(p))
    <2>1. Written(p, k)
      BY AllWritten
    <2>2. k < count[p]
      BY <1>2, <1>3 DEF Slots
    <2>3. my_noises[p][k].noise_level = SumOf(Ranks, my_noises[p][k].cell, Round(p))
      BY <1>1, <2>2 DEF EntriesOK
    <2>4. my_noises[p][k].cell \in Cells
      BY <2>1 DEF Written, Entry
    <2>5. QED
      BY <1>5, <2>1, <2>3, <2>4 DEF Written, Owned
  <1>7. ASSUME NEW c \in Owned(p)
        PROVE  Block(c) \in Slots(p) /\ my_noises[p][Block(c)].cell = c
    <2>1. c \in Cells /\ receiver(c) = p
      BY DEF Owned
    <2>2. Block(c) \in Slots(p)
      BY <2>1, OwnCellHasSlot
    <2>3. /\ my_noises[p][Block(c)].cell \in Cells
          /\ receiver(my_noises[p][Block(c)].cell) = p
          /\ Block(my_noises[p][Block(c)].cell) = Block(c)
      BY <1>6, <2>2 DEF Owned
    <2>4. c \in Nat /\ my_noises[p][Block(c)].cell \in Nat
      BY <2>1, <2>3, NCellsType DEF Cells
    <2>5. QED
      BY <2>1, <2>2, <2>3, <2>4, BlockUnique
  <1>8. publish_data(my_noises[p], noises_recv_count(p)) =
          {my_noises[p][k] : k \in {i \in Slots(p) : my_noises[p][i].noise_level # {}}}
    BY DEF publish_data, Slots
  <1>9. ASSUME NEW e \in publish_data(my_noises[p], noises_recv_count(p))
        PROVE  e \in TrueReport(p, Round(p))
    <2>1. PICK k \in Slots(p) : e = my_noises[p][k] /\ my_noises[p][k].noise_level # {}
      BY <1>8, <1>9
    <2>2. /\ e \in Entry /\ e.cell \in Owned(p)
          /\ e.noise_level = TrueLevel(e.cell, Round(p)) /\ e.noise_level # {}
      BY <1>6, <2>1
    <2>3. e = [cell |-> e.cell, noise_level |-> TrueLevel(e.cell, Round(p))]
      BY <2>2 DEF Entry
    <2>4. QED
      BY <2>2, <2>3 DEF TrueReport
  <1>10. ASSUME NEW e \in TrueReport(p, Round(p))
         PROVE  e \in publish_data(my_noises[p], noises_recv_count(p))
    <2>1. PICK c \in Owned(p) : /\ e = [cell |-> c, noise_level |-> TrueLevel(c, Round(p))]
                                /\ TrueLevel(c, Round(p)) # {}
      BY <1>10 DEF TrueReport
    <2>2. PICK k \in Slots(p) : k = Block(c) /\ my_noises[p][k].cell = c
      BY <1>7
    <2>3. /\ my_noises[p][k] \in Entry
          /\ my_noises[p][k].noise_level = TrueLevel(c, Round(p))
      BY <1>6, <2>2
    <2>4. my_noises[p][k] = e
      BY <2>1, <2>2, <2>3 DEF Entry
    <2>5. QED
      BY <1>8, <2>1, <2>3, <2>4
  <1>11. QED
    BY <1>1, <1>4, <1>9, <1>10

LEMMA DataPublish ==
    ASSUME TypeInv, TypeInv', DataInv, NEW p \in Ranks, Publish(p)
    PROVE  DataInv'
  <1>1. /\ pc[p] = "shuffle" /\ pc'[p] = "move" /\ cell[p] = NCells
        /\ UNCHANGED <<cell, count, my_noises, chan, loud>>
        /\ \A q \in Ranks \ {p} : pc'[q] = pc[q] /\ published'[q] = published[q]
        /\ published'[p] = Append(published[p], publish_data(my_noises[p], noises_recv_count(p)))
    BY DEF Publish, TypeInv, TypeOK
  <1>2. /\ published'[p] = Append(published[p], TrueReport(p, Round(p)))
        /\ \A q \in Ranks : Round(q) >= Round(p)
        /\ Round(p) >= 1
    BY <1>1, PublishedIsTrue
  <1>3. /\ Len(published[p]) = Round(p) - 1
        /\ \A r \in 1 .. Len(published[p]) : published[p][r] = TrueReport(p, r)
    BY <1>1 DEF DataInv, ReportsOK, InCycle
  <1>4. Round(p) \in Nat /\ published[p] \in Seq(SUBSET Entry)
    BY DataTypes DEF TypeInv
  <1>5. /\ Len(published'[p]) = Round(p)
        /\ \A r \in 1 .. Round(p) : published'[p][r] = TrueReport(p, r)
    BY <1>2, <1>3, <1>4
  <1>6. ReportsOK(p)'
    <2>1. ~ InCycle(p)'
      BY <1>1 DEF InCycle
    <2>2. loud' = loud
      BY <1>1
    <2>3. QED
      BY <1>2, <1>5, <2>1, <2>2, SameLoud DEF ReportsOK
  <1>7. EntriesOK(p)' /\ AllComputed(p)'
    BY <1>1 DEF EntriesOK, AllComputed, InCycle
  <1>8. ASSUME NEW q \in Ranks \ {p} PROVE EntriesOK(q)' /\ AllComputed(q)' /\ ReportsOK(q)'
    <2>1. EntriesOK(q) /\ AllComputed(q) /\ ReportsOK(q) /\ GotFrom(q)' = GotFrom(q)
      BY <1>1, TurnsLocal, GotFromFrame DEF DataInv, Received
    <2>2. InCycle(q)' = InCycle(q)
      BY <1>1 DEF InCycle
    <2>3. QED
      BY <1>1, <2>1, <2>2, EntriesFrame, ComputedFrame, ReportsFrame
  <1>9. QED
    BY <1>1, <1>6, <1>7, <1>8, MessagesFrame DEF DataInv

LEMMA DataLocal ==
    ASSUME TypeInv, TypeInv', DataInv, NEW p \in Ranks, Move(p) \/ Reset(p)
    PROVE  DataInv'
  <1>1. /\ UNCHANGED <<cell, count, my_noises, chan, loud, published>>
        /\ pc[p] \notin {"shuffle", "recv"} /\ pc'[p] \notin {"shuffle", "recv"}
        /\ \A q \in Ranks \ {p} : pc'[q] = pc[q]
    BY DEF Move, Reset, TypeInv, TypeOK
  <1>2. ASSUME NEW q \in Ranks PROVE EntriesOK(q)' /\ AllComputed(q)' /\ ReportsOK(q)'
    <2>1. EntriesOK(q) /\ AllComputed(q) /\ ReportsOK(q) /\ GotFrom(q)' = GotFrom(q)
      BY <1>1, TurnsLocal, GotFromFrame DEF DataInv, Received
    <2>2. InCycle(q)' = InCycle(q)
      BY <1>1 DEF InCycle
    <2>3. CASE q # p
      BY <1>1, <2>1, <2>2, <2>3, EntriesFrame, ComputedFrame, ReportsFrame
    <2>4. CASE q = p
      <3>1. EntriesOK(p)' /\ AllComputed(p)'
        BY <1>1 DEF EntriesOK, AllComputed, InCycle
      <3>2. QED
        BY <1>1, <2>1, <2>2, <2>4, <3>1, ReportsFrame
    <2>5. QED
      BY <2>3, <2>4
  <1>3. QED
    BY <1>1, <1>2, MessagesFrame DEF DataInv

LEMMA DataStep ==
    ASSUME EagerSends
    PROVE  TypeInv /\ TypeInv' /\ TurnInv /\ TurnInv' /\ DataInv /\ [Next]_vars => DataInv'
  <1> SUFFICES ASSUME TypeInv, TypeInv', TurnInv, TurnInv', DataInv, [Next]_vars PROVE DataInv'
    OBVIOUS
  <1>1. ASSUME NEW p \in Ranks, RankStep(p) PROVE DataInv'
    BY <1>1, DataCompute, DataIsend, DataStartOwn, DataRecv, DataEndOwn, DataPublish, DataLocal
       DEF RankStep
  <1>2. ASSUME NEW s \in Ranks, NEW d \in Ranks, Pack(s, d) PROVE DataInv'
    <2>1. PICK i \in 1 .. Len(chan[s][d]) : ~ chan[s][d][i].packed
      BY <1>2 DEF Pack
    <2>2. QED
      BY <2>1 DEF DataInv, MessagesOK, MessageOK
  <1>3. ASSUME UNCHANGED vars PROVE DataInv'
    <2>1. UNCHANGED <<pc, cell, count, my_noises, chan, loud, published>>
      BY <1>3 DEF vars
    <2>2. ASSUME NEW q \in Ranks PROVE EntriesOK(q)' /\ AllComputed(q)' /\ ReportsOK(q)'
      <3>1. EntriesOK(q) /\ AllComputed(q) /\ ReportsOK(q) /\ InCycle(q)' = InCycle(q)
        BY <2>1 DEF DataInv, InCycle
      <3>2. GotFrom(q)' = GotFrom(q)
        BY <2>1, TurnsFrame, GotFromFrame DEF InCycle, Received
      <3>3. QED
        BY <2>1, <3>1, <3>2, EntriesFrame, ComputedFrame, ReportsFrame
    <2>3. QED
      BY <2>1, <2>2, MessagesFrame DEF DataInv
  <1>4. QED
    BY <1>1, <1>2, <1>3 DEF Next

LEMMA DataInvariant ==
    ASSUME NoMixing, EagerSends
    PROVE  Spec => [](TypeInv /\ DataInv)
  <1>1. Init => DataInv
    BY DataInit
  <1>2. TypeInv /\ TypeInv' /\ TurnInv /\ TurnInv' /\ DataInv /\ [Next]_vars => DataInv'
    BY DataStep
  <1>3. Spec => [](TypeInv /\ TurnInv)
    BY TurnInvariant
  <1>4. QED
    BY <1>1, <1>2, <1>3, PTL DEF Spec

\* When the number of ranks divides the number of cells or there are just two
\* of them, and MPI_Isend copies its integer, every report of every rank in
\* every cycle holds exactly the levels computed for its cells in that cycle,
\* in spite of MPI_ANY_SOURCE and without a barrier (main.c 121-149).
THEOREM ExactReports ==
    ASSUME NoMixing, EagerSends
    PROVE  Spec => []ReportsExact
  <1>1. TypeInv /\ DataInv => ReportsExact
    <2> SUFFICES ASSUME TypeInv, DataInv, NEW p \in Ranks, NEW r \in DOMAIN published[p]
                 PROVE  published[p][r] = TrueReport(p, r)
      BY DEF ReportsExact
    <2>1. published[p] \in Seq(SUBSET Entry)
      BY DataTypes DEF TypeInv
    <2>2. r \in 1 .. Len(published[p])
      BY <2>1
    <2>3. QED
      BY <2>2 DEF DataInv, ReportsOK
  <1>2. Spec => [](TypeInv /\ DataInv)
    BY DataInvariant
  <1>3. QED
    BY <1>1, <1>2, PTL

-----------------------------------------------------------------------------
(* The simulation implements the noise map.                                *)

\* A report of a cycle all ranks have computed is the report the map asks for.
LEMMA SameReport ==
    ASSUME TypeInv, NEW p \in Ranks, NEW r \in Nat, r >= 1, \A q \in Ranks : Round(q) >= r
    PROVE  NM!Reports(p, r) = TrueReport(p, r)
  <1>1. \A c : TrueLevel(c, r) = SumOf(Ranks, c, r)
    BY TrueLevelIsSum
  <1>2. ASSUME NEW c PROVE NM!Level(c, r) = SumOf(Ranks, c, r)
    <2>1. ASSUME NEW x \in NM!Level(c, r) PROVE x \in SumOf(Ranks, c, r)
      <3>1. PICK q \in Ranks : c \in loud[q][r] /\ x = [from |-> q, cell |-> c, round |-> r]
        BY <2>1 DEF NM!Level
      <3>2. x \in Contribution(q, c, r)
        BY <3>1 DEF Contribution
      <3>3. QED
        BY <3>2 DEF SumOf
    <2>2. ASSUME NEW x \in SumOf(Ranks, c, r) PROVE x \in NM!Level(c, r)
      <3>1. PICK q \in Ranks : x \in Contribution(q, c, r)
        BY <2>2 DEF SumOf
      <3>2. c \in loud[q][r] /\ x = [from |-> q, cell |-> c, round |-> r]
        BY <3>1 DEF Contribution
      <3>3. QED
        BY <3>2 DEF NM!Level
    <2>3. QED
      BY <2>1, <2>2
  <1>3. \A c : NM!Level(c, r) = TrueLevel(c, r)
    BY <1>1, <1>2
  <1>4. {x \in Cells : [c \in Cells |-> receiver(c)][x] = p /\ NM!Level(x, r) # {}}
          = {x \in Owned(p) : TrueLevel(x, r) # {}}
    BY <1>3 DEF Owned
  <1>5. QED
    BY <1>3, <1>4 DEF NM!Reports, TrueReport

\* Under the same conditions the simulation refines NoiseMap: a cycle of a rank
\* is one sensing step and one report, and the report waits for all ranks to
\* have sensed although no rank ever asks them (main.c 113-173).
THEOREM SimulationImplementsNoiseMap ==
    ASSUME NoMixing, EagerSends
    PROVE  Spec => ImplementsNoiseMap
  <1>1. Init => NM!Init
    BY DEF Init, NM!Init
  <1>2. ASSUME TypeInv, DataInv, [Next]_vars
        PROVE  [NM!Next]_<<loud, published>>
    <2>1. ASSUME NEW p \in Ranks, Compute(p) PROVE NM!Next
      <3>1. PICK N \in Footprints : ComputeCells(p, N)
        BY <2>1 DEF Compute
      <3>2. /\ pc[p] = "compute" /\ Len(loud[p]) < MaxRounds
            /\ loud' = [loud EXCEPT ![p] = Append(loud[p], N)] /\ published' = published
        BY <3>1 DEF ComputeCells, Round
      <3>3. Len(loud[p]) = Len(published[p])
        BY <1>2, <3>2 DEF DataInv, ReportsOK, InCycle, Round
      <3>4. NM!Sense(p)
        BY <3>2, <3>3 DEF NM!Sense
      <3>5. QED
        BY <3>4 DEF NM!Next
    <2>2. ASSUME NEW p \in Ranks, Publish(p) PROVE NM!Next
      <3>1. /\ pc[p] = "shuffle" /\ cell[p] = NCells /\ loud' = loud
            /\ published' = [published EXCEPT ![p] =
                   Append(published[p], publish_data(my_noises[p], noises_recv_count(p)))]
        BY <2>2 DEF Publish
      <3>2. PICK r \in Nat : r = Round(p)
        BY <1>2, DataTypes DEF TypeInv
      <3>3. /\ publish_data(my_noises[p], noises_recv_count(p)) = TrueReport(p, r)
            /\ \A q \in Ranks : Round(q) >= r
            /\ r >= 1
        BY <1>2, <3>1, <3>2, PublishedIsTrue
      <3>4. TrueReport(p, r) = NM!Reports(p, r)
        BY <1>2, <3>3, SameReport
      <3>5. r = Len(published[p]) + 1
        BY <1>2, <3>1, <3>2, <3>3 DEF DataInv, ReportsOK, InCycle
      <3>6. \A q \in Ranks : Len(loud[q]) >= r
        BY <3>3 DEF Round
      <3>7. NM!Report(p)
        BY <3>1, <3>3, <3>4, <3>5, <3>6 DEF NM!Report
      <3>8. QED
        BY <3>7 DEF NM!Next
    <2>3. ASSUME NEW p \in Ranks, RankStep(p), ~ Compute(p), ~ Publish(p)
          PROVE  UNCHANGED <<loud, published>>
      BY <2>3 DEF RankStep, Isend, StartOwn, Recv, EndOwn, Move, Reset
    <2>4. ASSUME NEW s \in Ranks, NEW d \in Ranks, Pack(s, d) PROVE UNCHANGED <<loud, published>>
      BY <2>4 DEF Pack
    <2>5. UNCHANGED vars => UNCHANGED <<loud, published>>
      BY DEF vars
    <2>6. QED
      BY <1>2, <2>1, <2>2, <2>3, <2>4, <2>5 DEF Next
  <1>3. Spec => [](TypeInv /\ DataInv)
    BY DataInvariant
  <1>4. QED
    BY <1>1, <1>2, <1>3, PTL DEF Spec, ImplementsNoiseMap, NM!Spec
=============================================================================
