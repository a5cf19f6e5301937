------------------------- MODULE ConservationProofs -------------------------
(***************************************************************************)
(* What the shuffle keeps even when the number of ranks does not divide the *)
(* number of cells, so that a receive may take a message meant for another  *)
(* cell or another cycle: if MPI copies the sent integers at once, every    *)
(* level that a rank computed is at every moment in exactly one place.      *)
(***************************************************************************)
EXTENDS NoiseShuffleProofs

-----------------------------------------------------------------------------
(* Where a level is.                                                       *)

\* t was computed, and the loops of its rank have passed its cell since.
Gone(t) ==
    /\ t.round \in DOMAIN loud[t.from]
    /\ t.cell \in loud[t.from][t.round]
    /\ InCycle(t.from) /\ t.round = Round(t.from) =>
         t.cell < cell[t.from] \/ (t.cell = cell[t.from] /\ pc[t.from] = "recv")

\* Entry k of d was written in this cycle and is not published yet.
Live(d, k) == k \in Slots(d) /\ InCycle(d) /\ (k < count[d] \/ (k = count[d] /\ pc[d] = "recv"))

InMessage(s, d, i, t) == i \in DOMAIN chan[s][d] /\ t \in chan[s][d][i].data
InEntry(d, k, t) == Live(d, k) /\ t \in my_noises[d][k].noise_level
InReport(d, r, e, t) == r \in DOMAIN published[d] /\ e \in published[d][r] /\ t \in e.noise_level

Somewhere(t) ==
    \/ \E s, d \in Ranks, i \in Nat : InMessage(s, d, i, t)
    \/ \E d \in Ranks, k \in Nat : InEntry(d, k, t)
    \/ \E d \in Ranks, r \in Nat, e \in Entry : InReport(d, r, e, t)

\* A level that left its matrix is somewhere, and in one place only.
OnePlace(t) ==
    /\ Gone(t) <=> Somewhere(t)
    /\ \A s1, d1, s2, d2 \in Ranks, i1, i2 \in Nat :
         InMessage(s1, d1, i1, t) /\ InMessage(s2, d2, i2, t) => <<s1, d1, i1>> = <<s2, d2, i2>>
    /\ \A d1, d2 \in Ranks, k1, k2 \in Nat :
         InEntry(d1, k1, t) /\ InEntry(d2, k2, t) => <<d1, k1>> = <<d2, k2>>
    /\ \A d1, d2 \in Ranks, r1, r2 \in Nat, e1, e2 \in Entry :
         InReport(d1, r1, e1, t) /\ InReport(d2, r2, e2, t) => <<d1, r1, e1>> = <<d2, r2, e2>>
    /\ \A s, d1, d2 \in Ranks, i, k \in Nat : ~ (InMessage(s, d1, i, t) /\ InEntry(d2, k, t))
    /\ \A s, d1, d2 \in Ranks, i, r \in Nat, e \in Entry :
         ~ (InMessage(s, d1, i, t) /\ InReport(d2, r, e, t))
    /\ \A d1, d2 \in Ranks, k, r \in Nat, e \in Entry :
         ~ (InEntry(d1, k, t) /\ InReport(d2, r, e, t))

AllPacked == \A s, d \in Ranks : \A i \in DOMAIN chan[s][d] : chan[s][d][i].packed

PlaceInv == AllPacked /\ \A t \in Tag : OnePlace(t)

\* A contribution names the rank, cell and cycle it comes from.
LEMMA TagOfContribution ==
    ASSUME NEW t \in Tag, NEW p, NEW c, NEW r
    PROVE  t \in Contribution(p, c, r) <=>
             t.from = p /\ t.cell = c /\ t.round = r /\ c \in loud[p][r]
  <1>1. t = [from |-> t.from, cell |-> t.cell, round |-> t.round]
    BY DEF Tag
  <1>2. QED
    BY <1>1 DEF Contribution

LEMMA GoneFrame ==
    ASSUME NEW t \in Tag, loud'[t.from] = loud[t.from], cell'[t.from] = cell[t.from],
           pc'[t.from] = pc[t.from]
    PROVE  Gone(t)' <=> Gone(t)
  BY DEF Gone, InCycle, Round

\* The level at the cell a rank is at has not left the matrix; a step over the
\* cell is what makes it leave.
LEMMA GoneStep ==
    ASSUME TypeInv, NEW p \in Ranks, pc[p] = "shuffle", cell[p] \in Cells, loud' = loud,
           \A q \in Ranks \ {p} : pc'[q] = pc[q] /\ cell'[q] = cell[q],
           \/ pc'[p] = "recv" /\ cell'[p] = cell[p]
           \/ pc'[p] = "shuffle" /\ cell'[p] = cell[p] + 1,
           NEW t \in Tag
    PROVE  /\ t \in noise_sqm[p][cell[p]] => ~ Gone(t)
           /\ Gone(t)' <=> Gone(t) \/ t \in noise_sqm[p][cell[p]]
  <1>1. t.from \in Ranks /\ t.cell \in Cells /\ t.round \in Nat
    BY DEF Tag
  <1>2. /\ Round(p) >= 1 /\ Round(p) \in Nat /\ Round(p)' = Round(p)
        /\ noise_sqm[p][cell[p]] = Contribution(p, cell[p], Round(p))
    BY DataTypes DEF TypeInv, Control, RankOK, InCycle, Round
  <1>3. CASE t.from # p
    <2>1. Gone(t)' <=> Gone(t)
      BY <1>1, <1>3, GoneFrame
    <2>2. QED
      BY <1>2, <1>3, <2>1, TagOfContribution
  <1>4. CASE t.from = p
    <2>1. t \in noise_sqm[p][cell[p]] <=>
            t.cell = cell[p] /\ t.round = Round(p) /\ t.cell \in loud[p][t.round]
      BY <1>2, <1>4, TagOfContribution
    <2>2. Round(p) \in DOMAIN loud[p]
      <3>1. loud[p] \in Seq(SUBSET Cells)
        BY DEF TypeInv, TypeOK
      <3>2. QED
        BY <1>2, <3>1 DEF Round
    <2>3. t.cell \in Nat /\ cell[p] \in Nat
      BY <1>1, NCellsType DEF Cells
    <2>4. Gone(t) <=> /\ t.round \in DOMAIN loud[p] /\ t.cell \in loud[p][t.round]
                      /\ t.round = Round(p) => t.cell < cell[p]
      BY <1>4 DEF Gone, InCycle
    <2>5. Gone(t)' <=> /\ t.round \in DOMAIN loud[p] /\ t.cell \in loud[p][t.round]
                       /\ t.round = Round(p) => t.cell < cell[p] \/ t.cell = cell[p]
      <3>1. CASE pc'[p] = "recv" /\ cell'[p] = cell[p]
        BY <1>2, <1>4, <3>1 DEF Gone, InCycle
      <3>2. CASE pc'[p] = "shuffle" /\ cell'[p] = cell[p] + 1
        <4>1. t.cell < cell[p] + 1 <=> t.cell < cell[p] \/ t.cell = cell[p]
          BY <2>3
        <4>2. QED
          BY <1>2, <1>4, <3>2, <4>1 DEF Gone, InCycle
      <3>3. QED
        BY <3>1, <3>2
    <2>6. QED
      BY <2>1, <2>2, <2>3, <2>4, <2>5
  <1>5. QED
    BY <1>3, <1>4

\* The reports, for a step that publishes nothing.
LEMMA ReportFrame ==
    ASSUME published' = published
    PROVE  \A d, r, e, t : InReport(d, r, e, t)' <=> InReport(d, r, e, t)
  BY DEF InReport

LEMMA EntryFrame ==
    ASSUME NEW d, my_noises'[d] = my_noises[d], count'[d] = count[d], pc'[d] = pc[d]
    PROVE  \A k, t : InEntry(d, k, t)' <=> InEntry(d, k, t)
  BY DEF InEntry, Live, InCycle

LEMMA MessageFrame ==
    ASSUME chan' = chan
    PROVE  \A s, d, i, t : InMessage(s, d, i, t)' <=> InMessage(s, d, i, t)
  BY DEF InMessage

\* A step that moves no level.
LEMMA PlaceFrame ==
    ASSUME NEW t \in Tag, OnePlace(t), Gone(t)' <=> Gone(t),
           \A s, d \in Ranks, i \in Nat : InMessage(s, d, i, t)' <=> InMessage(s, d, i, t),
           \A d \in Ranks, k \in Nat : InEntry(d, k, t)' <=> InEntry(d, k, t),
           \A d \in Ranks, r \in Nat, e \in Entry : InReport(d, r, e, t)' <=> InReport(d, r, e, t)
    PROVE  OnePlace(t)'
  BY DEF OnePlace, Somewhere

\* A level that has not left its matrix is nowhere else.
LEMMA StillInMatrix ==
    ASSUME NEW t \in Tag, OnePlace(t), ~ Gone(t)
    PROVE  /\ \A s, d \in Ranks, i \in Nat : ~ InMessage(s, d, i, t)
           /\ \A d \in Ranks, k \in Nat : ~ InEntry(d, k, t)
           /\ \A d \in Ranks, r \in Nat, e \in Entry : ~ InReport(d, r, e, t)
  BY DEF OnePlace, Somewhere

LEMMA PlaceCompute ==
    ASSUME TypeInv, PlaceInv, NEW p \in Ranks, NEW N \in SUBSET Cells, ComputeCells(p, N)
    PROVE  PlaceInv'
  <1>1. /\ pc[p] = "compute" /\ pc'[p] = "shuffle" /\ cell'[p] = 0 /\ count'[p] = 0
        /\ UNCHANGED <<my_noises, chan, published>>
        /\ loud[p] \in Seq(SUBSET Cells) /\ loud'[p] = Append(loud[p], N)
        /\ \A q \in Ranks \ {p} : /\ pc'[q] = pc[q] /\ cell'[q] = cell[q]
                                  /\ loud'[q] = loud[q] /\ count'[q] = count[q]
    BY DEF ComputeCells, TypeInv, TypeOK
  <1>2. /\ Round(p) \in Nat /\ Round(p)' = Round(p) + 1
        /\ DOMAIN loud[p] = 1 .. Round(p) /\ DOMAIN loud'[p] = 1 .. (Round(p) + 1)
        /\ \A r \in 1 .. Round(p) : loud'[p][r] = loud[p][r]
    BY <1>1 DEF Round
  <1>3. ASSUME NEW t \in Tag PROVE OnePlace(t)'
    <2>1. t.from \in Ranks /\ t.cell \in Cells /\ t.round \in Nat
      BY DEF Tag
    <2>2. Gone(t)' <=> Gone(t)
      <3>1. CASE t.from # p
        BY <1>1, <2>1, <3>1, GoneFrame
      <3>2. CASE t.from = p
        <4>1. Gone(t) <=> t.round \in DOMAIN loud[p] /\ t.cell \in loud[p][t.round]
          BY <1>1, <3>2 DEF Gone, InCycle
        <4>2. ~ (t.cell < 0)
          BY <2>1, NCellsType DEF Cells
        <4>3. Gone(t)' <=> /\ t.round \in DOMAIN loud'[p] /\ t.cell \in loud'[p][t.round]
                           /\ t.round # Round(p) + 1
          BY <1>1, <1>2, <3>2, <4>2 DEF Gone, InCycle
        <4>4. QED
          BY <1>2, <2>1, <4>1, <4>3
      <3>3. QED
        BY <3>1, <3>2
    <2>3. \A d \in Ranks, k \in Nat : InEntry(d, k, t)' <=> InEntry(d, k, t)
      <3>1. ASSUME NEW k \in Nat PROVE ~ InEntry(p, k, t) /\ ~ InEntry(p, k, t)'
        BY <1>1 DEF InEntry, Live, InCycle
      <3>2. QED
        BY <1>1, <3>1, EntryFrame
    <2>4. OnePlace(t)
      BY DEF PlaceInv
    <2>5. QED
      BY <1>1, <2>2, <2>3, <2>4, MessageFrame, ReportFrame, PlaceFrame
  <1>4. QED
    BY <1>1, <1>3 DEF PlaceInv, AllPacked

LEMMA PlaceIsend ==
    ASSUME TypeInv, EagerSends, PlaceInv, NEW p \in Ranks, Isend(p)
    PROVE  PlaceInv'
  <1>1. PICK e \in Ranks : e = receiver(cell[p])
    BY LoopTypes DEF TypeInv
  <1>2. /\ pc[p] = "shuffle" /\ cell[p] \in Cells
        /\ UNCHANGED <<pc, count, noise_sqm, my_noises, loud, published>>
        /\ cell'[p] = cell[p] + 1 /\ \A q \in Ranks \ {p} : cell'[q] = cell[q]
    BY CellInGrid DEF Isend, TypeInv, TypeOK
  <1> DEFINE m0 == [cell |-> cell[p], round |-> Round(p), packed |-> TRUE,
                    data |-> noise_sqm[p][cell[p]]]
  <1>3. chan' = [chan EXCEPT ![p][e] = Append(chan[p][e], m0)]
    BY <1>1 DEF Isend, EagerSends
  <1>4. PICK m : m = m0
    OBVIOUS
  <1>5. m.packed /\ m.data = noise_sqm[p][cell[p]]
    BY <1>4
  <1>6. /\ chan'[p][e] = Append(chan[p][e], m) /\ chan[p][e] \in Seq(Message)
        /\ \A s, d \in Ranks : s # p \/ d # e => chan'[s][d] = chan[s][d]
    <2>1. chan' = [chan EXCEPT ![p][e] = Append(chan[p][e], m)]
      BY <1>3, <1>4
    <2> HIDE DEF m0
    <2>2. chan \in [Ranks -> [Ranks -> Seq(Message)]]
      BY DEF TypeInv, TypeOK
    <2>3. QED
      BY <2>1, <2>2
  <1> HIDE DEF m0
  <1>7. PICK n \in Nat : n = Len(chan[p][e])
    BY <1>6
  <1>8. /\ DOMAIN chan[p][e] = 1 .. n /\ DOMAIN chan'[p][e] = 1 .. (n + 1)
        /\ chan'[p][e][n + 1] = m
        /\ \A i \in 1 .. n : chan'[p][e][i] = chan[p][e][i]
    BY <1>6, <1>7
  <1>9. AllPacked'
    <2>1. ASSUME NEW s \in Ranks, NEW d \in Ranks, NEW i \in DOMAIN chan'[s][d]
          PROVE  chan'[s][d][i].packed
      <3>1. CASE s = p /\ d = e
        <4>1. i \in 1 .. n \/ i = n + 1
          BY <1>8, <3>1
        <4>2. QED
          BY <1>5, <1>8, <3>1, <4>1 DEF PlaceInv, AllPacked
      <3>2. CASE s # p \/ d # e
        BY <1>6, <3>2 DEF PlaceInv, AllPacked
      <3>3. QED
        BY <3>1, <3>2
    <2>2. QED
      BY <2>1 DEF AllPacked
  <1>10. ASSUME NEW t \in Tag PROVE OnePlace(t)'
    <2>1. /\ t \in m.data => ~ Gone(t)
          /\ Gone(t)' <=> Gone(t) \/ t \in m.data
      BY <1>2, <1>5, GoneStep
    <2>2. ASSUME NEW s \in Ranks, NEW d \in Ranks, NEW i \in Nat
          PROVE  InMessage(s, d, i, t)' <=>
                   InMessage(s, d, i, t) \/ (s = p /\ d = e /\ i = n + 1 /\ t \in m.data)
      <3>1. CASE s = p /\ d = e
        <4>1. i \in DOMAIN chan'[s][d] <=> i \in 1 .. n \/ i = n + 1
          BY <1>8, <3>1
        <4>2. n + 1 \notin 1 .. n
          OBVIOUS
        <4>3. QED
          BY <1>8, <3>1, <4>1, <4>2 DEF InMessage
      <3>2. CASE s # p \/ d # e
        BY <1>6, <3>2 DEF InMessage
      <3>3. QED
        BY <3>1, <3>2
    <2>3. \A d \in Ranks, k \in Nat : InEntry(d, k, t)' <=> InEntry(d, k, t)
      BY <1>2, EntryFrame
    <2>4. \A d \in Ranks, r \in Nat, x \in Entry : InReport(d, r, x, t)' <=> InReport(d, r, x, t)
      BY <1>2, ReportFrame
    <2>5. OnePlace(t) /\ n + 1 \in Nat
      BY DEF PlaceInv
    <2>6. CASE t \notin m.data
      BY <2>1, <2>2, <2>3, <2>4, <2>5, <2>6, PlaceFrame
    <2>7. CASE t \in m.data
      <3>1. \A s, d \in Ranks, i \in Nat :
              InMessage(s, d, i, t)' <=> s = p /\ d = e /\ i = n + 1
        BY <2>1, <2>2, <2>5, <2>7, StillInMatrix
      <3>2. \A d \in Ranks, k \in Nat : ~ InEntry(d, k, t)'
        BY <2>1, <2>3, <2>5, <2>7, StillInMatrix
      <3>3. \A d \in Ranks, r \in Nat, x \in Entry : ~ InReport(d, r, x, t)'
        BY <2>1, <2>4, <2>5, <2>7, StillInMatrix
      <3>4. QED
        BY <2>1, <2>5, <2>7, <3>1, <3>2, <3>3 DEF OnePlace, Somewhere
    <2>8. QED
      BY <2>6, <2>7
  <1>11. QED
    BY <1>9, <1>10 DEF PlaceInv

LEMMA PlaceStartOwn ==
    ASSUME TypeInv, TypeInv', PlaceInv, NEW p \in Ranks, StartOwn(p)
    PROVE  PlaceInv'
  <1>1. /\ pc[p] = "shuffle" /\ pc'[p] = "recv" /\ cell[p] \in Cells /\ receiver(cell[p]) = p
        /\ UNCHANGED <<cell, count, chan, loud, published>>
        /\ \A q \in Ranks \ {p} : pc'[q] = pc[q]
    BY CellInGrid DEF StartOwn, TypeInv, TypeOK
  <1>2. PICK k \in Nat : k = count[p] /\ k \in Slots(p)
    <2>1. count[p] = Block(cell[p]) /\ count[p] \in Nat
      BY <1>1, LoopTypes DEF TypeInv, Control, RankOK, Passed, InCycle
    <2>2. QED
      BY <1>1, <2>1, OwnCellHasSlot
  <1>3. PICK e : e = [cell |-> cell[p], noise_level |-> noise_sqm[p][cell[p]]]
    OBVIOUS
  <1>4. e \in Entry /\ e.noise_level = noise_sqm[p][cell[p]]
    BY <1>1, <1>3, DataTypes DEF Entry, TypeInv
  <1>5. my_noises' = [my_noises EXCEPT ![p][k] = e]
    BY <1>2, <1>3 DEF StartOwn
  <1>6. /\ \A q \in Ranks \ {p} : my_noises'[q] = my_noises[q]
        /\ my_noises'[p][k] = e
        /\ \A i \in Slots(p) \ {k} : my_noises'[p][i] = my_noises[p][i]
    BY <1>2, <1>4, <1>5, NoisesUpdate DEF TypeInv
  <1>7. ASSUME NEW t \in Tag PROVE OnePlace(t)'
    <2>1. /\ t \in e.noise_level => ~ Gone(t)
          /\ Gone(t)' <=> Gone(t) \/ t \in e.noise_level
      BY <1>1, <1>4, GoneStep
    <2>2. ASSUME NEW d \in Ranks, NEW i \in Nat
          PROVE  InEntry(d, i, t)' <=>
                   InEntry(d, i, t) \/ (d = p /\ i = k /\ t \in e.noise_level)
      <3>1. CASE d # p
        BY <1>1, <1>6, <3>1, EntryFrame
      <3>2. CASE d = p /\ i = k
        <4>1. Live(p, k)' /\ ~ Live(p, k)
          BY <1>1, <1>2 DEF Live, InCycle
        <4>2. QED
          BY <1>6, <3>2, <4>1 DEF InEntry
      <3>3. CASE d = p /\ i # k
        <4>1. Live(p, i)' <=> Live(p, i)
          BY <1>1, <1>2, <3>3 DEF Live, InCycle
        <4>2. Live(p, i) => my_noises'[p][i] = my_noises[p][i]
          BY <1>6, <3>3 DEF Live
        <4>3. QED
          BY <3>3, <4>1, <4>2 DEF InEntry
      <3>4. QED
        BY <3>1, <3>2, <3>3
    <2>3. \A s, d \in Ranks, i \in Nat : InMessage(s, d, i, t)' <=> InMessage(s, d, i, t)
      BY <1>1, MessageFrame
    <2>4. \A d \in Ranks, r \in Nat, x \in Entry : InReport(d, r, x, t)' <=> InReport(d, r, x, t)
      BY <1>1, ReportFrame
    <2>5. OnePlace(t)
      BY DEF PlaceInv
    <2>6. CASE t \notin e.noise_level
      BY <2>1, <2>2, <2>3, <2>4, <2>5, <2>6, PlaceFrame
    <2>7. CASE t \in e.noise_level
      <3>1. \A s, d \in Ranks, i \in Nat : ~ InMessage(s, d, i, t)'
        BY <2>1, <2>3, <2>5, <2>7, StillInMatrix
      <3>2. \A d \in Ranks, i \in Nat : InEntry(d, i, t)' <=> d = p /\ i = k
        BY <2>1, <2>2, <2>5, <2>7, StillInMatrix
      <3>3. \A d \in Ranks, r \in Nat, x \in Entry : ~ InReport(d, r, x, t)'
        BY <2>1, <2>4, <2>5, <2>7, StillInMatrix
      <3>4. QED
        BY <2>1, <2>7, <3>1, <3>2, <3>3 DEF OnePlace, Somewhere
    <2>8. QED
      BY <2>6, <2>7
  <1>8. QED
    BY <1>1, <1>7 DEF PlaceInv, AllPacked

\* The level of the message received leaves the channel and enters the entry.
LEMMA PlaceRecv ==
    ASSUME TypeInv, PlaceInv, NEW p \in Ranks, NEW s \in Ranks, Recv(p, s)
    PROVE  PlaceInv'
  <1>1. /\ pc[p] = "recv" /\ chan[s][p] # <<>>
        /\ UNCHANGED <<pc, cell, count, noise_sqm, loud, published>>
    BY DEF Recv
  <1>2. PICK k \in Nat : k = count[p] /\ k \in Slots(p) /\ my_noises[p][k] \in Entry
    <2>1. /\ count[p] = Block(cell[p]) /\ count[p] \in Nat /\ Written(p, count[p])
          /\ cell[p] \in Cells /\ receiver(cell[p]) = p
      <3>1. /\ count[p] = Passed(p) /\ Written(p, count[p])
            /\ cell[p] < NCells /\ receiver(cell[p]) = p
        BY <1>1 DEF TypeInv, Control, RankOK, InCycle
      <3>2. Block(cell[p]) \in Nat /\ p \in Nat
        BY LoopTypes DEF TypeInv
      <3>3. QED
        BY <3>1, <3>2, CellInGrid DEF Passed, TypeInv
    <2>2. QED
      BY <2>1, OwnCellHasSlot DEF Written
  <1>3. PICK h \in Message : h = Head(chan[s][p]) /\ h = chan[s][p][1]
    <2>1. chan[s][p] \in Seq(Message)
      BY DataTypes DEF TypeInv
    <2>2. QED
      BY <1>1, <2>1
  <1>4. PICK e : e = [cell |-> my_noises[p][k].cell,
                      noise_level |-> my_noises[p][k].noise_level \cup h.data]
    OBVIOUS
  <1>5. e \in Entry /\ e.noise_level = my_noises[p][k].noise_level \cup h.data
    BY <1>2, <1>3, <1>4 DEF Entry, Message, Levels
  <1>6. my_noises' = [my_noises EXCEPT ![p][k] = e]
    BY <1>2, <1>3, <1>4 DEF Recv, AddNoise, sum_noises
  <1>7. /\ \A q \in Ranks \ {p} : my_noises'[q] = my_noises[q]
        /\ my_noises'[p][k] = e
        /\ \A i \in Slots(p) \ {k} : my_noises'[p][i] = my_noises[p][i]
    BY <1>2, <1>5, <1>6, NoisesUpdate DEF TypeInv
  <1>8. /\ chan[s][p] \in Seq(Message) /\ chan'[s][p] = Tail(chan[s][p])
        /\ \A q, d \in Ranks : q # s \/ d # p => chan'[q][d] = chan[q][d]
    BY DEF Recv, TypeInv, TypeOK
  <1>9. PICK n \in Nat : n = Len(chan[s][p]) /\ n >= 1
    BY <1>1, <1>8
  <1>10. /\ DOMAIN chan[s][p] = 1 .. n /\ DOMAIN chan'[s][p] = 1 .. (n - 1)
         /\ \A i \in 1 .. (n - 1) : chan'[s][p][i] = chan[s][p][i + 1]
    BY <1>1, <1>8, <1>9
  <1>11. AllPacked'
    <2>1. ASSUME NEW q \in Ranks, NEW d \in Ranks, NEW i \in DOMAIN chan'[q][d]
          PROVE  chan'[q][d][i].packed
      <3>1. CASE q = s /\ d = p
        <4>1. i + 1 \in 1 .. n /\ i \in 1 .. (n - 1)
          BY <1>10, <3>1
        <4>2. QED
          BY <1>10, <3>1, <4>1 DEF PlaceInv, AllPacked
      <3>2. CASE q # s \/ d # p
        BY <1>8, <3>2 DEF PlaceInv, AllPacked
      <3>3. QED
        BY <3>1, <3>2
    <2>2. QED
      BY <2>1 DEF AllPacked
  <1>12. ASSUME NEW t \in Tag PROVE OnePlace(t)'
    <2>1. Gone(t)' <=> Gone(t)
      BY <1>1, GoneFrame
    <2>2. InMessage(s, p, 1, t) <=> t \in h.data
      BY <1>3, <1>9, <1>10 DEF InMessage
    <2>3. ASSUME NEW q \in Ranks, NEW d \in Ranks, NEW i \in Nat, q # s \/ d # p
          PROVE  InMessage(q, d, i, t)' <=> InMessage(q, d, i, t)
      BY <1>8, <2>3 DEF InMessage
    <2>4. ASSUME NEW i \in Nat
          PROVE  InMessage(s, p, i, t)' <=> i # 0 /\ InMessage(s, p, i + 1, t)
      <3>1. i \in 1 .. (n - 1) <=> i # 0 /\ i + 1 \in 1 .. n
        OBVIOUS
      <3>2. QED
        BY <1>10, <3>1 DEF InMessage
    <2>5. ASSUME NEW d \in Ranks, NEW i \in Nat
          PROVE  InEntry(d, i, t)' <=>
                   InEntry(d, i, t) \/ (d = p /\ i = k /\ InMessage(s, p, 1, t))
      <3>1. CASE d # p
        BY <1>1, <1>7, <3>1, EntryFrame
      <3>2. Live(p, i)' <=> Live(p, i)
        BY <1>1 DEF Live, InCycle
      <3>3. CASE d = p /\ i = k
        <4>1. Live(p, k)
          BY <1>1, <1>2 DEF Live, InCycle
        <4>2. QED
          BY <1>5, <1>7, <2>2, <3>2, <3>3, <4>1 DEF InEntry
      <3>4. CASE d = p /\ i # k
        <4>1. Live(p, i) => my_noises'[p][i] = my_noises[p][i]
          BY <1>7, <3>4 DEF Live
        <4>2. QED
          BY <3>2, <3>4, <4>1 DEF InEntry
      <3>5. QED
        BY <3>1, <3>3, <3>4
    <2>6. \A d \in Ranks, r \in Nat, x \in Entry : InReport(d, r, x, t)' <=> InReport(d, r, x, t)
      BY <1>1, ReportFrame
    <2>7. OnePlace(t) /\ \A i \in Nat : i + 1 \in Nat
      BY DEF PlaceInv
    <2>8. CASE InMessage(s, p, 1, t)
      <3>1. \A q, d \in Ranks, i \in Nat : InMessage(q, d, i, t) => q = s /\ d = p /\ i = 1
        BY <2>7, <2>8 DEF OnePlace
      <3>2. \A q, d \in Ranks, i \in Nat : ~ InMessage(q, d, i, t)'
        <4>1. ASSUME NEW i \in Nat, i # 0 PROVE ~ InMessage(s, p, i + 1, t)
          <5>1. i + 1 \in Nat /\ i + 1 # 1
            BY <4>1
          <5>2. QED
            BY <3>1, <5>1
        <4>2. QED
          BY <2>3, <2>4, <3>1, <4>1
      <3>3. \A d \in Ranks, i \in Nat : InEntry(d, i, t)' <=> d = p /\ i = k
        BY <2>5, <2>7, <2>8 DEF OnePlace
      <3>4. \A d \in Ranks, r \in Nat, x \in Entry : ~ InReport(d, r, x, t)'
        BY <2>6, <2>7, <2>8 DEF OnePlace
      <3>5. Gone(t)'
        BY <2>1, <2>7, <2>8 DEF OnePlace, Somewhere
      <3>6. QED
        BY <3>2, <3>3, <3>4, <3>5 DEF OnePlace, Somewhere
    <2>9. CASE ~ InMessage(s, p, 1, t)
      <3>1. \A d \in Ranks, i \in Nat : InEntry(d, i, t)' <=> InEntry(d, i, t)
        BY <2>5, <2>9
      <3>2. \A q, d \in Ranks, i \in Nat : InMessage(q, d, i, t)' =>
              \E j \in Nat : InMessage(q, d, j, t) /\ j = (IF q = s /\ d = p THEN i + 1 ELSE i)
        BY <2>3, <2>4, <2>7
      <3>3. ASSUME NEW q \in Ranks, NEW d \in Ranks, NEW j \in Nat, InMessage(q, d, j, t)
            PROVE  \E i \in Nat : InMessage(q, d, i, t)'
        <4>1. CASE q = s /\ d = p
          <5>1. j # 0 /\ j # 1
            BY <1>10, <2>9, <3>3, <4>1 DEF InMessage
          <5>2. PICK i \in Nat : i + 1 = j /\ i # 0
            BY <5>1, j - 1 \in Nat
          <5>3. QED
            BY <2>4, <3>3, <4>1, <5>2
        <4>2. CASE q # s \/ d # p
          BY <2>3, <3>3, <4>2
        <4>3. QED
          BY <4>1, <4>2
      <3>4. Gone(t)' <=> Somewhere(t)'
        BY <2>1, <2>6, <2>7, <3>1, <3>2, <3>3 DEF OnePlace, Somewhere
      <3>5. \A s1, d1, s2, d2 \in Ranks, i1, i2 \in Nat :
              InMessage(s1, d1, i1, t)' /\ InMessage(s2, d2, i2, t)' =>
                <<s1, d1, i1>> = <<s2, d2, i2>>
        <4>1. SUFFICES ASSUME NEW s1 \in Ranks, NEW d1 \in Ranks, NEW s2 \in Ranks,
                              NEW d2 \in Ranks, NEW i1 \in Nat, NEW i2 \in Nat,
                              InMessage(s1, d1, i1, t)', InMessage(s2, d2, i2, t)'
                       PROVE  s1 = s2 /\ d1 = d2 /\ i1 = i2
          OBVIOUS
        <4>2. PICK j1 \in Nat : InMessage(s1, d1, j1, t) /\
                                j1 = (IF s1 = s /\ d1 = p THEN i1 + 1 ELSE i1)
          BY <3>2, <4>1
        <4>3. PICK j2 \in Nat : InMessage(s2, d2, j2, t) /\
                                j2 = (IF s2 = s /\ d2 = p THEN i2 + 1 ELSE i2)
          BY <3>2, <4>1
        <4>4. s1 = s2 /\ d1 = d2 /\ j1 = j2
          BY <2>7, <4>2, <4>3 DEF OnePlace
        <4>5. QED
          BY <4>2, <4>3, <4>4
      <3>6. QED
        BY <2>6, <2>7, <3>1, <3>2, <3>4, <3>5 DEF OnePlace
    <2>10. QED
      BY <2>8, <2>9
  <1>13. QED
    BY <1>11, <1>12 DEF PlaceInv

LEMMA PlaceEndOwn ==
    ASSUME TypeInv, PlaceInv, NEW p \in Ranks, EndOwn(p)
    PROVE  PlaceInv'
  <1>1. /\ pc[p] = "recv" /\ pc'[p] = "shuffle" /\ UNCHANGED <<my_noises, loud, chan, published>>
        /\ cell'[p] = cell[p] + 1 /\ count'[p] = count[p] + 1
        /\ \A q \in Ranks \ {p} : cell'[q] = cell[q] /\ pc'[q] = pc[q] /\ count'[q] = count[q]
    BY DEF EndOwn, TypeInv, TypeOK
  <1>2. cell[p] \in Nat /\ count[p] \in Nat /\ Round(p)' = Round(p)
    BY <1>1, LoopTypes DEF TypeInv, Round
  <1>3. ASSUME NEW t \in Tag PROVE OnePlace(t)'
    <2>1. t.from \in Ranks /\ t.cell \in Nat
      BY NCellsType DEF Tag, Cells
    <2>2. Gone(t)' <=> Gone(t)
      <3>1. CASE t.from # p
        BY <1>1, <2>1, <3>1, GoneFrame
      <3>2. CASE t.from = p
        <4>1. t.cell < cell[p] + 1 <=> t.cell < cell[p] \/ t.cell = cell[p]
          BY <1>2, <2>1
        <4>2. QED
          BY <1>1, <1>2, <3>2, <4>1 DEF Gone, InCycle
      <3>3. QED
        BY <3>1, <3>2
    <2>3. \A d \in Ranks, k \in Nat : InEntry(d, k, t)' <=> InEntry(d, k, t)
      <3>1. ASSUME NEW k \in Nat PROVE Live(p, k)' <=> Live(p, k)
        <4>1. k < count[p] + 1 <=> k < count[p] \/ k = count[p]
          BY <1>2
        <4>2. QED
          BY <1>1, <4>1 DEF Live, InCycle
      <3>2. ASSUME NEW k \in Nat PROVE InEntry(p, k, t)' <=> InEntry(p, k, t)
        BY <1>1, <3>1 DEF InEntry
      <3>3. QED
        BY <1>1, <3>2, EntryFrame
    <2>4. OnePlace(t)
      BY DEF PlaceInv
    <2>5. QED
      BY <1>1, <2>2, <2>3, <2>4, MessageFrame, ReportFrame, PlaceFrame
  <1>4. QED
    BY <1>1, <1>3 DEF PlaceInv, AllPacked

LEMMA PlaceLocal ==
    ASSUME TypeInv, PlaceInv, NEW p \in Ranks, Move(p) \/ Reset(p)
    PROVE  PlaceInv'
  <1>1. /\ ~ InCycle(p) /\ ~ InCycle(p)' /\ UNCHANGED <<cell, count, my_noises, loud, chan, published>>
        /\ \A q \in Ranks \ {p} : pc'[q] = pc[q]
    BY DEF Move, Reset, InCycle, TypeInv, TypeOK
  <1>2. ASSUME NEW t \in Tag PROVE OnePlace(t)'
    <2>1. t.from \in Ranks
      BY DEF Tag
    <2>2. Gone(t)' <=> Gone(t)
      <3>1. CASE t.from # p
        BY <1>1, <2>1, <3>1, GoneFrame
      <3>2. CASE t.from = p
        BY <1>1, <3>2 DEF Gone
      <3>3. QED
        BY <3>1, <3>2
    <2>3. \A d \in Ranks, k \in Nat : InEntry(d, k, t)' <=> InEntry(d, k, t)
      <3>1. ASSUME NEW k \in Nat PROVE ~ InEntry(p, k, t) /\ ~ InEntry(p, k, t)'
        BY <1>1 DEF InEntry, Live
      <3>2. QED
        BY <1>1, <3>1, EntryFrame
    <2>4. OnePlace(t)
      BY DEF PlaceInv
    <2>5. QED
      BY <1>1, <2>2, <2>3, <2>4, MessageFrame, ReportFrame, PlaceFrame
  <1>3. QED
    BY <1>1, <1>2 DEF PlaceInv, AllPacked

\* Publishing turns every entry of the cycle into a report.
LEMMA PlacePublish ==
    ASSUME TypeInv, PlaceInv, NEW p \in Ranks, Publish(p)
    PROVE  PlaceInv'
  <1> DEFINE D == publish_data(my_noises[p], noises_recv_count(p))
  <1>1. /\ pc[p] = "shuffle" /\ cell[p] = NCells /\ pc'[p] = "move"
        /\ UNCHANGED <<cell, count, my_noises, chan, loud>>
        /\ \A q \in Ranks \ {p} : pc'[q] = pc[q] /\ published'[q] = published[q]
        /\ published'[p] = Append(published[p], D) /\ published[p] \in Seq(SUBSET Entry)
    BY DEF Publish, TypeInv, TypeOK
  <1>2. \A k \in Slots(p) : Live(p, k) /\ my_noises[p][k] \in Entry /\ k \in Nat
    <2>1. count[p] = Passed(p)
      BY <1>1 DEF TypeInv, Control, RankOK, InCycle
    <2>2. Passed(p) = noises_recv_count(p)
      <3>1. cell[p] \in 0 .. NCells
        BY LoopTypes DEF TypeInv
      <3>2. QED
        BY <1>1, <3>1, PassedBound DEF Passed
    <2>3. \A k \in Slots(p) : k < noises_recv_count(p) /\ k \in Nat
      BY SlotsType DEF Slots
    <2>4. \A k \in Slots(p) : Written(p, k)
      BY <1>1, AllWritten
    <2>5. QED
      BY <1>1, <2>1, <2>2, <2>3, <2>4 DEF Live, InCycle, Written
  <1>3. ASSUME NEW e, NEW t
        PROVE  e \in D /\ t \in e.noise_level <=>
                 \E k \in Slots(p) : e = my_noises[p][k] /\ InEntry(p, k, t)
    BY <1>2 DEF publish_data, InEntry, Slots
  <1>4. D \subseteq Entry
    BY <1>2 DEF publish_data, Slots
  <1>5. PICK n \in Nat : n = Len(published[p])
    BY <1>1
  <1> HIDE DEF D
  <1>6. /\ DOMAIN published[p] = 1 .. n /\ DOMAIN published'[p] = 1 .. (n + 1)
        /\ published'[p][n + 1] = D
        /\ \A r \in 1 .. n : published'[p][r] = published[p][r]
    BY <1>1, <1>4, <1>5
  <1>7. ASSUME NEW t \in Tag PROVE OnePlace(t)'
    <2>1. t.from \in Ranks /\ t.cell < NCells
      BY NCellsType DEF Tag, Cells
    <2>2. Gone(t)' <=> Gone(t)
      <3>1. CASE t.from # p
        BY <1>1, <2>1, <3>1, GoneFrame
      <3>2. CASE t.from = p
        BY <1>1, <2>1, <3>2 DEF Gone, InCycle
      <3>3. QED
        BY <3>1, <3>2
    <2>3. ASSUME NEW d \in Ranks, NEW k \in Nat
          PROVE  InEntry(d, k, t)' <=> d # p /\ InEntry(d, k, t)
      <3>1. CASE d # p
        BY <1>1, <3>1, EntryFrame
      <3>2. CASE d = p
        BY <1>1, <3>2 DEF InEntry, Live, InCycle
      <3>3. QED
        BY <3>1, <3>2
    <2>4. ASSUME NEW d \in Ranks, NEW r \in Nat, NEW e \in Entry
          PROVE  InReport(d, r, e, t)' <=>
                   \/ InReport(d, r, e, t)
                   \/ /\ d = p /\ r = n + 1
                      /\ \E k \in Slots(p) : e = my_noises[p][k] /\ InEntry(p, k, t)
      <3>1. CASE d # p
        BY <1>1, <3>1 DEF InReport
      <3>2. CASE d = p
        <4>1. r \in DOMAIN published'[p] <=> r \in 1 .. n \/ r = n + 1
          BY <1>6
        <4>2. n + 1 \notin 1 .. n
          OBVIOUS
        <4>3. InReport(p, r, e, t)' <=> InReport(p, r, e, t) \/ (r = n + 1 /\ e \in D /\ t \in e.noise_level)
          BY <1>6, <4>1, <4>2 DEF InReport
        <4>4. QED
          BY <1>3, <3>2, <4>3
      <3>3. QED
        BY <3>1, <3>2
    <2>5. \A s, d \in Ranks, i \in Nat : InMessage(s, d, i, t)' <=> InMessage(s, d, i, t)
      BY <1>1, MessageFrame
    <2>6. OnePlace(t) /\ n + 1 \in Nat
      BY DEF PlaceInv
    <2>7. CASE \E k \in Nat : InEntry(p, k, t)
      <3>1. PICK k \in Nat : InEntry(p, k, t)
        BY <2>7
      <3>2. k \in Slots(p) /\ my_noises[p][k] \in Entry
        BY <1>2, <3>1 DEF InEntry, Live
      <3>3. \A d \in Ranks, j \in Nat : InEntry(d, j, t) <=> d = p /\ j = k
        BY <2>6, <3>1 DEF OnePlace
      <3>4. \A d \in Ranks, j \in Nat : ~ InEntry(d, j, t)'
        BY <2>3, <3>3
      <3>5. \A s, d \in Ranks, i \in Nat : ~ InMessage(s, d, i, t)'
        BY <2>5, <2>6, <3>1 DEF OnePlace
      <3>6. \A d \in Ranks, r \in Nat, e \in Entry : ~ InReport(d, r, e, t)
        BY <2>6, <3>1 DEF OnePlace
      <3>7. \A d \in Ranks, r \in Nat, e \in Entry :
              InReport(d, r, e, t)' <=> d = p /\ r = n + 1 /\ e = my_noises[p][k]
        BY <1>2, <2>4, <3>1, <3>2, <3>3, <3>6
      <3>8. Gone(t)'
        BY <2>2, <2>6, <3>1 DEF OnePlace, Somewhere
      <3>9. QED
        BY <2>6, <3>2, <3>4, <3>5, <3>7, <3>8 DEF OnePlace, Somewhere
    <2>8. CASE ~ \E k \in Nat : InEntry(p, k, t)
      <3>1. \A d \in Ranks, k \in Nat : InEntry(d, k, t)' <=> InEntry(d, k, t)
        BY <2>3, <2>8
      <3>2. \A d \in Ranks, r \in Nat, e \in Entry : InReport(d, r, e, t)' <=> InReport(d, r, e, t)
        BY <1>2, <2>4, <2>8
      <3>3. QED
        BY <2>2, <2>5, <2>6, <3>1, <3>2, PlaceFrame
    <2>9. QED
      BY <2>7, <2>8
  <1>8. QED
    BY <1>1, <1>7 DEF PlaceInv, AllPacked

LEMMA PlaceInit == Init => PlaceInv
  <1> SUFFICES ASSUME Init PROVE PlaceInv
    OBVIOUS
  <1>1. \A s, d \in Ranks : /\ pc[s] = "compute" /\ loud[s] = <<>> /\ chan[s][d] = <<>>
                            /\ published[s] = <<>>
    BY DEF Init
  <1>2. ASSUME NEW t \in Tag PROVE OnePlace(t)
    <2>1. t.from \in Ranks
      BY DEF Tag
    <2>2. ~ Gone(t)
      BY <1>1, <2>1 DEF Gone
    <2>3. \A s, d \in Ranks, i \in Nat : ~ InMessage(s, d, i, t)
      BY <1>1 DEF InMessage
    <2>4. \A d \in Ranks, k \in Nat : ~ InEntry(d, k, t)
      BY <1>1 DEF InEntry, Live, InCycle
    <2>5. \A d \in Ranks, r \in Nat, e \in Entry : ~ InReport(d, r, e, t)
      BY <1>1 DEF InReport
    <2>6. QED
      BY <2>2, <2>3, <2>4, <2>5 DEF OnePlace, Somewhere
  <1>3. AllPacked
    BY <1>1 DEF AllPacked
  <1>4. QED
    BY <1>2, <1>3 DEF PlaceInv

LEMMA PlaceStep ==
    ASSUME EagerSends
    PROVE  TypeInv /\ TypeInv' /\ PlaceInv /\ [Next]_vars => PlaceInv'
  <1> SUFFICES ASSUME TypeInv, TypeInv', PlaceInv, [Next]_vars PROVE PlaceInv'
    OBVIOUS
  <1>1. ASSUME NEW p \in Ranks, RankStep(p) PROVE PlaceInv'
    <2>1. ASSUME Compute(p) PROVE PlaceInv'
      <3>1. PICK N \in Footprints : ComputeCells(p, N)
        BY <2>1 DEF Compute
      <3>2. N \in SUBSET Cells
        BY FootprintAssumption
      <3>3. QED
        BY <3>1, <3>2, PlaceCompute
    <2>2. QED
      BY <1>1, <2>1, PlaceIsend, PlaceStartOwn, PlaceRecv, PlaceEndOwn, PlacePublish, PlaceLocal
         DEF RankStep
  <1>2. ASSUME NEW s \in Ranks, NEW d \in Ranks, Pack(s, d) PROVE FALSE
    <2>1. PICK i \in 1 .. Len(chan[s][d]) : ~ chan[s][d][i].packed
      BY <1>2 DEF Pack
    <2>2. chan[s][d] \in Seq(Message)
      BY DataTypes DEF TypeInv
    <2>3. QED
      BY <2>1, <2>2 DEF PlaceInv, AllPacked
  <1>3. CASE UNCHANGED vars
    <2>1. ASSUME NEW t \in Tag PROVE OnePlace(t)'
      <3>1. Gone(t)' <=> Gone(t)
        BY <1>3, GoneFrame DEF vars
      <3>2. \A d \in Ranks, k \in Nat : InEntry(d, k, t)' <=> InEntry(d, k, t)
        BY <1>3, EntryFrame DEF vars
      <3>3. OnePlace(t) /\ UNCHANGED <<chan, published>>
        BY <1>3 DEF PlaceInv, vars
      <3>4. QED
        BY <3>1, <3>2, <3>3, MessageFrame, ReportFrame, PlaceFrame
    <2>2. QED
      BY <1>3, <2>1 DEF PlaceInv, AllPacked, vars
  <1>4. QED
    BY <1>1, <1>2, <1>3 DEF Next

LEMMA PlaceInvariant ==
    ASSUME EagerSends
    PROVE  Spec => [](TypeInv /\ CountInv /\ PlaceInv)
  <1>1. TypeInv /\ TypeInv' /\ PlaceInv /\ [Next]_vars => PlaceInv'
    BY PlaceStep
  <1>2. QED
    BY <1>1, PlaceInit, CountInvariant, PTL DEF Spec

-----------------------------------------------------------------------------
(* What follows for the reports.                                           *)

\* What is in a report, and what is on its way, are levels.
LEMMA ReportedIsReport ==
    ASSUME TypeInv, NEW p \in Ranks, NEW t
    PROVE  t \in Reported(p) <=>
             t \in Tag /\ \E r \in Nat, e \in Entry : InReport(p, r, e, t)
  <1>1. published[p] \in Seq(SUBSET Entry)
    BY DataTypes DEF TypeInv
  <1>2. \A r \in DOMAIN published[p] : r \in Nat /\ published[p][r] \subseteq Entry
    BY <1>1
  <1>3. \A e \in Entry : e.noise_level \subseteq Tag
    BY DEF Entry, Levels
  <1>4. QED
    BY <1>2, <1>3 DEF Reported, InReport

LEMMA InFlightIsMessage ==
    ASSUME TypeInv, NEW t
    PROVE  t \in UNION InFlight <=>
             t \in Tag /\ \E s, d \in Ranks, i \in Nat : InMessage(s, d, i, t)
  <1>1. ASSUME NEW s \in Ranks, NEW d \in Ranks, NEW i \in DOMAIN chan[s][d]
        PROVE  i \in Nat /\ chan[s][d][i].data \subseteq Tag
    <2>1. chan[s][d] \in Seq(Message)
      BY DataTypes DEF TypeInv
    <2>2. i \in Nat /\ chan[s][d][i] \in Message
      BY <2>1
    <2>3. QED
      BY <2>2 DEF Message, Levels
  <1>2. t \in UNION InFlight <=> \E s, d \in Ranks : \E i \in DOMAIN chan[s][d] : t \in chan[s][d][i].data
    BY DEF InFlight
  <1>3. QED
    BY <1>1, <1>2 DEF InMessage

\* Also when the ranks do not divide the cells and a receive takes a message
\* meant for another cell, no level is added into two reports, and none that
\* was reported is still on its way (main.c 132-149).  With sends that read
\* their buffer later this is false: a matrix entry can be read twice.
THEOREM NothingCountedTwice ==
    ASSUME EagerSends
    PROVE  Spec => []NoDoubleCount
  <1>1. ASSUME TypeInv, PlaceInv PROVE NoDoubleCount
    <2>1. \A t \in Tag : OnePlace(t)
      BY <1>1 DEF PlaceInv
    <2>2. ASSUME NEW p \in Ranks PROVE Reported(p) \cap UNION InFlight = {}
      <3>1. ASSUME NEW t, t \in Reported(p), t \in UNION InFlight PROVE FALSE
        <4>1. t \in Tag /\ \E r \in Nat, e \in Entry : InReport(p, r, e, t)
          BY <1>1, <3>1, ReportedIsReport
        <4>2. \E s, d \in Ranks, i \in Nat : InMessage(s, d, i, t)
          BY <1>1, <3>1, InFlightIsMessage
        <4>3. QED
          BY <2>1, <4>1, <4>2 DEF OnePlace
      <3>2. QED
        BY <3>1
    <2>3. ASSUME NEW p \in Ranks, NEW q \in Ranks \ {p} PROVE Reported(p) \cap Reported(q) = {}
      <3>1. ASSUME NEW t, t \in Reported(p), t \in Reported(q) PROVE FALSE
        <4>1. t \in Tag /\ \E r \in Nat, e \in Entry : InReport(p, r, e, t)
          BY <1>1, <3>1, ReportedIsReport
        <4>2. \E r \in Nat, e \in Entry : InReport(q, r, e, t)
          BY <1>1, <3>1, ReportedIsReport
        <4>3. QED
          BY <2>1, <4>1, <4>2 DEF OnePlace
      <3>2. QED
        BY <3>1
    <2>4. ASSUME NEW p \in Ranks, NEW r1 \in DOMAIN published[p], NEW r2 \in DOMAIN published[p],
                 NEW e1 \in published[p][r1], NEW e2 \in published[p][r2],
                 <<r1, e1>> # <<r2, e2>>
          PROVE  e1.noise_level \cap e2.noise_level = {}
      <3>1. published[p] \in Seq(SUBSET Entry)
        BY <1>1, DataTypes DEF TypeInv
      <3>2. r1 \in Nat /\ r2 \in Nat /\ e1 \in Entry /\ e2 \in Entry
        BY <3>1
      <3>3. ASSUME NEW t, t \in e1.noise_level, t \in e2.noise_level PROVE FALSE
        <4>1. t \in Tag
          BY <3>2, <3>3 DEF Entry, Levels
        <4>2. InReport(p, r1, e1, t) /\ InReport(p, r2, e2, t)
          BY <3>3 DEF InReport
        <4>3. QED
          BY <2>1, <2>4, <3>2, <4>1, <4>2 DEF OnePlace
      <3>4. QED
        BY <3>3
    <2>5. QED
      BY <2>2, <2>3, <2>4 DEF NoDoubleCount
  <1>2. Spec => [](TypeInv /\ CountInv /\ PlaceInv)
    BY PlaceInvariant
  <1>3. QED
    BY <1>1, <1>2, PTL

\* When all ranks have run their cycles every message has been received, for
\* any number of ranks, and every level computed is in some report
\* (main.c 113-173).
THEOREM NothingIsLost ==
    ASSUME EagerSends
    PROVE  Spec => []NothingLost
  <1>1. ASSUME TypeInv, CountInv, PlaceInv PROVE NothingLost
    <2> SUFFICES ASSUME Done
                 PROVE  /\ \A s, d \in Ranks : chan[s][d] = <<>>
                        /\ UNION {Reported(p) : p \in Ranks} =
                             UNION {Contribution(p, c, r) : p \in Ranks, c \in Cells, r \in 1 .. MaxRounds}
      BY DEF NothingLost
    <2>1. \A s, d \in Ranks : chan[s][d] = <<>>
      BY <1>1, AllReceived
    <2>2. ASSUME NEW t \in Tag
          PROVE  Gone(t) <=> t.round \in 1 .. MaxRounds /\ t.cell \in loud[t.from][t.round]
      <3>1. t.from \in Ranks
        BY DEF Tag
      <3>2. loud[t.from] \in Seq(SUBSET Cells) /\ Len(loud[t.from]) = MaxRounds /\ ~ InCycle(t.from)
        BY <1>1, <3>1 DEF Done, Round, InCycle, TypeInv, TypeOK
      <3>3. DOMAIN loud[t.from] = 1 .. MaxRounds
        BY <3>2
      <3>4. QED
        BY <3>2, <3>3 DEF Gone
    <2>3. ASSUME NEW t \in Tag
          PROVE  Gone(t) <=> \E p \in Ranks : t \in Reported(p)
      <3>1. \A s, d \in Ranks, i \in Nat : ~ InMessage(s, d, i, t)
        BY <2>1 DEF InMessage
      <3>2. \A d \in Ranks, k \in Nat : ~ InEntry(d, k, t)
        BY DEF Done, InEntry, Live, InCycle
      <3>3. Gone(t) <=> \E d \in Ranks, r \in Nat, e \in Entry : InReport(d, r, e, t)
        BY <1>1, <3>1, <3>2 DEF PlaceInv, OnePlace, Somewhere
      <3>4. QED
        BY <1>1, <3>3, ReportedIsReport
    <2>4. ASSUME NEW t
          PROVE  (\E p \in Ranks : t \in Reported(p)) <=>
                 \E p \in Ranks, c \in Cells, r \in 1 .. MaxRounds : t \in Contribution(p, c, r)
      <3>1. ASSUME NEW p \in Ranks, t \in Reported(p)
            PROVE  \E q \in Ranks, c \in Cells, r \in 1 .. MaxRounds : t \in Contribution(q, c, r)
        <4>1. t \in Tag
          BY <1>1, <3>1, ReportedIsReport
        <4>2. t.round \in 1 .. MaxRounds /\ t.cell \in loud[t.from][t.round]
          BY <2>2, <2>3, <3>1, <4>1
        <4>3. t \in Contribution(t.from, t.cell, t.round)
          BY <4>1, <4>2, TagOfContribution
        <4>4. t.from \in Ranks /\ t.cell \in Cells
          BY <4>1 DEF Tag
        <4>5. QED
          BY <4>2, <4>3, <4>4
      <3>2. ASSUME NEW q \in Ranks, NEW c \in Cells, NEW r \in 1 .. MaxRounds,
                   t \in Contribution(q, c, r)
            PROVE  \E p \in Ranks : t \in Reported(p)
        <4>1. c \in loud[q][r] /\ t = [from |-> q, cell |-> c, round |-> r]
          BY <3>2 DEF Contribution
        <4>2. r \in Nat
          BY RoundsAssumption
        <4>3. t \in Tag
          BY <4>1, <4>2 DEF Tag
        <4>4. t.round \in 1 .. MaxRounds /\ t.cell \in loud[t.from][t.round]
          BY <4>1
        <4>5. QED
          BY <2>2, <2>3, <4>3, <4>4
      <3>3. QED
        BY <3>1, <3>2
    <2>5. UNION {Reported(p) : p \in Ranks} =
            UNION {Contribution(p, c, r) : p \in Ranks, c \in Cells, r \in 1 .. MaxRounds}
      BY <2>4
    <2>6. QED
      BY <2>1, <2>5
  <1>2. Spec => [](TypeInv /\ CountInv /\ PlaceInv)
    BY PlaceInvariant
  <1>3. QED
    BY <1>1, <1>2, PTL
=============================================================================
