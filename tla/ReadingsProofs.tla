--------------------------- MODULE ReadingsProofs ---------------------------
(***************************************************************************)
(* What the producers read and say: the virtual sensor replays its file,    *)
(* and a sensor tells its window, for every file, window, threshold and     *)
(* number of readings.  With that, the types of Measurements.              *)
(***************************************************************************)
EXTENDS MeasurementsProofs

-----------------------------------------------------------------------------
(* The file of the virtual sensor.                                         *)

Noises == min_noise .. max_noise

LEMMA StepStays ==
    ASSUME NEW noise \in Noises, NEW delta \in Deltas
    PROVE  Step(noise, delta) \in Noises
  BY WalkAssumption DEF Step, Noises

\* A walk is defined by its first value and its steps.
IsWalk(g, start, delta) ==
    g = [i \in 0 .. n_samples |-> IF i = 0 THEN start ELSE Step(g[i - 1], delta[i])]

LEMMA WalkExpanded ==
    ASSUME NEW start, NEW delta, NEW at
    PROVE  Walk(start, delta, at) =
             [i \in 1 .. n_samples |->
                [noise |-> (CHOOSE g : IsWalk(g, start, delta))[i], at |-> at[i]]]
  BY DEF Walk, IsWalk

\* Walks of every length exist.
LEMMA WalkExists ==
    ASSUME NEW start, NEW delta
    PROVE  \E g : IsWalk(g, start, delta)
  <1> DEFINE Upto(n, g) == g = [i \in 0 .. n |-> IF i = 0 THEN start ELSE Step(g[i - 1], delta[i])]
             T == {n \in Nat : ~ \E g : Upto(n, g)}
  <1>1. T = {}
    <2>1. SUFFICES ASSUME T # {} PROVE FALSE
      OBVIOUS
    <2>2. PICK n \in T : \A k \in T : n <= k
      <3>1. T \subseteq Nat
        OBVIOUS
      <3> HIDE DEF T
      <3>2. QED
        BY <2>1, <3>1, LeastNat
    <2>3. n \in Nat /\ ~ \E g : Upto(n, g)
      BY <2>2
    <2>4. CASE n = 0
      <3>1. \A i \in 0 .. 0 : i = 0
        OBVIOUS
      <3>2. Upto(0, [i \in 0 .. 0 |-> start])
        BY <3>1
      <3> HIDE DEF Upto
      <3>3. QED
        BY <2>3, <2>4, <3>2
    <2>5. CASE n # 0
      <3>1. PICK m \in Nat : n = m + 1
        BY <2>3, <2>5
      <3>2. m \notin T
        <4>1. ~ (n <= m)
          BY <3>1
        <4> HIDE DEF T
        <4>2. QED
          BY <2>2, <4>1
      <3>3. PICK g : Upto(m, g)
        <4> HIDE DEF Upto
        <4>1. QED
          BY <3>2
      <3> DEFINE h == [i \in 0 .. n |-> IF i = 0 THEN start ELSE Step(g[i - 1], delta[i])]
      <3>4. ASSUME NEW i \in 0 .. m PROVE g[i] = h[i]
        <4>1. i \in 0 .. n
          BY <3>1
        <4>2. g[i] = IF i = 0 THEN start ELSE Step(g[i - 1], delta[i])
          BY <3>3
        <4>3. h[i] = IF i = 0 THEN start ELSE Step(g[i - 1], delta[i])
          BY <4>1
        <4>4. QED
          BY <4>2, <4>3
      <3>5. ASSUME NEW i \in 0 .. n
            PROVE  h[i] = IF i = 0 THEN start ELSE Step(h[i - 1], delta[i])
        <4>1. CASE i = 0
          BY <4>1
        <4>2. CASE i # 0
          <5>1. i - 1 \in 0 .. m
            BY <3>1, <4>2
          <5>2. g[i - 1] = h[i - 1]
            BY <5>1, <3>4
          <5>3. h[i] = Step(g[i - 1], delta[i])
            BY <4>2
          <5> HIDE DEF h
          <5>4. QED
            BY <4>2, <5>2, <5>3
        <4>3. QED
          BY <4>1, <4>2
      <3>6. h = [i \in 0 .. n |-> h[i]]
        OBVIOUS
      <3> HIDE DEF h
      <3>7. Upto(n, h)
        BY <3>5, <3>6
      <3> HIDE DEF Upto
      <3>8. QED
        BY <2>3, <3>7
    <2>6. QED
      BY <2>4, <2>5
  <1>2. n_samples \notin T /\ n_samples \in Nat
    BY <1>1, SamplesAssumption
  <1>3. PICK g : Upto(n_samples, g)
    BY <1>2
  <1>4. QED
    BY <1>3 DEF IsWalk

LEMMA WalkStays ==
    ASSUME NEW start \in Starts, NEW delta \in [1 .. n_samples -> Deltas],
           NEW g, IsWalk(g, start, delta), NEW i \in 0 .. n_samples
    PROVE  g[i] \in Noises
  <1> DEFINE T == {k \in 0 .. n_samples : g[k] \notin Noises}
  <1>1. SUFFICES ASSUME T # {} PROVE FALSE
    OBVIOUS
  <1>2. n_samples \in Nat /\ T \subseteq Nat
    BY SamplesAssumption
  <1>3. PICK k \in T : \A j \in T : k <= j
    <2> HIDE DEF T
    <2>1. QED
      BY <1>1, <1>2, LeastNat
  <1>4. k \in 0 .. n_samples /\ g[k] \notin Noises
    BY <1>3
  <1>5. g[k] = IF k = 0 THEN start ELSE Step(g[k - 1], delta[k])
    BY <1>4 DEF IsWalk
  <1>6. k # 0
    BY <1>4, <1>5, WalkAssumption DEF Noises
  <1>7. k - 1 \in 0 .. n_samples /\ k \in 1 .. n_samples
    BY <1>2, <1>4, <1>6
  <1>8. k - 1 \notin T
    <2>1. ~ (k <= k - 1)
      BY <1>4
    <2> HIDE DEF T
    <2>2. QED
      BY <1>3, <2>1
  <1>9. g[k - 1] \in Noises /\ delta[k] \in Deltas
    BY <1>7, <1>8
  <1>10. QED
    BY <1>4, <1>5, <1>6, <1>9, StepStays

\* The levels in the file are within the bounds of the walk.
RowsWithinBounds == \A i \in 1 .. n_samples : dataset[i].noise \in Noises

LEMMA GeneratedWithinBounds ==
    ASSUME init_file_reading
    PROVE  RowsWithinBounds
  <1>1. PICK start \in Starts, delta \in [1 .. n_samples -> Deltas],
             at \in [1 .. n_samples -> Sites] : dataset = Walk(start, delta, at)
    BY DEF init_file_reading
  <1> DEFINE g == CHOOSE h : IsWalk(h, start, delta)
  <1>2. IsWalk(g, start, delta)
    BY WalkExists
  <1>3. dataset = [i \in 1 .. n_samples |-> [noise |-> g[i], at |-> at[i]]]
    BY <1>1, WalkExpanded
  <1> HIDE DEF g
  <1>4. SUFFICES ASSUME NEW i \in 1 .. n_samples PROVE dataset[i].noise \in Noises
    BY DEF RowsWithinBounds
  <1>5. i \in 0 .. n_samples
    BY SamplesAssumption
  <1>6. g[i] \in Noises
    BY <1>2, <1>5, WalkStays
  <1>7. QED
    BY <1>3, <1>6

LEMMA RowWidth ==
    ASSUME RowsWithinBounds, NEW i \in 1 .. n_samples
    PROVE  Width(dataset[i]) = RowBytes /\ RowBytes \in Nat \ {0}
  <1>1. dataset[i].noise \in min_noise .. max_noise /\ dataset[i].noise \in Int
    BY WalkAssumption DEF RowsWithinBounds, Noises
  <1>2. PICK level : level = dataset[i].noise
    OBVIOUS
  <1>3. Width([noise |-> level]) = RowBytes
    BY <1>1, <1>2, WidthAssumption
  <1>4. Width([noise |-> level]) = Width(dataset[i]) /\ Width(dataset[i]) \in Nat \ {0}
    BY <1>1, <1>2 DEF Width
  <1>5. QED
    BY <1>3, <1>4

\* All rows are equally long.
LEMMA RowBegins ==
    ASSUME RowsWithinBounds, NEW i \in 1 .. n_samples
    PROVE  Begin(i) = (i - 1) * RowBytes
  <1> DEFINE Begins(g) == g = [k \in 1 .. i |-> IF k = 1 THEN 0 ELSE g[k - 1] + Width(dataset[k - 1])]
             b == [k \in 1 .. i |-> (k - 1) * RowBytes]
             c == CHOOSE g : Begins(g)
  <1>1. RowBytes \in Nat /\ n_samples \in Nat
    BY RowWidth, SamplesAssumption
  <1>2. \A k \in 1 .. i : k # 1 => k - 1 \in 1 .. i /\ Width(dataset[k - 1]) = RowBytes
    <2>1. SUFFICES ASSUME NEW k \in 1 .. i, k # 1
                   PROVE  k - 1 \in 1 .. i /\ Width(dataset[k - 1]) = RowBytes
      OBVIOUS
    <2>2. k - 1 \in 1 .. i /\ k - 1 \in 1 .. n_samples
      BY <1>1, <2>1
    <2>3. QED
      BY <2>2, RowWidth
  <1>3. \A k \in 1 .. i : k # 1 => (k - 1) * RowBytes = ((k - 1) - 1) * RowBytes + RowBytes
    BY <1>1
  <1>4. \A k \in 1 .. i : b[k] = IF k = 1 THEN 0 ELSE b[k - 1] + Width(dataset[k - 1])
    <2>1. SUFFICES ASSUME NEW k \in 1 .. i
                   PROVE  b[k] = IF k = 1 THEN 0 ELSE b[k - 1] + Width(dataset[k - 1])
      OBVIOUS
    <2>2. CASE k = 1
      <3>1. (1 - 1) * RowBytes = 0
        BY <1>1
      <3>2. QED
        BY <2>2, <3>1
    <2>3. CASE k # 1
      <3>1. b[k] = (k - 1) * RowBytes /\ b[k - 1] = ((k - 1) - 1) * RowBytes
        BY <2>3, <1>2
      <3>2. Width(dataset[k - 1]) = RowBytes
        BY <2>3, <1>2
      <3> HIDE DEF b
      <3>3. QED
        BY <2>3, <3>1, <3>2, <1>3
    <2>4. QED
      BY <2>2, <2>3
  <1>5. b = [k \in 1 .. i |-> b[k]]
    OBVIOUS
  <1>6. Begins(b)
    <2> HIDE DEF b
    <2>1. QED
      BY <1>4, <1>5
  <1>7. Begins(c)
    <2> HIDE DEF b, Begins
    <2>1. QED
      BY <1>6
  <1>8. Begin(i) = c[i]
    BY DEF Begin
  <1> HIDE DEF c
  <1>9. \A k \in 1 .. i : c[k] = IF k = 1 THEN 0 ELSE c[k - 1] + Width(dataset[k - 1])
    BY <1>7
  <1> HIDE DEF b, Begins
  <1> DEFINE T == {k \in 1 .. i : c[k] # b[k]}
  <1>10. T = {}
    <2>1. SUFFICES ASSUME T # {} PROVE FALSE
      OBVIOUS
    <2>2. T \subseteq Nat
      OBVIOUS
    <2>3. PICK k \in T : \A j \in T : k <= j
      <3> HIDE DEF T
      <3>1. QED
        BY <2>1, <2>2, LeastNat
    <2>4. k \in 1 .. i /\ c[k] # b[k]
      BY <2>3
    <2>5. k # 1
      BY <2>4, <1>4, <1>9
    <2>6. k - 1 \notin T
      <3>1. ~ (k <= k - 1)
        BY <2>4
      <3> HIDE DEF T
      <3>2. QED
        BY <2>3, <3>1
    <2>7. c[k - 1] = b[k - 1]
      BY <2>4, <2>5, <2>6, <1>2
    <2>8. QED
      BY <2>4, <2>5, <2>7, <1>4, <1>9
  <1>11. c[i] = b[i]
    BY <1>10
  <1>12. QED
    BY <1>8, <1>11 DEF b

LEMMA FileEnds ==
    ASSUME RowsWithinBounds
    PROVE  endptr = n_samples * RowBytes
  <1>1. n_samples \in Nat \ {0} /\ n_samples \in 1 .. n_samples
    BY SamplesAssumption
  <1>2. Begin(n_samples) = (n_samples - 1) * RowBytes /\ Width(dataset[n_samples]) = RowBytes
        /\ RowBytes \in Nat
    BY <1>1, RowBegins, RowWidth
  <1>3. (n_samples - 1) * RowBytes + RowBytes = n_samples * RowBytes
    BY <1>1, <1>2
  <1>4. QED
    BY <1>2, <1>3 DEF endptr

\* After c rows the sensor reads row c + 1, and after the last the first.
LEMMA RowIsRead ==
    ASSUME RowsWithinBounds, NEW c \in 0 .. n_samples, fileptr = c * RowBytes
    PROVE  LET d == IF c = n_samples THEN 0 ELSE c
           IN  /\ RowRead = dataset[d + 1]
               /\ ReadRow => fileptr' = (d + 1) * RowBytes
  <1> DEFINE R == RowBytes
             n == n_samples
             from == IF cfs_read(fileptr) = 0 THEN 0 ELSE fileptr
  <1>1. PICK d : d = IF c = n THEN 0 ELSE c
    OBVIOUS
  <1>2. n \in Nat \ {0} /\ R \in Nat \ {0}
    <2>1. n \in Nat \ {0} /\ 1 \in 1 .. n_samples
      BY SamplesAssumption
    <2>2. QED
      BY <2>1, RowWidth
  <1>3. d \in Nat /\ d < n /\ c \in Nat /\ c <= n
    BY <1>1, <1>2
  <1>4. endptr = n * R
    BY FileEnds
  <1>5. c * R \in Nat /\ n * R \in Nat /\ d * R \in Nat
    BY <1>2, <1>3
  <1>6. d * R + R = (d + 1) * R /\ d * R + R <= n * R
    <2>1. R * d + R <= R * n /\ R * d = d * R /\ R * n = n * R
      BY <1>2, <1>3, MultiplesApart
    <2>2. d * R + R = (d + 1) * R
      BY <1>2, <1>3
    <2>3. QED
      BY <2>1, <2>2
  <1>7. from = d * R
    <2>1. CASE c = n
      <3>1. cfs_read(fileptr) = 0
        BY <2>1, <1>2, <1>4, <1>5 DEF cfs_read
      <3>2. d = 0 /\ 0 * R = 0
        BY <2>1, <1>1, <1>2
      <3>3. QED
        BY <3>1, <3>2
    <2>2. CASE c # n
      <3>1. d = c
        BY <2>2, <1>1
      <3>2. cfs_read(fileptr) # 0
        BY <3>1, <1>2, <1>4, <1>5, <1>6 DEF cfs_read
      <3>3. QED
        BY <3>1, <3>2
    <2>3. QED
      BY <2>1, <2>2
  <1>8. cfs_read(from) = R
    BY <1>2, <1>4, <1>5, <1>6, <1>7 DEF cfs_read
  <1>9. ReadRow => fileptr' = (d + 1) * R
    <2>1. ReadRow => fileptr' = from + cfs_read(from)
      BY DEF ReadRow
    <2> HIDE DEF from
    <2>2. QED
      BY <2>1, <1>6, <1>7, <1>8
  <1> DEFINE hit == {i \in 1 .. n_samples : from = Begin(i) /\ cfs_read(from) = Width(dataset[i])}
  <1>10. hit = {d + 1}
    <2>1. d + 1 \in 1 .. n_samples /\ (d + 1) - 1 = d
      BY <1>2, <1>3
    <2>2. Begin(d + 1) = d * R /\ Width(dataset[d + 1]) = R
      <3>1. Begin(d + 1) = ((d + 1) - 1) * R /\ Width(dataset[d + 1]) = R
        BY <2>1, RowBegins, RowWidth
      <3>2. QED
        BY <2>1, <3>1
    <2>3. d + 1 \in hit
      <3> HIDE DEF from
      <3>1. QED
        BY <2>1, <2>2, <1>7, <1>8
    <2>4. ASSUME NEW i \in hit PROVE i = d + 1
      <3>1. i \in 1 .. n_samples /\ from = Begin(i)
        BY <2>4
      <3>2. Begin(i) = (i - 1) * R
        BY <3>1, RowBegins
      <3>3. PICK e \in Nat : e = i - 1
        BY <3>1, <1>2
      <3>4. e * R = d * R
        BY <3>1, <3>2, <3>3, <1>7
      <3>5. ~ (e < d)
        <4>1. SUFFICES ASSUME e < d PROVE FALSE
          OBVIOUS
        <4>2. R * e + R <= R * d
          BY <4>1, <1>2, <1>3, MultiplesApart
        <4>3. R * e = e * R /\ R * d = d * R
          BY <1>2, <1>3
        <4>4. QED
          BY <4>2, <4>3, <3>4, <1>2, <1>5
      <3>6. ~ (d < e)
        <4>1. SUFFICES ASSUME d < e PROVE FALSE
          OBVIOUS
        <4>2. R * d + R <= R * e
          BY <4>1, <1>2, <1>3, MultiplesApart
        <4>3. R * e = e * R /\ R * d = d * R
          BY <1>2, <1>3
        <4>4. QED
          BY <4>2, <4>3, <3>4, <1>2, <1>5
      <3>7. QED
        BY <3>1, <3>3, <3>5, <3>6, <1>2, <1>3
    <2>5. QED
      BY <2>3, <2>4
  <1>11. RowRead = dataset[d + 1]
    <2>1. RowRead = IF hit = {} THEN [noise |-> 0, at |-> <<0, 0>>] ELSE dataset[CHOOSE i \in hit : TRUE]
      BY DEF RowRead
    <2> HIDE DEF hit
    <2>2. (CHOOSE i \in hit : TRUE) = d + 1
      BY <1>10
    <2>3. QED
      BY <2>1, <2>2, <1>10
  <1>12. QED
    BY <1>1, <1>9, <1>11

-----------------------------------------------------------------------------
(* The steps that neither take a reading nor publish a level.               *)

LEMMA OnlySamplesTell ==
    ASSUME [Next]_vars
    PROVE  \/ SensorSamples \/ SimulatedSensorSamples \/ RankPublishes
           \/ UNCHANGED <<kind, noise_values, position, dataset, fileptr, taken, said>>
  BY DEF Next, vars, SensorSends, SensorGivesUp, ClientStarts, ClientSends, ClientReconnects,
         BridgeRepeats, BackendStep, BackendFails, Done, windowVars, dataVars, historyVars

\* A reading is added to the history.
LEMMA ReadingTaken ==
    ASSUME IInv, NEW reading, noise_processing(reading), kind # "mpi"
    PROVE  /\ Len(taken) \in Nat /\ DOMAIN taken = 1 .. Len(taken)
           /\ Len(taken') = Len(taken) + 1 /\ DOMAIN taken' = 1 .. (Len(taken) + 1)
           /\ taken'[Len(taken) + 1] = reading
           /\ \A k \in 1 .. Len(taken) : taken'[k] = taken[k]
  <1>1. IsSeq(taken) /\ taken' = Append(taken, reading)
    BY DEF IInv, Histories, noise_processing, Recorded
  <1>2. QED
    BY <1>1, Appended

-----------------------------------------------------------------------------
(* The virtual sensor replays its file.                                    *)

FileInv ==
    kind = "noise-simulated-sensor" =>
        /\ RowsWithinBounds
        /\ \E q \in Nat, c \in 0 .. n_samples :
               Len(taken) = n_samples * q + c /\ fileptr = c * RowBytes
        /\ \A k \in DOMAIN taken : taken[k] = dataset[((k - 1) % n_samples) + 1]

LEMMA FileInit == Init => FileInv
  <1>1. SUFFICES ASSUME Init, kind = "noise-simulated-sensor"
                 PROVE  /\ RowsWithinBounds
                        /\ \E q \in Nat, c \in 0 .. n_samples :
                               Len(taken) = n_samples * q + c /\ fileptr = c * RowBytes
                        /\ \A k \in DOMAIN taken : taken[k] = dataset[((k - 1) % n_samples) + 1]
    BY DEF FileInv
  <1>2. init_file_reading /\ fileptr = 0 /\ taken = <<>>
    BY <1>1 DEF Init, init_file_reading
  <1>3. RowsWithinBounds
    BY <1>2, GeneratedWithinBounds
  <1>4. n_samples \in Nat \ {0} /\ RowBytes \in Nat
    <2>1. n_samples \in Nat \ {0} /\ 1 \in 1 .. n_samples
      BY SamplesAssumption
    <2>2. QED
      BY <1>3, <2>1, RowWidth
  <1>5. 0 \in Nat /\ 0 \in 0 .. n_samples /\ 0 = n_samples * 0 + 0 /\ 0 = 0 * RowBytes
    BY <1>4
  <1>6. Len(taken) = 0 /\ DOMAIN taken = {}
    BY <1>2
  <1>7. QED
    BY <1>2, <1>3, <1>5, <1>6

LEMMA FileStep ==
    ASSUME IInv, FileInv, [Next]_vars
    PROVE  FileInv'
  <1>1. CASE SimulatedSensorSamples
    <2>1. /\ kind = "noise-simulated-sensor" /\ noise_processing(RowRead) /\ ReadRow
          /\ dataset' = dataset
      BY <1>1 DEF SimulatedSensorSamples
    <2>2. RowsWithinBounds /\ \A k \in DOMAIN taken : taken[k] = dataset[((k - 1) % n_samples) + 1]
      BY <2>1 DEF FileInv
    <2>3. PICK q \in Nat, c \in 0 .. n_samples :
            Len(taken) = n_samples * q + c /\ fileptr = c * RowBytes
      BY <2>1 DEF FileInv
    <2>4. PICK d : d = IF c = n_samples THEN 0 ELSE c
      OBVIOUS
    <2>5. RowRead = dataset[d + 1] /\ fileptr' = (d + 1) * RowBytes
      BY <2>1, <2>2, <2>3, <2>4, RowIsRead
    <2>6. PICK reading : reading = RowRead
      OBVIOUS
    <2>7. noise_processing(reading) /\ kind # "mpi"
      BY <2>1, <2>6
    <2>8. /\ Len(taken) \in Nat /\ DOMAIN taken = 1 .. Len(taken)
          /\ Len(taken') = Len(taken) + 1 /\ DOMAIN taken' = 1 .. (Len(taken) + 1)
          /\ taken'[Len(taken) + 1] = reading
          /\ \A k \in 1 .. Len(taken) : taken'[k] = taken[k]
      BY <2>7, ReadingTaken
    <2>9. n_samples \in Nat \ {0}
      BY SamplesAssumption
    <2>10. PICK r \in Nat : Len(taken) = n_samples * r + d
      <3>1. CASE c = n_samples
        <4>1. n_samples * q + n_samples = n_samples * (q + 1) + 0
          BY <2>9
        <4>2. q + 1 \in Nat
          OBVIOUS
        <4>3. QED
          BY <3>1, <4>1, <4>2, <2>3, <2>4
      <3>2. CASE c # n_samples
        BY <3>2, <2>3, <2>4
      <3>3. QED
        BY <3>1, <3>2
    <2>11. d \in 0 .. (n_samples - 1)
      BY <2>3, <2>4, <2>9
    <2>12. Len(taken) % n_samples = d
      BY <2>9, <2>10, <2>11, DivModUnique
    <2>13. /\ Len(taken') = n_samples * r + (d + 1) /\ d + 1 \in 0 .. n_samples
      <3>1. n_samples * r \in Nat
        BY <2>9
      <3>2. QED
        BY <3>1, <2>8, <2>9, <2>10, <2>11
    <2>14. RowsWithinBounds'
      BY <2>1, <2>2 DEF RowsWithinBounds
    <2>15. ASSUME NEW k \in DOMAIN taken'
           PROVE  taken'[k] = dataset'[((k - 1) % n_samples) + 1]
      <3>1. CASE k = Len(taken) + 1
        <4>1. k - 1 = Len(taken)
          BY <3>1, <2>8
        <4>2. QED
          BY <3>1, <4>1, <2>1, <2>5, <2>6, <2>8, <2>12
      <3>2. CASE k # Len(taken) + 1
        <4>1. k \in 1 .. Len(taken)
          BY <3>2, <2>8, <2>15
        <4>2. QED
          BY <4>1, <2>1, <2>2, <2>8
      <3>3. QED
        BY <3>1, <3>2
    <2>16. QED
      BY <2>5, <2>13, <2>14, <2>15 DEF FileInv
  <1>2. CASE SensorSamples \/ RankPublishes
    <2>1. kind' # "noise-simulated-sensor"
      BY <1>2 DEF SensorSamples, RankPublishes, noise_processing
    <2>2. QED
      BY <2>1 DEF FileInv
  <1>3. CASE UNCHANGED <<kind, noise_values, position, dataset, fileptr, taken, said>>
    BY <1>3 DEF FileInv, RowsWithinBounds
  <1>4. QED
    BY <1>1, <1>2, <1>3, OnlySamplesTell

LEMMA FileInvariant == Spec => []FileInv
  <1>1. IInv /\ FileInv /\ [Next]_vars => FileInv'
    BY FileStep
  <1>2. QED
    BY <1>1, FileInit, IInvHolds, PTL DEF Spec

\* The virtual sensor never reads across the end of a row and replays its file from
\* the first row to the last, over and over, for every number of rows and of readings,
\* because all rows the generator can write are equally long
\* (noise-simulated-sensor.c 320-336, dataset-generator.py 39-48).
THEOREM FileIsReplayed == Spec => []Replays
  <1>1. FileInv => Replays
    BY DEF FileInv, Replays
  <1>2. QED
    BY <1>1, FileInvariant, PTL

-----------------------------------------------------------------------------
(* What the window holds.                                                  *)

\* How many readings ago place i was written when the next goes to place p.
AgeOf(p, i) == IF i < p THEN p - 1 - i ELSE p - 1 - i + MAX_WINDOW_SIZE

LEMMA AgeTypes ==
    ASSUME NEW p \in Ring, NEW i \in Ring
    PROVE  AgeOf(p, i) \in Ring
  BY WindowAssumption DEF Ring, AgeOf

LEMMA AgesDiffer ==
    ASSUME NEW p \in Ring, NEW i \in Ring, NEW j \in Ring, AgeOf(p, i) = AgeOf(p, j)
    PROVE  i = j
  BY WindowAssumption DEF Ring, AgeOf

LEMMA EveryAge ==
    ASSUME NEW p \in Ring, NEW a \in Ring
    PROVE  \E i \in Ring : AgeOf(p, i) = a
  <1> DEFINE W == MAX_WINDOW_SIZE
             i == IF a < p THEN p - 1 - a ELSE p - 1 - a + W
  <1>1. W \in Nat \ {0} /\ p \in 0 .. (W - 1) /\ a \in 0 .. (W - 1)
    BY WindowAssumption DEF Ring
  <1>2. i \in 0 .. (W - 1) /\ AgeOf(p, i) = a
    BY <1>1 DEF AgeOf
  <1>3. QED
    BY <1>2 DEF Ring

\* The ring values, next place p, holds the last of the n readings of t and 0 in the
\* places not yet filled.
RingHolds(values, p, t, n) ==
    /\ p \in Ring /\ DOMAIN values = Ring
    /\ \A i \in Ring : values[i] = IF AgeOf(p, i) < n THEN t[n - AgeOf(p, i)].noise ELSE 0

\* What a sensor that publishes after n readings has heard.
LoudIn(t, n) == SumFunctionOnSet([j \in Recent(n) |-> t[j].noise], Recent(n))

LEMMA RecentFinite ==
    ASSUME NEW n \in Nat
    PROVE  IsFiniteSet(Recent(n)) /\ Recent(n) \subseteq 1 .. n
  <1>1. 1 \in Int /\ n \in Int
    OBVIOUS
  <1>2. IsFiniteSet(1 .. n)
    BY <1>1, FS_Interval
  <1>3. Recent(n) \subseteq 1 .. n
    BY DEF Recent
  <1>4. QED
    BY <1>2, <1>3, FS_Subset

LEMMA RingFinite == IsFiniteSet(Ring)
  <1>1. PICK m \in Int : m = MAX_WINDOW_SIZE - 1
    BY WindowAssumption
  <1>2. 0 \in Int
    OBVIOUS
  <1>3. IsFiniteSet(0 .. m)
    BY <1>2, FS_Interval
  <1>4. QED
    BY <1>1, <1>3 DEF Ring

\* A reading x goes to place p.
LEMMA RingTurns ==
    ASSUME NEW values, NEW p, NEW t, NEW n \in Nat, RingHolds(values, p, t, n),
           NEW x, NEW u, u[n + 1].noise = x, \A j \in 1 .. n : u[j] = t[j]
    PROVE  RingHolds([values EXCEPT ![p] = x], (p + 1) % MAX_WINDOW_SIZE, u, n + 1)
  <1> DEFINE W == MAX_WINDOW_SIZE
             after == [values EXCEPT ![p] = x]
  <1>1. p \in Ring /\ DOMAIN values = Ring
    BY DEF RingHolds
  <1>2. W \in Nat \ {0} /\ \A i \in Ring : i \in Int /\ 0 <= i /\ i <= W - 1
    BY WindowAssumption DEF Ring
  <1>3. PICK q : q = IF p = W - 1 THEN 0 ELSE p + 1
    OBVIOUS
  <1>4. q = (p + 1) % W /\ q \in Ring
    <2>1. q = (p + 1) % W
      BY <1>1, <1>3, NextPlace
    <2>2. q \in Ring
      BY <1>1, <1>2, <1>3 DEF Ring
    <2>3. QED
      BY <2>1, <2>2
  <1>5. DOMAIN after = Ring /\ after[p] = x /\ \A i \in Ring : i # p => after[i] = values[i]
    BY <1>1
  <1>6. ASSUME NEW i \in Ring
        PROVE  after[i] = IF AgeOf(q, i) < n + 1 THEN u[(n + 1) - AgeOf(q, i)].noise ELSE 0
    <2>1. CASE i = p
      <3>1. AgeOf(q, i) = 0
        BY <2>1, <1>1, <1>2, <1>3 DEF AgeOf
      <3>2. 0 < n + 1 /\ (n + 1) - 0 = n + 1
        OBVIOUS
      <3> HIDE DEF after
      <3>3. QED
        BY <2>1, <3>1, <3>2, <1>5
    <2>2. CASE i # p
      <3>1. i \in Int /\ 0 <= i /\ i <= W - 1 /\ p \in Int /\ 0 <= p /\ p <= W - 1
        BY <1>1, <1>2
      <3>2. AgeOf(q, i) = AgeOf(p, i) + 1 /\ AgeOf(p, i) \in Nat
        <4>1. CASE p = W - 1
          BY <2>2, <3>1, <4>1, <1>2, <1>3 DEF AgeOf
        <4>2. CASE p # W - 1
          BY <2>2, <3>1, <4>2, <1>2, <1>3 DEF AgeOf
        <4>3. QED
          BY <4>1, <4>2
      <3>3. PICK a \in Nat : a = AgeOf(p, i)
        BY <3>2
      <3>4. after[i] = values[i]
        BY <2>2, <1>5
      <3>5. values[i] = IF a < n THEN t[n - a].noise ELSE 0
        BY <3>3 DEF RingHolds
      <3>6. a < n => u[n - a] = t[n - a]
        <4>1. a < n => n - a \in 1 .. n
          OBVIOUS
        <4>2. QED
          BY <4>1
      <3>7. (a < n <=> a + 1 < n + 1) /\ (n + 1) - (a + 1) = n - a
        OBVIOUS
      <3> HIDE DEF after
      <3>8. QED
        BY <3>2, <3>3, <3>4, <3>5, <3>6, <3>7
    <2>3. QED
      BY <2>1, <2>2
  <1> HIDE DEF after
  <1>7. RingHolds(after, q, u, n + 1)
    <2>1. \A i \in Ring : after[i] = IF AgeOf(q, i) < n + 1 THEN u[(n + 1) - AgeOf(q, i)].noise ELSE 0
      BY <1>6
    <2>2. QED
      BY <1>4, <1>5, <2>1 DEF RingHolds
  <1>8. QED
    BY <1>4, <1>7 DEF after

\* The ring's sum follows the sum of the recent readings.
LEMMA SumFollows ==
    ASSUME NEW values, NEW p, NEW t, NEW n \in Nat, RingHolds(values, p, t, n),
           NEW x \in Int, NEW u, u[n + 1].noise = x, \A j \in 1 .. n : u[j] = t[j],
           \A j \in 1 .. n : t[j].noise \in Int,
           SumFunctionOnSet(values, Ring) = LoudIn(t, n)
    PROVE  SumFunctionOnSet([values EXCEPT ![p] = x], Ring) = LoudIn(u, n + 1)
  <1> DEFINE W == MAX_WINDOW_SIZE
             after == [values EXCEPT ![p] = x]
             f == [j \in Recent(n) |-> t[j].noise]
             g == [j \in Recent(n + 1) |-> u[j].noise]
             C == Recent(n + 1) \ {n + 1}
             rest == Ring \ {p}
  <1>1. W \in Nat \ {0} /\ n + 1 \in Nat
    BY WindowAssumption
  <1>2. p \in Ring /\ DOMAIN values = Ring
    BY DEF RingHolds
  <1>3. /\ IsFiniteSet(Ring) /\ IsFiniteSet(Recent(n)) /\ Recent(n) \subseteq 1 .. n
        /\ IsFiniteSet(Recent(n + 1)) /\ Recent(n + 1) \subseteq 1 .. (n + 1)
    BY <1>1, RecentFinite, RingFinite
  <1>4. C = {j \in 1 .. n : j > n + 1 - W} /\ n + 1 \in Recent(n + 1)
    BY <1>1 DEF Recent
  <1>5. IsFiniteSet(C) /\ IsFiniteSet(rest)
    BY <1>3, FS_RemoveElement
  <1>6. ASSUME NEW i \in Ring PROVE values[i] \in Int
    <2>1. PICK a \in Nat : a = AgeOf(p, i)
      BY <1>2, <1>6, AgeTypes, WindowAssumption DEF Ring
    <2>2. values[i] = IF a < n THEN t[n - a].noise ELSE 0
      BY <1>6, <2>1 DEF RingHolds
    <2>3. a < n => n - a \in 1 .. n
      OBVIOUS
    <2>4. QED
      BY <2>2, <2>3
  <1>7. SumFunctionOnSet(values, Ring) = values[p] + SumFunctionOnSet(values, rest)
    BY <1>2, <1>3, <1>6, SumWithout
  <1>8. SumFunctionOnSet(after, Ring) = x + SumFunctionOnSet(values, rest)
    <2>1. after[p] = x /\ \A i \in rest : after[i] = values[i]
      BY <1>2
    <2>2. \A i \in Ring : after[i] \in Int
      BY <1>6, <2>1
    <2> HIDE DEF after
    <2>3. SumFunctionOnSet(after, Ring) = after[p] + SumFunctionOnSet(after, rest)
      BY <1>2, <1>3, <2>2, SumWithout
    <2>4. SumFunctionOnSet(after, rest) = SumFunctionOnSet(values, rest)
      BY <1>5, <2>1, SumsAlike
    <2>5. QED
      BY <2>1, <2>3, <2>4
  <1>9. /\ \A j \in Recent(n) : f[j] = t[j].noise /\ f[j] \in Int
        /\ g[n + 1] = x
        /\ \A j \in C : g[j] = u[j].noise /\ u[j] = t[j] /\ g[j] \in Int
    BY <1>3, <1>4
  <1>10. \A j \in Recent(n + 1) : g[j] \in Int
    BY <1>9
  <1> HIDE DEF f, g
  <1>11. SumFunctionOnSet(g, Recent(n + 1)) = x + SumFunctionOnSet(g, C)
    BY <1>3, <1>4, <1>9, <1>10, SumWithout
  <1>12. C \subseteq Recent(n)
    BY <1>1, <1>4 DEF Recent
  <1>13. SumFunctionOnSet(g, C) = SumFunctionOnSet(f, C)
    <2>1. \A j \in C : g[j] = f[j]
      BY <1>9, <1>12
    <2> HIDE DEF C
    <2>2. QED
      BY <2>1, <1>5, SumsAlike
  <1>14. AgeOf(p, p) = W - 1
    BY <1>1, <1>2 DEF AgeOf, Ring
  <1>15. values[p] = IF W - 1 < n THEN t[n - (W - 1)].noise ELSE 0
    BY <1>2, <1>14 DEF RingHolds
  <1>16. SumFunctionOnSet(f, Recent(n)) = values[p] + SumFunctionOnSet(f, C)
    <2>1. SumFunctionOnSet(f, C) \in Int
      <3>1. \A j \in C : f[j] \in Int
        BY <1>9, <1>12
      <3>2. QED
        BY <1>5, <3>1, SumType
    <2>2. CASE W - 1 < n
      <3>1. PICK o \in Nat : o = n - (W - 1)
        BY <1>1, <2>2
      <3>2. o \in Recent(n) /\ Recent(n) \ {o} = C
        BY <3>1, <1>1, <1>4, <2>2 DEF Recent
      <3>3. f[o] = t[o].noise /\ values[p] = t[o].noise
        BY <3>1, <3>2, <1>9, <1>15, <2>2
      <3> HIDE DEF C
      <3>4. SumFunctionOnSet(f, Recent(n)) = f[o] + SumFunctionOnSet(f, Recent(n) \ {o})
        BY <1>3, <1>9, <3>2, SumWithout
      <3>5. QED
        BY <3>2, <3>3, <3>4
    <2>3. CASE ~ (W - 1 < n)
      <3>1. Recent(n) = C
        BY <1>1, <1>4, <2>3 DEF Recent
      <3>2. values[p] = 0
        BY <1>15, <2>3
      <3> HIDE DEF C
      <3>3. QED
        BY <3>1, <3>2, <2>1
    <2>4. QED
      BY <2>2, <2>3
  <1>17. /\ values[p] \in Int
         /\ SumFunctionOnSet(values, rest) \in Int /\ SumFunctionOnSet(f, C) \in Int
    <2>1. \A i \in rest : values[i] \in Int
      BY <1>6
    <2>2. \A j \in C : f[j] \in Int
      BY <1>9, <1>12
    <2> HIDE DEF C, rest
    <2>3. QED
      BY <2>1, <2>2, <1>2, <1>5, <1>6, SumType
  <1>18. SumFunctionOnSet(values, rest) = SumFunctionOnSet(f, C)
    <2>1. SumFunctionOnSet(values, Ring) = SumFunctionOnSet(f, Recent(n))
      BY DEF LoudIn, f
    <2>2. PICK a \in Int, b \in Int, c \in Int :
             /\ a = values[p] /\ b = SumFunctionOnSet(values, rest) /\ c = SumFunctionOnSet(f, C)
      BY <1>17
    <2>3. a + b = a + c
      BY <2>1, <2>2, <1>7, <1>16
    <2>4. b = c
      BY <2>3
    <2>5. QED
      BY <2>2, <2>4
  <1>19. LoudIn(u, n + 1) = x + SumFunctionOnSet(f, C)
    BY <1>11, <1>13 DEF LoudIn, g
  <1>20. QED
    BY <1>8, <1>18, <1>19

\* "%.2f" is off by half a hundredth at most.
LEMMA Rounded ==
    ASSUME NEW sum \in Nat
    PROVE  LET avg == publish_avg(sum).noise[1]
           IN  /\ avg \in Nat
               /\ 2 * (avg * MAX_WINDOW_SIZE - 100 * sum) \in (- MAX_WINDOW_SIZE) .. MAX_WINDOW_SIZE
  <1>1. PICK w \in Nat \ {0} : w = MAX_WINDOW_SIZE
    BY WindowAssumption
  <1>2. PICK h \in Nat : h = w \div 2 /\ 2 * h <= w /\ w <= 2 * h + 1
    <2>1. w \div 2 \in Nat /\ w % 2 \in 0 .. 1 /\ w = 2 * (w \div 2) + (w % 2)
      OBVIOUS
    <2>2. QED
      BY <2>1
  <1>3. PICK c \in Nat : c = 100 * sum + h
    OBVIOUS
  <1>4. PICK q \in Nat, r \in 0 .. (w - 1) : q = c \div w /\ c = (w * q) + r
    BY DivMod
  <1>5. publish_avg(sum).noise[1] = q
    BY <1>1, <1>2, <1>3, <1>4 DEF publish_avg
  <1>6. PICK m \in Nat : m = w * q /\ m = q * w
    BY w * q \in Nat /\ w * q = q * w
  <1>7. 2 * (m - 100 * sum) \in (- w) .. w
    BY <1>2, <1>3, <1>4, <1>6
  <1>8. QED
    BY <1>1, <1>5, <1>6, <1>7

\* The places of a published ring with value v, and the recent readings of v.
PlacesWith(values, v) == {i \in 1 .. MAX_WINDOW_SIZE : 100 * values[i - 1] = v}
ReadingsOf(t, n, v) == {j \in Recent(n) : 100 * t[j].noise = v}

\* A value is in the ring as often as it is among the recent readings.
LEMMA RingCounts ==
    ASSUME NEW values, NEW p, NEW t, NEW n \in Nat, RingHolds(values, p, t, n),
           NEW v, v # 0
    PROVE  Cardinality(PlacesWith(values, v)) = Cardinality(ReadingsOf(t, n, v))
  <1> DEFINE W == MAX_WINDOW_SIZE
             A == {i \in 1 .. W : 100 * values[i - 1] = v}
             B == {j \in Recent(n) : 100 * t[j].noise = v}
             f == [i \in A |-> n - AgeOf(p, i - 1)]
  <1>1. W \in Nat \ {0} /\ p \in Ring
    BY WindowAssumption DEF RingHolds
  <1>2. \A i \in 1 .. W : i - 1 \in Ring
    BY <1>1 DEF Ring
  <1>3. \A a \in Ring : a \in Nat /\ a < W
    BY <1>1 DEF Ring
  <1>4. ASSUME NEW i \in A PROVE f[i] \in B
    <2>1. i \in 1 .. W /\ i - 1 \in Ring /\ 100 * values[i - 1] = v
      BY <1>2
    <2>2. PICK a \in Nat : a = AgeOf(p, i - 1) /\ a < W
      BY <2>1, <1>1, <1>3, AgeTypes
    <2>3. values[i - 1] = IF a < n THEN t[n - a].noise ELSE 0
      BY <2>1, <2>2 DEF RingHolds
    <2>4. a < n
      BY <2>1, <2>3
    <2>5. n - a \in Recent(n)
      BY <2>2, <2>4, <1>1 DEF Recent
    <2>6. f[i] = n - a
      BY <2>2
    <2>7. QED
      BY <2>1, <2>3, <2>4, <2>5, <2>6
  <1>5. ASSUME NEW i \in A, NEW j \in A, f[i] = f[j] PROVE i = j
    <2>1. i \in 1 .. W /\ j \in 1 .. W /\ i - 1 \in Ring /\ j - 1 \in Ring
      BY <1>2
    <2>2. PICK a \in Nat, b \in Nat : a = AgeOf(p, i - 1) /\ b = AgeOf(p, j - 1)
      BY <2>1, <1>1, <1>3, AgeTypes
    <2>3. n - a = n - b
      BY <1>5, <2>2
    <2>4. a = b
      BY <2>3
    <2>5. i - 1 = j - 1
      BY <2>1, <2>2, <2>4, <1>1, AgesDiffer
    <2>6. QED
      BY <2>1, <2>5
  <1>6. ASSUME NEW j \in B PROVE \E i \in A : f[i] = j
    <2>1. j \in Recent(n) /\ 100 * t[j].noise = v
      OBVIOUS
    <2>2. j \in Nat /\ j <= n /\ j > n - W /\ j >= 1
      BY <2>1, <1>1 DEF Recent
    <2>3. PICK a \in Ring : a = n - j
      BY <2>2, <1>1 DEF Ring
    <2>4. PICK o \in Ring : AgeOf(p, o) = a
      BY <1>1, EveryAge
    <2>5. values[o] = IF a < n THEN t[n - a].noise ELSE 0
      BY <2>4 DEF RingHolds
    <2>6. a < n /\ n - a = j
      BY <2>2, <2>3
    <2>7. values[o] = t[j].noise
      BY <2>5, <2>6
    <2>8. PICK i \in 1 .. W : i - 1 = o
      <3>1. o + 1 \in 1 .. W /\ (o + 1) - 1 = o
        BY <1>1 DEF Ring
      <3>2. QED
        BY <3>1
    <2>9. i \in A
      BY <2>1, <2>7, <2>8
    <2>10. f[i] = j
      BY <2>4, <2>6, <2>8, <2>9
    <2>11. QED
      BY <2>9, <2>10
  <1>7. f = [i \in A |-> f[i]]
    OBVIOUS
  <1>8. IsFiniteSet(B)
    <2>1. B \in SUBSET Recent(n)
      OBVIOUS
    <2>2. IsFiniteSet(Recent(n))
      BY RecentFinite
    <2> HIDE DEF B
    <2>3. QED
      BY <2>1, <2>2, FS_Subset
  <1> HIDE DEF A, B, f
  <1>9. f \in Injection(A, B)
    BY <1>4, <1>5, <1>7 DEF Injection, IsInjective
  <1>10. f \in Surjection(A, B)
    BY <1>4, <1>6, <1>7 DEF Surjection
  <1>11. Cardinality(A) = Cardinality(B)
    BY <1>8, <1>9, <1>10, FS_Injection
  <1>12. QED
    BY <1>11 DEF A, B, PlacesWith, ReadingsOf

\* Message m tells of the readings t up to sample k.
Tells(m, t, k) ==
    \/ /\ m.mode = "avg" /\ LoudIn(t, k) < MAX_WINDOW_SIZE * AVG_THRESHOLD_DB
       /\ 2 * (m.noise[1] * MAX_WINDOW_SIZE - 100 * LoudIn(t, k))
              \in (- MAX_WINDOW_SIZE) .. MAX_WINDOW_SIZE
    \/ /\ m.mode = "raw" /\ LoudIn(t, k) >= MAX_WINDOW_SIZE * AVG_THRESHOLD_DB
       /\ Len(m.noise) = MAX_WINDOW_SIZE
       /\ \A v \in {m.noise[i] : i \in DOMAIN m.noise} \ {0} :
              Cardinality({i \in DOMAIN m.noise : m.noise[i] = v})
                = Cardinality({j \in Recent(k) : 100 * t[j].noise = v})

LEMMA StillTells ==
    ASSUME NEW m, NEW t, NEW u, NEW k \in Nat, \A j \in 1 .. k : u[j] = t[j], Tells(m, t, k)
    PROVE  Tells(m, u, k)
  <1>1. \A j \in Recent(k) : u[j] = t[j]
    BY DEF Recent
  <1>2. [j \in Recent(k) |-> u[j].noise] = [j \in Recent(k) |-> t[j].noise]
    BY <1>1
  <1>3. LoudIn(u, k) = LoudIn(t, k)
    BY <1>2 DEF LoudIn
  <1>4. \A v : {j \in Recent(k) : 100 * u[j].noise = v} = {j \in Recent(k) : 100 * t[j].noise = v}
    BY <1>1
  <1>5. QED
    BY <1>3, <1>4 DEF Tells

\* What publish_noise makes of the ring.
LEMMA PublishTells ==
    ASSUME NEW values, NEW p, NEW t, NEW n \in Nat, RingHolds(values, p, t, n),
           SumFunctionOnSet(values, Ring) = LoudIn(t, n), LoudIn(t, n) \in Nat,
           NEW m, m.mode = publish_noise(values).mode, m.noise = publish_noise(values).noise
    PROVE  Tells(m, t, n)
  <1> DEFINE W == MAX_WINDOW_SIZE
  <1>1. PICK sum \in Nat : sum = LoudIn(t, n)
    OBVIOUS
  <1>2. SumFunction(values) = sum
    BY <1>1 DEF SumFunction, RingHolds
  <1>3. W \in Nat \ {0} /\ AVG_THRESHOLD_DB \in Nat
    BY WindowAssumption
  <1>4. PICK limit \in Nat : limit = W * AVG_THRESHOLD_DB
    BY <1>3
  <1>5. CASE sum < limit
    <2>1. publish_noise(values) = publish_avg(sum)
      BY <1>2, <1>4, <1>5 DEF publish_noise
    <2>2. publish_avg(sum).mode = "avg"
      BY DEF publish_avg
    <2>3. 2 * (publish_avg(sum).noise[1] * W - 100 * sum) \in (- W) .. W
      BY Rounded
    <2>4. QED
      BY <2>1, <2>2, <2>3, <1>1, <1>4, <1>5 DEF Tells
  <1>6. CASE ~ (sum < limit)
    <2>1. publish_noise(values) = publish_raw(values)
      BY <1>2, <1>4, <1>6 DEF publish_noise
    <2>2. m.mode = "raw" /\ m.noise = [i \in 1 .. W |-> 100 * values[i - 1]]
      BY <2>1 DEF publish_raw
    <2>3. sum >= limit
      BY <1>6
    <2>4. Len(m.noise) = W /\ DOMAIN m.noise = 1 .. W
      BY <2>2, <1>3
    <2>5. ASSUME NEW v, v # 0
          PROVE  Cardinality({i \in DOMAIN m.noise : m.noise[i] = v})
                   = Cardinality({j \in Recent(n) : 100 * t[j].noise = v})
      <3>1. {i \in DOMAIN m.noise : m.noise[i] = v} = PlacesWith(values, v)
        BY <2>2, <2>4 DEF PlacesWith
      <3>2. Cardinality(PlacesWith(values, v)) = Cardinality(ReadingsOf(t, n, v))
        BY <2>5, RingCounts
      <3>3. QED
        BY <3>1, <3>2 DEF ReadingsOf
    <2>6. \A v \in {m.noise[i] : i \in DOMAIN m.noise} \ {0} :
              Cardinality({i \in DOMAIN m.noise : m.noise[i] = v})
                = Cardinality({j \in Recent(n) : 100 * t[j].noise = v})
      BY <2>5
    <2>7. LoudIn(t, n) >= MAX_WINDOW_SIZE * AVG_THRESHOLD_DB
      BY <2>3, <1>1, <1>4
    <2>8. QED
      BY <2>2, <2>4, <2>6, <2>7, Zenon DEF Tells
  <1>7. QED
    BY <1>5, <1>6

WindowInv ==
    /\ \A k \in DOMAIN taken : taken[k].noise \in Nat
    /\ kind # "mpi" => /\ RingHolds(noise_values, position, taken, Len(taken))
                       /\ SumFunctionOnSet(noise_values, Ring) = LoudIn(taken, Len(taken))
                       /\ \A k \in DOMAIN said : Tells(said[k], taken, k)

LEMMA WindowInit == Init => WindowInv
  <1> SUFFICES ASSUME Init PROVE WindowInv
    OBVIOUS
  <1>1. /\ taken = <<>> /\ said = <<>> /\ position = 0 /\ noise_values = [i \in Ring |-> 0]
    BY DEF Init, init_noise_values
  <1>2. DOMAIN taken = {} /\ DOMAIN said = {} /\ Len(taken) = 0
    BY <1>1
  <1>3. 0 \in Ring /\ \A i \in Ring : AgeOf(0, i) \in Nat
    <2>1. 0 \in Ring /\ \A a \in Ring : a \in Nat
      BY WindowAssumption DEF Ring
    <2>2. QED
      BY <2>1, AgeTypes
  <1>4. RingHolds(noise_values, position, taken, Len(taken))
    <2>1. \A i \in Ring : ~ (AgeOf(0, i) < 0)
      BY <1>3
    <2>2. QED
      BY <1>1, <1>2, <1>3, <2>1 DEF RingHolds
  <1>5. Recent(0) = {}
    BY DEF Recent
  <1>6. LoudIn(taken, 0) = 0
    BY <1>5, SumOfNone DEF LoudIn
  <1>7. SumFunctionOnSet(noise_values, Ring) = 0
    <2> DEFINE T == {s \in SUBSET Ring : SumFunctionOnSet(noise_values, s) # 0}
    <2>1. \A i \in Ring : noise_values[i] = 0
      BY <1>1
    <2>2. QED
      BY <2>1, RingFinite, SumOfZeros
  <1>8. QED
    BY <1>2, <1>4, <1>6, <1>7 DEF WindowInv

LEMMA LoudType ==
    ASSUME NEW t, NEW n \in Nat, \A j \in 1 .. n : t[j].noise \in Nat
    PROVE  LoudIn(t, n) \in Nat
  <1> DEFINE f == [j \in Recent(n) |-> t[j].noise]
  <1>1. IsFiniteSet(Recent(n)) /\ Recent(n) \subseteq 1 .. n
    BY RecentFinite
  <1>2. \A j \in Recent(n) : f[j] \in Nat
    BY <1>1
  <1> HIDE DEF f
  <1>3. SumFunctionOnSet(f, Recent(n)) \in Nat
    BY <1>1, <1>2, SumType
  <1>4. QED
    BY <1>3 DEF LoudIn, f

\* A sensor takes a reading and publishes its window.
LEMMA WindowSample ==
    ASSUME IInv, WindowInv, NEW reading, noise_processing(reading), kind # "mpi",
           reading.noise \in Nat
    PROVE  WindowInv'
  <1> DEFINE n == Len(taken)
             x == reading.noise
  <1>1. /\ n \in Nat /\ DOMAIN taken = 1 .. n
        /\ Len(taken') = n + 1 /\ DOMAIN taken' = 1 .. (n + 1)
        /\ taken'[n + 1] = reading
        /\ \A k \in 1 .. n : taken'[k] = taken[k]
    BY ReadingTaken
  <1>2. /\ RingHolds(noise_values, position, taken, n)
        /\ SumFunctionOnSet(noise_values, Ring) = LoudIn(taken, n)
        /\ \A k \in DOMAIN said : Tells(said[k], taken, k)
        /\ \A k \in 1 .. n : taken[k].noise \in Nat
    BY <1>1 DEF WindowInv
  <1>3. /\ noise_values' = [noise_values EXCEPT ![position] = x]
        /\ position' = (position + 1) % MAX_WINDOW_SIZE /\ kind' = kind
    BY DEF noise_processing, TakeReading
  <1>4. PICK m : /\ m = Message(publish_noise(noise_values'), reading.at)
                 /\ NewSample(reading, m)
    BY SensorStep
  <1>5. /\ DOMAIN said' = DOMAIN said \cup {n + 1} /\ said'[n + 1] = m
        /\ DOMAIN said = 1 .. n /\ \A k \in DOMAIN said : said'[k] = said[k]
    <2>1. /\ DOMAIN said' = DOMAIN said \cup {m.sample} /\ said'[m.sample] = m
          /\ m.sample = Len(said) + 1 /\ n = Len(said) /\ DOMAIN said = 1 .. Len(said)
          /\ \A k \in DOMAIN said : said'[k] = said[k]
      BY <1>4, SampleGrows
    <2>2. QED
      BY <2>1
  <1>6. m.mode = publish_noise(noise_values').mode /\ m.noise = publish_noise(noise_values').noise
    BY <1>4 DEF Message
  <1>7. PICK u, values, p : u = taken' /\ values = noise_values' /\ p = position'
    OBVIOUS
  <1>8. /\ u[n + 1].noise = x /\ x \in Int /\ \A j \in 1 .. n : u[j] = taken[j]
        /\ \A j \in 1 .. n : taken[j].noise \in Int
    BY <1>1, <1>2, <1>7
  <1>9. RingHolds(values, p, u, n + 1)
    BY <1>1, <1>2, <1>3, <1>7, <1>8, RingTurns
  <1>10. SumFunctionOnSet(values, Ring) = LoudIn(u, n + 1)
    <2>1. values = [noise_values EXCEPT ![position] = x]
      BY <1>3, <1>7
    <2> HIDE DEF x, n
    <2>2. SumFunctionOnSet([noise_values EXCEPT ![position] = x], Ring) = LoudIn(u, n + 1)
      BY <1>1, <1>2, <1>8, SumFollows
    <2>3. QED
      BY <2>1, <2>2
  <1>11. \A j \in 1 .. (n + 1) : u[j].noise \in Nat
    <2>1. SUFFICES ASSUME NEW j \in 1 .. (n + 1) PROVE u[j].noise \in Nat
      OBVIOUS
    <2>2. j \in 1 .. n \/ j = n + 1
      BY <1>1
    <2>3. QED
      BY <2>2, <1>2, <1>8
  <1>12. LoudIn(u, n + 1) \in Nat
    BY <1>1, <1>11, LoudType
  <1>13. Tells(m, u, n + 1)
    BY <1>1, <1>6, <1>7, <1>9, <1>10, <1>12, PublishTells
  <1>14. ASSUME NEW k \in DOMAIN said PROVE Tells(said[k], u, k)
    <2>1. k \in Nat /\ \A j \in 1 .. k : u[j] = taken[j]
      BY <1>1, <1>5, <1>8
    <2>2. QED
      BY <2>1, <1>2, StillTells
  <1>15. \A k \in DOMAIN said' : Tells(said'[k], u, k)
    BY <1>5, <1>13, <1>14
  <1>16. (LoudIn(taken, Len(taken)))' = LoudIn(u, n + 1)
    BY <1>1, <1>7 DEF LoudIn, Recent
  <1>17. (RingHolds(noise_values, position, taken, Len(taken)))' = RingHolds(values, p, u, n + 1)
    BY <1>1, <1>7 DEF RingHolds, AgeOf, Ring
  <1>18. (\A k \in DOMAIN said : Tells(said[k], taken, k))' = \A k \in DOMAIN said' : Tells(said'[k], u, k)
    BY <1>7 DEF Tells, LoudIn, Recent
  <1>19. QED
    BY <1>1, <1>7, <1>9, <1>10, <1>11, <1>15, <1>16, <1>17, <1>18 DEF WindowInv

LEMMA WindowStep ==
    ASSUME IInv, FileInv, WindowInv, [Next]_vars
    PROVE  WindowInv'
  <1>1. CASE SensorSamples
    <2>1. PICK rssi \in Rssi : noise_processing([noise |-> rssi + 110, at |-> spot])
      BY <1>1 DEF SensorSamples
    <2>2. PICK reading : reading = [noise |-> rssi + 110, at |-> spot]
      OBVIOUS
    <2>3. noise_processing(reading) /\ kind # "mpi" /\ reading.noise \in Nat
      BY <1>1, <2>1, <2>2, LevelsAssumption DEF SensorSamples
    <2>4. QED
      BY <2>3, WindowSample
  <1>2. CASE SimulatedSensorSamples
    <2>1. PICK reading : reading = RowRead
      OBVIOUS
    <2>2. noise_processing(reading) /\ kind = "noise-simulated-sensor"
      BY <1>2, <2>1 DEF SimulatedSensorSamples
    <2>3. RowsWithinBounds
      BY <2>2 DEF FileInv
    <2>4. PICK q \in Nat, c \in 0 .. n_samples :
            Len(taken) = n_samples * q + c /\ fileptr = c * RowBytes
      BY <2>2 DEF FileInv
    <2>5. PICK d : d = IF c = n_samples THEN 0 ELSE c
      OBVIOUS
    <2>6. reading = dataset[d + 1]
      BY <2>1, <2>3, <2>4, <2>5, RowIsRead
    <2>7. d + 1 \in 1 .. n_samples
      BY <2>4, <2>5, SamplesAssumption
    <2>8. reading.noise \in Nat
      BY <2>3, <2>6, <2>7, WalkAssumption DEF RowsWithinBounds, Noises
    <2>9. QED
      BY <2>2, <2>8, WindowSample
  <1>3. CASE RankPublishes
    <2>1. PICK level \in Levels, at \in Squares :
            taken' = Append(taken, [noise |-> level, at |-> at])
      BY <1>3 DEF RankPublishes, Recorded
    <2>2. kind' = "mpi" /\ IsSeq(taken) /\ level \in Nat
      BY <1>3, LevelsAssumption DEF RankPublishes, IInv, Histories
    <2>0. PICK reading : reading = [noise |-> level, at |-> at]
      OBVIOUS
    <2>3. reading = [noise |-> level, at |-> at] /\ reading.noise \in Nat
      BY <2>2, <2>0
    <2>4. /\ DOMAIN taken = 1 .. Len(taken) /\ DOMAIN taken' = 1 .. (Len(taken) + 1)
          /\ Len(taken) \in Nat /\ taken'[Len(taken) + 1] = reading
          /\ \A k \in DOMAIN taken : taken'[k] = taken[k]
      BY <2>1, <2>2, <2>3, Appended
    <2>5. \A k \in DOMAIN taken' : k \in DOMAIN taken \/ k = Len(taken) + 1
      BY <2>4
    <2>6. \A k \in DOMAIN taken' : taken'[k].noise \in Nat
      BY <2>3, <2>4, <2>5 DEF WindowInv
    <2>7. QED
      BY <2>2, <2>6 DEF WindowInv
  <1>4. CASE UNCHANGED <<kind, noise_values, position, dataset, fileptr, taken, said>>
    BY <1>4 DEF WindowInv
  <1>5. QED
    BY <1>1, <1>2, <1>3, <1>4, OnlySamplesTell

LEMMA WindowInvariant == Spec => []WindowInv
  <1>1. IInv /\ FileInv /\ WindowInv /\ [Next]_vars => WindowInv'
    BY WindowStep
  <1>2. QED
    BY <1>1, WindowInit, IInvHolds, FileInvariant, PTL DEF Spec

\* What a sensor publishes is the average, to the hundredth, or the whole of its last
\* MAX_WINDOW_SIZE readings, for every size of the window, every threshold and any
\* number of readings (noise-sensor.c 274-320, 445-452).
THEOREM WindowsAreTold == Spec => []TellsTheWindow
  <1>1. WindowInv => TellsTheWindow
    BY DEF WindowInv, TellsTheWindow, Tells, LoudIn
  <1>2. QED
    BY <1>1, WindowInvariant, PTL

-----------------------------------------------------------------------------
(* Types.                                                                  *)

Clients == {"none", "uninitialised"} \cup Live \cup Useless \cup Missing

WellFormed(m) ==
    /\ DOMAIN m = {"region", "mode", "noise", "at", "sample"}
    /\ m.mode \in {"avg", "raw"} /\ m.noise \in Seq(Nat) /\ DOMAIN m.noise # {}

ProducerShape ==
    /\ position \in Ring /\ noise_values \in [Ring -> Nat] /\ fileptr \in Nat
    /\ client \in Clients
    /\ \A k \in DOMAIN said : WellFormed(said[k])

\* A message whose values are being inserted has some left.
FlowShape == \A f \in BagToSet(flow) : f.stage = "insert" => f.left # {}

ShapeInv == ProducerShape /\ FlowShape /\ lost \subseteq DOMAIN said

\* What publish_noise makes of a ring of naturals.
LEMMA PublishedShape ==
    ASSUME NEW values \in [Ring -> Nat]
    PROVE  LET payload == publish_noise(values)
           IN  /\ payload.mode \in {"avg", "raw"}
               /\ payload.noise \in Seq(Nat) /\ DOMAIN payload.noise # {}
  <1>1. SumFunction(values) \in Nat
    <2>1. DOMAIN values = Ring /\ \A i \in Ring : values[i] \in Nat
      OBVIOUS
    <2>2. SumFunctionOnSet(values, Ring) \in Nat
      BY <2>1, RingFinite, SumType
    <2>3. QED
      BY <2>1, <2>2 DEF SumFunction
  <1>2. PICK sum \in Nat : sum = SumFunction(values)
    BY <1>1
  <1>3. PICK w \in Nat \ {0} : w = MAX_WINDOW_SIZE
    BY WindowAssumption
  <1>4. CASE publish_noise(values) = publish_avg(sum)
    <2>1. PICK avg \in Nat : publish_avg(sum) = [mode |-> "avg", noise |-> <<avg>>]
      <3>1. publish_avg(sum).noise[1] \in Nat
        BY Rounded
      <3>2. QED
        BY <3>1 DEF publish_avg
    <2>2. <<avg>> \in Seq(Nat) /\ 1 \in DOMAIN <<avg>>
      OBVIOUS
    <2>3. QED
      BY <1>4, <2>1, <2>2
  <1>5. CASE publish_noise(values) = publish_raw(values)
    <2>1. PICK s : s = [i \in 1 .. w |-> 100 * values[i - 1]]
      OBVIOUS
    <2>2. \A i \in 1 .. w : 100 * values[i - 1] \in Nat
      <3>1. \A i \in 1 .. w : i - 1 \in Ring
        BY <1>3 DEF Ring
      <3>2. QED
        BY <3>1
    <2>3. s \in [1 .. w -> Nat]
      BY <2>1, <2>2
    <2>4. s \in Seq(Nat) /\ DOMAIN s # {}
      <3>1. s \in Seq(Nat)
        BY <2>3
      <3>2. 1 \in 1 .. w /\ DOMAIN s = 1 .. w
        BY <2>3
      <3>3. QED
        BY <3>1, <3>2
    <2>5. publish_raw(values) = [mode |-> "raw", noise |-> s]
      BY <2>1, <1>3 DEF publish_raw
    <2>6. QED
      BY <1>5, <2>4, <2>5
  <1>6. QED
    BY <1>2, <1>4, <1>5 DEF publish_noise

LEMMA ShapeInit == Init => ShapeInv
  <1> SUFFICES ASSUME Init PROVE ShapeInv
    OBVIOUS
  <1>1. /\ said = <<>> /\ lost = {} /\ BagToSet(flow) = {} /\ fileptr = 0
        /\ position = 0 /\ noise_values = [i \in Ring |-> 0]
        /\ client \in {"uninitialised", "none"}
    BY DEF Init, BackendInit, init_noise_values, init_file_reading, BagToSet, EmptyBag, SetToBag
  <1>2. DOMAIN said = {} /\ 0 \in Ring
    BY <1>1, WindowAssumption DEF Ring
  <1>3. QED
    BY <1>1, <1>2 DEF ShapeInv, ProducerShape, FlowShape, Clients

\* The message of a sample is well formed.
LEMMA SampleShape ==
    ASSUME IInv, ShapeInv, NEW reading, NEW payload, NEW at, NewSample(reading, Message(payload, at)),
           payload.mode \in {"avg", "raw"}, payload.noise \in Seq(Nat), DOMAIN payload.noise # {}
    PROVE  /\ \A k \in DOMAIN said' : WellFormed(said'[k])
           /\ FlowShape' /\ lost' \subseteq DOMAIN said' /\ client' \in Clients
  <1>1. PICK m : m = Message(payload, at)
    OBVIOUS
  <1>2. WellFormed(m)
    BY <1>1 DEF WellFormed, Message
  <1>3. NewSample(reading, m)
    BY <1>1
  <1>4. /\ DOMAIN said' = DOMAIN said \cup {m.sample} /\ said'[m.sample] = m
        /\ \A k \in DOMAIN said : said'[k] = said[k]
    BY <1>3, SampleGrows
  <1>5. /\ client' = client /\ flow' = flow /\ lost' \subseteq lost \cup {m.sample}
    BY <1>3 DEF NewSample, backendVars
  <1>6. /\ \A k \in DOMAIN said : WellFormed(said[k])
        /\ FlowShape /\ lost \subseteq DOMAIN said /\ client \in Clients
    BY DEF ShapeInv, ProducerShape
  <1>7. QED
    BY <1>2, <1>4, <1>5, <1>6 DEF FlowShape

LEMMA SensorShape ==
    ASSUME IInv, ShapeInv, NEW reading, noise_processing(reading), kind # "mpi",
           reading.noise \in Nat, fileptr' \in Nat
    PROVE  ShapeInv'
  <1>1. position \in Ring /\ noise_values \in [Ring -> Nat]
    BY DEF ShapeInv, ProducerShape
  <1>2. /\ noise_values' = [noise_values EXCEPT ![position] = reading.noise]
        /\ position' = IF position = MAX_WINDOW_SIZE - 1 THEN 0 ELSE position + 1
    BY <1>1, NextPlace DEF noise_processing, TakeReading
  <1>3. noise_values' \in [Ring -> Nat] /\ position' \in Ring
    BY <1>1, <1>2, WindowAssumption DEF Ring
  <1>4. PICK values, payload :
            values \in [Ring -> Nat] /\ values = noise_values' /\ payload = publish_noise(values)
    BY <1>3
  <1>5. /\ payload.mode \in {"avg", "raw"}
        /\ payload.noise \in Seq(Nat) /\ DOMAIN payload.noise # {}
    BY <1>4, PublishedShape
  <1>6. NewSample(reading, Message(payload, reading.at))
    BY <1>4, SensorStep
  <1>7. /\ \A k \in DOMAIN said' : WellFormed(said'[k])
        /\ FlowShape' /\ lost' \subseteq DOMAIN said' /\ client' \in Clients
    BY <1>5, <1>6, SampleShape
  <1>8. QED
    BY <1>3, <1>7 DEF ShapeInv, ProducerShape, WellFormed

LEMMA RankShape ==
    ASSUME IInv, ShapeInv, RankPublishes
    PROVE  ShapeInv'
  <1>1. PICK level \in Levels, at \in Squares :
            LET m == Message([mode |-> "avg", noise |-> <<100 * level>>], at)
            IN  /\ mosquitto_publish(m)
                /\ Recorded([noise |-> level, at |-> at], m)
                /\ lost' = IF client \in Missing THEN lost \cup {m.sample} ELSE lost
    BY DEF RankPublishes
  <1>2. PICK payload, reading : /\ payload = [mode |-> "avg", noise |-> <<100 * level>>]
                                /\ reading = [noise |-> level, at |-> at]
    OBVIOUS
  <1>3. payload.mode \in {"avg", "raw"} /\ payload.noise \in Seq(Nat) /\ DOMAIN payload.noise # {}
    <2>1. 100 * level \in Nat
      BY LevelsAssumption
    <2>2. <<100 * level>> \in Seq(Nat) /\ 1 \in DOMAIN <<100 * level>>
      BY <2>1
    <2>3. QED
      BY <1>2, <2>2
  <1>4. PICK m : m = Message(payload, at)
    OBVIOUS
  <1>5. /\ mosquitto_publish(m) /\ Recorded(reading, m)
        /\ lost' = IF client \in Missing THEN lost \cup {m.sample} ELSE lost
    BY <1>1, <1>2, <1>4
  <1>6. m.sample = Len(said) + 1 /\ IsSeq(outbox)
    BY <1>4 DEF Message, IInv, Histories
  <1>7. UNCHANGED <<kind, client, backendVars, position, noise_values, fileptr>>
    BY <1>5 DEF RankPublishes, mosquitto_publish, windowVars, dataVars
  <1>8. NewSample(reading, m)
    BY <1>5, <1>6, <1>7, Appended DEF mosquitto_publish, NewSample
  <1>9. /\ \A k \in DOMAIN said' : WellFormed(said'[k])
        /\ FlowShape' /\ lost' \subseteq DOMAIN said' /\ client' \in Clients
    BY <1>3, <1>4, <1>8, SampleShape
  <1>10. QED
    BY <1>7, <1>9 DEF ShapeInv, ProducerShape, WellFormed

\* The flow takes a message up or gets it further.
LEMMA FlowShapeKept ==
    ASSUME IInv, ShapeInv, said' = said,
           \/ flow' = flow
           \/ Arrive \/ BoundariesAnswered \/ NearestAnswered \/ Inserted
           \/ \E f \in BagToSet(flow) : QueryFails(f)
    PROVE  FlowShape'
  <1>1. /\ FlowShape /\ FlowChecked /\ \A k \in DOMAIN said : WellFormed(said[k])
        /\ \A f \in BagToSet(flow) : Genuine(f.msg)
    BY DEF ShapeInv, ProducerShape, IInv, OnTheWay
  <1>2. ASSUME NEW f, NEW next, Becomes(f, next), \A g \in next : g.stage = "insert" => g.left # {}
        PROVE  FlowShape'
    <2>1. BagToSet(flow') \subseteq BagToSet(flow) \cup next
      BY <1>2, Replaced
    <2>2. QED
      BY <1>1, <1>2, <2>1 DEF FlowShape
  <1>3. ASSUME NEW f \in BagToSet(flow), NEW i \in f.left
        PROVE  \A g \in Without(f, i) : g.stage = "insert" => g.left # {}
    <2>1. f = [msg |-> f.msg, stage |-> f.stage, nearestPoint |-> f.nearestPoint, left |-> f.left]
      BY <1>1 DEF FlowChecked, Checked
    <2>2. CASE f.left = {i}
      BY <2>2 DEF Without
    <2>3. CASE f.left # {i}
      <3>1. Without(f, i) = {[f EXCEPT !.left = @ \ {i}]}
        BY <2>3 DEF Without
      <3>2. [f EXCEPT !.left = @ \ {i}].left = f.left \ {i}
        BY <2>1
      <3>3. f.left \ {i} # {}
        BY <2>3
      <3>4. QED
        BY <3>1, <3>2, <3>3
    <2>4. QED
      BY <2>2, <2>3
  <1>4. CASE flow' = flow
    BY <1>1, <1>4 DEF FlowShape
  <1>5. CASE Arrive
    <2>1. PICK m : m = Head(broker)
      OBVIOUS
    <2>2. flow' = flow \/ flow' = Bag!BagAdd(flow, Waiting(m))
      BY <1>5, <2>1 DEF Arrive
    <2>3. BagToSet(flow') \subseteq BagToSet(flow) \cup {Waiting(m)}
      BY <2>2, AddedToBag
    <2>4. Waiting(m).stage # "insert"
      BY DEF Waiting
    <2>5. QED
      BY <1>1, <2>3, <2>4 DEF FlowShape
  <1>6. CASE BoundariesAnswered
    <2>1. PICK f \in BagToSet(flow) :
            Becomes(f, IF WithinBoundaries(f.msg) THEN {[f EXCEPT !.stage = "nearest"]} ELSE {})
      BY <1>6 DEF BoundariesAnswered
    <2>2. f = [msg |-> f.msg, stage |-> f.stage, nearestPoint |-> f.nearestPoint, left |-> f.left]
      BY <1>1 DEF FlowChecked, Checked
    <2>3. [f EXCEPT !.stage = "nearest"].stage = "nearest"
      BY <2>2
    <2>4. PICK next : next = IF WithinBoundaries(f.msg) THEN {[f EXCEPT !.stage = "nearest"]} ELSE {}
      OBVIOUS
    <2>5. Becomes(f, next) /\ \A g \in next : g.stage # "insert"
      BY <2>1, <2>3, <2>4
    <2>6. QED
      BY <2>5, <1>2
  <1>7. CASE NearestAnswered
    <2>1. PICK f, id :
            /\ f \in BagToSet(flow)
            /\ Becomes(f, {[f EXCEPT !.stage = "insert", !.nearestPoint = id,
                                     !.left = DOMAIN f.msg.noise]})
      BY <1>7 DEF NearestAnswered
    <2>2. f = [msg |-> f.msg, stage |-> f.stage, nearestPoint |-> f.nearestPoint, left |-> f.left]
      BY <1>1, <2>1 DEF FlowChecked, Checked
    <2>3. PICK g : g = [f EXCEPT !.stage = "insert", !.nearestPoint = id, !.left = DOMAIN f.msg.noise]
      OBVIOUS
    <2>4. g.left = DOMAIN f.msg.noise
      BY <2>2, <2>3
    <2>5. DOMAIN f.msg.noise # {}
      BY <1>1, <2>1 DEF Genuine, WellFormed
    <2>6. Becomes(f, {g})
      BY <2>1, <2>3
    <2>7. QED
      BY <2>1, <2>4, <2>5, <2>6, <1>2
  <1>8. CASE Inserted
    <2>1. PICK f \in BagToSet(flow) : \E i \in f.left : Becomes(f, Without(f, i))
      BY <1>8 DEF Inserted
    <2>2. PICK i \in f.left : Becomes(f, Without(f, i))
      BY <2>1
    <2>3. QED
      BY <2>2, <1>2, <1>3
  <1>9. ASSUME NEW f \in BagToSet(flow), QueryFails(f) PROVE FlowShape'
    <2>1. CASE Becomes(f, {})
      BY <2>1, <1>2
    <2>2. ASSUME NEW i \in f.left, Becomes(f, Without(f, i)) PROVE FlowShape'
      BY <2>2, <1>2, <1>3
    <2>3. QED
      BY <1>9, <2>1, <2>2 DEF QueryFails
  <1>10. QED
    BY <1>4, <1>5, <1>6, <1>7, <1>8, <1>9

\* The client's states, and what a fault hits.
LEMMA LinkShape ==
    ASSUME IInv, ShapeInv, [Next]_vars, UNCHANGED <<noise_values, position, fileptr, said>>,
           ~ SensorSamples, ~ SimulatedSensorSamples, ~ RankPublishes
    PROVE  client' \in Clients /\ lost' \subseteq DOMAIN said
  <1>1. /\ client \in Clients /\ lost \subseteq DOMAIN said
        /\ IsSeq(outbox) /\ IsSeq(broker)
        /\ \A m \in Range(outbox) \cup Range(broker) : m.sample \in DOMAIN said
        /\ \A f \in BagToSet(flow) : f.msg.sample \in DOMAIN said
    BY DEF ShapeInv, ProducerShape, IInv, Histories, OnTheWay, Genuine
  <1>2. CASE SensorSends \/ ClientStarts \/ ClientSends \/ ClientReconnects \/ BridgeRepeats
    BY <1>1, <1>2 DEF SensorSends, ClientStarts, ClientSends, ClientReconnects, BridgeRepeats,
                      init_mosquitto, on_connect, Acknowledged, ConnectionBreaks, Clients, Live,
                      Useless, Missing, historyVars, publisherVars
  <1>3. CASE SensorGivesUp
    <2>1. Head(outbox) \in Range(outbox)
      BY <1>1, <1>3, HeadAndTail DEF SensorGivesUp
    <2>2. QED
      BY <1>1, <1>3, <2>1 DEF SensorGivesUp
  <1>4. CASE BackendStep
    BY <1>1, <1>4 DEF BackendStep, historyVars, publisherVars
  <1>5. CASE BackendFails
    <2>1. client' = client
      BY <1>5 DEF BackendFails, publisherVars
    <2>2. ASSUME NEW f \in BagToSet(flow), lost' = lost \cup {f.msg.sample}
          PROVE  lost' \subseteq DOMAIN said
      BY <1>1, <2>2
    <2>3. ASSUME lost' = lost \cup {broker[i].sample : i \in DOMAIN broker}
          PROVE  lost' \subseteq DOMAIN said
      BY <1>1, <2>3 DEF Range
    <2>4. QED
      BY <1>1, <1>5, <2>1, <2>2, <2>3 DEF BackendFails
  <1>6. CASE UNCHANGED vars
    BY <1>1, <1>6 DEF vars, publisherVars, historyVars
  <1>7. QED
    BY <1>2, <1>3, <1>4, <1>5, <1>6 DEF Next, Done

LEMMA ShapeStep ==
    ASSUME IInv, FileInv, ShapeInv, [Next]_vars, WindowInv'
    PROVE  ShapeInv'
  <1>1. CASE SensorSamples
    <2>1. PICK rssi \in Rssi : noise_processing([noise |-> rssi + 110, at |-> spot])
      BY <1>1 DEF SensorSamples
    <2>2. PICK reading : reading = [noise |-> rssi + 110, at |-> spot]
      OBVIOUS
    <2>3. noise_processing(reading) /\ kind # "mpi" /\ reading.noise \in Nat /\ fileptr' \in Nat
      BY <1>1, <2>1, <2>2, LevelsAssumption DEF SensorSamples, dataVars, ShapeInv, ProducerShape
    <2>4. QED
      BY <2>3, SensorShape
  <1>2. CASE SimulatedSensorSamples
    <2>1. PICK reading : reading = RowRead
      OBVIOUS
    <2>2. noise_processing(reading) /\ kind = "noise-simulated-sensor" /\ ReadRow
      BY <1>2, <2>1 DEF SimulatedSensorSamples
    <2>3. reading.noise \in Nat
      <3>1. /\ Len(taken) \in Nat /\ DOMAIN taken' = 1 .. (Len(taken) + 1)
            /\ taken'[Len(taken) + 1] = reading
        BY <2>2, ReadingTaken
      <3>2. Len(taken) + 1 \in DOMAIN taken'
        BY <3>1
      <3>3. QED
        BY <3>1, <3>2 DEF WindowInv
    <2>4. fileptr' \in Nat
      <3>1. RowsWithinBounds
        BY <2>2 DEF FileInv
      <3>2. PICK q \in Nat, c \in 0 .. n_samples :
              Len(taken) = n_samples * q + c /\ fileptr = c * RowBytes
        BY <2>2 DEF FileInv
      <3>3. PICK d : d = IF c = n_samples THEN 0 ELSE c
        OBVIOUS
      <3>4. fileptr' = (d + 1) * RowBytes
        BY <2>2, <3>1, <3>2, <3>3, RowIsRead
      <3>5. d \in Nat /\ 1 \in 1 .. n_samples
        BY <3>2, <3>3, SamplesAssumption
      <3>6. RowBytes \in Nat
        BY <3>1, <3>5, RowWidth
      <3>7. QED
        BY <3>4, <3>5, <3>6
    <2>5. QED
      BY <2>2, <2>3, <2>4, SensorShape
  <1>3. CASE RankPublishes
    BY <1>3, RankShape
  <1>4. CASE /\ ~ SensorSamples /\ ~ SimulatedSensorSamples /\ ~ RankPublishes
             /\ UNCHANGED <<kind, noise_values, position, dataset, fileptr, taken, said>>
    <2>1. client' \in Clients /\ lost' \subseteq DOMAIN said
      BY <1>4, LinkShape
    <2>2. \/ flow' = flow
          \/ Arrive \/ BoundariesAnswered \/ NearestAnswered \/ Inserted
          \/ \E f \in BagToSet(flow) : QueryFails(f)
      BY <1>4 DEF Next, vars, SensorSends, SensorGivesUp, ClientStarts, ClientSends,
                  ClientReconnects, BridgeRepeats, BackendStep, BackendFails, Done, backendVars,
                  ReachesBroker, SessionLost
    <2>3. FlowShape'
      BY <1>4, <2>2, FlowShapeKept
    <2>4. QED
      BY <1>4, <2>1, <2>3 DEF ShapeInv, ProducerShape, WellFormed
  <1>5. QED
    BY <1>1, <1>2, <1>3, <1>4, OnlySamplesTell

LEMMA ShapeInvariant == Spec => []ShapeInv
  <1>1. IInv /\ FileInv /\ ShapeInv /\ [Next]_vars /\ WindowInv' => ShapeInv'
    BY ShapeStep
  <1>2. QED
    BY <1>1, ShapeInit, IInvHolds, FileInvariant, WindowInvariant, PTL DEF Spec

\* Every message on its way, in whichever queue, is one a producer has sent, and every
\* message whose values are being inserted has some left, so that none stays in the flow
\* for ever (flows.json; noise-sensor.c 274-300).
THEOREM MeasurementsTypes == Spec => []TypeOK
  <1>1. ASSUME IInv, ShapeInv PROVE TypeOK
    <2>1. \A m \in Range(outbox) \cup Range(broker) : MessageOK(m)
      BY <1>1 DEF IInv, OnTheWay, Genuine, ShapeInv, ProducerShape, WellFormed, MessageOK
    <2>2. /\ \A i \in DOMAIN outbox : MessageOK(outbox[i])
          /\ \A i \in DOMAIN broker : MessageOK(broker[i])
      BY <2>1 DEF Range
    <2>3. \A f \in BagToSet(flow) :
            /\ f.stage \in {"boundaries", "nearest", "insert"}
            /\ f.left \subseteq DOMAIN f.msg.noise
            /\ f.stage = "insert" <=> f.left # {}
      BY <1>1 DEF IInv, FlowChecked, Checked, ShapeInv, FlowShape
    <2>4. Len(said) = Len(taken)
      BY <1>1 DEF IInv, Histories
    <2>5. QED
      BY <1>1, <2>2, <2>3, <2>4 DEF TypeOK, ShapeInv, ProducerShape, Clients
  <1>2. IInv /\ ShapeInv => TypeOK
    BY <1>1
  <1>3. QED
    BY <1>2, IInvHolds, ShapeInvariant, PTL
=============================================================================
