--------------------------- MODULE NoiseSimProofs ---------------------------
(***************************************************************************)
(* The people and vehicles: for every number of ranks nobody is lost or    *)
(* leaves the region.  The whole simulation: it is an instance of the      *)
(* shuffle, so what it publishes is exact; and if the ranks divide the     *)
(* sources evenly too, a square is reported exactly when some person or    *)
(* vehicle is heard on it.                                                 *)
(***************************************************************************)
EXTENDS NoiseSim, NoiseShuffleProofs

-----------------------------------------------------------------------------
(* The sources of each rank.                                               *)

LEMMA CountTypes ==
    /\ world_size \in Nat \ {0} /\ P + V \in Nat
    /\ num_elem_per_proc \in Nat
    /\ elem_res \in 0 .. (world_size - 1)
    /\ P + V = (world_size * num_elem_per_proc) + elem_res
    /\ \A p \in Ranks : /\ p \in Nat /\ p < world_size
                        /\ elem_send_count(p) \in Nat
                        /\ elem_send_count(p) >= num_elem_per_proc
  <1>1. world_size \in Nat \ {0} /\ P + V \in Nat
    BY SourcesAssumption, WorldAssumption
  <1>2. /\ num_elem_per_proc \in Nat /\ elem_res \in 0 .. (world_size - 1)
        /\ P + V = (world_size * num_elem_per_proc) + elem_res
    BY <1>1, DivMod DEF num_elem_per_proc, elem_res
  <1>3. QED
    BY <1>1, <1>2 DEF Ranks, elem_send_count

\* The part of the array that goes to a rank lies within the array.
LEMMA PartInArray ==
    ASSUME NEW p \in Ranks
    PROVE  /\ elem_displs(p) \in Nat
           /\ elem_displs(p) + elem_send_count(p) <= P + V
  <1> DEFINE n == num_elem_per_proc
             w == world_size
             e == elem_res
  <1>1. /\ w \in Nat /\ n \in Nat /\ e \in 0 .. (w - 1) /\ P + V = (w * n) + e
        /\ p \in Nat /\ p < w /\ P + V \in Nat
    BY CountTypes
  <1>2. p * n \in Nat /\ w * n \in Nat
    BY <1>1
  <1>3. n * p + n <= n * w
    BY <1>1, MultiplesApart
  <1>4. n * p = p * n /\ n * w = w * n
    BY <1>1
  <1>5. elem_displs(p) = p * n + (IF p <= e THEN p ELSE e)
    BY DEF elem_displs
  <1>6. elem_send_count(p) = IF p + 1 <= e THEN n + 1 ELSE n
    BY DEF elem_send_count
  <1> HIDE DEF n, w, e
  <1>7. QED
    BY <1>1, <1>2, <1>3, <1>4, <1>5, <1>6

Placed == [x : Xs, y : Ys, kind : {person, vehicle}]

\* The inductive form of SourcesTypeOK and InRegion.
AllPlaced ==
    /\ DOMAIN local_arr = Ranks
    /\ \A p \in Ranks : local_arr[p] \in [1 .. elem_send_count(p) -> Placed]

LEMMA PlacedInit == SourcesInit => AllPlaced
  <1> SUFFICES ASSUME SourcesInit PROVE AllPlaced
    OBVIOUS
  <1>1. PICK sources \in init_sources_array :
          local_arr = [p \in Ranks |->
              SubSeq(sources, elem_displs(p) + 1, elem_displs(p) + elem_send_count(p))]
    BY DEF SourcesInit
  <1>2. \A i \in 1 .. (P + V) : sources[i] \in Placed
    <2>1. PICK at \in [1 .. (P + V) -> Xs \X Ys] :
            sources = [i \in 1 .. (P + V) |->
                [x |-> at[i][1], y |-> at[i][2], kind |-> IF i <= P THEN person ELSE vehicle]]
      BY DEF init_sources_array
    <2>2. QED
      BY <2>1 DEF Placed
  <1>3. ASSUME NEW p \in Ranks PROVE local_arr[p] \in [1 .. elem_send_count(p) -> Placed]
    <2> DEFINE m == elem_displs(p) + 1
               n == elem_displs(p) + elem_send_count(p)
    <2>1. /\ elem_displs(p) \in Nat /\ elem_send_count(p) \in Nat
          /\ n <= P + V /\ P + V \in Nat
      BY PartInArray, CountTypes
    <2>2. m \in Int /\ n \in Int /\ \A i \in m .. n : sources[i] \in Placed
      BY <1>2, <2>1
    <2>3. n - m + 1 = elem_send_count(p) /\ (m > n => elem_send_count(p) = 0)
      BY <2>1
    <2>4. local_arr[p] = SubSeq(sources, m, n)
      BY <1>1
    <2> HIDE DEF m, n
    <2>5. SubSeq(sources, m, n) \in Seq(Placed) /\
          Len(SubSeq(sources, m, n)) = IF m <= n THEN n - m + 1 ELSE 0
      BY <2>2, SubSeqProperties
    <2>6. Len(SubSeq(sources, m, n)) = elem_send_count(p)
      BY <2>1, <2>2, <2>3, <2>5
    <2>7. QED
      BY <2>4, <2>5, <2>6, LenProperties
  <1>4. QED
    BY <1>1, <1>3 DEF AllPlaced

\* A step that would leave the region is turned into one that does not.
LEMMA TurnedStays ==
    ASSUME NEW size \in Nat, NEW at \in 0 .. (size - 1), NEW d \in {-1, 0, 1},
           NEW speed \in Nat, 2 * speed <= size
    PROVE  Turned(at, d * speed, size) \in 0 .. (size - 1)
  <1>1. d * speed \in {-speed, 0, speed}
    OBVIOUS
  <1>2. PICK delta \in {-speed, 0, speed} : delta = d * speed
    BY <1>1
  <1>3. Turned(at, delta, size) \in 0 .. (size - 1)
    BY <1>2 DEF Turned
  <1>4. QED
    BY <1>2, <1>3

LEMMA MovedIsPlaced ==
    ASSUME NEW s \in Placed, NEW dx \in {-1, 0, 1}, NEW dy \in {-1, 0, 1}
    PROVE  Moved(s, dx, dy) \in Placed
  <1>1. MAX_X \in Nat /\ MAX_Y \in Nat
    BY GridAssumption
  <1>2. /\ s.kind \in {person, vehicle}
        /\ s.x \in 0 .. (MAX_X - 1) /\ s.y \in 0 .. (MAX_Y - 1)
    BY DEF Placed, Xs, Ys
  <1>3. PICK speed \in Nat : /\ speed = s.kind.moving_speed
                             /\ 2 * speed <= MAX_X /\ 2 * speed <= MAX_Y
    <2>1. s.kind.moving_speed \in {Vp, Vv}
      BY <1>2 DEF person, vehicle
    <2>2. QED
      BY <2>1, SourcesAssumption, RoomAssumption
  <1>4. Turned(s.x, dx * speed, MAX_X) \in Xs /\ Turned(s.y, dy * speed, MAX_Y) \in Ys
    BY <1>1, <1>2, <1>3, TurnedStays DEF Xs, Ys
  <1>5. QED
    BY <1>2, <1>3, <1>4 DEF Moved, Placed

LEMMA PlacedMove ==
    ASSUME AllPlaced, NEW p \in Ranks, MoveSources(p)
    PROVE  AllPlaced'
  <1>1. PICK dx \in [1 .. num_elem -> {-1, 0, 1}], dy \in [1 .. num_elem -> {-1, 0, 1}] :
          local_arr' = [local_arr EXCEPT ![p] = [i \in 1 .. elem_send_count(p) |->
            IF i <= num_elem THEN Moved(local_arr[p][i], dx[i], dy[i]) ELSE local_arr[p][i]]]
    BY DEF MoveSources
  <1>2. DOMAIN local_arr = Ranks /\ \A q \in Ranks : local_arr[q] \in [1 .. elem_send_count(q) -> Placed]
    BY DEF AllPlaced
  <1>3. ASSUME NEW i \in 1 .. elem_send_count(p)
        PROVE  (IF i <= num_elem THEN Moved(local_arr[p][i], dx[i], dy[i]) ELSE local_arr[p][i])
                 \in Placed
    <2>1. local_arr[p][i] \in Placed
      BY <1>2
    <2>2. ASSUME i <= num_elem PROVE dx[i] \in {-1, 0, 1} /\ dy[i] \in {-1, 0, 1}
      <3>1. i \in 1 .. num_elem
        BY <2>2, CountTypes DEF num_elem
      <3>2. QED
        BY <3>1
    <2>3. QED
      BY <2>1, <2>2, MovedIsPlaced
  <1>4. /\ DOMAIN local_arr' = Ranks
        /\ \A q \in Ranks \ {p} : local_arr'[q] = local_arr[q]
        /\ local_arr'[p] = [i \in 1 .. elem_send_count(p) |->
             IF i <= num_elem THEN Moved(local_arr[p][i], dx[i], dy[i]) ELSE local_arr[p][i]]
    BY <1>1, <1>2
  <1>5. local_arr'[p] \in [1 .. elem_send_count(p) -> Placed]
    BY <1>3, <1>4
  <1>6. QED
    BY <1>2, <1>4, <1>5 DEF AllPlaced

LEMMA PlacedInvariant == SourcesSpec => []AllPlaced
  <1>1. AllPlaced /\ [SourcesNext]_local_arr => AllPlaced'
    BY PlacedMove DEF SourcesNext, AllPlaced
  <1>2. QED
    BY <1>1, PlacedInit, PTL DEF SourcesSpec

\* No person and no vehicle ever leaves the region, whatever rand() returns:
\* the one turn of move_noise_sources is enough (noise_sim.c 247-264).
THEOREM SourcesStayInRegion == SourcesSpec => []InRegion
  <1>1. AllPlaced => InRegion
    BY DEF AllPlaced, InRegion, Placed
  <1>2. QED
    BY <1>1, PlacedInvariant, PTL

-----------------------------------------------------------------------------
(* The scatter deals the array out: the parts of the ranks are disjoint    *)
(* and together the whole of it.                                           *)

\* Each part begins where the one before it ends.
LEMMA NextPart ==
    ASSUME NEW p \in Nat, p + 1 \in Ranks
    PROVE  p \in Ranks /\ elem_displs(p + 1) = elem_displs(p) + elem_send_count(p)
  <1> DEFINE n == num_elem_per_proc
             e == elem_res
  <1>1. n \in Nat /\ e \in Nat /\ p \in Ranks
    BY CountTypes DEF Ranks
  <1>2. (p + 1) * n = p * n + n /\ p * n \in Nat
    BY <1>1
  <1>3. elem_displs(p + 1) = (p + 1) * n + (IF p + 1 <= e THEN p + 1 ELSE e)
    BY DEF elem_displs
  <1>4. elem_displs(p) = p * n + (IF p <= e THEN p ELSE e)
    BY DEF elem_displs
  <1>5. elem_send_count(p) = IF p + 1 <= e THEN n + 1 ELSE n
    BY DEF elem_send_count
  <1> HIDE DEF n, e
  <1>6. QED
    BY <1>1, <1>2, <1>3, <1>4, <1>5

LEMMA PartsApart ==
    ASSUME NEW p \in Ranks, NEW q \in Ranks, p < q
    PROVE  elem_displs(p) + elem_send_count(p) <= elem_displs(q)
  <1> DEFINE n == num_elem_per_proc
             e == elem_res
  <1>1. n \in Nat /\ e \in Nat /\ p \in Nat /\ q \in Nat
    BY CountTypes
  <1>2. n * p + n <= n * q
    BY <1>1, MultiplesApart
  <1>3. n * p = p * n /\ n * q = q * n /\ p * n \in Nat /\ q * n \in Nat
    BY <1>1
  <1>4. elem_displs(q) = q * n + (IF q <= e THEN q ELSE e)
    BY DEF elem_displs
  <1>5. elem_displs(p) = p * n + (IF p <= e THEN p ELSE e)
    BY DEF elem_displs
  <1>6. elem_send_count(p) = IF p + 1 <= e THEN n + 1 ELSE n
    BY DEF elem_send_count
  <1> HIDE DEF n, e
  <1>7. QED
    BY <1>1, <1>2, <1>3, <1>4, <1>5, <1>6

\* The last part ends where the array does.
LEMMA LastPart ==
    /\ world_size - 1 \in Ranks
    /\ elem_displs(world_size - 1) + elem_send_count(world_size - 1) = P + V
  <1> DEFINE n == num_elem_per_proc
             e == elem_res
             w == world_size
  <1>1. w \in Nat \ {0} /\ n \in Nat /\ e \in 0 .. (w - 1) /\ P + V = (w * n) + e
    BY CountTypes
  <1>2. (w - 1) * n = w * n - n /\ w * n \in Nat
    BY <1>1
  <1>3. elem_displs(w - 1) = (w - 1) * n + (IF w - 1 <= e THEN w - 1 ELSE e)
    BY DEF elem_displs
  <1>4. elem_send_count(w - 1) = IF (w - 1) + 1 <= e THEN n + 1 ELSE n
    BY DEF elem_send_count
  <1>5. w - 1 \in Ranks
    BY <1>1 DEF Ranks
  <1> HIDE DEF n, e
  <1>6. QED
    BY <1>1, <1>2, <1>3, <1>4, <1>5

LEMMA DealtToSomeone ==
    ASSUME NEW j \in 1 .. (P + V)
    PROVE  \E p \in Ranks : \E i \in 1 .. elem_send_count(p) : elem_displs(p) + i = j
  <1> DEFINE T == {p \in Ranks : j <= elem_displs(p) + elem_send_count(p)}
  <1>1. P + V \in Nat /\ world_size \in Nat
    BY CountTypes
  <1>2. T \subseteq Nat /\ world_size - 1 \in T
    BY <1>1, LastPart DEF Ranks
  <1>3. PICK p \in T : \A q \in T : p <= q
    BY <1>2, LeastNat
  <1>4. /\ p \in Ranks /\ p \in Nat /\ elem_displs(p) \in Nat /\ elem_send_count(p) \in Nat
        /\ j <= elem_displs(p) + elem_send_count(p) /\ j \in Nat
    BY <1>1, <1>3, PartInArray, CountTypes
  <1>5. elem_displs(p) < j
    <2>1. CASE p = 0
      <3>1. num_elem_per_proc \in Nat /\ elem_res \in Nat
        BY CountTypes
      <3>2. elem_displs(0) = 0
        BY <3>1 DEF elem_displs
      <3>3. QED
        BY <2>1, <3>2
    <2>2. CASE p # 0
      <3>1. PICK q \in Nat : p = q + 1
        BY <2>2, <1>4
      <3>2. q \in Ranks /\ elem_displs(p) = elem_displs(q) + elem_send_count(q)
        BY <3>1, <1>4, NextPart
      <3>3. q \notin T
        BY <3>1, <1>3
      <3>4. ~ (j <= elem_displs(q) + elem_send_count(q))
        BY <3>2, <3>3
      <3>5. QED
        BY <3>2, <3>4, <1>4
    <2>3. QED
      BY <2>1, <2>2
  <1>6. j - elem_displs(p) \in 1 .. elem_send_count(p)
        /\ elem_displs(p) + (j - elem_displs(p)) = j
    BY <1>4, <1>5
  <1>7. QED
    BY <1>4, <1>6

\* Where the sources are after the scatter: a rank and an index of its array.
Seats == UNION {{<<p, i>> : i \in 1 .. elem_send_count(p)} : p \in Ranks}

\* The place in the array of rank 0 that a source of a rank had.
PlaceOf(e) == elem_displs(e[1]) + e[2]

LEMMA SeatTypes ==
    ASSUME NEW e \in Seats
    PROVE  /\ e = <<e[1], e[2]>> /\ e[1] \in Ranks /\ e[2] \in 1 .. elem_send_count(e[1])
           /\ PlaceOf(e) \in 1 .. (P + V)
  <1>0. PICK p \in Ranks : \E i \in 1 .. elem_send_count(p) : e = <<p, i>>
    BY DEF Seats
  <1>1. PICK i \in 1 .. elem_send_count(p) : e = <<p, i>>
    BY <1>0
  <1>2. /\ elem_displs(p) \in Nat /\ elem_send_count(p) \in Nat /\ P + V \in Nat
        /\ elem_displs(p) + elem_send_count(p) <= P + V
    BY CountTypes, PartInArray
  <1>3. PlaceOf(e) = elem_displs(p) + i
    BY <1>1 DEF PlaceOf
  <1>4. elem_displs(p) + i \in 1 .. (P + V)
    BY <1>2
  <1>5. QED
    BY <1>1, <1>3, <1>4

LEMMA SlotsDiffer ==
    ASSUME NEW e \in Seats, NEW f \in Seats, PlaceOf(e) = PlaceOf(f)
    PROVE  e = f
  <1> DEFINE p == e[1]
             q == f[1]
  <1>1. /\ e = <<p, e[2]>> /\ p \in Ranks /\ e[2] \in 1 .. elem_send_count(p)
        /\ f = <<q, f[2]>> /\ q \in Ranks /\ f[2] \in 1 .. elem_send_count(q)
    BY SeatTypes
  <1>2. /\ p \in Nat /\ q \in Nat /\ elem_displs(p) \in Nat /\ elem_displs(q) \in Nat
        /\ elem_send_count(p) \in Nat /\ elem_send_count(q) \in Nat
    BY <1>1, CountTypes, PartInArray
  <1>3. elem_displs(p) + e[2] = elem_displs(q) + f[2]
    BY DEF PlaceOf
  <1>4. ~ (p < q)
    <2>1. SUFFICES ASSUME p < q PROVE FALSE
      OBVIOUS
    <2>2. elem_displs(p) + elem_send_count(p) <= elem_displs(q)
      BY <1>1, <2>1, PartsApart
    <2>3. QED
      BY <1>1, <1>2, <1>3, <2>2
  <1>5. ~ (q < p)
    <2>1. SUFFICES ASSUME q < p PROVE FALSE
      OBVIOUS
    <2>2. elem_displs(q) + elem_send_count(q) <= elem_displs(p)
      BY <1>1, <2>1, PartsApart
    <2>3. QED
      BY <1>1, <1>2, <1>3, <2>2
  <1>6. p = q
    BY <1>2, <1>4, <1>5
  <1>7. e[2] = f[2]
    BY <1>1, <1>2, <1>3, <1>6
  <1> HIDE DEF p, q
  <1>8. QED
    BY <1>1, <1>6, <1>7

\* As many sources come from a stretch of the array as it is long.
LEMMA SeatsOfStretch ==
    ASSUME NEW a \in Nat \ {0}, a <= P + V + 1
    PROVE  Cardinality({e \in Seats : PlaceOf(e) >= a}) = P + V + 1 - a
  <1> DEFINE S == {e \in Seats : PlaceOf(e) >= a}
             T == a .. (P + V)
             f == [e \in S |-> PlaceOf(e)]
  <1>1. P + V \in Nat
    BY CountTypes
  <1>2. \A e \in S : e \in Seats /\ f[e] = PlaceOf(e) /\ PlaceOf(e) \in T
    BY <1>1, SeatTypes
  <1>3. f \in Injection(S, T)
    BY <1>2, SlotsDiffer DEF Injection, IsInjective
  <1>4. \A j \in T : \E e \in S : f[e] = j
    <2>1. SUFFICES ASSUME NEW j \in T PROVE \E e \in S : f[e] = j
      OBVIOUS
    <2>2. j \in 1 .. (P + V) /\ j >= a
      BY <1>1
    <2>0. PICK p \in Ranks : \E i \in 1 .. elem_send_count(p) : elem_displs(p) + i = j
      BY <2>2, DealtToSomeone
    <2>3. PICK i \in 1 .. elem_send_count(p) : elem_displs(p) + i = j
      BY <2>0
    <2>4. <<p, i>> \in Seats
      BY DEF Seats
    <2>5. PlaceOf(<<p, i>>) = j
      BY <2>3 DEF PlaceOf
    <2>6. QED
      BY <2>2, <2>4, <2>5
  <1>5. f \in Surjection(S, T)
    BY <1>2, <1>4 DEF Surjection
  <1>6. PICK n \in Nat : n = P + V
    BY <1>1
  <1>7. IsFiniteSet(T) /\ Cardinality(T) = IF a > n THEN 0 ELSE n - a + 1
    <2>1. a \in Int /\ n \in Int
      OBVIOUS
    <2>2. IsFiniteSet(a .. n) /\ Cardinality(a .. n) = IF a > n THEN 0 ELSE n - a + 1
      BY <2>1, FS_Interval
    <2>3. QED
      BY <1>6, <2>2
  <1> HIDE DEF S, T, f
  <1>8. Cardinality(S) = Cardinality(T)
    BY <1>3, <1>5, <1>7, FS_Injection
  <1>9. Cardinality(T) = P + V + 1 - a
    BY <1>6, <1>7
  <1>10. QED
    BY <1>8, <1>9 DEF S

\* People come before vehicles, and moving does not make one the other.
KindsKept ==
    \A p \in Ranks : \A i \in 1 .. elem_send_count(p) :
        local_arr[p][i].kind = IF elem_displs(p) + i <= P THEN person ELSE vehicle

LEMMA KindsInit == SourcesInit => KindsKept
  <1> SUFFICES ASSUME SourcesInit, NEW p \in Ranks, NEW i \in 1 .. elem_send_count(p)
               PROVE  local_arr[p][i].kind = IF elem_displs(p) + i <= P THEN person ELSE vehicle
    BY DEF KindsKept
  <1>1. PICK sources \in init_sources_array :
          local_arr = [q \in Ranks |->
              SubSeq(sources, elem_displs(q) + 1, elem_displs(q) + elem_send_count(q))]
    BY DEF SourcesInit
  <1>2. PICK at \in [1 .. (P + V) -> Xs \X Ys] :
          sources = [k \in 1 .. (P + V) |->
              [x |-> at[k][1], y |-> at[k][2], kind |-> IF k <= P THEN person ELSE vehicle]]
    BY DEF init_sources_array
  <1> DEFINE m == elem_displs(p) + 1
             n == elem_displs(p) + elem_send_count(p)
             j == elem_displs(p) + i
  <1>3. /\ elem_displs(p) \in Nat /\ elem_send_count(p) \in Nat
        /\ n <= P + V /\ P + V \in Nat
    BY PartInArray, CountTypes
  <1>4. local_arr[p] = SubSeq(sources, m, n)
    BY <1>1
  <1>5. m \in Int /\ n \in Int /\ j \in 1 .. (P + V) /\ i \in 1 .. (n - m + 1) /\ m + i - 1 = j
    BY <1>3
  <1>6. sources[j].kind = IF j <= P THEN person ELSE vehicle
    BY <1>2, <1>5
  <1> HIDE DEF m, n, j
  <1>7. SubSeq(sources, m, n) = [k \in 1 .. (1 + n - m) |-> sources[m + k - 1]]
    BY <1>5
  <1>8. local_arr[p][i] = sources[j]
    BY <1>4, <1>5, <1>7
  <1>9. QED
    BY <1>6, <1>8 DEF j

LEMMA KindsMove ==
    ASSUME AllPlaced, KindsKept, NEW p \in Ranks, MoveSources(p)
    PROVE  KindsKept'
  <1>1. PICK dx \in [1 .. num_elem -> {-1, 0, 1}], dy \in [1 .. num_elem -> {-1, 0, 1}] :
          local_arr' = [local_arr EXCEPT ![p] = [i \in 1 .. elem_send_count(p) |->
            IF i <= num_elem THEN Moved(local_arr[p][i], dx[i], dy[i]) ELSE local_arr[p][i]]]
    BY DEF MoveSources
  <1>2. /\ \A q \in Ranks \ {p} : local_arr'[q] = local_arr[q]
        /\ local_arr'[p] = [i \in 1 .. elem_send_count(p) |->
             IF i <= num_elem THEN Moved(local_arr[p][i], dx[i], dy[i]) ELSE local_arr[p][i]]
    BY <1>1 DEF AllPlaced
  <1>3. \A i \in 1 .. elem_send_count(p) : local_arr'[p][i].kind = local_arr[p][i].kind
    BY <1>2 DEF Moved
  <1>4. ASSUME NEW q \in Ranks, NEW i \in 1 .. elem_send_count(q)
        PROVE  local_arr'[q][i].kind = IF elem_displs(q) + i <= P THEN person ELSE vehicle
    <2>1. local_arr[q][i].kind = IF elem_displs(q) + i <= P THEN person ELSE vehicle
      BY DEF KindsKept
    <2>2. local_arr'[q][i].kind = local_arr[q][i].kind
      BY <1>2, <1>3
    <2>3. QED
      BY <2>1, <2>2
  <1>5. QED
    BY <1>4 DEF KindsKept

\* People and vehicles can be told apart (simulation.cfg: they are heard at
\* different distances and move at different speeds).
KindsDiffer == person # vehicle

LEMMA EveryoneIsDealt ==
    ASSUME KindsDiffer, AllPlaced, KindsKept
    PROVE  Everyone
  <1> DEFINE all == UNION {{<<p, i>> : i \in DOMAIN local_arr[p]} : p \in Ranks}
  <1>1. \A p \in Ranks : local_arr[p] \in [1 .. elem_send_count(p) -> Placed]
    BY DEF AllPlaced
  <1>2. all = Seats
    BY <1>1 DEF Seats
  <1>3. P \in Nat /\ V \in Nat /\ P + V \in Nat
    BY SourcesAssumption
  <1>4. Cardinality(all) = P + V
    <2>1. \A e \in Seats : PlaceOf(e) >= 1
      BY <1>3, SeatTypes
    <2>2. {e \in Seats : PlaceOf(e) >= 1} = Seats
      BY <2>1
    <2>3. 1 \in Nat \ {0} /\ 1 <= P + V + 1 /\ P + V + 1 - 1 = P + V
      BY <1>3
    <2>4. QED
      BY <1>2, <2>2, <2>3, SeatsOfStretch
  <1>5. Cardinality({e \in all : local_arr[e[1]][e[2]].kind = vehicle}) = V
    <2>1. ASSUME NEW e \in Seats
          PROVE  local_arr[e[1]][e[2]].kind = vehicle <=> PlaceOf(e) >= P + 1
      <3>1. e[1] \in Ranks /\ e[2] \in 1 .. elem_send_count(e[1]) /\ PlaceOf(e) \in 1 .. (P + V)
        BY SeatTypes
      <3>2. local_arr[e[1]][e[2]].kind = IF PlaceOf(e) <= P THEN person ELSE vehicle
        BY <3>1 DEF KindsKept, PlaceOf
      <3>3. PlaceOf(e) <= P \/ PlaceOf(e) >= P + 1
        BY <1>3, <3>1
      <3>4. ~ (PlaceOf(e) <= P /\ PlaceOf(e) >= P + 1)
        BY <1>3, <3>1
      <3>5. QED
        BY <3>2, <3>3, <3>4 DEF KindsDiffer
    <2>2. {e \in all : local_arr[e[1]][e[2]].kind = vehicle} = {e \in Seats : PlaceOf(e) >= P + 1}
      BY <1>2, <2>1
    <2>3. P + 1 \in Nat \ {0} /\ P + 1 <= P + V + 1 /\ P + V + 1 - (P + 1) = V
      BY <1>3
    <2>4. QED
      BY <2>2, <2>3, SeatsOfStretch
  <1>6. \A p, q \in Ranks : Len(local_arr[p]) <= Len(local_arr[q]) + 1
    <2>1. SUFFICES ASSUME NEW p \in Ranks, NEW q \in Ranks
                   PROVE  Len(local_arr[p]) <= Len(local_arr[q]) + 1
      OBVIOUS
    <2>2. Len(local_arr[p]) = elem_send_count(p) /\ Len(local_arr[q]) = elem_send_count(q)
      BY <1>1, CountTypes
    <2>3. QED
      BY <2>2, CountTypes DEF elem_send_count
  <1>7. QED
    BY <1>4, <1>5, <1>6 DEF Everyone

LEMMA KindsInvariant == SourcesSpec => []KindsKept
  <1>1. AllPlaced /\ KindsKept /\ [SourcesNext]_local_arr => KindsKept'
    BY KindsMove DEF SourcesNext, KindsKept
  <1>2. QED
    BY <1>1, KindsInit, PlacedInvariant, PTL DEF SourcesSpec

\* The scatter of main.c loses and repeats nobody, for every number of ranks,
\* people and vehicles, those that the ranks do not divide included, and no
\* rank has more than one source more than another (main.c 77-107).
THEOREM NobodyIsLost == ASSUME KindsDiffer PROVE SourcesSpec => []Everyone
  <1>1. AllPlaced /\ KindsKept => Everyone
    BY EveryoneIsDealt
  <1>2. QED
    BY <1>1, PlacedInvariant, KindsInvariant, PTL

-----------------------------------------------------------------------------
\* Every rank has the same number of sources.
EvenSources == elem_res = 0

-----------------------------------------------------------------------------
(* The squares a source is heard on.                                       *)

\* Cells and squares correspond to each other.
LEMMA CellOfSquare ==
    /\ \A x \in Xs, y \in Ys : /\ CellAt(<<x, y>>) \in Cells
                               /\ CellAt(<<x, y>>) % MAX_X = x
                               /\ CellAt(<<x, y>>) \div MAX_X = y
    /\ \A c \in Cells : /\ c % MAX_X \in Xs /\ c \div MAX_X \in Ys
                        /\ CellAt(<<c % MAX_X, c \div MAX_X>>) = c
  <1>1. MAX_X \in Nat \ {0} /\ MAX_Y \in Nat \ {0}
    BY GridAssumption
  <1>2. ASSUME NEW x \in Xs, NEW y \in Ys
        PROVE  /\ CellAt(<<x, y>>) \in Cells
               /\ CellAt(<<x, y>>) % MAX_X = x
               /\ CellAt(<<x, y>>) \div MAX_X = y
    <2>1. x \in 0 .. (MAX_X - 1) /\ y \in Nat /\ y < MAX_Y
      BY <1>1 DEF Xs, Ys
    <2>2. CellAt(<<x, y>>) = MAX_X * y + x
      BY <1>1, <2>1 DEF CellAt
    <2>3. MAX_X * y + MAX_X <= MAX_X * MAX_Y
      BY <1>1, <2>1, MultiplesApart
    <2>4. MAX_X * y \in Nat /\ MAX_X * MAX_Y \in Nat
      BY <1>1, <2>1
    <2>5. CellAt(<<x, y>>) \in Cells
      BY <1>1, <2>1, <2>2, <2>3, <2>4 DEF Cells, NCells
    <2>6. QED
      BY <1>1, <2>1, <2>2, <2>5, DivModUnique
  <1>3. ASSUME NEW c \in Cells
        PROVE  /\ c % MAX_X \in Xs /\ c \div MAX_X \in Ys
               /\ CellAt(<<c % MAX_X, c \div MAX_X>>) = c
    <2>1. c \in Nat /\ c < MAX_X * MAX_Y
      BY NCellsType DEF Cells, NCells
    <2>2. PICK q \in Nat : q = c \div MAX_X
      BY <1>1, <2>1, DivMod
    <2>3. PICK r \in 0 .. (MAX_X - 1) : r = c % MAX_X
      BY <1>1, <2>1, DivMod
    <2>4. c = (MAX_X * q) + r
      BY <1>1, <2>1, <2>2, <2>3, DivMod
    <2>5. MAX_X * q \in Nat /\ MAX_X * MAX_Y \in Nat /\ q * MAX_X = MAX_X * q
      BY <1>1, <2>2
    <2>6. q < MAX_Y
      <3>1. SUFFICES ASSUME MAX_Y <= q PROVE FALSE
        BY <1>1
      <3>2. MAX_X * MAX_Y <= MAX_X * q
        <4>1. CASE MAX_Y = q
          BY <4>1, <2>5
        <4>2. CASE MAX_Y < q
          BY <1>1, <2>5, <4>2, MultiplesApart
        <4>3. QED
          BY <1>1, <3>1, <4>1, <4>2
      <3>3. QED
        BY <2>1, <2>4, <2>5, <3>2
    <2>7. CellAt(<<r, q>>) = q * MAX_X + r
      BY DEF CellAt
    <2>8. QED
      BY <1>1, <2>2, <2>3, <2>4, <2>5, <2>6, <2>7 DEF Xs, Ys
  <1>4. QED
    BY <1>2, <1>3

\* The clipped loops of compute_noise_sqm visit the squares near the source.
LEMMA HeardIsNear ==
    ASSUME NEW s \in Placed
    PROVE  /\ Heard(s) \subseteq Xs \X Ys
           /\ \A c \in Cells : <<c % MAX_X, c \div MAX_X>> \in Heard(s) <=> Near(s, c)
  <1>1. MAX_X \in Nat /\ MAX_Y \in Nat
    BY GridAssumption
  <1>2. /\ s.x \in Int /\ s.y \in Int /\ s.kind.distance_affected \in Nat
    <2>1. s.kind \in {person, vehicle} /\ s.x \in Int /\ s.y \in Int
      BY <1>1 DEF Placed, Xs, Ys
    <2>2. s.kind.distance_affected \in {Dp, Dv}
      BY <2>1 DEF person, vehicle
    <2>3. QED
      BY <2>1, <2>2, SourcesAssumption
  <1>3. PICK d \in Nat : d = s.kind.distance_affected
    BY <1>2
  <1>4. Heard(s) = {<<x, y>> : x \in hi(0, s.x - d) .. lo(s.x + d, MAX_X - 1),
                               y \in hi(0, s.y - d) .. lo(s.y + d, MAX_Y - 1)}
    BY <1>3 DEF Heard
  <1>5. \A x \in Int : x \in hi(0, s.x - d) .. lo(s.x + d, MAX_X - 1)
                         <=> x \in Xs /\ x - s.x \in (-d) .. d
    BY <1>1, <1>2 DEF hi, lo, Xs
  <1>6. \A y \in Int : y \in hi(0, s.y - d) .. lo(s.y + d, MAX_Y - 1)
                         <=> y \in Ys /\ y - s.y \in (-d) .. d
    BY <1>1, <1>2 DEF hi, lo, Ys
  <1>7. \A x, y : <<x, y>> \in Heard(s) <=> /\ x \in hi(0, s.x - d) .. lo(s.x + d, MAX_X - 1)
                                            /\ y \in hi(0, s.y - d) .. lo(s.y + d, MAX_Y - 1)
    BY <1>4
  <1>8. Heard(s) \subseteq Xs \X Ys
    <2>1. SUFFICES ASSUME NEW x, NEW y, <<x, y>> \in Heard(s) PROVE <<x, y>> \in Xs \X Ys
      BY <1>4
    <2>2. /\ x \in hi(0, s.x - d) .. lo(s.x + d, MAX_X - 1)
          /\ y \in hi(0, s.y - d) .. lo(s.y + d, MAX_Y - 1)
      BY <1>7, <2>1
    <2>3. x \in Int /\ y \in Int
      BY <1>1, <1>2, <2>2 DEF hi, lo
    <2>4. QED
      BY <1>5, <1>6, <2>2, <2>3
  <1>9. ASSUME NEW c \in Cells PROVE <<c % MAX_X, c \div MAX_X>> \in Heard(s) <=> Near(s, c)
    <2>1. PICK x \in Xs : x = c % MAX_X
      BY CellOfSquare
    <2>2. PICK y \in Ys : y = c \div MAX_X
      BY CellOfSquare
    <2>3. x \in Int /\ y \in Int
      BY <1>1 DEF Xs, Ys
    <2>4. Near(s, c) <=> x - s.x \in (-d) .. d /\ y - s.y \in (-d) .. d
      BY <1>3, <2>1, <2>2 DEF Near, Away
    <2>5. QED
      BY <1>5, <1>6, <1>7, <2>1, <2>2, <2>3, <2>4
  <1>10. QED
    BY <1>8, <1>9

LEMMA AffectedIsNear ==
    ASSUME AllPlaced, NEW p \in Ranks
    PROVE  Affected(p) = {c \in Cells : \E i \in 1 .. num_elem : Near(local_arr[p][i], c)}
  <1>1. \A i \in 1 .. num_elem : local_arr[p][i] \in Placed
    <2>1. \A i \in 1 .. num_elem : i \in 1 .. elem_send_count(p)
      BY CountTypes DEF num_elem
    <2>2. QED
      BY <2>1 DEF AllPlaced
  <1>2. ASSUME NEW c \in Affected(p)
        PROVE  c \in Cells /\ \E i \in 1 .. num_elem : Near(local_arr[p][i], c)
    <2>1. PICK square \in compute_noise_sqm(p) : c = CellAt(square)
      BY <1>2 DEF Affected
    <2>2. PICK i \in 1 .. num_elem : square \in Heard(local_arr[p][i])
      BY <2>1 DEF compute_noise_sqm
    <2>3. PICK x \in Xs, y \in Ys : square = <<x, y>>
      BY <1>1, <2>2, HeardIsNear
    <2>4. c \in Cells /\ c % MAX_X = x /\ c \div MAX_X = y
      BY <2>1, <2>3, CellOfSquare
    <2>5. Near(local_arr[p][i], c)
      BY <1>1, <2>2, <2>3, <2>4, HeardIsNear
    <2>6. QED
      BY <2>4, <2>5
  <1>3. ASSUME NEW c \in Cells, NEW i \in 1 .. num_elem, Near(local_arr[p][i], c)
        PROVE  c \in Affected(p)
    <2>1. <<c % MAX_X, c \div MAX_X>> \in Heard(local_arr[p][i])
      BY <1>1, <1>3, HeardIsNear
    <2>2. <<c % MAX_X, c \div MAX_X>> \in compute_noise_sqm(p)
      BY <2>1 DEF compute_noise_sqm
    <2>3. CellAt(<<c % MAX_X, c \div MAX_X>>) = c
      BY CellOfSquare
    <2>4. QED
      BY <2>2, <2>3 DEF Affected
  <1>4. QED
    BY <1>2, <1>3

-----------------------------------------------------------------------------
(* The simulation implements the shuffle.                                  *)

\* The simulation is an instance of the sources too: what holds of the sources
\* on their own (InRegion, Everyone) holds of those of the simulation
\* (main.c 107, 115, 149).
THEOREM SimulationImplementsSources == SimSpec => SourcesSpec
  <1>1. SimInit => SourcesInit
    BY DEF SimInit
  <1>2. [SimNext]_simVars => [SourcesNext]_local_arr
    BY DEF SimNext, SimStep, SimMove, SimCompute, SimShuffle, simVars, SourcesNext
  <1>3. QED
    BY <1>1, <1>2, PTL DEF SimSpec, SourcesSpec

LEMMA SimPlaced == SimSpec => []AllPlaced
  BY SimulationImplementsSources, PlacedInvariant, PTL

LEMMA SimStepIsStep == AllPlaced /\ [SimNext]_simVars => [Next]_vars
  <1> SUFFICES ASSUME AllPlaced, [SimNext]_simVars PROVE [Next]_vars
    OBVIOUS
  <1>1. ASSUME NEW p \in Ranks, SimCompute(p) PROVE Compute(p)
    <2>1. Affected(p) \in Footprints
      BY AffectedIsNear, AnyFootprint
    <2>2. ComputeCells(p, Affected(p))
      BY <1>1 DEF SimCompute
    <2>3. QED
      BY <2>1, <2>2 DEF Compute
  <1>2. ASSUME NEW p \in Ranks, SimMove(p) PROVE Move(p)
    BY <1>2 DEF SimMove
  <1>3. ASSUME NEW p \in Ranks, SimShuffle(p)
        PROVE  RankStep(p) \/ \E d \in Ranks : Pack(p, d)
    BY <1>3 DEF SimShuffle, RankStep
  <1>4. ASSUME NEW p \in Ranks, SimStep(p) PROVE RankStep(p) \/ \E d \in Ranks : Pack(p, d)
    BY <1>1, <1>2, <1>3, <1>4 DEF SimStep, RankStep
  <1>5. UNCHANGED simVars => UNCHANGED vars
    BY DEF simVars
  <1>6. QED
    BY <1>4, <1>5 DEF SimNext, Next

\* With people and vehicles in place of arbitrary footprints, the simulation is
\* still the shuffle: compute_noise_sqm never writes outside the matrix, as its
\* sources never leave the region (noise_sim.c 231-264).
THEOREM SimulationImplementsShuffle == SimSpec => ImplementsShuffle
  <1>1. SimInit => Init
    BY DEF SimInit
  <1>2. AllPlaced /\ [SimNext]_simVars => [Next]_vars
    BY SimStepIsStep
  <1>3. QED
    BY <1>1, <1>2, SimPlaced, PTL DEF SimSpec, Spec, ImplementsShuffle

-----------------------------------------------------------------------------
(* The cells a rank affected are those near the sources it had.            *)

TrailOK(p) ==
    /\ Len(trail[p]) = Len(loud[p])
    /\ trail[p] \in Seq([1 .. elem_send_count(p) -> Placed])
    /\ \A r \in 1 .. Len(loud[p]) :
           loud[p][r] = {c \in Cells : \E i \in 1 .. num_elem : Near(trail[p][r][i], c)}

TrailInv == DOMAIN trail = Ranks /\ \A p \in Ranks : TrailOK(p)

LEMMA TrailInit == SimInit => TrailInv
  BY DEF SimInit, Init, TrailInv, TrailOK

LEMMA TrailFrame ==
    ASSUME NEW q \in Ranks, TrailOK(q), loud'[q] = loud[q], trail'[q] = trail[q]
    PROVE  TrailOK(q)'
  <1>1. ASSUME NEW r \in 1 .. Len(loud'[q])
        PROVE  loud'[q][r] = {c \in Cells : \E i \in 1 .. num_elem : Near(trail'[q][r][i], c)}
    BY <1>1 DEF TrailOK
  <1>2. QED
    BY <1>1 DEF TrailOK, Near, Away

LEMMA TrailStep == TypeInv /\ AllPlaced /\ TrailInv /\ [SimNext]_simVars => TrailInv'
  <1> SUFFICES ASSUME TypeInv, AllPlaced, TrailInv, [SimNext]_simVars PROVE TrailInv'
    OBVIOUS
  <1>1. ASSUME NEW p \in Ranks, SimCompute(p) PROVE TrailInv'
    <2>1. /\ loud' = [loud EXCEPT ![p] = Append(loud[p], Affected(p))]
          /\ trail' = [trail EXCEPT ![p] = Append(trail[p], local_arr[p])]
      BY <1>1 DEF SimCompute, ComputeCells
    <2>2. loud \in [Ranks -> Seq(SUBSET Cells)] /\ DOMAIN trail = Ranks
      BY DEF TypeInv, TypeOK, TrailInv
    <2>3. /\ DOMAIN trail' = Ranks
          /\ loud'[p] = Append(loud[p], Affected(p)) /\ trail'[p] = Append(trail[p], local_arr[p])
          /\ \A q \in Ranks \ {p} : loud'[q] = loud[q] /\ trail'[q] = trail[q]
      BY <2>1, <2>2
    <2>4. PICK N : N = Affected(p)
      OBVIOUS
    <2>5. PICK a \in [1 .. elem_send_count(p) -> Placed] : a = local_arr[p]
      BY DEF AllPlaced
    <2>6. N = {c \in Cells : \E i \in 1 .. num_elem : Near(a[i], c)}
      BY <2>4, <2>5, AffectedIsNear
    <2>7. /\ loud[p] \in Seq(SUBSET Cells) /\ N \in SUBSET Cells
          /\ Len(trail[p]) = Len(loud[p])
          /\ trail[p] \in Seq([1 .. elem_send_count(p) -> Placed])
          /\ \A r \in 1 .. Len(loud[p]) :
                 loud[p][r] = {c \in Cells : \E i \in 1 .. num_elem : Near(trail[p][r][i], c)}
      BY <2>2, <2>6 DEF TrailInv, TrailOK
    <2>8. loud'[p] = Append(loud[p], N) /\ trail'[p] = Append(trail[p], a)
      BY <2>3, <2>4, <2>5
    <2>9. TrailOK(p)'
      <3>1. /\ Len(trail'[p]) = Len(loud[p]) + 1 /\ Len(loud'[p]) = Len(loud[p]) + 1
            /\ trail'[p] \in Seq([1 .. elem_send_count(p) -> Placed])
            /\ Len(loud[p]) \in Nat
        BY <2>5, <2>7, <2>8
      <3>2. ASSUME NEW r \in 1 .. Len(loud'[p])
            PROVE  loud'[p][r] = {c \in Cells : \E i \in 1 .. num_elem : Near(trail'[p][r][i], c)}
        <4>1. CASE r \in 1 .. Len(loud[p])
          <5>1. loud'[p][r] = loud[p][r] /\ trail'[p][r] = trail[p][r]
            BY <2>7, <2>8, <4>1
          <5>2. QED
            BY <2>7, <4>1, <5>1
        <4>2. CASE r = Len(loud[p]) + 1
          <5>1. loud'[p][r] = N /\ trail'[p][r] = a
            BY <2>5, <2>7, <2>8, <4>2
          <5>2. QED
            BY <2>6, <5>1
        <4>3. QED
          BY <3>1, <4>1, <4>2
      <3>3. QED
        BY <3>1, <3>2 DEF TrailOK, Near, Away
    <2>10. \A q \in Ranks \ {p} : TrailOK(q)'
      BY <2>3, TrailFrame DEF TrailInv
    <2>11. QED
      BY <2>3, <2>9, <2>10 DEF TrailInv
  <1>2. CASE trail' = trail /\ loud' = loud
    BY <1>2, TrailFrame DEF TrailInv
  <1>3. ASSUME NEW p \in Ranks, SimMove(p) \/ SimShuffle(p)
        PROVE  (trail' = trail /\ loud' = loud)
    BY <1>3 DEF SimMove, Move, SimShuffle, Isend, StartOwn, Recv, EndOwn, Publish, Reset, Pack
  <1>4. UNCHANGED simVars => (trail' = trail /\ loud' = loud)
    BY DEF simVars, vars
  <1>5. QED
    BY <1>1, <1>2, <1>3, <1>4 DEF SimNext, SimStep

LEMMA TrailInvariant == SimSpec => []TrailInv
  <1>1. SimSpec => Spec
    BY SimulationImplementsShuffle DEF ImplementsShuffle
  <1>2. QED
    BY <1>1, TrailInit, TrailStep, SimPlaced, TypeInvariant, PTL DEF SimSpec

-----------------------------------------------------------------------------
\* When the ranks divide the sources evenly, divide the cells evenly or are two,
\* and MPI_Isend copies its integer, a square is reported in a cycle exactly when
\* some person or vehicle was heard on it in that cycle (main.c 113-173, README 12-14).
THEOREM EverySourceIsReported ==
    ASSUME NoMixing, EagerSends, EvenSources
    PROVE  SimSpec => []EveryoneIsHeard
  <1>1. ASSUME TypeInv, DataInv, TrailInv PROVE EveryoneIsHeard
    <2> SUFFICES ASSUME NEW p \in Ranks, NEW r \in DOMAIN published[p]
                 PROVE  {e.cell : e \in published[p][r]} =
                          {c \in Owned(p) : \E q \in Ranks : \E i \in DOMAIN trail[q][r] :
                                                Near(trail[q][r][i], c)}
      BY DEF EveryoneIsHeard
    <2>1. r \in 1 .. Len(published[p]) /\ Len(published[p]) \in Nat
      BY <1>1, DataTypes DEF TypeInv
    <2>2. /\ published[p][r] = TrueReport(p, r)
          /\ \A q \in Ranks : Len(published[p]) <= Round(q)
      BY <1>1, <2>1 DEF DataInv, ReportsOK
    <2>3. \A q \in Ranks : Round(q) \in Nat /\ r \in 1 .. Round(q) /\ Round(q) >= r
      BY <1>1, <2>1, <2>2, DataTypes DEF TypeInv
    <2>4. ASSUME NEW c \in Cells
          PROVE  TrueLevel(c, r) # {} <=> \E q \in Ranks : c \in loud[q][r]
      <3>1. TrueLevel(c, r) = SumOf(Ranks, c, r)
        BY <1>1, <2>1, <2>3, TrueLevelIsSum
      <3>2. \A q \in Ranks : Contribution(q, c, r) # {} <=> c \in loud[q][r]
        BY DEF Contribution
      <3>3. SumOf(Ranks, c, r) # {} <=> \E q \in Ranks : Contribution(q, c, r) # {}
        BY DEF SumOf
      <3>4. QED
        BY <3>1, <3>2, <3>3
    <2>5. ASSUME NEW c \in Cells, NEW q \in Ranks
          PROVE  c \in loud[q][r] <=> \E i \in DOMAIN trail[q][r] : Near(trail[q][r][i], c)
      <3>1. /\ trail[q] \in Seq([1 .. elem_send_count(q) -> Placed])
            /\ r \in 1 .. Len(trail[q])
            /\ loud[q][r] = {x \in Cells : \E i \in 1 .. num_elem : Near(trail[q][r][i], x)}
        BY <1>1, <2>3 DEF TrailInv, TrailOK, Round
      <3>2. trail[q][r] \in [1 .. elem_send_count(q) -> Placed]
        BY <3>1
      <3>3. elem_send_count(q) = num_elem
        <4>1. q \in Nat /\ num_elem_per_proc \in Nat
          BY CountTypes
        <4>2. QED
          BY <4>1 DEF elem_send_count, EvenSources, num_elem
      <3>4. DOMAIN trail[q][r] = 1 .. num_elem
        BY <3>2, <3>3
      <3>5. QED
        BY <3>1, <3>4
    <2>6. {e.cell : e \in published[p][r]} = {c \in Owned(p) : TrueLevel(c, r) # {}}
      <3>1. ASSUME NEW e \in published[p][r]
            PROVE  e.cell \in Owned(p) /\ TrueLevel(e.cell, r) # {}
        BY <2>2, <3>1 DEF TrueReport
      <3>2. ASSUME NEW c \in Owned(p), TrueLevel(c, r) # {}
            PROVE  \E e \in published[p][r] : e.cell = c
        <4>1. [cell |-> c, noise_level |-> TrueLevel(c, r)] \in published[p][r]
          BY <2>2, <3>2 DEF TrueReport
        <4>2. QED
          BY <4>1
      <3>3. QED
        BY <3>1, <3>2
    <2>7. Owned(p) \subseteq Cells
      BY DEF Owned
    <2>8. QED
      BY <2>4, <2>5, <2>6, <2>7
  <1>2. Spec => [](TypeInv /\ DataInv)
    BY DataInvariant
  <1>3. SimSpec => Spec
    BY SimulationImplementsShuffle DEF ImplementsShuffle
  <1>4. QED
    BY <1>1, <1>2, <1>3, TrailInvariant, PTL
=============================================================================
