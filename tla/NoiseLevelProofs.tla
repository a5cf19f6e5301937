-------------------------- MODULE NoiseLevelProofs --------------------------
(***************************************************************************)
(* How far the level that rank 0 publishes for a square metre drifts from   *)
(* the level of the summed power, and how much of it is a matter of the     *)
(* order of arrival, for every number of ranks and sources and all levels.  *)
(***************************************************************************)
EXTENDS NoiseLevel, Arithmetic, TLAPS

-----------------------------------------------------------------------------
(* The power of half decibels.                                             *)

\* f is Power up to n.
PowersTo(n, f) ==
    f = [h \in 0 .. n |-> IF h < 20 THEN HalfDecibel[h + 1] ELSE 10 * f[h - 20]]

Powers(f) ==
    f = [h \in Nat |-> IF h < 20 THEN HalfDecibel[h + 1] ELSE 10 * f[h - 20]]

LEMMA PowersToExist == \A n \in Nat : \E f : PowersTo(n, f)
  <1> DEFINE T == {n \in Nat : ~ \E f : PowersTo(n, f)}
  <1>1. SUFFICES ASSUME T # {} PROVE FALSE
    OBVIOUS
  <1>2. PICK n \in T : \A k \in T : n <= k
    <2>1. T \subseteq Nat
      OBVIOUS
    <2> HIDE DEF T
    <2>2. QED
      BY <1>1, <2>1, LeastNat
  <1>3. n \in Nat /\ ~ \E f : PowersTo(n, f)
    OBVIOUS
  <1>4. CASE n < 20
    <2> DEFINE f == [h \in 0 .. n |-> HalfDecibel[h + 1]]
    <2>1. f = [h \in 0 .. n |-> IF h < 20 THEN HalfDecibel[h + 1] ELSE 10 * f[h - 20]]
      <3>1. \A h \in 0 .. n : h < 20
        BY <1>3, <1>4
      <3>2. QED
        BY <3>1
    <2>2. PowersTo(n, f)
      BY <2>1 DEF PowersTo
    <2>3. QED
      BY <2>2, <1>3
  <1>5. CASE n >= 20
    <2>1. n - 1 \in Nat /\ ~ (n - 1 \in T)
      BY <1>2, <1>3, <1>5
    <2>2. PICK g : PowersTo(n - 1, g)
      BY <2>1
    <2> DEFINE f == [h \in 0 .. n |-> IF h < 20 THEN HalfDecibel[h + 1] ELSE 10 * g[h - 20]]
    <2>3. \A h \in 0 .. (n - 1) : f[h] = g[h]
      <3>1. SUFFICES ASSUME NEW h \in 0 .. (n - 1) PROVE f[h] = g[h]
        OBVIOUS
      <3>2. h \in 0 .. n
        BY <1>3
      <3>3. g[h] = IF h < 20 THEN HalfDecibel[h + 1] ELSE 10 * g[h - 20]
        BY <2>2 DEF PowersTo
      <3>4. QED
        BY <3>2, <3>3
    <2>4. \A h \in 0 .. n : h >= 20 => f[h - 20] = g[h - 20]
      <3>1. \A h \in 0 .. n : h >= 20 => h - 20 \in 0 .. (n - 1)
        BY <1>3
      <3> HIDE DEF f
      <3>2. QED
        BY <2>3, <3>1
    <2>5. f = [h \in 0 .. n |-> IF h < 20 THEN HalfDecibel[h + 1] ELSE 10 * f[h - 20]]
      <3> DEFINE e == [h \in 0 .. n |-> IF h < 20 THEN HalfDecibel[h + 1] ELSE 10 * f[h - 20]]
      <3>1. \A h \in 0 .. n : f[h] = e[h]
        <4>1. SUFFICES ASSUME NEW h \in 0 .. n PROVE f[h] = e[h]
          OBVIOUS
        <4>2. CASE h < 20
          BY <4>2
        <4>3. CASE h >= 20
          <5>1. f[h] = 10 * g[h - 20]
            BY <4>3
          <5>2. e[h] = 10 * f[h - 20]
            BY <4>3
          <5>3. QED
            BY <5>1, <5>2, <2>4, <4>3
        <4>4. QED
          BY <4>2, <4>3, <1>3
      <3>2. QED
        BY <3>1
    <2>6. PowersTo(n, f)
      <3> HIDE DEF f
      <3>1. QED
        BY <2>5 DEF PowersTo
    <2>7. QED
      BY <2>6, <1>3
  <1>6. QED
    BY <1>3, <1>4, <1>5

LEMMA PowersToAgree ==
    ASSUME NEW m \in Nat, NEW n \in Nat, m <= n, NEW f, NEW g, PowersTo(m, f), PowersTo(n, g)
    PROVE  \A h \in 0 .. m : f[h] = g[h]
  <1> DEFINE T == {h \in 0 .. m : f[h] # g[h]}
  <1>1. SUFFICES ASSUME T # {} PROVE FALSE
    OBVIOUS
  <1>2. PICK h \in T : \A k \in T : h <= k
    <2>1. T \subseteq Nat
      OBVIOUS
    <2> HIDE DEF T
    <2>2. QED
      BY <1>1, <2>1, LeastNat
  <1>3. h \in 0 .. m /\ h \in 0 .. n /\ f[h] # g[h]
    OBVIOUS
  <1>4. f[h] = IF h < 20 THEN HalfDecibel[h + 1] ELSE 10 * f[h - 20]
    BY <1>3 DEF PowersTo
  <1>5. g[h] = IF h < 20 THEN HalfDecibel[h + 1] ELSE 10 * g[h - 20]
    BY <1>3 DEF PowersTo
  <1>6. h >= 20 => h - 20 \in 0 .. m /\ ~ (h - 20 \in T)
    BY <1>2, <1>3
  <1>7. h >= 20 => f[h - 20] = g[h - 20]
    BY <1>6
  <1>8. QED
    BY <1>3, <1>4, <1>5, <1>7

LEMMA PowersExist == \E f : Powers(f)
  <1> DEFINE G(n) == CHOOSE f : PowersTo(n, f)
             F == [h \in Nat |-> G(h)[h]]
  <1>1. \A n \in Nat : PowersTo(n, G(n))
    BY PowersToExist
  <1> HIDE DEF G
  <1>2. \A h \in Nat : h >= 20 => G(h)[h - 20] = F[h - 20]
    <2>1. SUFFICES ASSUME NEW h \in Nat, h >= 20 PROVE G(h)[h - 20] = F[h - 20]
      OBVIOUS
    <2>2. h - 20 \in Nat /\ h - 20 <= h /\ h - 20 \in 0 .. (h - 20)
      BY <2>1
    <2>3. F[h - 20] = G(h - 20)[h - 20]
      BY <2>2
    <2>4. PowersTo(h, G(h)) /\ PowersTo(h - 20, G(h - 20))
      BY <1>1, <2>2
    <2>5. \A k \in 0 .. (h - 20) : G(h - 20)[k] = G(h)[k]
      BY <2>2, <2>4, PowersToAgree
    <2>6. QED
      BY <2>2, <2>3, <2>5
  <1>3. \A h \in Nat : F[h] = IF h < 20 THEN HalfDecibel[h + 1] ELSE 10 * F[h - 20]
    <2>1. SUFFICES ASSUME NEW h \in Nat
                   PROVE  F[h] = IF h < 20 THEN HalfDecibel[h + 1] ELSE 10 * F[h - 20]
      OBVIOUS
    <2>2. G(h)[h] = IF h < 20 THEN HalfDecibel[h + 1] ELSE 10 * G(h)[h - 20]
      <3>1. PowersTo(h, G(h)) /\ h \in 0 .. h
        BY <1>1
      <3>2. QED
        BY <3>1 DEF PowersTo
    <2>3. F[h] = G(h)[h]
      OBVIOUS
    <2>4. h >= 20 => G(h)[h - 20] = F[h - 20]
      BY <1>2
    <2> HIDE DEF F
    <2>5. QED
      BY <2>2, <2>3, <2>4
  <1>4. F = [h \in Nat |-> F[h]]
    OBVIOUS
  <1> HIDE DEF F
  <1>5. F = [h \in Nat |-> IF h < 20 THEN HalfDecibel[h + 1] ELSE 10 * F[h - 20]]
    BY <1>3, <1>4
  <1>6. QED
    BY <1>5 DEF Powers

LEMMA PowerStep ==
    \A h \in Nat : Power[h] = IF h < 20 THEN HalfDecibel[h + 1] ELSE 10 * Power[h - 20]
  <1>1. Power = CHOOSE f : Powers(f)
    BY DEF Power, Powers
  <1>2. Powers(Power)
    BY <1>1, PowersExist
  <1>3. QED
    BY <1>2 DEF Powers

LEMMA PowerTable ==
    /\ Power[0] = 1000 /\ Power[1] = 1122 /\ Power[2] = 1259 /\ Power[3] = 1413
    /\ Power[4] = 1585 /\ Power[5] = 1778 /\ Power[6] = 1995 /\ Power[7] = 2239
    /\ Power[8] = 2512 /\ Power[9] = 2818 /\ Power[10] = 3162 /\ Power[11] = 3548
    /\ Power[12] = 3981 /\ Power[13] = 4467 /\ Power[14] = 5012 /\ Power[15] = 5623
    /\ Power[16] = 6310 /\ Power[17] = 7079 /\ Power[18] = 7943 /\ Power[19] = 8913
  <1>1. \A h \in Nat : h < 20 => Power[h] = HalfDecibel[h + 1]
    BY PowerStep
  <1>2. QED
    BY <1>1 DEF HalfDecibel

LEMMA PowerTenfold == \A h \in Nat : Power[h + 20] = 10 * Power[h]
  <1>1. SUFFICES ASSUME NEW h \in Nat PROVE Power[h + 20] = 10 * Power[h]
    OBVIOUS
  <1>2. h + 20 \in Nat /\ ~ (h + 20 < 20) /\ (h + 20) - 20 = h
    OBVIOUS
  <1>3. QED
    BY <1>2, PowerStep

\* Every power is a positive number.
LEMMA PowerType == \A h \in Nat : Power[h] \in Nat \ {0}
  <1> DEFINE T == {h \in Nat : ~ (Power[h] \in Nat \ {0})}
  <1>1. SUFFICES ASSUME T # {} PROVE FALSE
    OBVIOUS
  <1>2. PICK h \in T : \A k \in T : h <= k
    <2>1. T \subseteq Nat
      OBVIOUS
    <2> HIDE DEF T
    <2>2. QED
      BY <1>1, <2>1, LeastNat
  <1>3. h \in Nat /\ ~ (Power[h] \in Nat \ {0})
    OBVIOUS
  <1>4. CASE h < 20
    <2>1. h \in 0 .. 19
      BY <1>3, <1>4
    <2>2. QED
      BY <2>1, <1>3, PowerTable
  <1>5. CASE h >= 20
    <2>1. h - 20 \in Nat /\ ~ (h - 20 \in T) /\ (h - 20) + 20 = h
      BY <1>2, <1>3, <1>5
    <2>2. Power[h - 20] \in Nat \ {0}
      BY <2>1
    <2>3. Power[h] = 10 * Power[h - 20]
      BY <2>1, PowerTenfold
    <2>4. QED
      BY <1>3, <2>2, <2>3
  <1>6. QED
    BY <1>3, <1>4, <1>5

\* Half a decibel is more than a tenth of the power.
LEMMA PowerRatio == \A h \in Nat : 11 * Power[h] <= 10 * Power[h + 1]
  <1> DEFINE T == {h \in Nat : ~ (11 * Power[h] <= 10 * Power[h + 1])}
  <1>1. SUFFICES ASSUME T # {} PROVE FALSE
    OBVIOUS
  <1>2. PICK h \in T : \A k \in T : h <= k
    <2>1. T \subseteq Nat
      OBVIOUS
    <2> HIDE DEF T
    <2>2. QED
      BY <1>1, <2>1, LeastNat
  <1>3. h \in Nat /\ ~ (11 * Power[h] <= 10 * Power[h + 1])
    OBVIOUS
  <1>4. CASE h < 20
    <2>1. h \in 0 .. 19
      BY <1>3, <1>4
    <2>2. Power[20] = 10000
      BY PowerTable, PowerTenfold
    <2>3. QED
      BY <2>1, <2>2, <1>3, PowerTable
  <1>5. CASE h >= 20
    <2>1. h - 20 \in Nat /\ ~ (h - 20 \in T)
      BY <1>2, <1>3, <1>5
    <2>2. 11 * Power[h - 20] <= 10 * Power[(h - 20) + 1]
      BY <2>1
    <2>3. PICK g \in Nat : g = h - 20
      BY <2>1
    <2>4. g + 20 = h /\ (g + 1) + 20 = h + 1 /\ g + 1 \in Nat
      BY <2>3
    <2>5. Power[h] = 10 * Power[g] /\ Power[h + 1] = 10 * Power[g + 1]
      BY <2>4, PowerTenfold
    <2>6. Power[g] \in Nat /\ Power[g + 1] \in Nat
      BY <2>4, PowerType
    <2>7. QED
      BY <1>3, <2>2, <2>3, <2>5, <2>6
  <1>6. QED
    BY <1>3, <1>4, <1>5

\* More half decibels are no less power.
LEMMA PowerMonotone ==
    ASSUME NEW a \in Nat, NEW b \in Nat, a <= b
    PROVE  Power[a] <= Power[b]
  <1> DEFINE T == {k \in Nat : ~ (Power[a] <= Power[a + k])}
  <1>1. T = {}
    <2>1. SUFFICES ASSUME T # {} PROVE FALSE
      OBVIOUS
    <2>2. PICK k \in T : \A j \in T : k <= j
      <3>1. T \subseteq Nat
        OBVIOUS
      <3> HIDE DEF T
      <3>2. QED
        BY <2>1, <3>1, LeastNat
    <2>3. k \in Nat /\ ~ (Power[a] <= Power[a + k])
      OBVIOUS
    <2>4. Power[a] \in Nat
      BY PowerType
    <2>5. k # 0
      BY <2>3, <2>4
    <2>6. k - 1 \in Nat /\ ~ (k - 1 \in T)
      BY <2>2, <2>3, <2>5
    <2>7. Power[a] <= Power[a + (k - 1)]
      BY <2>6
    <2>8. PICK c \in Nat : c = a + (k - 1)
      BY <2>6
    <2>9. c + 1 = a + k
      BY <2>3, <2>8
    <2>10. 11 * Power[c] <= 10 * Power[c + 1] /\ Power[c] \in Nat /\ Power[c + 1] \in Nat
      BY PowerRatio, PowerType
    <2>11. QED
      BY <2>3, <2>4, <2>7, <2>8, <2>9, <2>10
  <1>2. b - a \in Nat /\ a + (b - a) = b
    OBVIOUS
  <1>3. ~ (b - a \in T)
    BY <1>1
  <1>4. QED
    BY <1>2, <1>3

\* More power is not fewer half decibels.
LEMMA PowerOrder ==
    ASSUME NEW a \in Nat, NEW b \in Nat, Power[a] <= Power[b]
    PROVE  a <= b
  <1>1. SUFFICES ASSUME b + 1 <= a PROVE FALSE
    OBVIOUS
  <1>2. Power[b + 1] <= Power[a]
    BY <1>1, PowerMonotone
  <1>3. 11 * Power[b] <= 10 * Power[b + 1]
    BY PowerRatio
  <1>4. Power[a] \in Nat /\ Power[b] \in Nat \ {0} /\ Power[b + 1] \in Nat
    BY PowerType
  <1>5. QED
    BY <1>2, <1>3, <1>4

-----------------------------------------------------------------------------
(* One addition: the gain that sum_noises rounds to is within half a       *)
(* decibel of the gain in power.                                           *)

\* l half decibels and d decibels more add up to g decibels above the louder,
\* to within half a decibel.
Fits(l, d, g) ==
    /\ Power[l + 2 * d] + Power[l] <= Power[l + (2 * d + 2 * g + 1)]
    /\ Power[l + (2 * d + 2 * g - 1)] <= Power[l + 2 * d] + Power[l]

LEMMA PowerTableTo44 ==
    /\ Power[20] = 10000 /\ Power[21] = 11220 /\ Power[22] = 12590 /\ Power[23] = 14130
    /\ Power[24] = 15850 /\ Power[25] = 17780 /\ Power[26] = 19950 /\ Power[27] = 22390
    /\ Power[28] = 25120 /\ Power[29] = 28180 /\ Power[30] = 31620 /\ Power[31] = 35480
    /\ Power[32] = 39810 /\ Power[33] = 44670 /\ Power[34] = 50120 /\ Power[35] = 56230
    /\ Power[36] = 63100 /\ Power[37] = 70790 /\ Power[38] = 79430 /\ Power[39] = 89130
    /\ Power[40] = 100000 /\ Power[41] = 112200 /\ Power[42] = 125900 /\ Power[43] = 141300
    /\ Power[44] = 158500
  <1>1. \A h \in 20 .. 39 : Power[h] = 10 * Power[h - 20]
    BY PowerStep
  <1>2. /\ Power[20] = 10000 /\ Power[21] = 11220 /\ Power[22] = 12590 /\ Power[23] = 14130
        /\ Power[24] = 15850 /\ Power[25] = 17780 /\ Power[26] = 19950 /\ Power[27] = 22390
        /\ Power[28] = 25120 /\ Power[29] = 28180
    BY <1>1, PowerTable
  <1>3. /\ Power[30] = 31620 /\ Power[31] = 35480
        /\ Power[32] = 39810 /\ Power[33] = 44670 /\ Power[34] = 50120 /\ Power[35] = 56230
        /\ Power[36] = 63100 /\ Power[37] = 70790 /\ Power[38] = 79430 /\ Power[39] = 89130
    BY <1>1, PowerTable
  <1>4. \A h \in 40 .. 44 : Power[h] = 10 * Power[h - 20]
    BY PowerStep
  <1>5. /\ Power[40] = 100000 /\ Power[41] = 112200 /\ Power[42] = 125900
        /\ Power[43] = 141300 /\ Power[44] = 158500
    BY <1>2, <1>4
  <1>6. QED
    BY <1>2, <1>3, <1>5

LEMMA FitsTenfold ==
    ASSUME NEW l \in Nat, NEW d \in Nat, NEW g \in Nat, d + g > 0, Fits(l, d, g)
    PROVE  Fits(l + 20, d, g)
  <1>1. PICK a \in Nat, b \in Nat, c \in Nat :
            a = l + 2 * d /\ b = l + (2 * d + 2 * g + 1) /\ c = l + (2 * d + 2 * g - 1)
    <2>1. l + (2 * d + 2 * g - 1) \in Nat
      OBVIOUS
    <2>2. QED
      BY <2>1
  <1>2. /\ a + 20 = (l + 20) + 2 * d
        /\ b + 20 = (l + 20) + (2 * d + 2 * g + 1)
        /\ c + 20 = (l + 20) + (2 * d + 2 * g - 1)
    BY <1>1
  <1>3. /\ Power[a + 20] = 10 * Power[a] /\ Power[b + 20] = 10 * Power[b]
        /\ Power[c + 20] = 10 * Power[c] /\ Power[l + 20] = 10 * Power[l]
    BY PowerTenfold
  <1>4. Power[a] \in Nat /\ Power[b] \in Nat /\ Power[c] \in Nat /\ Power[l] \in Nat
    BY PowerType
  <1>5. Power[a] + Power[l] <= Power[b] /\ Power[c] <= Power[a] + Power[l]
    BY <1>1 DEF Fits
  <1>6. Power[a + 20] + Power[l + 20] <= Power[b + 20] /\ Power[c + 20] <= Power[a + 20] + Power[l + 20]
    BY <1>3, <1>4, <1>5
  <1>7. QED
    BY <1>2, <1>6 DEF Fits

LEMMA FitsAll ==
    ASSUME NEW d \in Nat, NEW g \in Nat, d + g > 0, \A l \in 0 .. 19 : Fits(l, d, g)
    PROVE  \A l \in Nat : Fits(l, d, g)
  <1> DEFINE T == {l \in Nat : ~ Fits(l, d, g)}
  <1>1. SUFFICES ASSUME T # {} PROVE FALSE
    OBVIOUS
  <1>2. PICK l \in T : \A k \in T : l <= k
    <2>1. T \subseteq Nat
      OBVIOUS
    <2> HIDE DEF T
    <2>2. QED
      BY <1>1, <2>1, LeastNat
  <1>3. l \in Nat /\ ~ Fits(l, d, g)
    OBVIOUS
  <1>4. l >= 20
    BY <1>3
  <1>5. l - 20 \in Nat /\ ~ (l - 20 \in T) /\ (l - 20) + 20 = l
    BY <1>2, <1>3, <1>4
  <1>6. Fits(l - 20, d, g)
    BY <1>5
  <1>7. QED
    BY <1>3, <1>5, <1>6, FitsTenfold

\* The gains of nearby levels.
LEMMA FitsNear ==
    \A l \in Nat :
        /\ Fits(l, 0, 3) /\ Fits(l, 1, 3) /\ Fits(l, 2, 2) /\ Fits(l, 3, 2) /\ Fits(l, 4, 1)
        /\ Fits(l, 5, 1) /\ Fits(l, 6, 1) /\ Fits(l, 7, 1) /\ Fits(l, 8, 1) /\ Fits(l, 9, 1)
  <1>0. \A l \in 0 .. 19 : Fits(l, 0, 3)
    BY PowerTable, PowerTableTo44 DEF Fits
  <1>1. \A l \in 0 .. 19 : Fits(l, 1, 3)
    BY PowerTable, PowerTableTo44 DEF Fits
  <1>2. \A l \in 0 .. 19 : Fits(l, 2, 2)
    BY PowerTable, PowerTableTo44 DEF Fits
  <1>3. \A l \in 0 .. 19 : Fits(l, 3, 2)
    BY PowerTable, PowerTableTo44 DEF Fits
  <1>4. \A l \in 0 .. 19 : Fits(l, 4, 1)
    BY PowerTable, PowerTableTo44 DEF Fits
  <1>5. \A l \in 0 .. 19 : Fits(l, 5, 1)
    BY PowerTable, PowerTableTo44 DEF Fits
  <1>6. \A l \in 0 .. 19 : Fits(l, 6, 1)
    BY PowerTable, PowerTableTo44 DEF Fits
  <1>7. \A l \in 0 .. 19 : Fits(l, 7, 1)
    BY PowerTable, PowerTableTo44 DEF Fits
  <1>8. \A l \in 0 .. 19 : Fits(l, 8, 1)
    BY PowerTable, PowerTableTo44 DEF Fits
  <1>9. \A l \in 0 .. 19 : Fits(l, 9, 1)
    BY PowerTable, PowerTableTo44 DEF Fits
  <1>10. \A l \in Nat : Fits(l, 0, 3) /\ Fits(l, 1, 3)
    BY <1>0, <1>1, FitsAll
  <1>11. \A l \in Nat : Fits(l, 2, 2) /\ Fits(l, 3, 2)
    BY <1>2, <1>3, FitsAll
  <1>12. \A l \in Nat : Fits(l, 4, 1) /\ Fits(l, 5, 1) /\ Fits(l, 6, 1)
    BY <1>4, <1>5, <1>6, FitsAll
  <1>13. \A l \in Nat : Fits(l, 7, 1) /\ Fits(l, 8, 1) /\ Fits(l, 9, 1)
    BY <1>7, <1>8, <1>9, FitsAll
  <1>14. QED
    BY <1>10, <1>11, <1>12, <1>13

\* Ten decibels apart the softer level is a tenth of the louder at most, less
\* than half a decibel.
LEMMA FitsFar == ASSUME NEW l \in Nat, NEW d \in Nat, d >= 10 PROVE Fits(l, d, 0)
  <1>1. PICK c \in Nat : c = (l + 2 * d) - 20
    BY (l + 2 * d) - 20 \in Nat
  <1>2. PICK a \in Nat : a = l + 2 * d
    OBVIOUS
  <1>3. a = c + 20 /\ a + 1 = l + (2 * d + 2 * 0 + 1) /\ a - 1 = l + (2 * d + 2 * 0 - 1)
    BY <1>1, <1>2
  <1>4. l <= c /\ a - 1 \in Nat /\ a - 1 <= a
    BY <1>1, <1>2
  <1>5. Power[l] <= Power[c] /\ Power[a - 1] <= Power[a] /\ Power[a] = 10 * Power[c]
    BY <1>3, <1>4, PowerMonotone, PowerTenfold
  <1>6. 11 * Power[a] <= 10 * Power[a + 1]
    BY PowerRatio
  <1>7. /\ Power[l] \in Nat /\ Power[c] \in Nat /\ Power[a] \in Nat /\ Power[a - 1] \in Nat
        /\ Power[a + 1] \in Nat
    BY <1>4, PowerType
  <1>8. Power[a] + Power[l] <= Power[a + 1] /\ Power[a - 1] <= Power[a] + Power[l]
    BY <1>5, <1>6, <1>7
  <1>9. QED
    BY <1>2, <1>3, <1>8 DEF Fits

LEMMA GainFits ==
    ASSUME NEW l \in Nat, NEW d \in Nat
    PROVE  Gain(d) \in 0 .. 3 /\ d + Gain(d) > 0 /\ Fits(l, d, Gain(d))
  <1>1. CASE d <= 1
    <2>1. Gain(d) = 3 /\ (d = 0 \/ d = 1)
      BY <1>1 DEF Gain
    <2>2. QED
      BY <2>1, FitsNear
  <1>2. CASE d \in 2 .. 3
    <2>1. Gain(d) = 2 /\ (d = 2 \/ d = 3)
      BY <1>2 DEF Gain
    <2>2. QED
      BY <2>1, FitsNear
  <1>3. CASE d \in 4 .. 9
    <2>1. Gain(d) = 1 /\ (d = 4 \/ d = 5 \/ d = 6 \/ d = 7 \/ d = 8 \/ d = 9)
      BY <1>3 DEF Gain
    <2>2. QED
      BY <2>1, FitsNear
  <1>4. CASE d >= 10
    <2>1. Gain(d) = 0
      BY <1>4 DEF Gain
    <2>2. QED
      BY <2>1, <1>4, FitsFar
  <1>5. QED
    BY <1>1, <1>2, <1>3, <1>4

-----------------------------------------------------------------------------
(* Many additions: a level is near the power of its n sources when it is    *)
(* within n - 1 half decibels of it.  Adding two such levels adds one       *)
(* rounding to the larger of two errors, so the sum is near again.          *)

Near(level, n, power) ==
    /\ n = 0 => level = 0 /\ power = 0
    /\ n > 0 => level >= Np /\ Within(level, n - 1, power)

\* A level as heard is a position in the table.
LEMMA AboveType ==
    ASSUME NEW level \in Nat, level >= Np
    PROVE  /\ Above(level) \in Nat /\ Above(level) >= P + V + 3
           /\ \A d \in Nat : Above(level + d) = Above(level) + 2 * d
  BY LevelAssumption DEF Above

LEMMA NearLouder ==
    ASSUME NEW l1 \in Nat, NEW l2 \in Nat, l2 <= l1,
           NEW n1 \in Nat \ {0}, NEW n2 \in Nat \ {0}, n1 + n2 <= P + V,
           NEW w1 \in Nat, NEW w2 \in Nat, Near(l1, n1, w1), Near(l2, n2, w2)
    PROVE  Near(l1 + Gain(l1 - l2), n1 + n2, w1 + w2)
  <1>1. PICK d \in Nat : d = l1 - l2
    OBVIOUS
  <1>2. PICK g \in 0 .. 3 : g = Gain(d) /\ d + g > 0 /\ \A l \in Nat : Fits(l, d, g)
    <2>1. Gain(d) \in 0 .. 3 /\ d + Gain(d) > 0
      BY GainFits
    <2>2. \A l \in Nat : Fits(l, d, Gain(d))
      BY GainFits
    <2>3. QED
      BY <2>1, <2>2
  <1>3. /\ l2 >= Np /\ Within(l2, n2 - 1, w2)
        /\ l1 >= Np /\ Within(l1, n1 - 1, w1)
    BY DEF Near
  <1>4. P \in Nat /\ V \in Nat
    BY LevelAssumption
  <1>5. PICK a \in Nat : a = Above(l2) /\ a >= P + V + 3
    BY <1>3, AboveType
  <1>6. Above(l1) = a + 2 * d /\ Above(l1 + g) = a + 2 * d + 2 * g
    <2>1. l1 = l2 + d /\ l1 + g = l2 + (d + g) /\ d + g \in Nat
      BY <1>1, <1>2
    <2>2. Above(l2 + d) = a + 2 * d /\ Above(l2 + (d + g)) = a + 2 * (d + g)
      BY <2>1, <1>3, <1>5, AboveType
    <2>3. QED
      BY <2>1, <2>2
  <1>7. /\ Power[a - (n2 - 1)] <= w2 /\ w2 <= Power[a + (n2 - 1)]
        /\ Power[(a + 2 * d) - (n1 - 1)] <= w1 /\ w1 <= Power[(a + 2 * d) + (n1 - 1)]
    BY <1>3, <1>5, <1>6 DEF Within
  <1>8. PICK e \in Nat : e = n1 + n2 - 2
    BY n1 + n2 - 2 \in Nat
  <1>9. Power[(a + 2 * d + 2 * g) - (n1 + n2 - 1)] <= w1 + w2
    <2>1. PICK x \in Nat : x = a - e
      BY <1>4, <1>5, <1>8, a - e \in Nat
    <2>2. /\ a - (n2 - 1) \in Nat /\ x <= a - (n2 - 1)
          /\ (a + 2 * d) - (n1 - 1) \in Nat /\ x + 2 * d <= (a + 2 * d) - (n1 - 1)
      BY <2>1, <1>4, <1>5, <1>8
    <2>3. Power[x] <= Power[a - (n2 - 1)] /\ Power[x + 2 * d] <= Power[(a + 2 * d) - (n1 - 1)]
      BY <2>2, PowerMonotone
    <2>4. Power[x + (2 * d + 2 * g - 1)] <= Power[x + 2 * d] + Power[x]
      BY <1>2 DEF Fits
    <2>5. x + (2 * d + 2 * g - 1) = (a + 2 * d + 2 * g) - (n1 + n2 - 1)
      BY <2>1, <1>8
    <2>6. x + (2 * d + 2 * g - 1) \in Nat
      BY <1>2
    <2>7. /\ Power[x] \in Nat /\ Power[x + 2 * d] \in Nat /\ Power[a - (n2 - 1)] \in Nat
          /\ Power[(a + 2 * d) - (n1 - 1)] \in Nat /\ Power[x + (2 * d + 2 * g - 1)] \in Nat
      BY <2>2, <2>6, PowerType
    <2>8. Power[x + (2 * d + 2 * g - 1)] <= w1 + w2
      BY <1>7, <2>3, <2>4, <2>7
    <2>9. QED
      BY <2>5, <2>8
  <1>10. w1 + w2 <= Power[(a + 2 * d + 2 * g) + (n1 + n2 - 1)]
    <2>1. PICK y \in Nat : y = a + e
      OBVIOUS
    <2>2. /\ a + (n2 - 1) \in Nat /\ a + (n2 - 1) <= y
          /\ (a + 2 * d) + (n1 - 1) \in Nat /\ (a + 2 * d) + (n1 - 1) <= y + 2 * d
      BY <2>1, <1>8
    <2>3. Power[a + (n2 - 1)] <= Power[y] /\ Power[(a + 2 * d) + (n1 - 1)] <= Power[y + 2 * d]
      BY <2>2, PowerMonotone
    <2>4. Power[y + 2 * d] + Power[y] <= Power[y + (2 * d + 2 * g + 1)]
      BY <1>2 DEF Fits
    <2>5. y + (2 * d + 2 * g + 1) = (a + 2 * d + 2 * g) + (n1 + n2 - 1)
      BY <2>1, <1>8
    <2>6. /\ Power[y] \in Nat /\ Power[y + 2 * d] \in Nat /\ Power[a + (n2 - 1)] \in Nat
          /\ Power[(a + 2 * d) + (n1 - 1)] \in Nat /\ Power[y + (2 * d + 2 * g + 1)] \in Nat
      BY <2>2, PowerType
    <2>7. w1 + w2 <= Power[y + (2 * d + 2 * g + 1)]
      BY <1>7, <2>3, <2>4, <2>6
    <2>8. QED
      BY <2>5, <2>7
  <1>11. Within(l1 + g, n1 + n2 - 1, w1 + w2)
    BY <1>6, <1>9, <1>10 DEF Within
  <1>12. l1 + g >= Np /\ n1 + n2 # 0
    BY <1>3, LevelAssumption
  <1>13. Near(l1 + g, n1 + n2, w1 + w2)
    BY <1>11, <1>12 DEF Near
  <1>14. QED
    BY <1>1, <1>2, <1>13

\* Adding two levels adds up their sources and their power.
LEMMA NearSum ==
    ASSUME NEW l1 \in Nat, NEW l2 \in Nat,
           NEW n1 \in Nat, NEW n2 \in Nat, n1 + n2 <= P + V,
           NEW w1 \in Nat, NEW w2 \in Nat, Near(l1, n1, w1), Near(l2, n2, w2)
    PROVE  /\ sum_noises(l1, l2) \in Nat
           /\ Near(sum_noises(l1, l2), n1 + n2, w1 + w2)
  <1>1. CASE n1 = 0
    <2>1. l1 = 0 /\ w1 = 0
      BY <1>1 DEF Near
    <2>2. sum_noises(l1, l2) = l2 /\ n1 + n2 = n2 /\ w1 + w2 = w2
      BY <1>1, <2>1 DEF sum_noises
    <2>3. QED
      BY <2>2
  <1>2. CASE n1 # 0 /\ n2 = 0
    <2>1. l1 # 0 /\ l2 = 0 /\ w2 = 0
      BY <1>2, LevelAssumption DEF Near
    <2>2. sum_noises(l1, l2) = l1 /\ n1 + n2 = n1 /\ w1 + w2 = w1
      BY <1>2, <2>1 DEF sum_noises
    <2>3. QED
      BY <2>2
  <1>3. CASE n1 # 0 /\ n2 # 0
    <2>1. l1 # 0 /\ l2 # 0
      BY <1>3, LevelAssumption DEF Near
    <2>2. CASE l2 <= l1
      <3>1. sum_noises(l1, l2) = l1 + Gain(l1 - l2)
        BY <2>1, <2>2 DEF sum_noises
      <3>2. Gain(l1 - l2) \in Nat
        BY <2>2, l1 - l2 \in Nat, GainFits
      <3>3. Near(l1 + Gain(l1 - l2), n1 + n2, w1 + w2)
        BY <1>3, <2>2, NearLouder
      <3>4. QED
        BY <3>1, <3>2, <3>3
    <2>3. CASE l1 < l2
      <3>1. sum_noises(l1, l2) = l2 + Gain(l2 - l1)
        BY <2>1, <2>3 DEF sum_noises
      <3>2. Gain(l2 - l1) \in Nat
        BY <2>3, l2 - l1 \in Nat, GainFits
      <3>3. Near(l2 + Gain(l2 - l1), n2 + n1, w2 + w1)
        BY <1>3, <2>3, NearLouder
      <3>4. n2 + n1 = n1 + n2 /\ w2 + w1 = w1 + w2
        OBVIOUS
      <3>5. QED
        BY <3>1, <3>2, <3>3, <3>4
    <2>4. QED
      BY <2>2, <2>3
  <1>4. QED
    BY <1>1, <1>2, <1>3

-----------------------------------------------------------------------------
(* The invariant: every rank's level is near its own sources, and the       *)
(* owner's sum is near the sources of the ranks it has got.                 *)

LEMMA RanksFinite == IsFiniteSet(Ranks) /\ 0 \in Ranks
  <1>1. 0 \in Int /\ world_size - 1 \in Int
    BY LevelAssumption
  <1>2. QED
    BY <1>1, LevelAssumption, FS_Interval DEF Ranks

PersonPower == Power[Above(Np)]
VehiclePower == Power[Above(Nv)]

LEMMA OneSource ==
    /\ PersonPower \in Nat /\ VehiclePower \in Nat /\ Np \in Nat /\ Nv \in Nat
    /\ Near(Np, 1, PersonPower) /\ Near(Nv, 1, VehiclePower)
  <1>1. Np \in Nat /\ Nv \in Nat /\ Np >= Np /\ Nv >= Np
    BY LevelAssumption
  <1>2. Above(Np) \in Nat /\ Above(Nv) \in Nat
    BY <1>1, AboveType
  <1>3. PersonPower \in Nat /\ VehiclePower \in Nat
    BY <1>2, PowerType DEF PersonPower, VehiclePower
  <1>4. Within(Np, 1 - 1, PersonPower) /\ Within(Nv, 1 - 1, VehiclePower)
    <2>1. /\ Above(Np) - (1 - 1) = Above(Np) /\ Above(Np) + (1 - 1) = Above(Np)
          /\ Above(Nv) - (1 - 1) = Above(Nv) /\ Above(Nv) + (1 - 1) = Above(Nv)
      BY <1>2
    <2>2. PersonPower <= PersonPower /\ VehiclePower <= VehiclePower
      BY <1>3
    <2>3. QED
      BY <2>1, <2>2 DEF Within, PersonPower, VehiclePower
  <1>5. QED
    BY <1>1, <1>3, <1>4 DEF Near

\* The level of i people and j vehicles.
NearMix(level, i, j) == Near(level, i + j, i * PersonPower + j * VehiclePower)

LEMMA MixSum ==
    ASSUME NEW l1 \in Nat, NEW i1 \in Nat, NEW j1 \in Nat, NearMix(l1, i1, j1),
           NEW l2 \in Nat, NEW i2 \in Nat, NEW j2 \in Nat, NearMix(l2, i2, j2),
           i1 + i2 <= P, j1 + j2 <= V
    PROVE  /\ sum_noises(l1, l2) \in Nat
           /\ NearMix(sum_noises(l1, l2), i1 + i2, j1 + j2)
  <1>1. PICK a \in Nat, b \in Nat : a = PersonPower /\ b = VehiclePower
    BY OneSource
  <1>2. PICK w1 \in Nat, w2 \in Nat : w1 = i1 * a + j1 * b /\ w2 = i2 * a + j2 * b
    OBVIOUS
  <1>3. (i1 + i2) * a + (j1 + j2) * b = w1 + w2
    BY <1>2
  <1>4. (i1 + j1) + (i2 + j2) = (i1 + i2) + (j1 + j2) /\ i1 + j1 \in Nat /\ i2 + j2 \in Nat
    OBVIOUS
  <1>5. (i1 + j1) + (i2 + j2) <= P + V
    BY LevelAssumption
  <1>6. Near(l1, i1 + j1, w1) /\ Near(l2, i2 + j2, w2)
    BY <1>1, <1>2 DEF NearMix
  <1>7. /\ sum_noises(l1, l2) \in Nat
        /\ Near(sum_noises(l1, l2), (i1 + j1) + (i2 + j2), w1 + w2)
    BY <1>4, <1>5, <1>6, NearSum
  <1>8. QED
    BY <1>1, <1>3, <1>4, <1>7 DEF NearMix

LEMMA MixOfOne ==
    /\ NearMix(Np, 1, 0) /\ NearMix(Nv, 0, 1) /\ NearMix(0, 0, 0)
  <1>1. /\ 1 * PersonPower + 0 * VehiclePower = PersonPower
        /\ 0 * PersonPower + 1 * VehiclePower = VehiclePower
        /\ 0 * PersonPower + 0 * VehiclePower = 0
    BY OneSource
  <1>2. 1 + 0 = 1 /\ 0 + 1 = 1 /\ 0 + 0 = 0
    OBVIOUS
  <1>3. Near(0, 0, 0)
    BY DEF Near
  <1>4. QED
    BY <1>1, <1>2, <1>3, OneSource DEF NearMix

LevelTypes ==
    /\ people \in [Ranks -> Nat] /\ vehicles \in [Ranks -> Nat]
    /\ noise_sqm \in [Ranks -> Nat] /\ noise_level \in Nat
    /\ got \in SUBSET Ranks

Bounds ==
    /\ SumFunctionOnSet(people, Ranks) <= P
    /\ SumFunctionOnSet(vehicles, Ranks) <= V

OwnSums == \A p \in Ranks : NearMix(noise_sqm[p], people[p], vehicles[p])

OwnerSum ==
    NearMix(noise_level, SumFunctionOnSet(people, got), SumFunctionOnSet(vehicles, got))

LevelInv == LevelTypes /\ Bounds /\ OwnSums /\ OwnerSum /\ (got # {} => 0 \in got)

\* The sums of the invariant, as numbers.
LEMMA SumTypes ==
    ASSUME NEW f \in [Ranks -> Nat], NEW S \in SUBSET Ranks
    PROVE  /\ SumFunctionOnSet(f, S) \in Nat /\ SumFunctionOnSet(f, Ranks) \in Nat
           /\ SumFunctionOnSet(f, S) <= SumFunctionOnSet(f, Ranks)
           /\ Total(f) = SumFunctionOnSet(f, Ranks)
           /\ \A p \in S : f[p] <= SumFunctionOnSet(f, Ranks)
  <1>1. \A p \in Ranks : f[p] \in Nat
    OBVIOUS
  <1>2. /\ SumFunctionOnSet(f, S) \in Nat /\ SumFunctionOnSet(f, Ranks) \in Nat
        /\ SumFunctionOnSet(f, S) <= SumFunctionOnSet(f, Ranks)
    BY <1>1, RanksFinite, SumOfPart
  <1>3. Total(f) = SumFunctionOnSet(f, Ranks)
    BY DEF Total, SumFunction
  <1>4. \A p \in S : f[p] <= SumFunctionOnSet(f, Ranks)
    BY <1>1, RanksFinite, SumOfOthers
  <1>5. QED
    BY <1>2, <1>3, <1>4

\* One more rank in a sum.
LEMMA SumWith ==
    ASSUME NEW f \in [Ranks -> Nat], NEW S \in SUBSET Ranks, NEW p \in Ranks, p \notin S
    PROVE  /\ SumFunctionOnSet(f, S \cup {p}) = SumFunctionOnSet(f, S) + f[p]
           /\ SumFunctionOnSet(f, S) + f[p] <= SumFunctionOnSet(f, Ranks)
  <1>1. PICK R \in SUBSET Ranks : R = S \cup {p}
    OBVIOUS
  <1>2. IsFiniteSet(R) /\ p \in R /\ R \ {p} = S
    BY <1>1, RanksFinite, FS_Subset
  <1>3. \A q \in R : f[q] \in Int
    OBVIOUS
  <1>4. SumFunctionOnSet(f, R) = f[p] + SumFunctionOnSet(f, R \ {p})
    BY <1>2, <1>3, SumWithout
  <1>5. /\ SumFunctionOnSet(f, R) <= SumFunctionOnSet(f, Ranks) /\ SumFunctionOnSet(f, S) \in Nat
        /\ f[p] \in Nat
    BY SumTypes
  <1>6. SumFunctionOnSet(f, R) = f[p] + SumFunctionOnSet(f, S)
    BY <1>2, <1>4
  <1>7. PICK a \in Nat, b \in Nat : a = SumFunctionOnSet(f, S) /\ b = f[p]
    BY <1>5
  <1>8. SumFunctionOnSet(f, R) = a + b
    BY <1>6, <1>7
  <1>9. QED
    BY <1>1, <1>5, <1>7, <1>8

LEMMA LevelInitially == Init => LevelInv
  <1>1. SUFFICES ASSUME Init PROVE LevelInv
    OBVIOUS
  <1>2. LevelTypes /\ got = {} /\ \A p \in Ranks : people[p] = 0 /\ vehicles[p] = 0 /\ noise_sqm[p] = 0
    BY <1>1 DEF Init, LevelTypes
  <1>3. Bounds
    BY <1>2, RanksFinite, SumOfZeros, LevelAssumption DEF Bounds
  <1>4. OwnSums
    BY <1>2, MixOfOne DEF OwnSums
  <1>5. OwnerSum
    <2>1. noise_level = 0
      BY <1>1 DEF Init
    <2>2. QED
      BY <2>1, <1>2, SumOfNone, MixOfOne DEF OwnerSum
  <1>6. QED
    BY <1>2, <1>3, <1>4, <1>5 DEF LevelInv

LEMMA LevelAddPerson ==
    ASSUME LevelInv, NEW p \in Ranks, AddPerson(p)
    PROVE  LevelInv'
  <1>1. LevelTypes /\ Bounds /\ OwnSums
    BY DEF LevelInv
  <1>2. /\ people \in [Ranks -> Nat] /\ vehicles \in [Ranks -> Nat] /\ noise_sqm \in [Ranks -> Nat]
        /\ people' = [people EXCEPT ![p] = @ + 1] /\ vehicles' = vehicles
        /\ noise_sqm' = [noise_sqm EXCEPT ![p] = sum_noises(@, Np)]
        /\ got = {} /\ got' = {} /\ noise_level' = noise_level /\ Total(people) < P
    BY <1>1 DEF LevelTypes, AddPerson
  <1>3. PICK t \in Nat : t = SumFunctionOnSet(people, Ranks) /\ t < P /\ people[p] <= t
    <2>1. /\ SumFunctionOnSet(people, Ranks) \in Nat /\ people[p] <= SumFunctionOnSet(people, Ranks)
          /\ Total(people) = SumFunctionOnSet(people, Ranks)
      BY <1>2, SumTypes
    <2>2. QED
      BY <2>1, <1>2
  <1>4. vehicles[p] + 0 <= V
    <2>1. vehicles[p] <= SumFunctionOnSet(vehicles, Ranks) /\ SumFunctionOnSet(vehicles, Ranks) \in Nat
      BY <1>2, SumTypes
    <2>2. SumFunctionOnSet(vehicles, Ranks) <= V /\ V \in Nat /\ vehicles[p] \in Nat
      BY <1>1, <1>2, LevelAssumption DEF Bounds
    <2>3. QED
      BY <2>1, <2>2
  <1>5. people[p] + 1 <= P /\ people[p] \in Nat
    BY <1>2, <1>3, LevelAssumption
  <1>6. NearMix(noise_sqm[p], people[p], vehicles[p])
    BY <1>1 DEF OwnSums
  <1>7. /\ sum_noises(noise_sqm[p], Np) \in Nat
        /\ NearMix(sum_noises(noise_sqm[p], Np), people[p] + 1, vehicles[p] + 0)
    <2>1. noise_sqm[p] \in Nat /\ vehicles[p] \in Nat /\ Np \in Nat
      BY <1>2, OneSource
    <2>2. QED
      BY <2>1, <1>4, <1>5, <1>6, MixSum, MixOfOne
  <1>8. LevelTypes'
    <2>1. people' \in [Ranks -> Nat] /\ noise_sqm' \in [Ranks -> Nat]
      BY <1>2, <1>7
    <2>2. QED
      BY <2>1, <1>1, <1>2 DEF LevelTypes
  <1>9. Bounds'
    <2>1. SumFunctionOnSet(people', Ranks) = SumFunctionOnSet(people, Ranks) + 1
      BY <1>2, RanksFinite, SumOneMore
    <2>2. SumFunctionOnSet(people', Ranks) <= P
      BY <2>1, <1>3, LevelAssumption
    <2>3. QED
      BY <2>2, <1>1, <1>2 DEF Bounds
  <1>10. OwnSums'
    <2>1. SUFFICES ASSUME NEW q \in Ranks PROVE NearMix(noise_sqm'[q], people'[q], vehicles'[q])
      BY DEF OwnSums
    <2>2. CASE q = p
      <3>1. noise_sqm'[q] = sum_noises(noise_sqm[p], Np) /\ people'[q] = people[p] + 1
        BY <1>2, <2>2
      <3>2. vehicles'[q] = vehicles[p] + 0
        BY <1>2, <2>2
      <3>3. QED
        BY <3>1, <3>2, <1>7
    <2>3. CASE q # p
      <3>1. noise_sqm'[q] = noise_sqm[q] /\ people'[q] = people[q] /\ vehicles'[q] = vehicles[q]
        BY <1>2, <2>3
      <3>2. QED
        BY <3>1, <1>1 DEF OwnSums
    <2>4. QED
      BY <2>2, <2>3
  <1>11. OwnerSum'
    <2>1. /\ SumFunctionOnSet(people', got') = SumFunctionOnSet(people, got)
          /\ SumFunctionOnSet(vehicles', got') = SumFunctionOnSet(vehicles, got)
      BY <1>2, SumOfNone
    <2>2. QED
      BY <2>1, <1>2 DEF LevelInv, OwnerSum
  <1>12. QED
    BY <1>2, <1>8, <1>9, <1>10, <1>11 DEF LevelInv

LEMMA LevelAddVehicle ==
    ASSUME LevelInv, NEW p \in Ranks, AddVehicle(p)
    PROVE  LevelInv'
  <1>1. LevelTypes /\ Bounds /\ OwnSums
    BY DEF LevelInv
  <1>2. /\ vehicles \in [Ranks -> Nat] /\ people \in [Ranks -> Nat] /\ noise_sqm \in [Ranks -> Nat]
        /\ vehicles' = [vehicles EXCEPT ![p] = @ + 1] /\ people' = people
        /\ noise_sqm' = [noise_sqm EXCEPT ![p] = sum_noises(@, Nv)]
        /\ got = {} /\ got' = {} /\ noise_level' = noise_level /\ Total(vehicles) < V
    BY <1>1 DEF LevelTypes, AddVehicle
  <1>3. PICK t \in Nat : t = SumFunctionOnSet(vehicles, Ranks) /\ t < V /\ vehicles[p] <= t
    <2>1. /\ SumFunctionOnSet(vehicles, Ranks) \in Nat /\ vehicles[p] <= SumFunctionOnSet(vehicles, Ranks)
          /\ Total(vehicles) = SumFunctionOnSet(vehicles, Ranks)
      BY <1>2, SumTypes
    <2>2. QED
      BY <2>1, <1>2
  <1>4. people[p] + 0 <= P
    <2>1. people[p] <= SumFunctionOnSet(people, Ranks) /\ SumFunctionOnSet(people, Ranks) \in Nat
      BY <1>2, SumTypes
    <2>2. SumFunctionOnSet(people, Ranks) <= P /\ P \in Nat /\ people[p] \in Nat
      BY <1>1, <1>2, LevelAssumption DEF Bounds
    <2>3. QED
      BY <2>1, <2>2
  <1>5. vehicles[p] + 1 <= V /\ vehicles[p] \in Nat
    BY <1>2, <1>3, LevelAssumption
  <1>6. NearMix(noise_sqm[p], people[p], vehicles[p])
    BY <1>1 DEF OwnSums
  <1>7. /\ sum_noises(noise_sqm[p], Nv) \in Nat
        /\ NearMix(sum_noises(noise_sqm[p], Nv), people[p] + 0, vehicles[p] + 1)
    <2>1. noise_sqm[p] \in Nat /\ people[p] \in Nat /\ Nv \in Nat
      BY <1>2, OneSource
    <2>2. QED
      BY <2>1, <1>4, <1>5, <1>6, MixSum, MixOfOne
  <1>8. LevelTypes'
    <2>1. vehicles' \in [Ranks -> Nat] /\ noise_sqm' \in [Ranks -> Nat]
      BY <1>2, <1>7
    <2>2. QED
      BY <2>1, <1>1, <1>2 DEF LevelTypes
  <1>9. Bounds'
    <2>1. SumFunctionOnSet(vehicles', Ranks) = SumFunctionOnSet(vehicles, Ranks) + 1
      BY <1>2, RanksFinite, SumOneMore
    <2>2. SumFunctionOnSet(vehicles', Ranks) <= V
      BY <2>1, <1>3, LevelAssumption
    <2>3. QED
      BY <2>2, <1>1, <1>2 DEF Bounds
  <1>10. OwnSums'
    <2>1. SUFFICES ASSUME NEW q \in Ranks PROVE NearMix(noise_sqm'[q], people'[q], vehicles'[q])
      BY DEF OwnSums
    <2>2. CASE q = p
      <3>1. noise_sqm'[q] = sum_noises(noise_sqm[p], Nv) /\ vehicles'[q] = vehicles[p] + 1
        BY <1>2, <2>2
      <3>2. people'[q] = people[p] + 0
        BY <1>2, <2>2
      <3>3. QED
        BY <3>1, <3>2, <1>7
    <2>3. CASE q # p
      <3>1. noise_sqm'[q] = noise_sqm[q] /\ vehicles'[q] = vehicles[q] /\ people'[q] = people[q]
        BY <1>2, <2>3
      <3>2. QED
        BY <3>1, <1>1 DEF OwnSums
    <2>4. QED
      BY <2>2, <2>3
  <1>11. OwnerSum'
    <2>1. /\ SumFunctionOnSet(vehicles', got') = SumFunctionOnSet(vehicles, got)
          /\ SumFunctionOnSet(people', got') = SumFunctionOnSet(people, got)
      BY <1>2, SumOfNone
    <2>2. QED
      BY <2>1, <1>2 DEF LevelInv, OwnerSum
  <1>12. QED
    BY <1>2, <1>8, <1>9, <1>10, <1>11 DEF LevelInv

LEMMA LevelStartOwn == ASSUME LevelInv, StartOwn PROVE LevelInv'
  <1>1. /\ LevelTypes /\ Bounds /\ OwnSums /\ people' = people /\ vehicles' = vehicles
        /\ noise_sqm' = noise_sqm /\ noise_level' = noise_sqm[0] /\ got' = {0}
    BY DEF LevelInv, StartOwn
  <1>2. people \in [Ranks -> Nat] /\ vehicles \in [Ranks -> Nat] /\ 0 \in Ranks
    BY <1>1, RanksFinite DEF LevelTypes
  <1>3. /\ SumFunctionOnSet(people, {0}) = people[0] /\ SumFunctionOnSet(vehicles, {0}) = vehicles[0]
    <2>1. {} \in SUBSET Ranks /\ {} \cup {0} = {0} /\ 0 \notin {}
      OBVIOUS
    <2>2. /\ SumFunctionOnSet(people, {} \cup {0}) = 0 + people[0]
          /\ SumFunctionOnSet(vehicles, {} \cup {0}) = 0 + vehicles[0]
      BY <1>2, <2>1, SumWith, SumOfNone
    <2>3. 0 + people[0] = people[0] /\ 0 + vehicles[0] = vehicles[0]
      BY <1>2
    <2>4. QED
      BY <2>1, <2>2, <2>3
  <1>4. OwnerSum'
    <2>1. NearMix(noise_sqm[0], people[0], vehicles[0])
      BY <1>1, <1>2 DEF OwnSums
    <2>2. QED
      BY <2>1, <1>1, <1>3 DEF OwnerSum
  <1>5. LevelTypes'
    BY <1>1, <1>2 DEF LevelTypes
  <1>6. Bounds' /\ OwnSums'
    BY <1>1 DEF Bounds, OwnSums
  <1>7. QED
    BY <1>1, <1>4, <1>5, <1>6 DEF LevelInv

LEMMA LevelRecv ==
    ASSUME LevelInv, NEW p \in Ranks, Recv(p)
    PROVE  LevelInv'
  <1>1. /\ LevelTypes /\ Bounds /\ OwnSums /\ OwnerSum
        /\ people' = people /\ vehicles' = vehicles /\ noise_sqm' = noise_sqm
        /\ noise_level' = sum_noises(noise_level, noise_sqm[p]) /\ got' = got \cup {p}
        /\ 0 \in got /\ p \notin got
    BY DEF LevelInv, Recv
  <1>2. /\ people \in [Ranks -> Nat] /\ vehicles \in [Ranks -> Nat] /\ got \in SUBSET Ranks
        /\ noise_level \in Nat /\ noise_sqm[p] \in Nat
    BY <1>1 DEF LevelTypes
  <1>3. PICK i1 \in Nat, j1 \in Nat :
            i1 = SumFunctionOnSet(people, got) /\ j1 = SumFunctionOnSet(vehicles, got)
    BY <1>2, SumTypes
  <1>4. PICK i2 \in Nat, j2 \in Nat : i2 = people[p] /\ j2 = vehicles[p]
    BY <1>2
  <1>5. /\ SumFunctionOnSet(people, got \cup {p}) = i1 + i2
        /\ SumFunctionOnSet(vehicles, got \cup {p}) = j1 + j2
        /\ i1 + i2 <= SumFunctionOnSet(people, Ranks)
        /\ j1 + j2 <= SumFunctionOnSet(vehicles, Ranks)
    BY <1>1, <1>2, <1>3, <1>4, SumWith
  <1>6. i1 + i2 <= P /\ j1 + j2 <= V
    <2>1. SumFunctionOnSet(people, Ranks) \in Nat /\ SumFunctionOnSet(vehicles, Ranks) \in Nat
      BY <1>2, SumTypes
    <2>2. SumFunctionOnSet(people, Ranks) <= P /\ SumFunctionOnSet(vehicles, Ranks) <= V
      BY <1>1 DEF Bounds
    <2>3. QED
      BY <1>5, <2>1, <2>2, LevelAssumption
  <1>7. NearMix(noise_level, i1, j1) /\ NearMix(noise_sqm[p], i2, j2)
    BY <1>1, <1>3, <1>4 DEF OwnerSum, OwnSums
  <1>8. /\ sum_noises(noise_level, noise_sqm[p]) \in Nat
        /\ NearMix(sum_noises(noise_level, noise_sqm[p]), i1 + i2, j1 + j2)
    BY <1>2, <1>6, <1>7, MixSum
  <1>9. OwnerSum'
    BY <1>1, <1>5, <1>8 DEF OwnerSum
  <1>10. LevelTypes'
    BY <1>1, <1>2, <1>8 DEF LevelTypes
  <1>11. Bounds' /\ OwnSums'
    BY <1>1 DEF Bounds, OwnSums
  <1>12. QED
    BY <1>1, <1>9, <1>10, <1>11 DEF LevelInv

LEMMA LevelStep == LevelInv /\ [Next]_vars => LevelInv'
  <1>1. SUFFICES ASSUME LevelInv, [Next]_vars PROVE LevelInv'
    OBVIOUS
  <1>2. CASE UNCHANGED vars
    BY <1>1, <1>2 DEF vars, LevelInv, LevelTypes, Bounds, OwnSums, OwnerSum
  <1>3. ASSUME NEW p \in Ranks, AddPerson(p) \/ AddVehicle(p) \/ Recv(p) PROVE LevelInv'
    BY <1>1, <1>3, LevelAddPerson, LevelAddVehicle, LevelRecv
  <1>4. CASE StartOwn
    BY <1>1, <1>4, LevelStartOwn
  <1>5. QED
    BY <1>1, <1>2, <1>3, <1>4 DEF Next

LEMMA LevelInvariant == Spec => []LevelInv
  BY LevelInitially, LevelStep, PTL DEF Spec

\* When every rank is in the owner's sum, the invariant is about all sources.
LEMMA DriftOfAll ==
    ASSUME LevelInv, Done, Sources > 0
    PROVE  /\ Within(noise_level, Sources - 1, TotalPower)
           /\ noise_level \in Nat /\ noise_level >= Np
           /\ Sources \in Nat \ {0} /\ Sources <= P + V /\ TotalPower \in Nat
  <1>1. /\ people \in [Ranks -> Nat] /\ vehicles \in [Ranks -> Nat] /\ noise_level \in Nat
        /\ got = Ranks /\ Ranks \in SUBSET Ranks /\ Bounds /\ OwnerSum
    BY DEF LevelInv, LevelTypes, Done
  <1>2. PICK i \in Nat, j \in Nat :
            /\ i = SumFunctionOnSet(people, Ranks) /\ i = Total(people)
            /\ j = SumFunctionOnSet(vehicles, Ranks) /\ j = Total(vehicles)
    BY <1>1, SumTypes
  <1>3. i <= P /\ j <= V
    BY <1>1, <1>2 DEF Bounds
  <1>4. Sources = i + j /\ TotalPower = i * PersonPower + j * VehiclePower
    BY <1>2 DEF Sources, TotalPower, PersonPower, VehiclePower
  <1>5. Near(noise_level, Sources, TotalPower)
    BY <1>1, <1>2, <1>4 DEF OwnerSum, NearMix
  <1>6. TotalPower \in Nat
    <2>1. PICK a \in Nat, b \in Nat : a = PersonPower /\ b = VehiclePower
      BY OneSource
    <2>2. i * a + j * b \in Nat
      OBVIOUS
    <2>3. QED
      BY <1>4, <2>1, <2>2
  <1>7. Sources \in Nat \ {0} /\ Sources <= P + V
    BY <1>3, <1>4, LevelAssumption
  <1>8. QED
    BY <1>1, <1>5, <1>6, <1>7 DEF Near

\* For every number of ranks, people and vehicles, every pair of levels and
\* every order of arrival, the published level of a square metre is within
\* half a decibel per addition of the level of the summed power.
THEOREM DriftIsBounded == Spec => []BoundedDrift
  <1>1. LevelInv => BoundedDrift
    BY DriftOfAll DEF BoundedDrift
  <1>2. QED
    BY <1>1, LevelInvariant, PTL

\* Where at most four sources are heard, in any number of ranks and at any
\* levels, the published level is within one and a half decibels.
THEOREM FewAreAccurate ==
    ASSUME P + V <= 4
    PROVE  Spec => []Accurate
  <1>1. ASSUME LevelInv, Done, Sources > 0 PROVE Within(noise_level, 3, TotalPower)
    <2>1. PICK s \in Nat : s = Sources - 1 /\ s <= 3
      BY <1>1, DriftOfAll, LevelAssumption
    <2>2. PICK a \in Nat : a = Above(noise_level) /\ a >= P + V + 3
      BY <1>1, DriftOfAll, AboveType
    <2>3. Power[a - s] <= TotalPower /\ TotalPower <= Power[a + s] /\ TotalPower \in Nat
      BY <1>1, <2>1, <2>2, DriftOfAll DEF Within
    <2>4. a - 3 \in Nat /\ a - s \in Nat /\ a - 3 <= a - s /\ a + s <= a + 3
      BY <2>1, <2>2, LevelAssumption
    <2>5. Power[a - 3] <= Power[a - s] /\ Power[a + s] <= Power[a + 3]
      BY <2>4, PowerMonotone
    <2>6. Power[a - 3] \in Nat /\ Power[a - s] \in Nat /\ Power[a + s] \in Nat /\ Power[a + 3] \in Nat
      BY <2>4, PowerType
    <2>7. Power[a - 3] <= TotalPower /\ TotalPower <= Power[a + 3]
      BY <2>3, <2>5, <2>6
    <2>8. QED
      BY <2>2, <2>7 DEF Within
  <1>2. LevelInv => Accurate
    BY <1>1 DEF Accurate
  <1>3. QED
    BY <1>2, LevelInvariant, PTL

-----------------------------------------------------------------------------
(* The order of arrival.                                                   *)

\* What sum_noises makes of two levels that are not 0, case by case.
Adds(x, y, s) ==
    \/ x - y \in 0 .. 1 /\ s = x + 3
    \/ x - y \in 2 .. 3 /\ s = x + 2
    \/ x - y \in 4 .. 9 /\ s = x + 1
    \/ x - y >= 10 /\ s = x
    \/ y - x = 1 /\ s = y + 3
    \/ y - x \in 2 .. 3 /\ s = y + 2
    \/ y - x \in 4 .. 9 /\ s = y + 1
    \/ y - x >= 10 /\ s = y

LEMMA SumAdds ==
    ASSUME NEW x \in Nat \ {0}, NEW y \in Nat \ {0}
    PROVE  sum_noises(x, y) \in Nat \ {0} /\ Adds(x, y, sum_noises(x, y))
  <1>1. CASE x >= y
    <2>1. PICK d \in Nat : d = x - y
      BY <1>1
    <2>2. sum_noises(x, y) = x + Gain(d)
      BY <1>1, <2>1 DEF sum_noises
    <2>3. \/ d \in 0 .. 1 /\ Gain(d) = 3
          \/ d \in 2 .. 3 /\ Gain(d) = 2
          \/ d \in 4 .. 9 /\ Gain(d) = 1
          \/ d >= 10 /\ Gain(d) = 0
      BY DEF Gain
    <2>4. QED
      BY <2>1, <2>2, <2>3 DEF Adds
  <1>2. CASE x < y
    <2>1. PICK d \in Nat \ {0} : d = y - x
      BY <1>2
    <2>2. sum_noises(x, y) = y + Gain(d)
      BY <1>2, <2>1 DEF sum_noises
    <2>3. \/ d = 1 /\ Gain(d) = 3
          \/ d \in 2 .. 3 /\ Gain(d) = 2
          \/ d \in 4 .. 9 /\ Gain(d) = 1
          \/ d >= 10 /\ Gain(d) = 0
      BY DEF Gain
    <2>4. QED
      BY <2>1, <2>2, <2>3 DEF Adds
  <1>3. QED
    BY <1>1, <1>2

\* Two levels added to a third in either order.
LEMMA EitherOrderHeard ==
    ASSUME NEW a \in Nat \ {0}, NEW b \in Nat \ {0}, NEW c \in Nat \ {0},
           NEW ab \in Nat \ {0}, Adds(a, b, ab), NEW ac \in Nat \ {0}, Adds(a, c, ac),
           NEW r \in Nat, Adds(ab, c, r), NEW s \in Nat, Adds(ac, b, s)
    PROVE  r - s \in -1 .. 1
  <1>1. r - s <= 1
    BY DEF Adds
  <1>2. s - r <= 1
    BY DEF Adds
  <1>3. QED
    BY <1>1, <1>2

LEMMA SumNat ==
    ASSUME NEW x \in Nat, NEW y \in Nat
    PROVE  sum_noises(x, y) \in Nat /\ sum_noises(0, y) = y /\ sum_noises(x, 0) = x
  <1>1. CASE x = 0 \/ y = 0
    BY <1>1 DEF sum_noises
  <1>2. CASE x # 0 /\ y # 0
    BY <1>2, SumAdds DEF sum_noises
  <1>3. QED
    BY <1>1, <1>2

LEMMA EitherOrder ==
    ASSUME NEW a \in Nat, NEW b \in Nat, NEW c \in Nat
    PROVE  /\ sum_noises(sum_noises(a, b), c) \in Nat
           /\ sum_noises(sum_noises(a, b), c) - sum_noises(sum_noises(a, c), b) \in -1 .. 1
  <1>1. PICK ab \in Nat, ac \in Nat : ab = sum_noises(a, b) /\ ac = sum_noises(a, c)
    BY SumNat
  <1>2. PICK r \in Nat, s \in Nat : r = sum_noises(ab, c) /\ s = sum_noises(ac, b)
    BY SumNat
  <1>3. CASE a # 0 /\ b # 0 /\ c # 0
    <2>1. ab # 0 /\ ac # 0 /\ Adds(a, b, ab) /\ Adds(a, c, ac)
      BY <1>1, <1>3, SumAdds
    <2>2. Adds(ab, c, r) /\ Adds(ac, b, s)
      BY <1>2, <1>3, <2>1, SumAdds
    <2>3. r - s \in -1 .. 1
      BY <1>3, <2>1, <2>2, EitherOrderHeard
    <2>4. QED
      BY <1>1, <1>2, <2>3
  <1>4. CASE a = 0
    <2>1. ab = b /\ ac = c /\ r = sum_noises(b, c) /\ s = sum_noises(c, b)
      BY <1>1, <1>2, <1>4, SumNat
    <2>2. sum_noises(b, c) = sum_noises(c, b)
      BY DEF sum_noises
    <2>3. QED
      BY <1>1, <1>2, <2>1, <2>2
  <1>5. CASE b = 0
    <2>1. ab = a /\ r = ac /\ s = ac
      BY <1>1, <1>2, <1>5, SumNat
    <2>2. QED
      BY <1>1, <1>2, <2>1
  <1>6. CASE c = 0
    <2>1. ac = a /\ s = ab /\ r = ab
      BY <1>1, <1>2, <1>6, SumNat
    <2>2. QED
      BY <1>1, <1>2, <2>1
  <1>7. QED
    BY <1>3, <1>4, <1>5, <1>6

\* u adds the levels f of the first n ranks in the order of the ranks.
Folded(f, n, u) ==
    u = [k \in 0 .. n |-> IF k = 0 THEN 0 ELSE sum_noises(u[k - 1], f[k - 1])]

LEMMA FoldedExists == ASSUME NEW f PROVE \A n \in Nat : \E u : Folded(f, n, u)
  <1> DEFINE T == {n \in Nat : ~ \E u : Folded(f, n, u)}
  <1>1. SUFFICES ASSUME T # {} PROVE FALSE
    OBVIOUS
  <1>2. PICK n \in T : \A k \in T : n <= k
    <2>1. T \subseteq Nat
      OBVIOUS
    <2> HIDE DEF T
    <2>2. QED
      BY <1>1, <2>1, LeastNat
  <1>3. n \in Nat /\ ~ \E u : Folded(f, n, u)
    OBVIOUS
  <1>4. CASE n = 0
    <2> DEFINE u == [k \in 0 .. n |-> 0]
    <2>1. \A k \in 0 .. n : k = 0
      BY <1>4
    <2>2. u = [k \in 0 .. n |-> IF k = 0 THEN 0 ELSE sum_noises(u[k - 1], f[k - 1])]
      BY <2>1
    <2>3. QED
      BY <1>3, <2>2 DEF Folded
  <1>5. CASE n # 0
    <2>1. n - 1 \in Nat /\ ~ (n - 1 \in T)
      BY <1>2, <1>3, <1>5
    <2>2. PICK v : Folded(f, n - 1, v)
      BY <2>1
    <2> DEFINE u == [k \in 0 .. n |-> IF k = 0 THEN 0 ELSE sum_noises(v[k - 1], f[k - 1])]
    <2>3. \A k \in 0 .. (n - 1) : u[k] = v[k]
      <3>1. SUFFICES ASSUME NEW k \in 0 .. (n - 1) PROVE u[k] = v[k]
        OBVIOUS
      <3>2. k \in 0 .. n
        BY <1>3
      <3>3. v[k] = IF k = 0 THEN 0 ELSE sum_noises(v[k - 1], f[k - 1])
        BY <2>2 DEF Folded
      <3>4. QED
        BY <3>2, <3>3
    <2>4. \A k \in 0 .. n : k # 0 => u[k - 1] = v[k - 1]
      <3>1. \A k \in 0 .. n : k # 0 => k - 1 \in 0 .. (n - 1)
        BY <1>3
      <3> HIDE DEF u
      <3>2. QED
        BY <2>3, <3>1
    <2>5. u = [k \in 0 .. n |-> IF k = 0 THEN 0 ELSE sum_noises(u[k - 1], f[k - 1])]
      <3> DEFINE w == [k \in 0 .. n |-> IF k = 0 THEN 0 ELSE sum_noises(u[k - 1], f[k - 1])]
      <3>1. \A k \in 0 .. n : u[k] = w[k]
        <4>1. SUFFICES ASSUME NEW k \in 0 .. n PROVE u[k] = w[k]
          OBVIOUS
        <4>2. CASE k = 0
          BY <4>2
        <4>3. CASE k # 0
          <5>1. u[k] = sum_noises(v[k - 1], f[k - 1])
            BY <4>3
          <5>2. w[k] = sum_noises(u[k - 1], f[k - 1])
            BY <4>3
          <5>3. QED
            BY <5>1, <5>2, <2>4, <4>3
        <4>4. QED
          BY <4>2, <4>3
      <3>2. QED
        BY <3>1
    <2>6. Folded(f, n, u)
      <3> HIDE DEF u
      <3>1. QED
        BY <2>5 DEF Folded
    <2>7. QED
      BY <2>6, <1>3
  <1>6. QED
    BY <1>3, <1>4, <1>5

LEMMA RankOrder ==
    \E u : /\ InRankOrder = u[world_size] /\ u[0] = 0
           /\ \A k \in 0 .. (world_size - 1) : u[k + 1] = sum_noises(u[k], noise_sqm[k])
  <1> DEFINE u == CHOOSE v : Folded(noise_sqm, world_size, v)
  <1>1. Folded(noise_sqm, world_size, u)
    BY FoldedExists, LevelAssumption
  <1>2. InRankOrder = u[world_size]
    BY DEF InRankOrder, Folded
  <1> HIDE DEF u
  <1>3. u[0] = 0
    BY <1>1, LevelAssumption DEF Folded
  <1>4. \A k \in 0 .. (world_size - 1) : u[k + 1] = sum_noises(u[k], noise_sqm[k])
    <2>1. SUFFICES ASSUME NEW k \in 0 .. (world_size - 1)
                   PROVE  u[k + 1] = sum_noises(u[k], noise_sqm[k])
      OBVIOUS
    <2>2. k + 1 \in 0 .. world_size /\ k + 1 # 0 /\ (k + 1) - 1 = k
      BY LevelAssumption
    <2>3. u[k + 1] = sum_noises(u[(k + 1) - 1], noise_sqm[(k + 1) - 1])
      BY <1>1, <2>2 DEF Folded
    <2>4. QED
      BY <2>2, <2>3
  <1>5. QED
    BY <1>2, <1>3, <1>4

\* What the owner of up to three ranks has added up, in terms of the levels.
OrderInv ==
    \/ got = {}
    \/ got = {0} /\ noise_level = noise_sqm[0]
    \/ \E p \in Ranks \ {0} : got = {0, p} /\ noise_level = sum_noises(noise_sqm[0], noise_sqm[p])
    \/ \E p, q \in Ranks \ {0} :
          /\ p # q /\ got = {0, p, q}
          /\ noise_level = sum_noises(sum_noises(noise_sqm[0], noise_sqm[p]), noise_sqm[q])

LEMMA OrderRecv ==
    ASSUME world_size <= 3, OrderInv, NEW p \in Ranks, Recv(p)
    PROVE  OrderInv'
  <1>1. /\ noise_sqm' = noise_sqm /\ got' = got \cup {p} /\ 0 \in got /\ p \notin got
        /\ noise_level' = sum_noises(noise_level, noise_sqm[p]) /\ p \in Ranks \ {0}
    BY DEF Recv
  <1>2. CASE got = {0} /\ noise_level = noise_sqm[0]
    <2>1. got' = {0, p} /\ noise_level' = sum_noises(noise_sqm'[0], noise_sqm'[p])
      BY <1>1, <1>2
    <2>2. QED
      BY <1>1, <2>1 DEF OrderInv, Ranks
  <1>3. ASSUME NEW q \in Ranks \ {0}, got = {0, q},
               noise_level = sum_noises(noise_sqm[0], noise_sqm[q])
        PROVE  OrderInv'
    <2>1. /\ got' = {0, q, p} /\ q # p
          /\ noise_level' = sum_noises(sum_noises(noise_sqm'[0], noise_sqm'[q]), noise_sqm'[p])
      BY <1>1, <1>3
    <2>2. QED
      BY <1>1, <2>1 DEF OrderInv, Ranks
  <1>4. ASSUME NEW q \in Ranks \ {0}, NEW r \in Ranks \ {0}, q # r, got = {0, q, r}
        PROVE  FALSE
    <2>1. Ranks \ {0} \subseteq {1, 2}
      BY LevelAssumption DEF Ranks
    <2>2. p \in {1, 2} /\ q \in {1, 2} /\ r \in {1, 2}
      BY <1>1, <2>1
    <2>3. QED
      BY <1>1, <1>4, <2>2
  <1>5. QED
    BY <1>1, <1>2, <1>3, <1>4 DEF OrderInv

LEMMA OrderStep ==
    ASSUME world_size <= 3, OrderInv, [Next]_vars
    PROVE  OrderInv'
  <1>1. CASE UNCHANGED vars
    BY <1>1 DEF vars, OrderInv, Ranks
  <1>2. ASSUME NEW p \in Ranks, AddPerson(p) \/ AddVehicle(p) PROVE OrderInv'
    BY <1>2 DEF AddPerson, AddVehicle, OrderInv
  <1>3. ASSUME NEW p \in Ranks, Recv(p) PROVE OrderInv'
    BY <1>3, OrderRecv
  <1>4. CASE StartOwn
    BY <1>4 DEF StartOwn, OrderInv
  <1>5. QED
    BY <1>1, <1>2, <1>3, <1>4 DEF Next

LEMMA OrderWhenDone ==
    ASSUME world_size <= 3, LevelTypes, OrderInv, Done
    PROVE  noise_level - InRankOrder \in -1 .. 1
  <1>1. PICK u : /\ InRankOrder = u[world_size] /\ u[0] = 0
                 /\ \A k \in 0 .. (world_size - 1) : u[k + 1] = sum_noises(u[k], noise_sqm[k])
    BY RankOrder
  <1>2. /\ got = Ranks /\ 0 \in Ranks /\ noise_sqm \in [Ranks -> Nat]
        /\ world_size = 1 \/ world_size = 2 \/ world_size = 3
    BY RanksFinite, LevelAssumption DEF Done, LevelTypes
  <1>3. u[1] = noise_sqm[0] /\ noise_sqm[0] \in Nat
    <2>1. noise_sqm[0] \in Nat /\ 0 \in 0 .. (world_size - 1)
      BY <1>2
    <2>2. u[0 + 1] = sum_noises(u[0], noise_sqm[0])
      BY <1>1, <2>1
    <2>3. 0 + 1 = 1 /\ sum_noises(0, noise_sqm[0]) = noise_sqm[0]
      BY <2>1 DEF sum_noises
    <2>4. QED
      BY <1>1, <2>1, <2>2, <2>3
  <1>4. CASE world_size = 1
    <2>1. Ranks = {0}
      BY <1>4 DEF Ranks
    <2>2. noise_level = noise_sqm[0]
      BY <1>2, <2>1 DEF OrderInv
    <2>3. InRankOrder = noise_sqm[0]
      BY <1>1, <1>3, <1>4
    <2>4. QED
      BY <1>3, <2>2, <2>3
  <1>5. CASE world_size = 2
    <2>1. Ranks = {0, 1}
      BY <1>5 DEF Ranks
    <2>2. noise_level = sum_noises(noise_sqm[0], noise_sqm[1])
      BY <1>2, <2>1 DEF OrderInv
    <2>3. InRankOrder = sum_noises(noise_sqm[0], noise_sqm[1])
      <3>1. 1 \in 0 .. (world_size - 1) /\ 1 + 1 = 2
        BY <1>5
      <3>2. QED
        BY <1>1, <1>3, <1>5, <3>1
    <2>4. sum_noises(noise_sqm[0], noise_sqm[1]) \in Nat
      BY <1>2, <2>1, SumNat
    <2>5. QED
      BY <2>2, <2>3, <2>4
  <1>6. CASE world_size = 3
    <2>1. Ranks = {0, 1, 2}
      BY <1>6 DEF Ranks
    <2>2. PICK a \in Nat, b \in Nat, c \in Nat : a = noise_sqm[0] /\ b = noise_sqm[1] /\ c = noise_sqm[2]
      BY <1>2, <2>1
    <2>3. \/ noise_level = sum_noises(sum_noises(a, b), c)
          \/ noise_level = sum_noises(sum_noises(a, c), b)
      <3>1. \E p, q \in Ranks \ {0} :
                /\ p # q /\ got = {0, p, q}
                /\ noise_level = sum_noises(sum_noises(noise_sqm[0], noise_sqm[p]), noise_sqm[q])
        BY <1>2, <2>1 DEF OrderInv
      <3>2. QED
        BY <2>1, <2>2, <3>1
    <2>4. InRankOrder = sum_noises(sum_noises(a, b), c)
      <3>1. 1 \in 0 .. (world_size - 1) /\ 2 \in 0 .. (world_size - 1) /\ 1 + 1 = 2 /\ 2 + 1 = 3
        BY <1>6
      <3>2. u[2] = sum_noises(a, b)
        BY <1>1, <1>3, <2>2, <3>1
      <3>3. QED
        BY <1>1, <1>6, <2>2, <3>1, <3>2
    <2>5. PICK r \in Nat, s \in Nat :
              r = sum_noises(sum_noises(a, b), c) /\ s = sum_noises(sum_noises(a, c), b)
      BY EitherOrder
    <2>6. s - r \in -1 .. 1
      BY <2>5, EitherOrder
    <2>7. QED
      BY <2>3, <2>4, <2>5, <2>6
  <1>7. QED
    BY <1>2, <1>4, <1>5, <1>6

\* On up to three ranks, whatever their levels, the order in which the
\* messages arrive changes the published level by one decibel at most.
THEOREM OrderMatters1dB ==
    ASSUME world_size <= 3
    PROVE  Spec => []ArrivalOrder
  <1>1. Init => OrderInv
    BY DEF Init, OrderInv
  <1>2. OrderInv /\ [Next]_vars => OrderInv'
    BY OrderStep
  <1>3. LevelInv /\ OrderInv => ArrivalOrder
    BY OrderWhenDone DEF LevelInv, ArrivalOrder
  <1>4. QED
    BY <1>1, <1>2, <1>3, LevelInvariant, PTL DEF Spec

-----------------------------------------------------------------------------
(* Any number of ranks.  The levels of the ranks that hear anything are      *)
(* themselves sources of a sum, so two sums of them, in any two orders, are  *)
(* near the same power, and so near each other.                             *)

\* The power of each rank's level.
HearPower == [p \in Ranks |-> IF noise_sqm[p] = 0 THEN 0 ELSE Power[Above(noise_sqm[p])]]

NearAll(level, S) == Near(level, Cardinality(Hearing(S)), SumFunctionOnSet(HearPower, S))

LEMMA OwnLevels ==
    ASSUME LevelInv, NEW p \in Ranks
    PROVE  /\ noise_sqm[p] \in Nat /\ people[p] \in Nat /\ vehicles[p] \in Nat
           /\ noise_sqm[p] # 0 => noise_sqm[p] >= Np /\ people[p] + vehicles[p] >= 1
  <1>1. noise_sqm[p] \in Nat /\ people[p] \in Nat /\ vehicles[p] \in Nat
    BY DEF LevelInv, LevelTypes
  <1>2. Near(noise_sqm[p], people[p] + vehicles[p],
             people[p] * PersonPower + vehicles[p] * VehiclePower)
    BY DEF LevelInv, OwnSums, NearMix
  <1>3. people[p] + vehicles[p] = 0 => noise_sqm[p] = 0
    BY <1>2 DEF Near
  <1>4. people[p] + vehicles[p] > 0 => noise_sqm[p] >= Np
    BY <1>2 DEF Near
  <1>5. QED
    BY <1>1, <1>3, <1>4

LEMMA HearPowerType == ASSUME LevelInv PROVE HearPower \in [Ranks -> Nat]
  <1>1. SUFFICES ASSUME NEW p \in Ranks, noise_sqm[p] # 0 PROVE Power[Above(noise_sqm[p])] \in Nat
    BY DEF HearPower
  <1>2. Above(noise_sqm[p]) \in Nat
    BY <1>1, OwnLevels, AboveType
  <1>3. QED
    BY <1>2, PowerType

\* Every level heard is near its own power.
LEMMA OwnIsNear ==
    ASSUME LevelInv, NEW p \in Ranks
    PROVE  Near(noise_sqm[p], IF noise_sqm[p] = 0 THEN 0 ELSE 1, HearPower[p])
  <1>1. CASE noise_sqm[p] = 0
    BY <1>1 DEF Near, HearPower
  <1>2. CASE noise_sqm[p] # 0
    <2>1. noise_sqm[p] \in Nat /\ noise_sqm[p] >= Np
      BY <1>2, OwnLevels
    <2>2. PICK a \in Nat : a = Above(noise_sqm[p])
      BY <2>1, AboveType
    <2>3. HearPower[p] = Power[a] /\ Power[a] \in Nat /\ a - (1 - 1) = a /\ a + (1 - 1) = a
      BY <1>2, <2>2, PowerType DEF HearPower
    <2>4. Within(noise_sqm[p], 1 - 1, HearPower[p])
      BY <2>2, <2>3 DEF Within
    <2>5. QED
      BY <1>2, <2>1, <2>4 DEF Near
  <1>3. QED
    BY <1>1, <1>2

LEMMA HearingWith ==
    ASSUME LevelInv, NEW S \in SUBSET Ranks, NEW p \in Ranks, p \notin S
    PROVE  /\ Cardinality(Hearing(S)) \in Nat
           /\ Cardinality(Hearing(S \cup {p}))
                = Cardinality(Hearing(S)) + IF noise_sqm[p] = 0 THEN 0 ELSE 1
  <1>1. IsFiniteSet(S)
    BY RanksFinite, FS_Subset
  <1>2. IsFiniteSet(Hearing(S)) /\ p \notin Hearing(S)
    BY <1>1, FS_Subset DEF Hearing
  <1>3. Cardinality(Hearing(S)) \in Nat
    BY <1>2, FS_CardinalityType
  <1>4. noise_sqm[p] \in Nat
    BY OwnLevels
  <1>5. CASE noise_sqm[p] = 0
    <2>1. Hearing(S \cup {p}) = Hearing(S)
      BY <1>5 DEF Hearing
    <2>2. QED
      BY <1>3, <1>5, <2>1
  <1>6. CASE noise_sqm[p] # 0
    <2>1. noise_sqm[p] > 0
      BY <1>4, <1>6
    <2>2. Hearing(S \cup {p}) = Hearing(S) \cup {p}
      BY <2>1 DEF Hearing
    <2>3. Cardinality(Hearing(S) \cup {p}) = Cardinality(Hearing(S)) + 1
      BY <1>2, FS_AddElement
    <2>4. QED
      BY <1>3, <1>6, <2>2, <2>3
  <1>7. QED
    BY <1>5, <1>6

\* Every rank that hears anything hears a source of its own.
LEMMA HearingBound ==
    ASSUME LevelInv, NEW S \in SUBSET Ranks
    PROVE  Cardinality(Hearing(S)) <= P + V
  <1> DEFINE Own(s) == SumFunctionOnSet(people, s) + SumFunctionOnSet(vehicles, s)
             Bad == {s \in SUBSET Ranks : ~ (Cardinality(Hearing(s)) <= Own(s))}
             T == {Cardinality(s) : s \in Bad}
  <1>1. people \in [Ranks -> Nat] /\ vehicles \in [Ranks -> Nat] /\ Bounds
    BY DEF LevelInv, LevelTypes
  <1>2. Bad = {}
    <2>1. SUFFICES ASSUME Bad # {} PROVE FALSE
      OBVIOUS
    <2>2. \A s \in SUBSET Ranks : IsFiniteSet(s) /\ Cardinality(s) \in Nat
      BY RanksFinite, FS_Subset, FS_CardinalityType
    <2>3. T \subseteq Nat /\ T # {}
      BY <2>1, <2>2
    <2>4. PICK n \in T : \A k \in T : n <= k
      <3> HIDE DEF T
      <3>1. QED
        BY <2>3, LeastNat
    <2>5. PICK s \in Bad : n = Cardinality(s)
      BY <2>4
    <2>6. s \in SUBSET Ranks /\ ~ (Cardinality(Hearing(s)) <= Own(s))
      OBVIOUS
    <2>7. s # {}
      <3>1. Hearing({}) = {} /\ Cardinality({}) = 0
        BY FS_EmptySet DEF Hearing
      <3>2. Own({}) = 0
        BY SumOfNone
      <3> HIDE DEF Own
      <3>3. QED
        BY <2>6, <3>1, <3>2
    <2>8. PICK p \in Ranks : p \in s
      BY <2>6, <2>7
    <2>9. PICK t \in SUBSET Ranks : t = s \ {p}
      BY <2>6
    <2>10. p \notin t /\ s = t \cup {p}
      BY <2>8, <2>9
    <2>11. Cardinality(s) = Cardinality(t) + 1 /\ Cardinality(t) \in Nat
      <3>1. IsFiniteSet(t) /\ Cardinality(t) \in Nat
        BY <2>2
      <3>2. Cardinality(t \cup {p}) = Cardinality(t) + 1
        BY <3>1, <2>10, FS_AddElement
      <3>3. QED
        BY <3>1, <3>2, <2>10
    <2>12. t \notin Bad
      <3>1. Cardinality(t) \notin T
        <4>1. ~ (Cardinality(s) <= Cardinality(t))
          BY <2>11
        <4> HIDE DEF T, Bad
        <4>2. QED
          BY <4>1, <2>4, <2>5
      <3> HIDE DEF Bad
      <3>2. QED
        BY <3>1
    <2>13. PICK h \in Nat, i \in Nat, j \in Nat :
              /\ h = Cardinality(Hearing(t))
              /\ i = SumFunctionOnSet(people, t) /\ j = SumFunctionOnSet(vehicles, t)
      BY <1>1, <2>10, HearingWith, SumTypes
    <2>14. h <= i + j
      BY <2>12, <2>13
    <2>15. PICK x \in Nat, y \in Nat : x = people[p] /\ y = vehicles[p]
      BY <1>1
    <2>16. Own(s) = (i + x) + (j + y)
      BY <1>1, <2>10, <2>13, <2>15, SumWith
    <2>17. Cardinality(Hearing(s)) = h + IF noise_sqm[p] = 0 THEN 0 ELSE 1
      BY <2>10, <2>13, HearingWith
    <2>18. noise_sqm[p] # 0 => x + y >= 1
      BY <2>15, OwnLevels
    <2> HIDE DEF Own
    <2>19. QED
      BY <2>6, <2>14, <2>16, <2>17, <2>18
  <1>3. Cardinality(Hearing(S)) <= Own(S)
    BY <1>2
  <1>4. PICK i \in Nat, j \in Nat :
            i = SumFunctionOnSet(people, S) /\ j = SumFunctionOnSet(vehicles, S) /\ i <= P /\ j <= V
    <2>1. /\ SumFunctionOnSet(people, S) \in Nat /\ SumFunctionOnSet(vehicles, S) \in Nat
          /\ SumFunctionOnSet(people, Ranks) \in Nat /\ SumFunctionOnSet(vehicles, Ranks) \in Nat
          /\ SumFunctionOnSet(people, S) <= SumFunctionOnSet(people, Ranks)
          /\ SumFunctionOnSet(vehicles, S) <= SumFunctionOnSet(vehicles, Ranks)
      BY <1>1, SumTypes
    <2>2. SumFunctionOnSet(people, Ranks) <= P /\ SumFunctionOnSet(vehicles, Ranks) <= V
      BY <1>1 DEF Bounds
    <2>3. QED
      BY <2>1, <2>2, LevelAssumption
  <1>5. Cardinality(Hearing(S)) \in Nat
    <2>1. IsFiniteSet(Hearing(S))
      BY RanksFinite, FS_Subset DEF Hearing
    <2>2. QED
      BY <2>1, FS_CardinalityType
  <1>6. QED
    BY <1>3, <1>4, <1>5, LevelAssumption

\* One more rank in a sum of the ranks' levels.
LEMMA NearAllWith ==
    ASSUME LevelInv, NEW S \in SUBSET Ranks, NEW p \in Ranks, p \notin S,
           NEW level \in Nat, NearAll(level, S)
    PROVE  /\ sum_noises(level, noise_sqm[p]) \in Nat
           /\ NearAll(sum_noises(level, noise_sqm[p]), S \cup {p})
  <1>1. PICK n1 \in Nat, n2 \in Nat :
            /\ n1 = Cardinality(Hearing(S)) /\ n2 = IF noise_sqm[p] = 0 THEN 0 ELSE 1
            /\ Cardinality(Hearing(S \cup {p})) = n1 + n2
    BY HearingWith
  <1>2. S \cup {p} \in SUBSET Ranks
    OBVIOUS
  <1>3. n1 + n2 <= P + V
    BY <1>1, <1>2, HearingBound
  <1>4. HearPower \in [Ranks -> Nat]
    BY HearPowerType
  <1>5. PICK w1 \in Nat, w2 \in Nat :
            w1 = SumFunctionOnSet(HearPower, S) /\ w2 = HearPower[p]
    BY <1>4, SumTypes
  <1>6. SumFunctionOnSet(HearPower, S \cup {p}) = w1 + w2
    BY <1>4, <1>5, SumWith
  <1>7. Near(level, n1, w1) /\ Near(noise_sqm[p], n2, w2) /\ noise_sqm[p] \in Nat
    BY <1>1, <1>5, OwnIsNear, OwnLevels DEF NearAll
  <1>8. /\ sum_noises(level, noise_sqm[p]) \in Nat
        /\ Near(sum_noises(level, noise_sqm[p]), n1 + n2, w1 + w2)
    BY <1>3, <1>7, NearSum
  <1>9. QED
    BY <1>1, <1>6, <1>8 DEF NearAll

LEMMA NearAllOfNone == NearAll(0, {})
  <1>1. Hearing({}) = {} /\ Cardinality({}) = 0
    BY FS_EmptySet DEF Hearing
  <1>2. QED
    BY <1>1, SumOfNone DEF NearAll, Near

\* The owner's sum is near the levels it has got.
HearInv == NearAll(noise_level, got) /\ (got = {} => noise_level = 0)

LEMMA HearStep ==
    ASSUME LevelInv, LevelInv', HearInv, [Next]_vars
    PROVE  HearInv'
  <1>1. ASSUME noise_sqm' = noise_sqm PROVE HearPower' = HearPower /\ \A S : Hearing(S)' = Hearing(S)
    BY <1>1 DEF HearPower, Hearing
  <1>2. CASE UNCHANGED vars
    BY <1>1, <1>2 DEF vars, HearInv, NearAll
  <1>3. ASSUME NEW p \in Ranks, AddPerson(p) \/ AddVehicle(p) PROVE HearInv'
    <2>1. got' = {} /\ noise_level' = 0
      BY <1>3 DEF AddPerson, AddVehicle, HearInv
    <2>2. NearAll(0, {})'
      <3>1. Hearing({})' = {} /\ Cardinality({}) = 0
        BY FS_EmptySet DEF Hearing
      <3>2. QED
        BY <3>1, SumOfNone DEF NearAll, Near
    <2>3. QED
      BY <2>1, <2>2 DEF HearInv, NearAll
  <1>4. ASSUME NEW p \in Ranks, Recv(p) PROVE HearInv'
    <2>1. /\ noise_sqm' = noise_sqm /\ got' = got \cup {p} /\ p \notin got
          /\ noise_level' = sum_noises(noise_level, noise_sqm[p])
          /\ got \in SUBSET Ranks /\ noise_level \in Nat
      BY <1>4 DEF Recv, LevelInv, LevelTypes
    <2>2. NearAll(noise_level', got')
      BY <2>1, NearAllWith DEF HearInv
    <2>3. QED
      BY <1>1, <2>1, <2>2 DEF HearInv, NearAll
  <1>5. CASE StartOwn
    <2>1. noise_sqm' = noise_sqm /\ got' = {0} /\ noise_level' = noise_sqm[0] /\ 0 \in Ranks
      BY <1>5, RanksFinite DEF StartOwn
    <2>2. sum_noises(0, noise_sqm[0]) = noise_sqm[0] /\ {} \cup {0} = {0}
      BY DEF sum_noises
    <2>3. NearAll(sum_noises(0, noise_sqm[0]), {} \cup {0})
      BY <2>1, NearAllOfNone, NearAllWith
    <2>4. NearAll(noise_level', got')
      BY <2>1, <2>2, <2>3
    <2>5. QED
      BY <1>1, <2>1, <2>4 DEF HearInv, NearAll
  <1>6. QED
    BY <1>2, <1>3, <1>4, <1>5 DEF Next

\* The sum in the order of the ranks is near them as well.
LEMMA RankOrderIsNear ==
    ASSUME LevelInv
    PROVE  InRankOrder \in Nat /\ NearAll(InRankOrder, Ranks)
  <1>1. PICK u : /\ InRankOrder = u[world_size] /\ u[0] = 0
                 /\ \A k \in 0 .. (world_size - 1) : u[k + 1] = sum_noises(u[k], noise_sqm[k])
    BY RankOrder
  <1> DEFINE T == {k \in 0 .. world_size : ~ (u[k] \in Nat /\ NearAll(u[k], 0 .. (k - 1)))}
  <1>2. T = {}
    <2>1. SUFFICES ASSUME T # {} PROVE FALSE
      OBVIOUS
    <2>2. PICK n \in T : \A k \in T : n <= k
      <3>1. T \subseteq Nat
        BY LevelAssumption
      <3> HIDE DEF T
      <3>2. QED
        BY <2>1, <3>1, LeastNat
    <2>3. n \in 0 .. world_size /\ ~ (u[n] \in Nat /\ NearAll(u[n], 0 .. (n - 1)))
      OBVIOUS
    <2>4. n # 0
      <3>1. 0 .. (0 - 1) = {}
        OBVIOUS
      <3>2. QED
        BY <1>1, <2>3, <3>1, NearAllOfNone
    <2>5. PICK k \in 0 .. (world_size - 1) : n = k + 1 /\ k \notin T
      <3>1. n - 1 \in 0 .. (world_size - 1) /\ n = (n - 1) + 1 /\ ~ (n <= n - 1)
        BY <2>3, <2>4, LevelAssumption
      <3> HIDE DEF T
      <3>2. n - 1 \notin T
        BY <2>2, <3>1
      <3>3. QED
        BY <3>1, <3>2
    <2>6. u[k] \in Nat /\ NearAll(u[k], 0 .. (k - 1)) /\ u[n] = sum_noises(u[k], noise_sqm[k])
      BY <1>1, <2>5, LevelAssumption
    <2>7. PICK S \in SUBSET Ranks : S = 0 .. (k - 1)
      BY LevelAssumption DEF Ranks
    <2>8. k \in Ranks /\ k \notin S /\ S \cup {k} = 0 .. (n - 1)
      BY <2>5, <2>7 DEF Ranks
    <2>9. u[n] \in Nat /\ NearAll(u[n], S \cup {k})
      <3> HIDE DEF T
      <3>1. QED
        BY <2>6, <2>7, <2>8, NearAllWith
    <2>10. QED
      BY <2>3, <2>8, <2>9
  <1>3. world_size \in 0 .. world_size
    BY LevelAssumption
  <1>4. u[world_size] \in Nat /\ NearAll(u[world_size], 0 .. (world_size - 1))
    BY <1>2, <1>3
  <1>5. QED
    BY <1>1, <1>4 DEF Ranks

\* Two levels near the same power of n sources are n - 1 decibels apart at most.
LEMMA NearEachOther ==
    ASSUME NEW k \in Nat, NEW l \in Nat, NEW n \in Nat \ {0}, n <= P + V, NEW w \in Nat,
           Near(k, n, w), Near(l, n, w)
    PROVE  k - l <= n - 1
  <1>1. k >= Np /\ l >= Np /\ Within(k, n - 1, w) /\ Within(l, n - 1, w)
    BY DEF Near
  <1>2. /\ Above(k) \in Nat /\ Above(k) >= P + V + 3 /\ Above(l) \in Nat
        /\ Above(k) - (n - 1) \in Nat /\ Above(l) + (n - 1) \in Nat
    BY <1>1, AboveType, LevelAssumption
  <1>3. Power[Above(k) - (n - 1)] <= w /\ w <= Power[Above(l) + (n - 1)]
    BY <1>1 DEF Within
  <1>4. Power[Above(k) - (n - 1)] \in Nat /\ Power[Above(l) + (n - 1)] \in Nat
    BY <1>2, PowerType
  <1>5. Power[Above(k) - (n - 1)] <= Power[Above(l) + (n - 1)]
    BY <1>3, <1>4
  <1>6. Above(k) - (n - 1) <= Above(l) + (n - 1)
    BY <1>2, <1>5, PowerOrder
  <1>7. Above(k) - Above(l) = 2 * (k - l)
    BY LevelAssumption DEF Above
  <1>8. QED
    BY <1>2, <1>6, <1>7

LEMMA OrderDriftWhenDone == ASSUME LevelInv, HearInv PROVE OrderDrift
  <1>1. SUFFICES ASSUME Done, Hearing(Ranks) # {}
                 PROVE  LET n == Cardinality(Hearing(Ranks))
                        IN  noise_level - InRankOrder \in (1 - n) .. (n - 1)
    BY DEF OrderDrift
  <1>2. PICK n \in Nat : n = Cardinality(Hearing(Ranks)) /\ n # 0 /\ n <= P + V
    <2>1. IsFiniteSet(Hearing(Ranks))
      BY RanksFinite, FS_Subset DEF Hearing
    <2>2. Cardinality(Hearing(Ranks)) \in Nat /\ Cardinality(Hearing(Ranks)) # 0
      BY <1>1, <2>1, FS_CardinalityType, FS_EmptySet
    <2>3. QED
      BY <2>2, HearingBound
  <1>3. PICK w \in Nat : w = SumFunctionOnSet(HearPower, Ranks)
    BY HearPowerType, SumTypes
  <1>4. PICK k \in Nat, l \in Nat : k = noise_level /\ l = InRankOrder
    BY RankOrderIsNear DEF LevelInv, LevelTypes
  <1>5. Near(k, n, w) /\ Near(l, n, w)
    BY <1>1, <1>2, <1>3, <1>4, RankOrderIsNear DEF HearInv, NearAll, Done
  <1>6. k - l <= n - 1 /\ l - k <= n - 1
    BY <1>2, <1>5, NearEachOther
  <1>7. QED
    BY <1>2, <1>4, <1>6

\* On any number of ranks that hear anything, and at any levels, the order of
\* arrival changes the published level by one decibel per rank after the first
\* at most, and ranks that hear nothing do not count.
THEOREM OrderDriftIsBounded == Spec => []OrderDrift
  <1>1. Init => HearInv
    BY NearAllOfNone DEF Init, HearInv
  <1>2. LevelInv /\ LevelInv' /\ HearInv /\ [Next]_vars => HearInv'
    BY HearStep
  <1>3. LevelInv /\ HearInv => OrderDrift
    BY OrderDriftWhenDone
  <1>4. QED
    BY <1>1, <1>2, <1>3, LevelInvariant, PTL DEF Spec
=============================================================================
