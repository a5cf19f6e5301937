----------------------------- MODULE Arithmetic -----------------------------
(***************************************************************************)
(* What the proofs need of arithmetic: division with remainder, which deals *)
(* the cells and the sources out to the ranks (main.c 77-101, 124), least   *)
(* numbers, and sums over finite sets, which the averages of the sensors    *)
(* are made of (noise-sensor.c 274-300).  What is proved by induction       *)
(* elsewhere is proved here by looking at a least counterexample.           *)
(***************************************************************************)
EXTENDS Integers, Functions, FiniteSetTheorems, WellFoundedInduction, TLAPS

\* What \div and % mean, for a divisor that is not a literal.
LEMMA DivMod ==
    ASSUME NEW w \in Nat \ {0}, NEW c \in Nat
    PROVE  /\ c \div w \in Nat
           /\ c % w \in 0 .. (w - 1)
           /\ c = (w * (c \div w)) + (c % w)
  OBVIOUS

\* Multiples of w are w apart.
LEMMA MultiplesApart ==
    ASSUME NEW w \in Nat, NEW a \in Nat, NEW b \in Nat, a < b
    PROVE  w * a + w <= w * b
  <1>1. PICK k \in Nat : b = a + 1 + k
    BY b - a - 1 \in Nat
  <1>2. w * b = w * a + w + w * k
    BY <1>1
  <1>3. w * k \in Nat /\ w * a \in Nat
    OBVIOUS
  <1> HIDE <1>1
  <1>4. QED
    BY <1>2, <1>3

\* Quotient and remainder are determined by the equation between them.
LEMMA DivModUnique ==
    ASSUME NEW w \in Nat \ {0}, NEW q \in Nat, NEW r \in 0 .. (w - 1)
    PROVE  /\ (w * q + r) \div w = q
           /\ (w * q + r) % w = r
  <1> DEFINE c == w * q + r
             d == c \div w
             m == c % w
  <1>1. c \in Nat
    OBVIOUS
  <1>2. c = (w * d) + m /\ m \in 0 .. (w - 1) /\ d \in Nat
    BY <1>1, DivMod
  <1>3. w * q \in Nat /\ w * d \in Nat
    BY <1>2
  <1> HIDE DEF d, m
  <1>4. ~ (d < q)
    <2>1. SUFFICES ASSUME d < q PROVE FALSE
      OBVIOUS
    <2>2. w * d + w <= w * q
      BY <1>2, <2>1, MultiplesApart
    <2>3. QED
      BY <2>2, <1>2, <1>3
  <1>5. ~ (q < d)
    <2>1. SUFFICES ASSUME q < d PROVE FALSE
      OBVIOUS
    <2>2. w * q + w <= w * d
      BY <1>2, <2>1, MultiplesApart
    <2>3. QED
      BY <2>2, <1>2, <1>3
  <1>6. d = q
    BY <1>4, <1>5, <1>2
  <1>7. m = r
    BY <1>6, <1>2, <1>3
  <1>8. QED
    BY <1>6, <1>7 DEF d, m

\* A set of naturals has a least element.
LEMMA LeastNat ==
    ASSUME NEW T, T \subseteq Nat, T # {}
    PROVE  \E x \in T : \A y \in T : x <= y
  <1> DEFINE R == OpToRel(<, Nat)
  <1>1. IsWellFoundedOn(R, Nat)
    BY NatLessThanWellFounded
  <1>2. \A x, y \in Nat : x < y => <<x, y>> \in R
    BY DEF OpToRel
  <1> HIDE DEF R
  <1>3. PICK x \in T : \A y \in T : ~ (<<y, x>> \in R)
    BY <1>1, WFMin
  <1>4. \A y \in T : x <= y
    <2>1. ASSUME NEW y \in T PROVE x <= y
      <3>1. x \in Nat /\ y \in Nat /\ ~ (y < x)
        BY <1>2, <1>3
      <3>2. QED
        BY <3>1
    <2>2. QED
      BY <2>1
  <1>5. QED
    BY <1>4

-----------------------------------------------------------------------------
(* Sums.  SumFunctionOnSet takes the elements of the set in an order that   *)
(* CHOOSE fixes; what it computes does not depend on that order.            *)

Chosen(s) == CHOOSE x \in s : TRUE

LEMMA ChosenIn == ASSUME NEW s, s # {} PROVE Chosen(s) \in s
  BY DEF Chosen

\* g sums fun over every set of D.
Sums(fun, D, g) ==
    g = [s \in D |-> IF s = {} THEN 0 ELSE fun[Chosen(s)] + g[s \ {Chosen(s)}]]

LEMMA SumExpanded ==
    ASSUME NEW fun, NEW S
    PROVE  SumFunctionOnSet(fun, S) = (CHOOSE g : Sums(fun, SUBSET S, g))[S]
  BY DEF SumFunctionOnSet, FoldFunctionOnSet, MapThenFoldSet, Sums, Chosen

\* The subsets of S of at most n elements.
UpTo(S, n) == {s \in SUBSET S : Cardinality(s) <= n}

LEMMA OneSmaller ==
    ASSUME NEW S, IsFiniteSet(S), NEW s \in SUBSET S, NEW x \in s
    PROVE  /\ IsFiniteSet(s) /\ IsFiniteSet(s \ {x}) /\ s \ {x} \in SUBSET S
           /\ Cardinality(s) \in Nat /\ Cardinality(s \ {x}) \in Nat
           /\ Cardinality(s) = Cardinality(s \ {x}) + 1
  <1>1. IsFiniteSet(s)
    BY FS_Subset
  <1>2. Cardinality(s) \in Nat
    BY <1>1, FS_CardinalityType
  <1>3. IsFiniteSet(s \ {x}) /\ Cardinality(s \ {x}) = Cardinality(s) - 1
    BY <1>1, FS_RemoveElement
  <1>4. Cardinality(s \ {x}) \in Nat
    BY <1>3, FS_CardinalityType
  <1>5. QED
    BY <1>1, <1>2, <1>3, <1>4

LEMMA SumsExist ==
    ASSUME NEW fun, NEW S, IsFiniteSet(S)
    PROVE  \E g : Sums(fun, SUBSET S, g)
  <1> DEFINE T == {n \in Nat : ~ \E g : Sums(fun, UpTo(S, n), g)}
  <1>1. T = {}
    <2>1. SUFFICES ASSUME T # {} PROVE FALSE
      OBVIOUS
    <2>2. PICK n \in T : \A k \in T : n <= k
      <3>1. T \subseteq Nat
        OBVIOUS
      <3> HIDE DEF T
      <3>2. QED
        BY <2>1, <3>1, LeastNat
    <2>3. n \in Nat /\ ~ \E g : Sums(fun, UpTo(S, n), g)
      OBVIOUS
    <2>4. CASE n = 0
      <3>1. \A s \in UpTo(S, 0) : s = {}
        <4>1. SUFFICES ASSUME NEW s \in UpTo(S, 0) PROVE s = {}
          OBVIOUS
        <4>2. s \in SUBSET S /\ Cardinality(s) <= 0
          BY DEF UpTo
        <4>3. IsFiniteSet(s)
          BY <4>2, FS_Subset
        <4>4. Cardinality(s) \in Nat
          BY <4>3, FS_CardinalityType
        <4>5. Cardinality(s) = 0
          BY <4>2, <4>4
        <4>6. QED
          BY <4>3, <4>5, FS_EmptySet
      <3>2. Sums(fun, UpTo(S, 0), [s \in UpTo(S, 0) |-> 0])
        BY <3>1 DEF Sums
      <3>3. QED
        BY <2>3, <2>4, <3>2
    <2>5. CASE n # 0
      <3>1. PICK m \in Nat : n = m + 1
        BY <2>3, <2>5
      <3>2. m \notin T
        BY <2>2, <3>1
      <3>3. PICK g : Sums(fun, UpTo(S, m), g)
        BY <3>2
      <3> DEFINE h == [s \in UpTo(S, n) |-> IF s = {} THEN 0
                                             ELSE fun[Chosen(s)] + g[s \ {Chosen(s)}]]
      <3>4. ASSUME NEW s \in UpTo(S, n), s # {}
            PROVE  g[s \ {Chosen(s)}] = h[s \ {Chosen(s)}]
        <4> DEFINE t == s \ {Chosen(s)}
        <4>1. Chosen(s) \in s /\ s \in SUBSET S /\ Cardinality(s) <= n
          BY <3>4, ChosenIn DEF UpTo
        <4>2. /\ t \in SUBSET S /\ Cardinality(t) \in Nat
              /\ Cardinality(s) = Cardinality(t) + 1
          BY <4>1, OneSmaller
        <4>3. t \in UpTo(S, m) /\ t \in UpTo(S, n)
          BY <4>1, <4>2, <3>1 DEF UpTo
        <4> HIDE DEF t
        <4>4. g[t] = IF t = {} THEN 0 ELSE fun[Chosen(t)] + g[t \ {Chosen(t)}]
          BY <3>3, <4>3 DEF Sums
        <4>5. h[t] = IF t = {} THEN 0 ELSE fun[Chosen(t)] + g[t \ {Chosen(t)}]
          BY <4>3
        <4>6. QED
          BY <4>4, <4>5 DEF t
      <3>5. \A s \in UpTo(S, n) :
              h[s] = IF s = {} THEN 0 ELSE fun[Chosen(s)] + h[s \ {Chosen(s)}]
        BY <3>4
      <3>6. h = [s \in UpTo(S, n) |-> h[s]]
        OBVIOUS
      <3> HIDE DEF h
      <3>7. Sums(fun, UpTo(S, n), h)
        BY <3>5, <3>6 DEF Sums
      <3>8. QED
        BY <2>3, <3>7
    <2>6. QED
      BY <2>4, <2>5
  <1>2. Cardinality(S) \in Nat
    BY FS_CardinalityType
  <1>3. UpTo(S, Cardinality(S)) = SUBSET S
    BY FS_Subset DEF UpTo
  <1>4. \E g : Sums(fun, UpTo(S, Cardinality(S)), g)
    <2>1. Cardinality(S) \notin T
      BY <1>1
    <2>2. QED
      BY <1>2, <2>1
  <1>5. QED
    BY <1>3, <1>4

\* Two functions that sum fun do so alike.
LEMMA SumsUnique ==
    ASSUME NEW fun, NEW S, IsFiniteSet(S), NEW R \in SUBSET S,
           NEW g, NEW h, Sums(fun, SUBSET S, g), Sums(fun, SUBSET R, h)
    PROVE  \A s \in SUBSET R : g[s] = h[s]
  <1> DEFINE T == {Cardinality(s) : s \in {r \in SUBSET R : g[r] # h[r]}}
  <1>0. IsFiniteSet(R)
    BY FS_Subset
  <1>1. SUFFICES ASSUME NEW r \in SUBSET R, g[r] # h[r] PROVE FALSE
    OBVIOUS
  <1>2. T \subseteq Nat
    <2>1. \A s \in SUBSET R : Cardinality(s) \in Nat
      BY <1>0, FS_Subset, FS_CardinalityType
    <2>2. QED
      BY <2>1
  <1>3. T # {}
    BY <1>1
  <1>4. PICK n \in T : \A k \in T : n <= k
    <2> HIDE DEF T
    <2>1. QED
      BY <1>2, <1>3, LeastNat
  <1>5. PICK s \in SUBSET R : g[s] # h[s] /\ n = Cardinality(s)
    BY <1>4
  <1>6. /\ g[s] = IF s = {} THEN 0 ELSE fun[Chosen(s)] + g[s \ {Chosen(s)}]
        /\ h[s] = IF s = {} THEN 0 ELSE fun[Chosen(s)] + h[s \ {Chosen(s)}]
    BY DEF Sums
  <1>7. s # {}
    BY <1>5, <1>6
  <1> DEFINE t == s \ {Chosen(s)}
  <1>8. /\ t \in SUBSET R /\ Cardinality(s) \in Nat /\ Cardinality(t) \in Nat
        /\ Cardinality(s) = Cardinality(t) + 1
    BY <1>0, <1>7, ChosenIn, OneSmaller
  <1>9. g[t] = h[t]
    <2>1. Cardinality(t) \notin T
      <3>1. ~ (Cardinality(s) <= Cardinality(t))
        BY <1>8
      <3> HIDE DEF T, t
      <3>2. QED
        BY <3>1, <1>4, <1>5
    <2>2. QED
      BY <2>1, <1>8
  <1>10. QED
    BY <1>5, <1>6, <1>7, <1>9

LEMMA SumOfNone == ASSUME NEW fun PROVE SumFunctionOnSet(fun, {}) = 0
  <1>1. PICK g : Sums(fun, SUBSET {}, g)
    BY SumsExist, FS_EmptySet
  <1> DEFINE c == CHOOSE h : Sums(fun, SUBSET {}, h)
  <1>2. Sums(fun, SUBSET {}, c)
    BY <1>1
  <1> HIDE DEF c
  <1>3. c[{}] = 0
    BY <1>2 DEF Sums
  <1>4. QED
    BY <1>3, SumExpanded DEF c

LEMMA SumOfChosen ==
    ASSUME NEW fun, NEW S, IsFiniteSet(S), S # {}
    PROVE  SumFunctionOnSet(fun, S) = fun[Chosen(S)] + SumFunctionOnSet(fun, S \ {Chosen(S)})
  <1> DEFINE R == S \ {Chosen(S)}
             c == CHOOSE h : Sums(fun, SUBSET S, h)
             d == CHOOSE h : Sums(fun, SUBSET R, h)
  <1>1. IsFiniteSet(R) /\ R \in SUBSET S
    BY FS_RemoveElement
  <1>2. Sums(fun, SUBSET S, c) /\ Sums(fun, SUBSET R, d)
    BY <1>1, SumsExist
  <1>3. SumFunctionOnSet(fun, S) = c[S] /\ SumFunctionOnSet(fun, R) = d[R]
    BY SumExpanded
  <1> HIDE DEF c, d
  <1>4. c[S] = fun[Chosen(S)] + c[R]
    BY <1>2 DEF Sums
  <1>5. c[R] = d[R]
    <2> HIDE DEF R
    <2>1. QED
      BY <1>1, <1>2, SumsUnique
  <1>6. QED
    BY <1>3, <1>4, <1>5

\* A sum of integers is an integer, of naturals a natural.
LEMMA SumType ==
    ASSUME NEW fun, NEW S, IsFiniteSet(S), NEW N, N = Nat \/ N = Int, \A x \in S : fun[x] \in N
    PROVE  SumFunctionOnSet(fun, S) \in N
  <1> DEFINE Bad == {s \in SUBSET S : ~ (SumFunctionOnSet(fun, s) \in N)}
             T == {Cardinality(s) : s \in Bad}
  <1>1. SUFFICES ASSUME S \in Bad PROVE FALSE
    OBVIOUS
  <1>2. \A s \in SUBSET S : IsFiniteSet(s) /\ Cardinality(s) \in Nat
    BY FS_Subset, FS_CardinalityType
  <1>3. T \subseteq Nat /\ T # {}
    BY <1>1, <1>2
  <1>4. PICK n \in T : \A k \in T : n <= k
    <2> HIDE DEF T
    <2>1. QED
      BY <1>3, LeastNat
  <1>5. PICK s \in Bad : n = Cardinality(s)
    BY <1>4
  <1>6. s # {}
    <2>1. 0 \in N
      OBVIOUS
    <2>2. QED
      BY <1>5, <2>1, SumOfNone
  <1> DEFINE t == s \ {Chosen(s)}
  <1>7. /\ t \in SUBSET S /\ Cardinality(s) \in Nat /\ Cardinality(t) \in Nat
        /\ Cardinality(s) = Cardinality(t) + 1 /\ Chosen(s) \in S
    BY <1>6, ChosenIn, OneSmaller
  <1>8. Cardinality(t) \notin T
    <2>1. ~ (Cardinality(s) <= Cardinality(t))
      BY <1>7
    <2> HIDE DEF T, t, Bad
    <2>2. QED
      BY <2>1, <1>4, <1>5
  <1>9. SumFunctionOnSet(fun, t) \in N
    BY <1>7, <1>8
  <1>10. SumFunctionOnSet(fun, s) = fun[Chosen(s)] + SumFunctionOnSet(fun, t)
    BY <1>2, <1>6, SumOfChosen
  <1>11. fun[Chosen(s)] \in N
    BY <1>7
  <1>12. fun[Chosen(s)] + SumFunctionOnSet(fun, t) \in N
    <2>1. \A a, b \in N : a + b \in N
      OBVIOUS
    <2> HIDE DEF t
    <2>2. QED
      BY <2>1, <1>9, <1>11
  <1>13. QED
    BY <1>5, <1>10, <1>12

\* Any element may be taken first.
LEMMA SumWithout ==
    ASSUME NEW fun, NEW S, IsFiniteSet(S), \A x \in S : fun[x] \in Int, NEW x \in S
    PROVE  SumFunctionOnSet(fun, S) = fun[x] + SumFunctionOnSet(fun, S \ {x})
  <1> DEFINE Sum(s) == SumFunctionOnSet(fun, s)
             Good(s) == \A y \in s : Sum(s) = fun[y] + Sum(s \ {y})
             T == {Cardinality(s) : s \in {r \in SUBSET S : ~ Good(r)}}
  <1>1. \A s \in SUBSET S : IsFiniteSet(s) /\ Cardinality(s) \in Nat
    BY FS_Subset, FS_CardinalityType
  <1>2. \A s \in SUBSET S : Sum(s) \in Int
    <2>1. SUFFICES ASSUME NEW s \in SUBSET S PROVE SumFunctionOnSet(fun, s) \in Int
      OBVIOUS
    <2>2. QED
      BY <1>1, SumType
  <1>3. SUFFICES ASSUME ~ Good(S) PROVE FALSE
    OBVIOUS
  <1>4. T \subseteq Nat /\ T # {}
    <2>1. S \in {r \in SUBSET S : ~ Good(r)}
      BY <1>3
    <2> HIDE DEF Good
    <2>2. QED
      BY <1>1, <2>1
  <1>5. PICK n \in T : \A k \in T : n <= k
    <2> HIDE DEF T
    <2>1. QED
      BY <1>4, LeastNat
  <1>6. PICK s \in SUBSET S : ~ Good(s) /\ n = Cardinality(s)
    <2> HIDE DEF Good
    <2>1. QED
      BY <1>5
  <1>7. PICK y \in s : Sum(s) # fun[y] + Sum(s \ {y})
    BY <1>6
  <1> DEFINE c == Chosen(s)
             u == s \ {c}
             w == s \ {y}
             z == s \ {c, y}
  <1>8. c \in s /\ c \in S /\ y \in S
    BY ChosenIn
  <1>9. Sum(s) = fun[c] + Sum(u)
    BY <1>1, SumOfChosen
  <1>10. c # y
    BY <1>7, <1>9
  <1>11. Good(u) /\ Good(w)
    <2>1. ASSUME NEW v \in s PROVE Good(s \ {v})
      <3>1. /\ s \ {v} \in SUBSET S /\ Cardinality(s) \in Nat /\ Cardinality(s \ {v}) \in Nat
            /\ Cardinality(s) = Cardinality(s \ {v}) + 1
        BY OneSmaller
      <3>2. ~ (Cardinality(s) <= Cardinality(s \ {v}))
        BY <3>1
      <3> HIDE DEF Good
      <3>3. Cardinality(s \ {v}) \notin T
        <4> HIDE DEF T
        <4>1. QED
          BY <3>2, <1>5, <1>6
      <3>4. QED
        BY <3>1, <3>3
    <2>2. QED
      BY <2>1, <1>8
  <1>12. u \ {y} = z /\ w \ {c} = z /\ y \in u /\ c \in w
    BY <1>8, <1>10
  <1>13. Sum(u) = fun[y] + Sum(z) /\ Sum(w) = fun[c] + Sum(z)
    BY <1>11, <1>12
  <1>14. fun[c] \in Int /\ fun[y] \in Int /\ Sum(z) \in Int /\ Sum(u) \in Int /\ Sum(w) \in Int
    BY <1>2, <1>8
  <1> HIDE DEF Sum, c, u, z
  <1>15. Sum(s) = fun[y] + Sum(w)
    BY <1>9, <1>13, <1>14
  <1>16. QED
    BY <1>7, <1>15

\* Zeros add up to zero.
LEMMA SumOfZeros ==
    ASSUME NEW fun, NEW S, IsFiniteSet(S), \A x \in S : fun[x] = 0
    PROVE  SumFunctionOnSet(fun, S) = 0
  <1> DEFINE Bad == {s \in SUBSET S : SumFunctionOnSet(fun, s) # 0}
             T == {Cardinality(s) : s \in Bad}
  <1>1. SUFFICES ASSUME S \in Bad PROVE FALSE
    OBVIOUS
  <1>2. \A s \in SUBSET S : IsFiniteSet(s) /\ Cardinality(s) \in Nat
    BY FS_Subset, FS_CardinalityType
  <1>3. T \subseteq Nat /\ T # {}
    BY <1>1, <1>2
  <1>4. PICK n \in T : \A k \in T : n <= k
    <2> HIDE DEF T
    <2>1. QED
      BY <1>3, LeastNat
  <1>5. PICK s \in Bad : n = Cardinality(s)
    BY <1>4
  <1>6. s # {}
    BY <1>5, SumOfNone
  <1> DEFINE t == s \ {Chosen(s)}
  <1>7. /\ t \in SUBSET S /\ Cardinality(s) \in Nat /\ Cardinality(t) \in Nat
        /\ Cardinality(s) = Cardinality(t) + 1 /\ Chosen(s) \in S
    <2>1. s \in SUBSET S /\ Chosen(s) \in s
      BY <1>6, ChosenIn
    <2> HIDE DEF Bad, T
    <2>2. QED
      BY <2>1, OneSmaller
  <1>8. Cardinality(t) \notin T
    <2>1. ~ (Cardinality(s) <= Cardinality(t))
      BY <1>7
    <2> HIDE DEF T, t, Bad
    <2>2. QED
      BY <2>1, <1>4, <1>5
  <1>9. SumFunctionOnSet(fun, t) = 0 /\ fun[Chosen(s)] = 0
    BY <1>7, <1>8
  <1>10. SumFunctionOnSet(fun, s) = fun[Chosen(s)] + SumFunctionOnSet(fun, t)
    BY <1>2, <1>6, SumOfChosen
  <1>11. QED
    BY <1>5, <1>9, <1>10

\* Only the values on the set count.
LEMMA SumsAlike ==
    ASSUME NEW f, NEW g, NEW S, IsFiniteSet(S), \A x \in S : f[x] = g[x]
    PROVE  SumFunctionOnSet(f, S) = SumFunctionOnSet(g, S)
  <1> DEFINE Bad == {s \in SUBSET S : SumFunctionOnSet(f, s) # SumFunctionOnSet(g, s)}
             T == {Cardinality(s) : s \in Bad}
  <1>1. SUFFICES ASSUME S \in Bad PROVE FALSE
    OBVIOUS
  <1>2. \A s \in SUBSET S : IsFiniteSet(s) /\ Cardinality(s) \in Nat
    BY FS_Subset, FS_CardinalityType
  <1>3. T \subseteq Nat /\ T # {}
    BY <1>1, <1>2
  <1>4. PICK n \in T : \A k \in T : n <= k
    <2> HIDE DEF T
    <2>1. QED
      BY <1>3, LeastNat
  <1>5. PICK s \in Bad : n = Cardinality(s)
    BY <1>4
  <1>6. s # {}
    BY <1>5, SumOfNone
  <1> DEFINE t == s \ {Chosen(s)}
  <1>7. /\ t \in SUBSET S /\ Cardinality(s) \in Nat /\ Cardinality(t) \in Nat
        /\ Cardinality(s) = Cardinality(t) + 1 /\ Chosen(s) \in S
    <2>1. s \in SUBSET S /\ Chosen(s) \in s
      BY <1>6, ChosenIn
    <2> HIDE DEF Bad, T
    <2>2. QED
      BY <2>1, OneSmaller
  <1>8. Cardinality(t) \notin T
    <2>1. ~ (Cardinality(s) <= Cardinality(t))
      BY <1>7
    <2> HIDE DEF T, t, Bad
    <2>2. QED
      BY <2>1, <1>4, <1>5
  <1>9. SumFunctionOnSet(f, t) = SumFunctionOnSet(g, t)
    BY <1>7, <1>8
  <1>10. /\ SumFunctionOnSet(f, s) = f[Chosen(s)] + SumFunctionOnSet(f, t)
         /\ SumFunctionOnSet(g, s) = g[Chosen(s)] + SumFunctionOnSet(g, t)
    BY <1>2, <1>6, SumOfChosen
  <1>11. QED
    BY <1>5, <1>7, <1>9, <1>10

\* A part of a sum of naturals is not more than the sum.
LEMMA SumOfPart ==
    ASSUME NEW fun, NEW S, IsFiniteSet(S), \A x \in S : fun[x] \in Nat, NEW R \in SUBSET S
    PROVE  /\ SumFunctionOnSet(fun, R) \in Nat
           /\ SumFunctionOnSet(fun, S) \in Nat
           /\ SumFunctionOnSet(fun, R) <= SumFunctionOnSet(fun, S)
  <1> DEFINE Sum(s) == SumFunctionOnSet(fun, s)
             Bad == {s \in SUBSET S : ~ (Sum(s) <= Sum(S))}
             T == {Cardinality(S \ s) : s \in Bad}
  <1>1. \A s \in SUBSET S : IsFiniteSet(s) /\ IsFiniteSet(S \ s) /\ Cardinality(S \ s) \in Nat
    BY FS_Subset, FS_CardinalityType
  <1>2. \A s \in SUBSET S : Sum(s) \in Nat
    <2>1. SUFFICES ASSUME NEW s \in SUBSET S PROVE Sum(s) \in Nat
      OBVIOUS
    <2>2. \A x \in s : fun[x] \in Nat
      OBVIOUS
    <2>3. QED
      BY <1>1, <2>2, SumType
  <1>3. SUFFICES ASSUME R \in Bad PROVE FALSE
    BY <1>2
  <1>4. T \subseteq Nat /\ T # {}
    BY <1>1, <1>3
  <1>5. PICK n \in T : \A k \in T : n <= k
    <2> HIDE DEF T
    <2>1. QED
      BY <1>4, LeastNat
  <1>6. PICK s \in Bad : n = Cardinality(S \ s)
    BY <1>5
  <1>7. s \in SUBSET S /\ ~ (Sum(s) <= Sum(S))
    OBVIOUS
  <1>8. s # S
    <2>1. Sum(S) \in Nat
      BY <1>2
    <2> HIDE DEF Sum
    <2>2. QED
      BY <1>7, <2>1
  <1>9. PICK x \in S : x \notin s
    BY <1>7, <1>8
  <1> DEFINE t == s \cup {x}
  <1>10. t \in SUBSET S /\ t \ {x} = s /\ x \in t /\ S \ t = (S \ s) \ {x} /\ x \in S \ s
    BY <1>7, <1>9
  <1>11. /\ Cardinality(S \ s) \in Nat /\ Cardinality(S \ t) \in Nat
         /\ Cardinality(S \ s) = Cardinality(S \ t) + 1
    <2>1. PICK c \in SUBSET S : c = S \ s
      OBVIOUS
    <2> HIDE DEF Bad, T, t
    <2>2. S \ t = c \ {x} /\ x \in c
      BY <1>10, <2>1
    <2>3. /\ Cardinality(c) \in Nat /\ Cardinality(c \ {x}) \in Nat
          /\ Cardinality(c) = Cardinality(c \ {x}) + 1
      <3>1. IsFiniteSet(c) /\ Cardinality(c) \in Nat
        BY FS_Subset, FS_CardinalityType
      <3>2. IsFiniteSet(c \ {x}) /\ Cardinality(c \ {x}) = Cardinality(c) - 1
        BY <2>2, <3>1, FS_RemoveElement
      <3>3. Cardinality(c \ {x}) \in Nat
        BY <3>2, FS_CardinalityType
      <3>4. QED
        BY <3>1, <3>2, <3>3
    <2>4. QED
      BY <2>1, <2>2, <2>3
  <1>12. Cardinality(S \ t) \notin T
    <2>1. ~ (Cardinality(S \ s) <= Cardinality(S \ t))
      BY <1>11
    <2> HIDE DEF T, t, Bad
    <2>2. QED
      BY <2>1, <1>5, <1>6
  <1>13. Sum(t) <= Sum(S)
    BY <1>10, <1>12
  <1>14. Sum(t) = fun[x] + Sum(s)
    <2>1. IsFiniteSet(t)
      BY <1>1, <1>10
    <2>2. \A y \in t : fun[y] \in Int
      <3>1. \A y \in S : fun[y] \in Int
        OBVIOUS
      <3>2. QED
        BY <3>1, <1>10
    <2>3. Sum(t) = fun[x] + Sum(t \ {x})
      BY <2>1, <2>2, <1>10, SumWithout
    <2>4. QED
      BY <2>3, <1>10
  <1>15. Sum(s) \in Nat /\ Sum(S) \in Nat /\ fun[x] \in Nat
    BY <1>2, <1>7, <1>9
  <1> HIDE DEF Sum
  <1>16. QED
    BY <1>7, <1>13, <1>14, <1>15

\* One term of a sum of naturals is not more than the sum.
LEMMA SumOfOthers ==
    ASSUME NEW fun, NEW S, IsFiniteSet(S), \A x \in S : fun[x] \in Nat, NEW x \in S
    PROVE  fun[x] <= SumFunctionOnSet(fun, S)
  <1>1. SumFunctionOnSet(fun, S) = fun[x] + SumFunctionOnSet(fun, S \ {x})
    BY SumWithout
  <1>2. SumFunctionOnSet(fun, S \ {x}) \in Nat
    BY S \ {x} \in SUBSET S, SumOfPart
  <1>3. fun[x] \in Nat
    OBVIOUS
  <1>4. QED
    BY <1>1, <1>2, <1>3

\* One more of a term is one more of the sum.
LEMMA SumOneMore ==
    ASSUME NEW S, IsFiniteSet(S), NEW f \in [S -> Nat], NEW x \in S,
           NEW g, g = [f EXCEPT ![x] = @ + 1]
    PROVE  SumFunctionOnSet(g, S) = SumFunctionOnSet(f, S) + 1
  <1>1. g \in [S -> Nat] /\ g[x] = f[x] + 1 /\ \A y \in S \ {x} : g[y] = f[y]
    OBVIOUS
  <1>2. IsFiniteSet(S \ {x}) /\ S \ {x} \in SUBSET S
    BY FS_RemoveElement
  <1>3. SumFunctionOnSet(g, S \ {x}) = SumFunctionOnSet(f, S \ {x})
    BY <1>1, <1>2, SumsAlike
  <1>4. SumFunctionOnSet(f, S) = f[x] + SumFunctionOnSet(f, S \ {x})
    <2>1. \A y \in S : f[y] \in Int
      OBVIOUS
    <2>2. QED
      BY <2>1, SumWithout
  <1>5. SumFunctionOnSet(g, S) = g[x] + SumFunctionOnSet(g, S \ {x})
    <2>1. \A y \in S : g[y] \in Int
      BY <1>1
    <2>2. QED
      BY <2>1, SumWithout
  <1>6. SumFunctionOnSet(f, S \ {x}) \in Nat
    BY <1>2, SumOfPart
  <1>7. f[x] \in Nat
    OBVIOUS
  <1>8. QED
    BY <1>1, <1>3, <1>4, <1>5, <1>6, <1>7
=============================================================================
