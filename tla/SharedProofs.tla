---------------------------- MODULE SharedProofs ----------------------------
(***************************************************************************)
(* What the proofs share.  First induction over the natural numbers, the   *)
(* recursive functions that exist by it, and what the running sums of Sums *)
(* are: the library's theorems of induction take an operator; that a       *)
(* nonempty set of naturals has a least element says the same of a set.    *)
(* Then what the operators of Fragments are, for every moof: where its runs*)
(* begin, and how its samples move with it.                                *)
(***************************************************************************)
EXTENDS Fragments, WellFoundedInduction, TLAPS

(* A set that holds 0 and, with a natural number, the next one holds all.  *)
LEMMA SetInduction ==
  ASSUME NEW S, 0 \in S, \A n \in Nat : n \in S => n + 1 \in S
  PROVE  Nat \subseteq S
<1> DEFINE T == Nat \ S
           R == OpToRel(<, Nat)
<1>1. SUFFICES ASSUME T # {} PROVE FALSE
  OBVIOUS
<1>2. IsWellFoundedOn(R, Nat)
  BY NatLessThanWellFounded
<1>3. T \subseteq Nat
  OBVIOUS
<1> HIDE DEF T, R
<1>4. PICK x \in T : \A y \in T : << y, x >> \notin R
  BY <1>1, <1>2, <1>3, WFMin
<1>5. x \in Nat /\ x # 0
  BY <1>4 DEF T
<1>6. x - 1 \in T
  BY <1>4, <1>5 DEF T
<1>7. << x - 1, x >> \in R
  BY <1>5 DEF R, OpToRel
<1> QED BY <1>4, <1>6, <1>7

(* The same up to a bound.                                                 *)
LEMMA BoundedInduction ==
  ASSUME NEW n \in Nat, NEW S, 0 \in S, \A j \in 1..n : j - 1 \in S => j \in S
  PROVE  0..n \subseteq S
<1> DEFINE T == { m \in Nat : m <= n => m \in S }
<1>1. 0 \in T
  OBVIOUS
<1>2. ASSUME NEW m \in Nat, m \in T PROVE m + 1 \in T
  <2>1. CASE m + 1 <= n
    <3>1. m \in S /\ m + 1 \in 1..n /\ (m + 1) - 1 = m
      BY <1>2, <2>1
    <3> QED BY <3>1
  <2>2. CASE ~ (m + 1 <= n)
    BY <2>2
  <2> QED BY <2>1, <2>2
<1> HIDE DEF T
<1>3. Nat \subseteq T
  BY <1>1, <1>2, SetInduction
<1> QED BY <1>3 DEF T

(* Of some natural numbers, one is the least.                              *)
LEMMA LeastExists ==
  ASSUME NEW S, S \subseteq Nat, S # {}
  PROVE  \E x \in S : \A y \in S : x <= y
<1>1. SUFFICES ASSUME \A x \in S : \E y \in S : y < x PROVE FALSE
  BY <1>1
<1> DEFINE T == {n \in Nat : \A y \in S : y >= n}
<1>2. 0 \in T
  OBVIOUS
<1>3. ASSUME NEW n \in Nat, n \in T PROVE n + 1 \in T
  <2>1. n \notin S
    BY <1>1, <1>3
  <2> QED BY <1>3, <2>1
<1>4. Nat \subseteq T
  <2> HIDE DEF T
  <2> QED BY <1>2, <1>3, SetInduction
<1>5. PICK y \in S : TRUE
  OBVIOUS
<1>6. y + 1 \in T
  BY <1>4
<1> QED BY <1>5, <1>6

IsRecursion(f, n, base, step) ==
  f = [j \in 0..n |-> IF j = 0 THEN base ELSE step[j][f[j - 1]]]

(* Of some numbers up to a bound, one is the greatest.                     *)
LEMMA GreatestExists ==
  ASSUME NEW n \in Nat, NEW S, S \subseteq 0..n, S # {}
  PROVE  \E x \in S : \A y \in S : y <= x
<1> DEFINE T == { n - y : y \in S }
<1>1. T \subseteq Nat /\ T # {}
  <2>1. \A y \in S : n - y \in Nat
    OBVIOUS
  <2>2. PICK y \in S : TRUE
    OBVIOUS
  <2> QED BY <2>1, <2>2
<1> HIDE DEF T
<1>2. PICK z \in T : \A y \in T : z <= y
  BY <1>1, LeastExists
<1>3. PICK x \in S : z = n - x
  BY DEF T
<1>4. ASSUME NEW y \in S PROVE y <= x
  <2>1. z <= n - y
    BY <1>2 DEF T
  <2> QED BY <1>3, <2>1
<1> QED BY <1>4

(* A function that is computed from its value one place before exists.     *)
LEMMA RecursionExists ==
  ASSUME NEW n \in Nat, NEW S, NEW base \in S, NEW step \in [1..n -> [S -> S]]
  PROVE  \E f \in [0..n -> S] : IsRecursion(f, n, base, step)
<1> DEFINE IsUpTo(f, m) == /\ f \in [0..m -> S]
                           /\ f[0] = base
                           /\ \A j \in 1..m : f[j] = step[j][f[j - 1]]
           T == { m \in 0..n : \E f : IsUpTo(f, m) }
<1>1. 0 \in T
  <2>1. IsUpTo([j \in 0..0 |-> base], 0)
    OBVIOUS
  <2> HIDE DEF IsUpTo
  <2> QED BY <2>1
<1>2. ASSUME NEW m \in 1..n, m - 1 \in T PROVE m \in T
  <2>1. PICK f : IsUpTo(f, m - 1)
    BY <1>2
  <2> DEFINE g == [j \in 0..m |-> IF j = m THEN step[m][f[m - 1]] ELSE f[j]]
  <2>2. f[m - 1] \in S /\ step[m] \in [S -> S]
    BY <2>1
  <2>3. g \in [0..m -> S]
    <3>1. \A j \in 0..m : j # m => j \in 0..(m - 1)
      OBVIOUS
    <3>2. step[m][f[m - 1]] \in S
      BY <2>2
    <3>3. \A j \in 0..(m - 1) : f[j] \in S
      BY <2>1
    <3>4. \A j \in 0..m : (IF j = m THEN step[m][f[m - 1]] ELSE f[j]) \in S
      BY <3>1, <3>2, <3>3
    <3> QED BY <3>4
  <2>4. g[0] = base
    BY <2>1
  <2>5. ASSUME NEW j \in 1..m PROVE g[j] = step[j][g[j - 1]]
    <3>1. g[j - 1] = f[j - 1]
      OBVIOUS
    <3>2. CASE j = m
      BY <3>1, <3>2
    <3>3. CASE j # m
      <4>1. j \in 1..(m - 1) /\ g[j] = f[j]
        BY <3>3
      <4> QED BY <2>1, <3>1, <4>1
    <3> QED BY <3>2, <3>3
  <2> HIDE DEF g
  <2>6. IsUpTo(g, m)
    BY <2>3, <2>4, <2>5
  <2> HIDE DEF IsUpTo
  <2> QED BY <2>6
<1>3. n \in T
  <2> HIDE DEF T
  <2>1. 0..n \subseteq T
    BY <1>1, <1>2, BoundedInduction
  <2> QED BY <2>1
<1>4. PICK f : IsUpTo(f, n)
  BY <1>3
<1>5. IsRecursion(f, n, base, step)
  <2>1. \A j \in 0..n : f[j] = IF j = 0 THEN base ELSE step[j][f[j - 1]]
    <3>1. \A j \in 0..n : j # 0 => j \in 1..n
      OBVIOUS
    <3>2. f[0] = base /\ \A j \in 1..n : f[j] = step[j][f[j - 1]]
      BY <1>4
    <3> QED BY <3>1, <3>2
  <2>2. f = [j \in 0..n |-> f[j]]
    BY <1>4
  <2> QED BY <2>1, <2>2 DEF IsRecursion
<1> QED BY <1>4, <1>5

(* A walk that goes on from some places, always further, and stops at the  *)
(* others.                                                                 *)
IsWalk(f, places, goes, to) ==
  f = [o \in places |-> IF o \in goes THEN f[to[o]] ELSE o]

LEMMA WalkStops ==
  ASSUME NEW at \in Nat, NEW limit \in Nat, NEW goes, NEW to,
         \A o \in goes \cap (at..limit) : to[o] \in (o + 1)..limit
  PROVE  /\ \E f : IsWalk(f, at..limit, goes, to)
         /\ \A f : IsWalk(f, at..limit, goes, to) =>
              \A o \in at..limit : f[o] \in o..limit
<1>1. CASE at > limit
  <2>1. at..limit = {}
    BY <1>1
  <2>2. IsWalk([o \in {} |-> 0], {}, goes, to)
    BY DEF IsWalk
  <2> QED BY <2>1, <2>2
<1>2. CASE at <= limit
  <2> DEFINE n == limit - at
             IsTail(f, m) ==
               \A o \in (limit - m)..limit : f[o] = IF o \in goes THEN f[to[o]] ELSE o
  <2>1. n \in Nat
    BY <1>2
  <2>2. \E f : IsWalk(f, at..limit, goes, to)
    <3> DEFINE T == { m \in 0..n : \E f : IsTail(f, m) }
    <3>1. 0 \in T
      <4>1. limit \notin goes
        BY <1>2
      <4>2. IsTail([o \in limit..limit |-> o], 0)
        BY <4>1
      <4> HIDE DEF IsTail
      <4> QED BY <2>1, <4>2
    <3>2. ASSUME NEW m \in 1..n, m - 1 \in T PROVE m \in T
      <4>1. PICK f : IsTail(f, m - 1)
        BY <3>2
      <4> DEFINE here == limit - m
                 g == [o \in here..limit |->
                         IF o # here THEN f[o] ELSE IF o \in goes THEN f[to[o]] ELSE o]
      <4>2. here \in at..limit /\ here + 1 = limit - (m - 1)
        BY <1>2, <2>1
      <4>3. ASSUME NEW o \in here..limit
            PROVE  g[o] = IF o \in goes THEN g[to[o]] ELSE o
        <5>1. o \in at..limit /\ o \in Int
          BY <4>2
        <5>2. o \in goes => to[o] \in (here + 1)..limit
          BY <4>2, <5>1
        <5>3. o \in goes => g[to[o]] = f[to[o]]
          <6> SUFFICES ASSUME o \in goes PROVE g[to[o]] = f[to[o]]
            OBVIOUS
          <6>1. to[o] \in here..limit /\ to[o] # here
            BY <4>2, <5>2
          <6> QED BY <6>1
        <5>4. CASE o = here
          BY <5>3, <5>4
        <5>5. CASE o # here
          <6>1. o \in (limit - (m - 1))..limit
            BY <4>2, <5>5
          <6>2. f[o] = IF o \in goes THEN f[to[o]] ELSE o
            BY <4>1, <6>1
          <6> QED BY <5>3, <5>5, <6>2
        <5> QED BY <5>4, <5>5
      <4> HIDE DEF g
      <4>4. IsTail(g, m)
        BY <4>3
      <4> HIDE DEF IsTail
      <4> QED BY <4>4
    <3> HIDE DEF T
    <3>3. 0..n \subseteq T
      BY <2>1, <3>1, <3>2, BoundedInduction
    <3>4. n \in T
      BY <2>1, <3>3
    <3>5. PICK f : IsTail(f, n)
      BY <3>4 DEF T
    <3> DEFINE g == [o \in at..limit |-> f[o]]
    <3>6. \A o \in at..limit : g[o] = IF o \in goes THEN g[to[o]] ELSE o
      <4> SUFFICES ASSUME NEW o \in at..limit
                   PROVE  g[o] = IF o \in goes THEN g[to[o]] ELSE o
        OBVIOUS
      <4>1. o \in (limit - n)..limit
        OBVIOUS
      <4>2. f[o] = IF o \in goes THEN f[to[o]] ELSE o
        BY <3>5, <4>1
      <4>3. o \in goes => to[o] \in at..limit
        OBVIOUS
      <4> QED BY <4>2, <4>3
    <3>7. g = [o \in at..limit |-> g[o]]
      OBVIOUS
    <3> HIDE DEF g
    <3>8. IsWalk(g, at..limit, goes, to)
      BY <3>6, <3>7 DEF IsWalk
    <3> QED BY <3>8
  <2>3. ASSUME NEW f, IsWalk(f, at..limit, goes, to), NEW p \in at..limit
        PROVE  f[p] \in p..limit
    <3> DEFINE T == { m \in 0..n : \A o \in (limit - m)..limit : f[o] \in o..limit }
    <3>1. \A o \in at..limit : f[o] = IF o \in goes THEN f[to[o]] ELSE o
      BY <2>3 DEF IsWalk
    <3>2. 0 \in T
      <4>1. limit \notin goes /\ limit \in at..limit
        BY <1>2
      <4>2. f[limit] = limit
        BY <3>1, <4>1
      <4> QED BY <2>1, <4>2
    <3>3. ASSUME NEW m \in 1..n, m - 1 \in T PROVE m \in T
      <4>1. \A o \in (limit - (m - 1))..limit : f[o] \in o..limit
        BY <3>3
      <4> DEFINE here == limit - m
      <4>2. here \in at..limit /\ here + 1 = limit - (m - 1)
        BY <1>2, <2>1
      <4>3. f[here] \in here..limit
        <5>1. CASE here \in goes
          <6>1. to[here] \in (here + 1)..limit
            BY <4>2, <5>1
          <6>2. f[to[here]] \in to[here]..limit
            BY <4>1, <4>2, <6>1
          <6>3. f[here] = f[to[here]]
            BY <3>1, <4>2, <5>1
          <6> HIDE DEF here
          <6> QED BY <4>2, <6>1, <6>2, <6>3
        <5>2. CASE here \notin goes
          BY <3>1, <4>2, <5>2
        <5> QED BY <5>1, <5>2
      <4>4. ASSUME NEW o \in here..limit PROVE f[o] \in o..limit
        <5>1. o = here \/ o \in (limit - (m - 1))..limit
          BY <4>2
        <5> QED BY <4>1, <4>3, <5>1
      <4> QED BY <4>4
    <3> HIDE DEF T
    <3>4. 0..n \subseteq T
      BY <2>1, <3>2, <3>3, BoundedInduction
    <3>5. n \in T
      BY <2>1, <3>4
    <3>6. p \in (limit - n)..limit
      OBVIOUS
    <3> QED BY <3>5, <3>6 DEF T
  <2> QED BY <2>2, <2>3
<1> QED BY <1>1, <1>2

(* The running sum of integers is an integer, which grows at each place by *)
(* what stands there.                                                      *)
LEMMA SumToIs ==
  ASSUME NEW f, NEW n \in Nat, \A j \in 1..n : f[j] \in Int
  PROVE  /\ SumTo(f, n) \in Int
         /\ SumTo(f, 0) = 0
         /\ n > 0 => SumTo(f, n) = SumTo(f, n - 1) + f[n]
<1> DEFINE Def(g, m) == g = [j \in 0..m |-> IF j = 0 THEN 0 ELSE g[j - 1] + f[j]]
           upto(m) == CHOOSE g : Def(g, m)
<1>1. ASSUME NEW m \in 0..n
      PROVE  /\ Def(upto(m), m)
             /\ \A j \in 0..m : upto(m)[j] \in Int
  <2> DEFINE step == [j \in 1..m |-> [v \in Int |-> v + f[j]]]
  <2>1. step \in [1..m -> [Int -> Int]] /\ m \in Nat
    <3>1. \A j \in 1..m : f[j] \in Int
      OBVIOUS
    <3>2. \A j \in 1..m : [v \in Int |-> v + f[j]] \in [Int -> Int]
      BY <3>1
    <3> QED BY <3>2
  <2>2. \A j \in 1..m : \A v \in Int : step[j][v] = v + f[j]
    OBVIOUS
  <2> HIDE DEF step
  <2>3. PICK g \in [0..m -> Int] : IsRecursion(g, m, 0, step)
    <3>1. 0 \in Int
      OBVIOUS
    <3> QED BY <2>1, <3>1, RecursionExists, Zenon
  <2>4. ASSUME NEW h \in [0..m -> Int], IsRecursion(h, m, 0, step)
        PROVE  Def(h, m)
    <3>1. \A j \in 0..m : j # 0 => j \in 1..m /\ h[j - 1] \in Int
      BY <2>4
    <3>2. \A j \in 0..m : (IF j = 0 THEN 0 ELSE step[j][h[j - 1]])
                          = IF j = 0 THEN 0 ELSE h[j - 1] + f[j]
      BY <2>2, <3>1
    <3> QED BY <2>4, <3>2 DEF IsRecursion
  <2>5. Def(g, m)
    BY <2>3, <2>4
  <2>6. Def(upto(m), m)
    BY <2>5
  <2> DEFINE u == upto(m)
             T == { j \in 0..m : u[j] \in Int }
  <2> HIDE DEF upto
  <2>7. \A j \in 0..m : u[j] = IF j = 0 THEN 0 ELSE u[j - 1] + f[j]
    BY <2>6
  <2> HIDE DEF u
  <2>8. 0 \in T
    BY <2>7
  <2>9. ASSUME NEW j \in 1..m, j - 1 \in T PROVE j \in T
    <3>1. u[j - 1] \in Int /\ j - 1 \in 0..m /\ j \in 0..m /\ j # 0 /\ f[j] \in Int
      BY <2>9
    <3> QED BY <2>7, <3>1
  <2> HIDE DEF T
  <2>10. 0..m \subseteq T
    BY <2>1, <2>8, <2>9, BoundedInduction
  <2> QED BY <2>6, <2>10 DEF T, u
<1>2. ASSUME NEW m \in 0..n
      PROVE  /\ SumTo(f, m) = upto(m)[m]
             /\ upto(m)[0] = 0
             /\ \A j \in 1..m : upto(m)[j] = upto(m)[j - 1] + f[j]
  <2>1. SumTo(f, m) = upto(m)[m]
    BY DEF SumTo
  <2>2. Def(upto(m), m)
    BY <1>1
  <2> DEFINE u == upto(m)
  <2> HIDE DEF upto
  <2>3. \A j \in 0..m : u[j] = IF j = 0 THEN 0 ELSE u[j - 1] + f[j]
    BY <2>2
  <2> QED BY <2>1, <2>3
<1>3. \A m \in 0..n : \A j \in 0..m : upto(m)[j] \in Int
  BY <1>1
<1> HIDE DEF upto
<1>4. ASSUME n > 0
      PROVE  upto(n - 1)[n - 1] = upto(n)[n - 1]
  <2> DEFINE T == { j \in 0..(n - 1) : upto(n - 1)[j] = upto(n)[j] }
  <2>1. n - 1 \in 0..n /\ n - 1 \in Nat /\ n \in 0..n
    BY <1>4
  <2>2. 0 \in T
    BY <1>2, <2>1
  <2>3. ASSUME NEW j \in 1..(n - 1), j - 1 \in T PROVE j \in T
    <3>1. j \in 1..n
      OBVIOUS
    <3> QED BY <1>2, <2>1, <2>3, <3>1
  <2> HIDE DEF T
  <2>4. 0..(n - 1) \subseteq T
    BY <2>1, <2>2, <2>3, BoundedInduction
  <2> QED BY <1>4, <2>4 DEF T
<1>5. SumTo(f, n) \in Int
  BY <1>2, <1>3
<1>6. SumTo(f, 0) = 0
  BY <1>2
<1>7. ASSUME n > 0 PROVE SumTo(f, n) = SumTo(f, n - 1) + f[n]
  <2>1. n - 1 \in 0..n /\ n \in 0..n /\ n \in 1..n
    BY <1>7
  <2>2. SumTo(f, n) = upto(n)[n] /\ SumTo(f, n - 1) = upto(n - 1)[n - 1]
    BY <1>2, <2>1
  <2>3. upto(n)[n] = upto(n)[n - 1] + f[n]
    BY <1>2, <2>1
  <2> QED BY <1>4, <1>7, <2>2, <2>3
<1> QED BY <1>5, <1>6, <1>7

(* That of natural numbers never shrinks.                                  *)
LEMMA SumToNat ==
  ASSUME NEW f, NEW n \in Nat, \A j \in 1..n : f[j] \in Nat
  PROVE  \A m \in 0..n : SumTo(f, m) \in 0..SumTo(f, n)
<1>1. ASSUME NEW m \in 0..n
      PROVE  /\ SumTo(f, m) \in Int
             /\ SumTo(f, 0) = 0
             /\ m > 0 => SumTo(f, m) = SumTo(f, m - 1) + f[m]
  <2>1. m \in Nat /\ \A j \in 1..m : f[j] \in Int
    OBVIOUS
  <2> QED BY <2>1, SumToIs
<1> DEFINE T == { m \in 0..n : \A j \in 0..m : SumTo(f, j) \in 0..SumTo(f, m) }
<1>2. 0 \in T
  BY <1>1
<1>3. ASSUME NEW m \in 1..n, m - 1 \in T PROVE m \in T
  <2>1. /\ SumTo(f, m) = SumTo(f, m - 1) + f[m]
        /\ SumTo(f, m - 1) \in Int /\ SumTo(f, m) \in Int /\ f[m] \in Nat
    BY <1>1
  <2>2. \A j \in 0..(m - 1) : SumTo(f, j) \in 0..SumTo(f, m - 1)
    BY <1>3
  <2>3. m - 1 \in 0..(m - 1)
    OBVIOUS
  <2>4. SumTo(f, m) >= 0 /\ SumTo(f, m) >= SumTo(f, m - 1)
    BY <2>1, <2>2, <2>3
  <2>5. ASSUME NEW j \in 0..m PROVE SumTo(f, j) \in 0..SumTo(f, m)
    <3>1. CASE j = m
      BY <2>1, <2>4, <3>1
    <3>2. CASE j # m
      <4>1. j \in 0..(m - 1)
        BY <3>2
      <4> QED BY <2>1, <2>2, <2>4, <4>1
    <3> QED BY <3>1, <3>2
  <2> QED BY <2>5
<1> HIDE DEF T
<1>4. 0..n \subseteq T
  BY <1>2, <1>3, BoundedInduction
<1> QED BY <1>4 DEF T

(* It depends on nothing but what is summed.                               *)
LEMMA SumToSame ==
  ASSUME NEW f, NEW g, NEW n \in Nat, \A j \in 1..n : f[j] \in Int /\ g[j] = f[j]
  PROVE  SumTo(g, n) = SumTo(f, n)
<1>1. ASSUME NEW m \in 0..n
      PROVE  /\ SumTo(f, 0) = SumTo(g, 0)
             /\ m > 0 => /\ SumTo(f, m) = SumTo(f, m - 1) + f[m]
                         /\ SumTo(g, m) = SumTo(g, m - 1) + f[m]
  <2>1. m \in Nat /\ \A j \in 1..m : f[j] \in Int /\ g[j] \in Int /\ g[j] = f[j]
    OBVIOUS
  <2>2. SumTo(f, 0) = 0 /\ m > 0 => SumTo(f, m) = SumTo(f, m - 1) + f[m]
    BY <2>1, SumToIs
  <2>3. SumTo(g, 0) = 0 /\ m > 0 => SumTo(g, m) = SumTo(g, m - 1) + g[m]
    BY <2>1, SumToIs
  <2>4. SumTo(f, 0) = 0 /\ SumTo(g, 0) = 0
    BY <2>1, SumToIs
  <2> QED BY <2>1, <2>2, <2>3, <2>4, SumToIs
<1> DEFINE T == { m \in 0..n : SumTo(g, m) = SumTo(f, m) }
<1>2. 0 \in T
  BY <1>1
<1>3. ASSUME NEW m \in 1..n, m - 1 \in T PROVE m \in T
  BY <1>1, <1>3
<1> HIDE DEF T
<1>4. 0..n \subseteq T
  BY <1>2, <1>3, BoundedInduction
<1> QED BY <1>4 DEF T

(* A place that is added at the end adds what stands there.                *)
LEMMA SumOfAppended ==
  ASSUME NEW f, NEW g, NEW n \in Nat, \A j \in 1..n : f[j] \in Int /\ g[j] = f[j],
         g[n + 1] \in Int
  PROVE  /\ SumTo(f, n) \in Int
         /\ SumTo(g, n + 1) = SumTo(f, n) + g[n + 1]
         /\ \A m \in 0..n : SumTo(g, m) = SumTo(f, m)
<1>1. \A j \in 1..n + 1 : g[j] \in Int
  OBVIOUS
<1>2. SumTo(g, n + 1) = SumTo(g, (n + 1) - 1) + g[n + 1]
  BY <1>1, SumToIs
<1>3. ASSUME NEW m \in 0..n PROVE SumTo(g, m) = SumTo(f, m)
  <2>1. m \in Nat /\ \A j \in 1..m : f[j] \in Int /\ g[j] = f[j]
    OBVIOUS
  <2> QED BY <2>1, SumToSame
<1>4. SumTo(g, n) = SumTo(f, n) /\ (n + 1) - 1 = n
  BY <1>3
<1>5. SumTo(f, n) \in Int
  BY SumToIs
<1> QED BY <1>2, <1>3, <1>4, <1>5

(* The sum over a list that goes on where another one begins.              *)
IsFollowedBy(f, k, g, n) ==
  /\ k \in Nat /\ n \in Nat
  /\ \A j \in 1..k : f[j] \in Int
  /\ \A j \in 1..n : g[j] \in Int /\ f[k + j] = g[j]

LEMMA SumOfRest ==
  ASSUME NEW f, NEW k, NEW g, NEW n, IsFollowedBy(f, k, g, n)
  PROVE  /\ SumTo(f, k) \in Int
         /\ \A m \in 0..n : SumTo(g, m) \in Int /\ SumTo(f, k + m) = SumTo(f, k) + SumTo(g, m)
<1> USE DEF IsFollowedBy
<1>1. ASSUME NEW m \in 0..k + n
      PROVE  /\ SumTo(f, m) \in Int
             /\ m > 0 => SumTo(f, m) = SumTo(f, m - 1) + f[m]
  <2>1. m \in Nat
    OBVIOUS
  <2>2. ASSUME NEW j \in 1..m PROVE f[j] \in Int
    <3>1. CASE j <= k
      BY <3>1
    <3>2. CASE j > k
      <4>1. j - k \in 1..n /\ k + (j - k) = j
        BY <3>2
      <4> QED BY <4>1
    <3> QED BY <3>1, <3>2
  <2> QED BY <2>1, <2>2, SumToIs
<1>2. ASSUME NEW m \in 0..n
      PROVE  /\ SumTo(g, m) \in Int /\ SumTo(g, 0) = 0
             /\ m > 0 => SumTo(g, m) = SumTo(g, m - 1) + g[m]
  <2>1. m \in Nat /\ \A j \in 1..m : g[j] \in Int
    OBVIOUS
  <2> QED BY <2>1, SumToIs
<1> DEFINE T == { m \in 0..n : SumTo(f, k + m) = SumTo(f, k) + SumTo(g, m) }
<1>3. 0 \in T
  <2>1. 0 \in 0..n /\ k \in 0..k + n /\ k + 0 = k
    OBVIOUS
  <2> QED BY <1>1, <1>2, <2>1
<1>4. ASSUME NEW m \in 1..n, m - 1 \in T PROVE m \in T
  <2>1. k + m \in 0..k + n /\ k + m > 0 /\ (k + m) - 1 = k + (m - 1) /\ m \in 0..n /\ m > 0
        /\ m - 1 \in 0..n /\ k \in 0..k + n
    OBVIOUS
  <2>2. SumTo(f, k + m) = SumTo(f, k + (m - 1)) + f[k + m]
    BY <1>1, <2>1
  <2>3. SumTo(f, k + (m - 1)) = SumTo(f, k) + SumTo(g, m - 1)
    BY <1>4
  <2>4. SumTo(g, m) = SumTo(g, m - 1) + g[m]
    BY <1>2, <2>1
  <2>5. SumTo(f, k) \in Int /\ SumTo(g, m - 1) \in Int /\ g[m] \in Int /\ f[k + m] = g[m]
    BY <1>1, <1>2, <2>1
  <2> QED BY <2>2, <2>3, <2>4, <2>5
<1> HIDE DEF T
<1>5. 0..n \subseteq T
  BY <1>3, <1>4, BoundedInduction
<1>6. \A m \in 0..n : SumTo(f, k + m) = SumTo(f, k) + SumTo(g, m)
  BY <1>5 DEF T
<1>7. k \in 0..k + n
  OBVIOUS
<1> QED BY <1>1, <1>2, <1>6, <1>7
-----------------------------------------------------------------------------
(* Movie fragments.                                                        *)

(* What a moof loses is a number of bytes.                                 *)
LEMMA MoofRemovedIs ==
  ASSUME NEW box, Len(box.trafs) \in Nat, DOMAIN box.trafs = 1..Len(box.trafs),
         \A t \in DOMAIN box.trafs : box.trafs[t].removed \in Nat
  PROVE  MoofRemoved(box) \in Nat
<1> DEFINE f == [t \in DOMAIN box.trafs |-> box.trafs[t].removed]
           n == Len(box.trafs)
<1>1. n \in Nat /\ \A j \in 1..n : f[j] \in Nat
  OBVIOUS
<1>2. MoofRemoved(box) = SumTo(f, n)
  BY DEF MoofRemoved
<1> HIDE DEF f, n
<1>3. SumTo(f, n) \in Int
  BY <1>1, SumToIs
<1>4. \A m \in 0..n : SumTo(f, m) \in 0..SumTo(f, n)
  BY <1>1, SumToNat
<1>5. n \in 0..n
  BY <1>1
<1> QED BY <1>2, <1>3, <1>4, <1>5

(* What lies in front of the samples of a run.                             *)
LEMMA SumOfSizes ==
  ASSUME NEW run \in Run
  PROVE  /\ Len(run.sizes) \in Nat /\ DOMAIN run.sizes = 1..Len(run.sizes)
         /\ \A k \in 0..Len(run.sizes) : SumTo(run.sizes, k) \in Int
         /\ SumTo(run.sizes, Len(run.sizes)) \in Int
<1> DEFINE s == run.sizes
<1>1. s \in Seq(Nat)
  BY DEF Run
<1> HIDE DEF s
<1>2. Len(s) \in Nat /\ DOMAIN s = 1..Len(s) /\ \A j \in 1..Len(s) : s[j] \in Int
  BY <1>1
<1>3. ASSUME NEW k \in 0..Len(s) PROVE SumTo(s, k) \in Int
  <2>1. k \in Nat /\ \A j \in 1..k : s[j] \in Int
    BY <1>2
  <2> QED BY <2>1, SumToIs
<1> QED BY <1>2, <1>3 DEF s

(* A run begins where it says, behind the run before it, or at the base.   *)
LEMMA RunStartIs ==
  ASSUME NEW traf, traf.runs \in Seq(Run), traf.base_data_offset \in Int \cup {None},
         NEW at \in Int
  PROVE  \A r \in DOMAIN traf.runs :
           LET run == traf.runs[r]
               start == RunStart(traf, at)
           IN /\ start[r] \in Int
              /\ start[r] = IF run.data_offset # None
                              THEN BaseOf(traf, at) + run.data_offset
                            ELSE IF r > 1
                              THEN start[r - 1]
                                   + SumTo(traf.runs[r - 1].sizes, Len(traf.runs[r - 1].sizes))
                            ELSE IF traf.default_base_is_moof THEN at ELSE BaseOf(traf, at)
<1> DEFINE n == Len(traf.runs)
           size(r) == SumTo(traf.runs[r].sizes, Len(traf.runs[r].sizes))
           begins(r, before) ==
             IF traf.runs[r].data_offset # None THEN BaseOf(traf, at) + traf.runs[r].data_offset
             ELSE IF r > 1 THEN before + size(r - 1)
             ELSE IF traf.default_base_is_moof THEN at ELSE BaseOf(traf, at)
           IsStart(g) ==
             g = [r \in DOMAIN traf.runs |->
                    IF traf.runs[r].data_offset # None
                      THEN BaseOf(traf, at) + traf.runs[r].data_offset
                    ELSE IF r > 1 THEN g[r - 1] + size(r - 1)
                    ELSE IF traf.default_base_is_moof THEN at ELSE BaseOf(traf, at)]
<1>1. n \in Nat /\ DOMAIN traf.runs = 1..n
  OBVIOUS
<1>2. BaseOf(traf, at) \in Int
  BY DEF BaseOf
<1>3. ASSUME NEW r \in 1..n
      PROVE  /\ traf.runs[r].data_offset # None => traf.runs[r].data_offset \in Int
             /\ size(r) \in Int
  <2>1. traf.runs[r] \in Run
    BY <1>1
  <2>2. traf.runs[r].data_offset \in Int \cup {None}
    BY <2>1 DEF Run
  <2> QED BY <2>1, <2>2, SumOfSizes
<1> HIDE DEF size, n
<1>4. ASSUME NEW r \in 1..n, NEW v \in Int PROVE begins(r, v) \in Int
  <2>1. r > 1 => r - 1 \in 1..n
    BY <1>1
  <2>2. traf.runs[r].data_offset # None => BaseOf(traf, at) + traf.runs[r].data_offset \in Int
    BY <1>2, <1>3
  <2>3. r > 1 => v + size(r - 1) \in Int
    BY <1>3, <2>1
  <2> QED BY <1>2, <2>2, <2>3
<1> DEFINE step == [r \in 1..n |-> [v \in Int |-> begins(r, v)]]
<1> HIDE DEF begins
<1>5. step \in [1..n -> [Int -> Int]]
  <2>1. \A r \in 1..n : [v \in Int |-> begins(r, v)] \in [Int -> Int]
    BY <1>4
  <2> QED BY <2>1
<1>6. \A r \in 1..n : \A v \in Int : step[r][v] = begins(r, v)
  OBVIOUS
<1> HIDE DEF step
<1>7. PICK h \in [0..n -> Int] : IsRecursion(h, n, 0, step)
  <2>1. 0 \in Int
    OBVIOUS
  <2> QED BY <1>1, <1>5, <2>1, RecursionExists, Zenon
<1> DEFINE g == [r \in 1..n |-> h[r]]
<1>8. \A r \in 1..n : g[r] \in Int /\ g[r] = begins(r, IF r > 1 THEN g[r - 1] ELSE h[0])
  <2> SUFFICES ASSUME NEW r \in 1..n
               PROVE  g[r] \in Int /\ g[r] = begins(r, IF r > 1 THEN g[r - 1] ELSE h[0])
    OBVIOUS
  <2>1. r \in 0..n /\ r - 1 \in 0..n /\ r # 0
    BY <1>1
  <2>2. h[r] = step[r][h[r - 1]] /\ h[r - 1] \in Int /\ h[r] \in Int
    BY <1>7, <2>1 DEF IsRecursion
  <2>3. h[r] = begins(r, h[r - 1])
    BY <1>6, <2>2
  <2>4. h[r - 1] = IF r > 1 THEN g[r - 1] ELSE h[0]
    BY <1>1, <2>1
  <2> QED BY <2>2, <2>3, <2>4
<1>9. IsStart(g)
  <2>1. \A r \in 1..n :
          g[r] = IF traf.runs[r].data_offset # None
                   THEN BaseOf(traf, at) + traf.runs[r].data_offset
                 ELSE IF r > 1 THEN g[r - 1] + size(r - 1)
                 ELSE IF traf.default_base_is_moof THEN at ELSE BaseOf(traf, at)
    BY <1>8 DEF begins
  <2>2. g = [r \in 1..n |-> g[r]]
    OBVIOUS
  <2> HIDE DEF g
  <2> QED BY <1>1, <2>1, <2>2
<1>10. RunStart(traf, at) = CHOOSE f : IsStart(f)
  BY DEF RunStart, size
<1> HIDE DEF g
<1>11. IsStart(RunStart(traf, at))
  <2> HIDE DEF IsStart
  <2> QED BY <1>9, <1>10
<1> DEFINE start == RunStart(traf, at)
<1>12. \A r \in 1..n : start[r] = begins(r, start[r - 1])
  BY <1>1, <1>11 DEF begins
<1> HIDE DEF start
<1> DEFINE T == { r \in 0..n : r > 0 => start[r] \in Int }
<1>13. 0 \in T
  BY <1>1
<1>14. ASSUME NEW r \in 1..n, r - 1 \in T PROVE r \in T
  <2>1. r > 1 => start[r - 1] \in Int /\ r - 1 \in 1..n
    BY <1>1, <1>14
  <2>2. r > 1 => start[r] \in Int
    BY <1>4, <1>12, <2>1
  <2>3. r = 1 => start[r] \in Int
    BY <1>2, <1>3, <1>12 DEF begins
  <2> QED BY <1>1, <2>2, <2>3
<1> HIDE DEF T
<1>15. 0..n \subseteq T
  BY <1>1, <1>13, <1>14, BoundedInduction
<1>16. \A r \in 1..n : start[r] \in Int
  BY <1>1, <1>15 DEF T
<1> QED BY <1>1, <1>12, <1>16 DEF start, begins, size

(* A traf that says the same elsewhere: its data offsets are less by what  *)
(* was lost, and nothing in it is placed but relative to its moof unless   *)
(* the moof stays where it is.                                             *)
SaysTheSame(traf, moved, at, to, lost) ==
  /\ moved.base_data_offset = traf.base_data_offset
  /\ traf.base_data_offset # None => to = at
  /\ moved.default_base_is_moof = traf.default_base_is_moof
  /\ Len(moved.runs) = Len(traf.runs)
  /\ \A r \in DOMAIN traf.runs :
       /\ moved.runs[r].sizes = traf.runs[r].sizes
       /\ IF traf.runs[r].data_offset = None
            THEN moved.runs[r].data_offset = None /\ lost = 0
            ELSE moved.runs[r].data_offset = traf.runs[r].data_offset - lost

(* So says a traf whose runs are as they were.                             *)
LEMMA UntouchedSaysTheSame ==
  ASSUME NEW traf, traf.runs \in Seq(Run), NEW moved, moved.runs = traf.runs,
         moved.base_data_offset = traf.base_data_offset,
         moved.default_base_is_moof = traf.default_base_is_moof,
         NEW at, NEW to, traf.base_data_offset # None => to = at
  PROVE  SaysTheSame(traf, moved, at, to, 0)
<1>1. \A r \in DOMAIN traf.runs :
        traf.runs[r].data_offset # None =>
          traf.runs[r].data_offset = traf.runs[r].data_offset - 0
  <2> SUFFICES ASSUME NEW r \in DOMAIN traf.runs, traf.runs[r].data_offset # None
               PROVE  traf.runs[r].data_offset = traf.runs[r].data_offset - 0
    OBVIOUS
  <2>1. traf.runs[r] \in Run
    OBVIOUS
  <2>2. traf.runs[r].data_offset \in Int
    BY <2>1 DEF Run
  <2> QED BY <2>2
<1> QED BY <1>1 DEF SaysTheSame

(* And so says one that was rebuilt with its moof.                         *)
LEMMA RebuiltSaysTheSame ==
  ASSUME NEW box, MoofRemoved(box) \in Nat, NEW traf, traf.runs \in Seq(Run),
         {"runs", "base_data_offset", "default_base_is_moof"} \subseteq DOMAIN traf,
         traf.base_data_offset = None,
         \A r \in DOMAIN traf.runs : traf.runs[r].data_offset # None,
         NEW at, NEW to
  PROVE  /\ RebuiltTraf(box, traf).runs \in Seq(Run)
         /\ SaysTheSame(traf, RebuiltTraf(box, traf), at, to, MoofRemoved(box))
<1> DEFINE moved == RebuiltTraf(box, traf)
           lost == MoofRemoved(box)
<1>1. /\ moved.base_data_offset = traf.base_data_offset
      /\ moved.default_base_is_moof = traf.default_base_is_moof
      /\ moved.runs = [r \in DOMAIN traf.runs |-> PatchedRun(box, traf, traf.runs[r])]
  BY DEF RebuiltTraf
<1> HIDE DEF moved, lost
<1>2. ASSUME NEW r \in DOMAIN traf.runs
      PROVE  /\ moved.runs[r] \in Run
             /\ moved.runs[r].sizes = traf.runs[r].sizes
             /\ moved.runs[r].data_offset = traf.runs[r].data_offset - lost
  <2>1. traf.runs[r] \in Run /\ traf.runs[r].data_offset # None
    OBVIOUS
  <2>2. traf.runs[r].data_offset - lost \in Int
    BY <2>1 DEF Run, lost
  <2>3. moved.runs[r] = [traf.runs[r] EXCEPT !.data_offset = @ - lost]
    BY <1>1 DEF PatchedRun, lost
  <2> QED BY <2>1, <2>2, <2>3 DEF Run
<1>3. Len(traf.runs) \in Nat /\ DOMAIN traf.runs = 1..Len(traf.runs)
  OBVIOUS
<1>4. moved.runs \in Seq(Run) /\ Len(moved.runs) = Len(traf.runs)
  <2>1. DOMAIN moved.runs = 1..Len(traf.runs)
    BY <1>1, <1>3
  <2>2. moved.runs = [r \in 1..Len(traf.runs) |-> moved.runs[r]]
    BY <1>1, <1>3
  <2>3. \A r \in 1..Len(traf.runs) : moved.runs[r] \in Run
    BY <1>2, <1>3
  <2> QED BY <1>3, <2>1, <2>2, <2>3
<1>5. SaysTheSame(traf, moved, at, to, lost)
  BY <1>1, <1>2, <1>4 DEF SaysTheSame
<1> QED BY <1>4, <1>5 DEF moved, lost

(* Its runs then begin as much further on as the moof has moved, and as    *)
(* much closer as was lost.                                                *)
LEMMA RunsMove ==
  ASSUME NEW traf, traf.runs \in Seq(Run), traf.base_data_offset \in Int \cup {None},
         NEW moved, moved.runs \in Seq(Run), NEW at \in Int, NEW to \in Int,
         NEW lost \in Int, SaysTheSame(traf, moved, at, to, lost)
  PROVE  /\ DOMAIN moved.runs = DOMAIN traf.runs
         /\ \A r \in DOMAIN traf.runs :
              RunStart(moved, to)[r] = RunStart(traf, at)[r] + (to - at) - lost
<1> DEFINE n == Len(traf.runs)
           size(r) == SumTo(traf.runs[r].sizes, Len(traf.runs[r].sizes))
           old == RunStart(traf, at)
           new == RunStart(moved, to)
<1>1. n \in Nat /\ DOMAIN traf.runs = 1..n /\ DOMAIN moved.runs = 1..n
  BY DEF SaysTheSame
<1>2. moved.base_data_offset = traf.base_data_offset /\ to \in Int
  BY DEF SaysTheSame
<1>3. ASSUME NEW r \in 1..n
      PROVE  /\ old[r] \in Int
             /\ old[r] = IF traf.runs[r].data_offset # None
                           THEN BaseOf(traf, at) + traf.runs[r].data_offset
                         ELSE IF r > 1 THEN old[r - 1] + size(r - 1)
                         ELSE IF traf.default_base_is_moof THEN at ELSE BaseOf(traf, at)
  BY <1>1, RunStartIs
<1>4. ASSUME NEW r \in 1..n
      PROVE  /\ new[r] \in Int
             /\ new[r] = IF moved.runs[r].data_offset # None
                           THEN BaseOf(moved, to) + moved.runs[r].data_offset
                         ELSE IF r > 1
                           THEN new[r - 1] + SumTo(moved.runs[r - 1].sizes,
                                                   Len(moved.runs[r - 1].sizes))
                         ELSE IF moved.default_base_is_moof THEN to
                         ELSE BaseOf(moved, to)
  BY <1>1, <1>2, RunStartIs
<1>5. ASSUME NEW r \in 1..n, r > 1
      PROVE  SumTo(moved.runs[r - 1].sizes, Len(moved.runs[r - 1].sizes)) = size(r - 1)
  <2>1. r - 1 \in 1..n
    BY <1>1, <1>5
  <2> QED BY <1>1, <2>1 DEF SaysTheSame
<1>6. ASSUME NEW r \in 1..n
      PROVE  /\ traf.runs[r].data_offset # None => traf.runs[r].data_offset \in Int
             /\ r > 1 => size(r - 1) \in Int
  <2>1. traf.runs[r] \in Run
    BY <1>1
  <2>2. CASE r > 1
    <3>1. traf.runs[r - 1] \in Run
      BY <1>1, <2>2
    <3>2. size(r - 1) \in Int
      BY <3>1, SumOfSizes
    <3> QED BY <2>1, <3>2 DEF Run
  <2> QED BY <2>1, <2>2 DEF Run
<1>7. ASSUME NEW r \in 1..n
      PROVE  IF traf.runs[r].data_offset = None
               THEN moved.runs[r].data_offset = None /\ lost = 0
               ELSE /\ moved.runs[r].data_offset = traf.runs[r].data_offset - lost
                    /\ moved.runs[r].data_offset # None
  <2>1. traf.runs[r].data_offset # None => traf.runs[r].data_offset - lost \in Int
    BY <1>6
  <2> QED BY <1>1, <2>1, NoneAssumption DEF SaysTheSame
<1>8. moved.default_base_is_moof = traf.default_base_is_moof
  BY DEF SaysTheSame
<1>9. /\ BaseOf(moved, to) = BaseOf(traf, at) + (to - at)
      /\ BaseOf(traf, at) \in Int
  BY <1>2 DEF BaseOf, SaysTheSame
<1> HIDE DEF size, n, old, new
<1> DEFINE T == { r \in 0..n : r > 0 => new[r] = old[r] + (to - at) - lost }
<1>10. 0 \in T
  BY <1>1
<1>11. ASSUME NEW r \in 1..n, r - 1 \in T PROVE r \in T
  <2>0. r > 1 => new[r - 1] = old[r - 1] + (to - at) - lost
    BY <1>1, <1>11
  <2> SUFFICES new[r] = old[r] + (to - at) - lost
    BY <1>1
  <2> HIDE DEF T
  <2>1. old[r] \in Int /\ new[r] \in Int
    BY <1>3, <1>4
  <2>2. CASE traf.runs[r].data_offset # None
    <3>1. /\ old[r] = BaseOf(traf, at) + traf.runs[r].data_offset
          /\ new[r] = BaseOf(traf, at) + (to - at) + (traf.runs[r].data_offset - lost)
          /\ traf.runs[r].data_offset \in Int
      BY <1>3, <1>4, <1>6, <1>7, <1>9, <2>2
    <3> QED BY <1>9, <3>1
  <2>3. CASE traf.runs[r].data_offset = None /\ r > 1
    <3>1. /\ old[r] = old[r - 1] + size(r - 1)
          /\ new[r] = new[r - 1] + size(r - 1)
          /\ lost = 0
      BY <1>3, <1>4, <1>5, <1>7, <2>3
    <3>2. new[r - 1] = old[r - 1] + (to - at) - lost /\ old[r - 1] \in Int /\ size(r - 1) \in Int
      <4>1. r - 1 \in 1..n
        BY <1>1, <2>3
      <4> QED BY <1>3, <1>6, <2>0, <2>3, <4>1
    <3> QED BY <3>1, <3>2
  <2>4. CASE traf.runs[r].data_offset = None /\ r = 1
    <3>1. old[r] = IF traf.default_base_is_moof THEN at ELSE BaseOf(traf, at)
      BY <1>3, <2>4
    <3>2. moved.runs[r].data_offset = None /\ lost = 0
      BY <1>7, <2>4
    <3>3. new[r] = IF moved.default_base_is_moof THEN to
                   ELSE BaseOf(moved, to)
      BY <1>4, <2>4, <3>2
    <3> QED BY <1>8, <1>9, <3>1, <3>2, <3>3
  <2> QED BY <1>1, <2>2, <2>3, <2>4
<1> HIDE DEF T
<1>12. 0..n \subseteq T
  BY <1>1, <1>10, <1>11, BoundedInduction
<1>13. \A r \in 1..n : new[r] = old[r] + (to - at) - lost
  BY <1>1, <1>12 DEF T
<1> QED BY <1>1, <1>13 DEF new, old

(* And so do its samples.                                                  *)
LEMMA SpansMove ==
  ASSUME NEW traf, traf.runs \in Seq(Run), traf.base_data_offset \in Int \cup {None},
         NEW moved, moved.runs \in Seq(Run), NEW at \in Int, NEW to \in Int,
         NEW lost \in Int, SaysTheSame(traf, moved, at, to, lost),
         NEW s \in SampleSpans(traf, at)
  PROVE  /\ s.offset \in Int
         /\ \E u \in SampleSpans(moved, to) :
              /\ u.run = s.run /\ u.index = s.index
              /\ u.offset = s.offset + (to - at) - lost
<1>0. /\ DOMAIN moved.runs = DOMAIN traf.runs
      /\ \A r \in DOMAIN traf.runs :
           RunStart(moved, to)[r] = RunStart(traf, at)[r] + (to - at) - lost
  BY RunsMove
<1> DEFINE spansOf(q) ==
      { [ run |-> q, index |-> i, size |-> traf.runs[q].sizes[i],
          offset |-> RunStart(traf, at)[q] + SumTo(traf.runs[q].sizes, i - 1) ] :
        i \in DOMAIN traf.runs[q].sizes }
<1>1. PICK r \in DOMAIN traf.runs : s \in spansOf(r)
  <2>1. SampleSpans(traf, at) = UNION { spansOf(q) : q \in DOMAIN traf.runs }
    BY DEF SampleSpans
  <2> HIDE DEF spansOf
  <2> QED BY <2>1
<1>2. PICK k \in DOMAIN traf.runs[r].sizes :
        s = [ run |-> r, index |-> k, size |-> traf.runs[r].sizes[k],
              offset |-> RunStart(traf, at)[r] + SumTo(traf.runs[r].sizes, k - 1) ]
  BY <1>1
<1> HIDE DEF spansOf
<1>3. /\ r \in DOMAIN moved.runs
      /\ RunStart(moved, to)[r] = RunStart(traf, at)[r] + (to - at) - lost
  BY <1>0
<1>4. moved.runs[r].sizes = traf.runs[r].sizes
  BY DEF SaysTheSame
<1>5. RunStart(traf, at)[r] \in Int
  BY RunStartIs
<1>6. SumTo(traf.runs[r].sizes, k - 1) \in Int
  <2>1. traf.runs[r] \in Run
    OBVIOUS
  <2>2. /\ Len(traf.runs[r].sizes) \in Nat
        /\ DOMAIN traf.runs[r].sizes = 1..Len(traf.runs[r].sizes)
        /\ \A i \in 0..Len(traf.runs[r].sizes) : SumTo(traf.runs[r].sizes, i) \in Int
    BY <2>1, SumOfSizes
  <2>3. k - 1 \in 0..Len(traf.runs[r].sizes)
    BY <2>2
  <2> QED BY <2>2, <2>3
<1> DEFINE u == [ run |-> r, index |-> k, size |-> moved.runs[r].sizes[k],
                  offset |-> RunStart(moved, to)[r]
                             + SumTo(moved.runs[r].sizes, k - 1) ]
<1>7. u \in SampleSpans(moved, to)
  <2> DEFINE spans(q) ==
        { [ run |-> q, index |-> i, size |-> moved.runs[q].sizes[i],
            offset |-> RunStart(moved, to)[q] + SumTo(moved.runs[q].sizes, i - 1) ] :
          i \in DOMAIN moved.runs[q].sizes }
  <2>1. u \in spans(r)
    BY <1>4
  <2>2. SampleSpans(moved, to) = UNION { spans(q) : q \in DOMAIN moved.runs }
    BY DEF SampleSpans
  <2> HIDE DEF spans, u
  <2> QED BY <1>3, <2>1, <2>2
<1>8. u.offset = s.offset + (to - at) - lost /\ s.offset \in Int
  BY <1>2, <1>3, <1>4, <1>5, <1>6
<1>9. u.run = s.run /\ u.index = s.index
  BY <1>2
<1> HIDE DEF u
<1> QED BY <1>7, <1>8, <1>9, Zenon
=============================================================================
