----------------------------- MODULE DataLemmas -----------------------------
(***************************************************************************)
(* Facts about numbers, functions and sums that the proofs of several      *)
(* components need.  Induction is used in the form "a set of naturals that *)
(* is not empty has a least element".                                      *)
(***************************************************************************)
EXTENDS Integers, Sequences, FiniteSetsExt, FiniteSetTheorems,
        WellFoundedInduction, TLAPS

\* A set of naturals that is not empty has a least element.
LEMMA LeastNat ==
  ASSUME NEW S \in SUBSET Nat, S # {}
  PROVE  \E n \in S : \A m \in S : n <= m
<1>1. PICK n \in S : \A m \in S : ~ (<<m, n>> \in OpToRel(<, Nat))
  BY NatLessThanWellFounded, WFMin
<1>2. \A m \in S : ~(m < n)
  BY <1>1 DEF OpToRel
<1> QED BY <1>2

\* Induction over the naturals up to m, the property given as a set.
LEMMA UpTo ==
  ASSUME NEW m \in Nat, NEW S, 0 \in S,
         \A i \in 0..m - 1 : i \in S => i + 1 \in S
  PROVE  \A i \in 0..m : i \in S
<1> DEFINE Out == {i \in 0..m : i \notin S}
<1>1. SUFFICES ASSUME Out # {} PROVE FALSE
  OBVIOUS
<1>2. Out \in SUBSET Nat
  OBVIOUS
<1>3. PICK n \in Out : \A k \in Out : n <= k
  <2> HIDE DEF Out
  <2> QED BY <1>1, <1>2, LeastNat
<1>4. n # 0 /\ n - 1 \in 0..m - 1
  BY <1>3
<1>5. n - 1 \in S
  BY <1>3, <1>4
<1> QED BY <1>3, <1>4, <1>5

\* Min of naturals is one of them and the least.
LEMMA MinNat ==
  ASSUME NEW S \in SUBSET Nat, S # {}
  PROVE  Min(S) \in S /\ \A m \in S : Min(S) <= m
BY LeastNat DEF Min

\* Max of naturals below a bound is one of them and the greatest.
LEMMA MaxNat ==
  ASSUME NEW top \in Nat, NEW S \in SUBSET (0..top), S # {}
  PROVE  Max(S) \in S /\ \A m \in S : m <= Max(S)
<1>1. PICK n \in {top - i : i \in S} : \A k \in {top - i : i \in S} : n <= k
  <2>1. {top - i : i \in S} \in SUBSET Nat
    OBVIOUS
  <2>2. PICK i \in S : TRUE
    OBVIOUS
  <2>3. {top - j : j \in S} # {}
    BY <2>2
  <2> QED BY <2>1, <2>3, LeastNat
<1>2. top - n \in S /\ \A m \in S : top - n >= m
  <2>1. PICK i \in S : n = top - i
    BY <1>1
  <2>2. \A m \in S : n <= top - m
    BY <1>1
  <2> QED BY <2>1, <2>2
<1> QED BY <1>2 DEF Max

\* f starts at `first` and each value is a step from the one before.
Walks(f, m, first, step) ==
  f[0] = first /\ \A i \in 1..m : f[i] = step[i][f[i - 1]]

\* A function on 0..m given by its first value and a step exists.
LEMMA Stepwise ==
  ASSUME NEW m \in Nat, NEW S, NEW first \in S,
         NEW step \in [1..m -> [S -> S]]
  PROVE  \E f \in [0..m -> S] : Walks(f, m, first, step)
<1> DEFINE Made(n) == \E f \in [0..n -> S] : Walks(f, n, first, step)
           Good == {n \in 0..m : Made(n)}
<1>1. 0 \in Good
  <2> DEFINE f == [i \in 0..0 |-> first]
  <2>1. f \in [0..0 -> S] /\ Walks(f, 0, first, step)
    BY DEF Walks
  <2>2. Made(0)
    <3> HIDE DEF f
    <3> QED BY <2>1
  <2> QED BY <2>2
<1>2. ASSUME NEW n \in 0..m - 1, n \in Good
      PROVE  n + 1 \in Good
  <2>1. PICK f \in [0..n -> S] : Walks(f, n, first, step)
    BY <1>2
  <2> DEFINE g == [i \in 0..n + 1 |-> IF i <= n THEN f[i] ELSE step[n + 1][f[n]]]
  <2>2. g \in [0..n + 1 -> S]
    <3>1. step[n + 1] \in [S -> S] /\ f[n] \in S
      BY <1>2
    <3> QED BY <3>1
  <2>3. Walks(g, n + 1, first, step)
    BY <2>1 DEF Walks
  <2>4. Made(n + 1)
    <3> HIDE DEF g
    <3> QED BY <2>2, <2>3
  <2> QED BY <2>4
<1>3. m \in Good
  <2> HIDE DEF Good
  <2>1. \A i \in 0..m - 1 : i \in Good => i + 1 \in Good
    BY <1>2
  <2>2. \A i \in 0..m : i \in Good
    BY <1>1, <2>1, UpTo
  <2> QED BY <2>2
<1> QED BY <1>3

\* A running sum exists, whatever it is a sum of.
LEMMA RunningSum ==
  ASSUME NEW m \in Nat, NEW w
  PROVE  \E f : f = [i \in 1..m |-> IF i = 1 THEN 0 ELSE f[i - 1] + w[i - 1]]
<1> DEFINE Sums(f, n) == f = [i \in 1..n |-> IF i = 1 THEN 0 ELSE f[i - 1] + w[i - 1]]
           Good == {n \in 0..m : \E f : Sums(f, n)}
<1>1. 0 \in Good
  <2> DEFINE none == [i \in 1..0 |-> 0]
  <2>1. Sums(none, 0)
    OBVIOUS
  <2> HIDE DEF none, Sums
  <2> QED BY <2>1
<1>2. ASSUME NEW n \in 0..m - 1, n \in Good
      PROVE  n + 1 \in Good
  <2>1. PICK f : Sums(f, n)
    BY <1>2
  <2> DEFINE g == [i \in 1..n + 1 |-> IF i <= n THEN f[i]
                                     ELSE IF i = 1 THEN 0 ELSE f[n] + w[n]]
  <2>2. ASSUME NEW i \in 1..n + 1
        PROVE  g[i] = IF i = 1 THEN 0 ELSE g[i - 1] + w[i - 1]
    <3>1. CASE i \in 1..n
      <4>1. f[i] = IF i = 1 THEN 0 ELSE f[i - 1] + w[i - 1]
        BY <2>1, <3>1
      <4>2. g[i] = f[i] /\ (i # 1 => g[i - 1] = f[i - 1])
        BY <3>1
      <4> QED BY <4>1, <4>2
    <3>2. CASE i = n + 1
      <4>1. i # 1 => n \in 1..n /\ i - 1 = n
        BY <3>2
      <4> QED BY <3>2, <4>1
    <3> QED BY <2>2, <3>1, <3>2
  <2>3. Sums(g, n + 1)
    <3>1. g = [i \in 1..n + 1 |-> g[i]]
      OBVIOUS
    <3> HIDE DEF g
    <3> QED BY <2>2, <3>1
  <2> HIDE DEF g, Sums
  <2> QED BY <2>3
<1>3. \A n \in 0..m : n \in Good
  <2> HIDE DEF Good
  <2>1. \A i \in 0..m - 1 : i \in Good => i + 1 \in Good
    BY <1>2
  <2> QED BY <1>1, <2>1, UpTo
<1>4. m \in Good
  <2> HIDE DEF Good
  <2> QED BY <1>3
<1> QED BY <1>4


-----------------------------------------------------------------------------
(* Sums over finite sets (FiniteSetsExt!MapThenSumSet).                    *)

\* The element a sum takes next.
Pick(s) == CHOOSE x \in s : TRUE

\* h is the sum of g over each subset of U, element by element.
Adder(g, h, U) ==
  /\ h \in [SUBSET U -> Int]
  /\ h[{}] = 0
  /\ \A s \in SUBSET U : s # {} => h[s] = g[Pick(s)] + h[s \ {Pick(s)}]

LEMMA PickIn == \A s : s # {} => Pick(s) \in s
BY DEF Pick

\* Of the bad subsets of a finite set, one has only good subsets of its own.
LEMMA LeastSubset ==
  ASSUME NEW U, IsFiniteSet(U), NEW Bad \in SUBSET SUBSET U, Bad # {}
  PROVE  \E s \in Bad : \A t \in Bad : t \subseteq s => t = s
<1> DEFINE Sizes == {Cardinality(s) : s \in Bad}
<1>1. \A s \in SUBSET U : IsFiniteSet(s) /\ Cardinality(s) \in Nat
  BY FS_Subset, FS_CardinalityType
<1>2. Sizes \in SUBSET Nat /\ Sizes # {}
  BY <1>1
<1>3. PICK n \in Sizes : \A m \in Sizes : n <= m
  <2> HIDE DEF Sizes
  <2> QED BY <1>2, LeastNat
<1>4. PICK s \in Bad : n = Cardinality(s)
  BY <1>3
<1>5. ASSUME NEW t \in Bad, t \subseteq s
      PROVE  t = s
  <2>1. Cardinality(s) <= Cardinality(t)
    BY <1>3, <1>4
  <2>2. IsFiniteSet(s) /\ t \in SUBSET s
    BY <1>1, <1>5
  <2>3. Cardinality(t) <= Cardinality(s)
        /\ (Cardinality(s) = Cardinality(t) => s = t)
    BY <2>2, FS_Subset
  <2>4. Cardinality(s) \in Nat /\ Cardinality(t) \in Nat
    BY <1>1
  <2> QED BY <2>1, <2>3, <2>4
<1> QED BY <1>4, <1>5

\* Two sums of the same numbers agree.
LEMMA AddersMeet ==
  ASSUME NEW U, IsFiniteSet(U), NEW V, NEW S, S \subseteq U, S \subseteq V,
         NEW g, NEW h, Adder(g, h, U), NEW f, NEW i, Adder(f, i, V),
         \A x \in S : g[x] = f[x]
  PROVE  h[S] = i[S]
<1> DEFINE Bad == {s \in SUBSET S : h[s] # i[s]}
<1>1. SUFFICES ASSUME Bad # {} PROVE FALSE
  OBVIOUS
<1>2. IsFiniteSet(S)
  BY FS_Subset
<1>3. PICK s \in Bad : \A t \in Bad : t \subseteq s => t = s
  <2>1. Bad \in SUBSET SUBSET S
    OBVIOUS
  <2> HIDE DEF Bad
  <2> QED BY <1>1, <1>2, <2>1, LeastSubset
<1>4. s \in SUBSET U /\ s \in SUBSET V /\ s \in SUBSET S
  OBVIOUS
<1>5. s # {}
  BY <1>3 DEF Adder
<1>6. PICK t : t = s \ {Pick(s)}
  OBVIOUS
<1>7. t \subseteq s /\ t # s /\ t \in SUBSET S /\ Pick(s) \in S
  BY <1>4, <1>5, <1>6, PickIn
<1>8. h[t] = i[t]
  BY <1>3, <1>7
<1>9. h[s] = g[Pick(s)] + h[t] /\ i[s] = f[Pick(s)] + i[t]
  BY <1>4, <1>5, <1>6 DEF Adder
<1> QED BY <1>3, <1>7, <1>8, <1>9

\* An element more adds its number, whatever the order the sum takes them in.
LEMMA AdderAdds ==
  ASSUME NEW U, IsFiniteSet(U), NEW g \in [U -> Int], NEW h, Adder(g, h, U),
         NEW S \in SUBSET U, NEW x \in U \ S
  PROVE  h[S \cup {x}] = h[S] + g[x]
<1> DEFINE Fails(s, y) == h[s \cup {y}] # h[s] + g[y]
           Bad == {s \in SUBSET U : \E y \in U \ s : Fails(s, y)}
<1>1. SUFFICES ASSUME Bad # {} PROVE FALSE
  OBVIOUS
<1>2. PICK s \in Bad : \A t \in Bad : t \subseteq s => t = s
  <2>1. Bad \in SUBSET SUBSET U
    OBVIOUS
  <2> HIDE DEF Bad
  <2> QED BY <1>1, <2>1, LeastSubset
<1>3. PICK y \in U \ s : Fails(s, y)
  BY <1>2
<1>4. ASSUME NEW t, t \subseteq s, t # s, NEW z \in U \ t
      PROVE  h[t \cup {z}] = h[t] + g[z]
  BY <1>2, <1>4
<1> HIDE DEF Bad
<1>5. PICK w, p : w = s \cup {y} /\ p = Pick(w)
  OBVIOUS
<1>6. s \in SUBSET U /\ w \in SUBSET U /\ w # {} /\ p \in w /\ y \in U /\ p \in U /\ y \notin s
  <2>1. s \in SUBSET U
    BY <1>2 DEF Bad
  <2> QED BY <1>3, <1>5, <2>1, PickIn
<1>7. PICK r : r = w \ {p}
  OBVIOUS
<1>8. h[w] = g[p] + h[r] /\ h[w] \in Int /\ h[r] \in Int /\ h[s] \in Int
  BY <1>5, <1>6, <1>7 DEF Adder
<1>9. g[p] \in Int /\ g[y] \in Int
  BY <1>6
<1>10. h[w] # h[s] + g[y]
  BY <1>3, <1>5
<1>11. p # y
  <2>1. p = y => r = s
    BY <1>5, <1>6, <1>7
  <2> QED BY <1>8, <1>9, <1>10, <2>1
<1>12. PICK t : t = s \ {p}
  OBVIOUS
<1>13. p \in s /\ t \subseteq s /\ t # s /\ t \in SUBSET U /\ r = t \cup {y} /\ y \in U \ t
  BY <1>5, <1>6, <1>7, <1>11, <1>12
<1>14. h[r] = h[t] + g[y]
  BY <1>4, <1>13
<1>15. h[s] = h[t] + g[p]
  <2>1. PICK q : q = Pick(s)
    OBVIOUS
  <2>2. PICK v, u : v = s \ {q} /\ u = v \ {p}
    OBVIOUS
  <2>3. q \in s /\ v \in SUBSET U /\ u \in SUBSET U /\ q \in U
    BY <1>6, <1>13, <2>1, <2>2, PickIn
  <2>4. h[s] = g[q] + h[v] /\ h[v] \in Int /\ h[u] \in Int /\ g[q] \in Int
    BY <1>6, <1>13, <2>1, <2>2, <2>3 DEF Adder
  <2>5. CASE q = p
    BY <1>9, <1>12, <2>2, <2>4, <2>5
  <2>6. CASE q # p
    <3>1. /\ u \subseteq s /\ u # s /\ p \in U \ u /\ q \in U \ u
          /\ v = u \cup {p} /\ t = u \cup {q}
      BY <1>6, <1>12, <1>13, <2>2, <2>3, <2>6
    <3>2. h[v] = h[u] + g[p] /\ h[t] = h[u] + g[q]
      BY <1>4, <3>1
    <3> QED BY <1>9, <2>4, <3>2
  <2> QED BY <2>5, <2>6
<1>16. h[t] \in Int
  BY <1>13 DEF Adder
<1> QED BY <1>8, <1>9, <1>10, <1>14, <1>15, <1>16

\* The sum of numbers exists.
LEMMA AdderExists ==
  ASSUME NEW U, IsFiniteSet(U), NEW g \in [U -> Int]
  PROVE  \E h : Adder(g, h, U)
<1>1. PICK m \in Nat : m = Cardinality(U)
  BY FS_CardinalityType
<1>2. PICK F : F = [SUBSET U -> Int]
  OBVIOUS
<1>3. PICK step : step = [n \in 1..m |-> [h \in F |-> [s \in SUBSET U |->
                    IF Cardinality(s) = n THEN g[Pick(s)] + h[s \ {Pick(s)}] ELSE h[s]]]]
  OBVIOUS
<1>4. PICK zero : zero = [s \in SUBSET U |-> 0]
  OBVIOUS
<1>5. zero \in F
  BY <1>2, <1>4
<1>6. \A s \in SUBSET U : /\ IsFiniteSet(s) /\ Cardinality(s) \in 0..m
                          /\ (Cardinality(s) = 0 <=> s = {})
                          /\ s # {} => /\ Pick(s) \in U
                                       /\ s \ {Pick(s)} \in SUBSET U
                                       /\ Cardinality(s \ {Pick(s)}) = Cardinality(s) - 1
  <2> TAKE s \in SUBSET U
  <2>1. IsFiniteSet(s) /\ Cardinality(s) <= m /\ Cardinality(s) \in Nat
    BY <1>1, FS_Subset, FS_CardinalityType
  <2>2. Cardinality(s) = 0 <=> s = {}
    BY <2>1, FS_EmptySet
  <2>3. ASSUME s # {}
        PROVE  /\ Pick(s) \in U
               /\ s \ {Pick(s)} \in SUBSET U
               /\ Cardinality(s \ {Pick(s)}) = Cardinality(s) - 1
    <3>1. Pick(s) \in s
      BY <2>3, PickIn
    <3>2. PICK p : p = Pick(s)
      OBVIOUS
    <3>3. Cardinality(s \ {p}) = Cardinality(s) - 1
      BY <2>1, <3>1, <3>2, FS_RemoveElement
    <3> QED BY <3>1, <3>2, <3>3
  <2> QED BY <1>1, <2>1, <2>2, <2>3
<1>7. step \in [1..m -> [F -> F]]
  <2>1. ASSUME NEW n \in 1..m, NEW h \in F
        PROVE  [s \in SUBSET U |->
                 IF Cardinality(s) = n THEN g[Pick(s)] + h[s \ {Pick(s)}] ELSE h[s]] \in F
    <3>1. ASSUME NEW s \in SUBSET U
          PROVE  (IF Cardinality(s) = n THEN g[Pick(s)] + h[s \ {Pick(s)}] ELSE h[s]) \in Int
      <4>1. h[s] \in Int
        BY <1>2
      <4>2. CASE Cardinality(s) = n
        <5>1. s # {}
          BY <1>6, <4>2
        <5>2. g[Pick(s)] \in Int /\ h[s \ {Pick(s)}] \in Int
          BY <1>2, <1>6, <5>1
        <5> QED BY <4>2, <5>2
      <4> QED BY <4>1, <4>2
    <3> QED BY <1>2, <3>1
  <2> QED BY <1>3, <2>1
<1>8. PICK f \in [0..m -> F] : Walks(f, m, zero, step)
  BY <1>5, <1>7, Stepwise
<1> DEFINE Right(i) == /\ f[i][{}] = 0
                       /\ \A s \in SUBSET U : s # {} /\ Cardinality(s) <= i =>
                            f[i][s] = g[Pick(s)] + f[i][s \ {Pick(s)}]
           In == {i \in 0..m : Right(i)}
<1>9. 0 \in In
  <2>1. f[0] = zero
    BY <1>8 DEF Walks
  <2>2. ASSUME NEW s \in SUBSET U, s # {}
        PROVE  ~(Cardinality(s) <= 0)
    <3>1. Cardinality(s) \in 0..m /\ Cardinality(s) # 0
      BY <1>6, <2>2
    <3> QED BY <3>1
  <2>3. zero[{}] = 0
    BY <1>4
  <2>4. Right(0)
    BY <2>1, <2>2, <2>3
  <2>5. 0 \in 0..m
    BY <1>1
  <2> QED BY <2>4, <2>5
<1>10. ASSUME NEW i \in 0..m - 1, i \in In
       PROVE  i + 1 \in In
  <2>1. PICK a, b : a = f[i] /\ b = f[i + 1]
    OBVIOUS
  <2>2. /\ i + 1 \in 1..m /\ (i + 1) - 1 = i
    OBVIOUS
  <2>3. a \in F /\ b = step[i + 1][a]
    BY <1>8, <2>1, <2>2 DEF Walks
  <2>4. b = [s \in SUBSET U |->
               IF Cardinality(s) = i + 1 THEN g[Pick(s)] + a[s \ {Pick(s)}] ELSE a[s]]
    BY <1>3, <2>2, <2>3
  <2>5. b[{}] = 0
    <3>1. Cardinality({}) # i + 1
      BY FS_EmptySet
    <3> QED BY <1>10, <2>1, <2>4, <3>1
  <2>6. ASSUME NEW s \in SUBSET U, s # {}, Cardinality(s) <= i + 1
        PROVE  b[s] = g[Pick(s)] + b[s \ {Pick(s)}]
    <3>1. PICK t : t = s \ {Pick(s)}
      OBVIOUS
    <3>2. t \in SUBSET U /\ Cardinality(t) = Cardinality(s) - 1 /\ Cardinality(s) \in Nat
      BY <1>6, <2>6, <3>1
    <3>3. b[t] = a[t]
      BY <2>4, <2>6, <3>2
    <3>4. b[s] = g[Pick(s)] + a[t]
      <4>1. CASE Cardinality(s) = i + 1
        BY <2>4, <3>1, <4>1
      <4>2. CASE Cardinality(s) # i + 1
        <5>1. Cardinality(s) <= i
          BY <2>6, <3>2, <4>2
        <5>2. a[s] = g[Pick(s)] + a[t]
          BY <1>10, <2>1, <2>6, <3>1, <5>1
        <5> QED BY <2>4, <4>2, <5>2
      <4> QED BY <4>1, <4>2
    <3> QED BY <3>1, <3>3, <3>4
  <2>7. Right(i + 1)
    BY <2>1, <2>5, <2>6
  <2>8. i + 1 \in 0..m
    BY <2>2
  <2> QED BY <2>7, <2>8
<1>11. m \in In
  <2> HIDE DEF In
  <2>1. \A i \in 0..m - 1 : i \in In => i + 1 \in In
    BY <1>10
  <2>2. \A i \in 0..m : i \in In
    BY <1>9, <2>1, UpTo
  <2> QED BY <2>2
<1>12. PICK h : h = f[m]
  OBVIOUS
<1>13. h \in [SUBSET U -> Int]
  <2>1. m \in 0..m
    BY <1>1
  <2>2. f[m] \in F
    BY <1>8, <2>1
  <2> QED BY <1>2, <1>12, <2>2
<1>14. /\ h[{}] = 0
       /\ \A s \in SUBSET U : s # {} /\ Cardinality(s) <= m =>
             h[s] = g[Pick(s)] + h[s \ {Pick(s)}]
  BY <1>11, <1>12
<1>15. ASSUME NEW s \in SUBSET U
       PROVE  Cardinality(s) <= m
  <2>1. Cardinality(s) \in 0..m
    BY <1>6
  <2> QED BY <1>1, <2>1
<1> QED BY <1>13, <1>14, <1>15 DEF Adder


\* it solves the equations by which MapThenSumSet takes a sum over S.
Solves(it, g, S) ==
  it = [s \in SUBSET S |-> IF s = {} THEN 0 ELSE g[Pick(s)] + it[s \ {Pick(s)}]]

\* They have a solution, and it is what an adder says.
LEMMA SumSolved ==
  ASSUME NEW U, IsFiniteSet(U), NEW g \in [U -> Int], NEW h, Adder(g, h, U),
         NEW S \in SUBSET U
  PROVE  /\ \E it : Solves(it, g, S)
         /\ \A it : Solves(it, g, S) => it[S] = h[S]
<1>1. PICK k : k = [s \in SUBSET S |-> h[s]]
  OBVIOUS
<1>2. Solves(k, g, S)
  <2>1. ASSUME NEW s \in SUBSET S
        PROVE  h[s] = IF s = {} THEN 0 ELSE g[Pick(s)] + k[s \ {Pick(s)}]
    <3>1. CASE s = {}
      BY <3>1 DEF Adder
    <3>2. CASE s # {}
      <4>1. s \ {Pick(s)} \in SUBSET S /\ s \in SUBSET U
        OBVIOUS
      <4> QED BY <1>1, <3>2, <4>1 DEF Adder
    <3> QED BY <3>1, <3>2
  <2> QED BY <1>1, <2>1 DEF Solves
<1>3. ASSUME NEW it, Solves(it, g, S)
      PROVE  it[S] = h[S]
  <2>1. \A s \in SUBSET S : it[s] = IF s = {} THEN 0 ELSE g[Pick(s)] + it[s \ {Pick(s)}]
    BY <1>3 DEF Solves
  <2> DEFINE Bad == {s \in SUBSET S : it[s] # h[s]}
  <2>2. SUFFICES ASSUME Bad # {} PROVE FALSE
    OBVIOUS
  <2>3. IsFiniteSet(S)
    BY FS_Subset
  <2>4. PICK s \in Bad : \A t \in Bad : t \subseteq s => t = s
    <3>1. Bad \in SUBSET SUBSET S
      OBVIOUS
    <3> HIDE DEF Bad
    <3> QED BY <2>2, <2>3, <3>1, LeastSubset
  <2>5. s \in SUBSET S /\ s \in SUBSET U /\ it[s] # h[s]
    BY <2>4
  <2>6. s # {}
    BY <2>1, <2>5 DEF Adder
  <2>7. PICK t : t = s \ {Pick(s)}
    OBVIOUS
  <2>8. t \subseteq s /\ t # s /\ t \in SUBSET S
    BY <2>5, <2>6, <2>7, PickIn
  <2>9. it[t] = h[t]
    BY <2>4, <2>8
  <2>10. it[s] = g[Pick(s)] + it[t] /\ h[s] = g[Pick(s)] + h[t]
    BY <2>1, <2>5, <2>6, <2>7 DEF Adder
  <2> QED BY <2>5, <2>9, <2>10
<1> QED BY <1>2, <1>3

\* The sum over two sets with nothing in common.
LEMMA SumSplit ==
  ASSUME NEW U, IsFiniteSet(U), NEW g \in [U -> Int], NEW h, Adder(g, h, U),
         NEW S \in SUBSET U, NEW T \in SUBSET U, S \cap T = {}
  PROVE  h[S \cup T] = h[S] + h[T]
<1> DEFINE Bad == {t \in SUBSET T : h[S \cup t] # h[S] + h[t]}
<1>1. SUFFICES ASSUME Bad # {} PROVE FALSE
  OBVIOUS
<1>2. PICK t \in Bad : \A r \in Bad : r \subseteq t => r = t
  <2>1. Bad \in SUBSET SUBSET U
    OBVIOUS
  <2> HIDE DEF Bad
  <2> QED BY <1>1, <2>1, LeastSubset
<1>3. t \in SUBSET T /\ h[S \cup t] # h[S] + h[t]
  BY <1>2
<1>4. t # {}
  <2>1. h[S] \in Int /\ h[{}] = 0
    BY DEF Adder
  <2>2. SUFFICES ASSUME t = {} PROVE FALSE
    OBVIOUS
  <2>3. PICK v : v = S \cup t
    OBVIOUS
  <2>4. v = S /\ h[t] = 0
    BY <2>1, <2>2, <2>3
  <2>5. h[v] # h[S] + h[t]
    BY <1>3, <2>3
  <2> QED BY <2>1, <2>4, <2>5
<1>5. PICK x \in t : TRUE
  BY <1>4
<1>6. PICK r : r = t \ {x}
  OBVIOUS
<1>7. /\ r \in SUBSET T /\ r \in SUBSET U /\ r \subseteq t /\ r # t /\ t = r \cup {x}
      /\ x \in U \ r /\ x \in U \ (S \cup r) /\ S \cup r \in SUBSET U
      /\ S \cup t = (S \cup r) \cup {x}
  BY <1>3, <1>5, <1>6
<1>8. h[S \cup r] = h[S] + h[r]
  BY <1>2, <1>7
<1>9. h[S \cup t] = h[S \cup r] + g[x]
  <2>1. PICK v : v = S \cup r
    OBVIOUS
  <2>2. h[v \cup {x}] = h[v] + g[x]
    BY <1>7, <2>1, AdderAdds, SMTT(30)
  <2> QED BY <1>7, <2>1, <2>2
<1>10. h[t] = h[r] + g[x]
  BY <1>7, AdderAdds
<1>11. h[S] \in Int /\ h[r] \in Int /\ g[x] \in Int
  BY <1>7 DEF Adder
<1> QED BY <1>3, <1>8, <1>9, <1>10, <1>11

\* A sum of naturals is natural, and grows with its set.
LEMMA SumGrows ==
  ASSUME NEW U, IsFiniteSet(U), NEW g \in [U -> Nat], NEW h, Adder(g, h, U),
         NEW T \in SUBSET U, NEW S \in SUBSET T
  PROVE  h[S] \in Nat /\ h[T] \in Nat /\ h[S] <= h[T]
<1>1. ASSUME NEW V \in SUBSET U
      PROVE  h[V] \in Nat
  <2> DEFINE Bad == {t \in SUBSET V : h[t] \notin Nat}
  <2>1. SUFFICES ASSUME Bad # {} PROVE FALSE
    OBVIOUS
  <2>2. PICK t \in Bad : \A r \in Bad : r \subseteq t => r = t
    <3>1. Bad \in SUBSET SUBSET U
      OBVIOUS
    <3> HIDE DEF Bad
    <3> QED BY <2>1, <3>1, LeastSubset
  <2>3. t \in SUBSET U /\ t \in SUBSET V /\ t # {}
    <3>1. t \in SUBSET V /\ h[t] \notin Nat
      BY <2>2
    <3>2. h[{}] = 0
      BY DEF Adder
    <3>3. t # {}
      BY <3>1, <3>2
    <3> QED BY <3>1, <3>3
  <2>4. PICK r : r = t \ {Pick(t)}
    OBVIOUS
  <2>5. r \subseteq t /\ r # t /\ r \in SUBSET V /\ Pick(t) \in U
    BY <2>3, <2>4, PickIn
  <2>6. h[r] \in Nat
    BY <2>2, <2>5
  <2>7. h[t] = g[Pick(t)] + h[r]
    BY <2>3, <2>4 DEF Adder
  <2>8. h[t] \in Nat
    BY <2>5, <2>6, <2>7
  <2> QED BY <2>2, <2>8
<1>2. T \ S \in SUBSET U /\ S \in SUBSET U /\ S \cup (T \ S) = T /\ S \cap (T \ S) = {}
  OBVIOUS
<1>3. PICK r : r = T \ S
  OBVIOUS
<1>4. h[S \cup r] = h[S] + h[r]
  <2>1. g \in [U -> Int]
    OBVIOUS
  <2>2. r \in SUBSET U /\ S \in SUBSET U /\ S \cap r = {}
    BY <1>2, <1>3
  <2> QED BY <2>1, <2>2, SumSplit
<1>5. h[T] = h[S] + h[r] /\ h[S] \in Nat /\ h[r] \in Nat /\ h[T] \in Nat
  BY <1>1, <1>2, <1>3, <1>4
<1> QED BY <1>5

\* Max of a finite set of integers is one of them and the greatest.
LEMMA MaxInt ==
  ASSUME NEW S, IsFiniteSet(S), S # {}, \A x \in S : x \in Int
  PROVE  Max(S) \in S /\ \A m \in S : m <= Max(S)
<1> DEFINE Topped(s) == \E x \in s : \A y \in s : y <= x
           Bad == {s \in SUBSET S : s # {} /\ ~Topped(s)}
<1>1. Bad = {}
  <2>1. SUFFICES ASSUME Bad # {} PROVE FALSE
    OBVIOUS
  <2>2. PICK s \in Bad : \A t \in Bad : t \subseteq s => t = s
    <3>1. Bad \in SUBSET SUBSET S /\ Bad # {}
      BY <2>1
    <3>2. PICK B : B = Bad
      OBVIOUS
    <3> HIDE DEF Bad
    <3>3. B \in SUBSET SUBSET S /\ B # {} /\ IsFiniteSet(S)
      BY <3>1, <3>2
    <3>4. \E b \in B : \A t \in B : t \subseteq b => t = b
      BY <3>3, LeastSubset
    <3> QED BY <3>2, <3>4
  <2>3. PICK x \in s : TRUE
    BY <2>2
  <2>4. PICK t : t = s \ {x}
    OBVIOUS
  <2>5. t \in SUBSET S /\ t \subseteq s /\ t # s
    BY <2>2, <2>3, <2>4
  <2>6. t = {} \/ Topped(t)
    BY <2>2, <2>5
  <2>7. CASE t = {}
    BY <2>2, <2>3, <2>4, <2>7
  <2>8. CASE Topped(t)
    <3>1. PICK z \in t : \A y \in t : y <= z
      BY <2>8
    <3>2. z \in Int /\ x \in Int /\ z \in s
      BY <2>2, <2>3, <2>5, <3>1
    <3>3. CASE x <= z
      BY <2>2, <2>4, <3>1, <3>2, <3>3
    <3>4. CASE ~(x <= z)
      <4>1. \A y \in s : y <= x
        <5> TAKE y \in s
        <5>1. y \in Int
          BY <2>2
        <5>2. y = x \/ y \in t
          BY <2>4
        <5> QED BY <3>1, <3>2, <3>4, <5>1, <5>2
      <4> QED BY <2>2, <2>3, <4>1
    <3> QED BY <3>3, <3>4
  <2> QED BY <2>6, <2>7, <2>8
<1>2. Topped(S)
  BY <1>1
<1> QED BY <1>2 DEF Max


\* The values of a function on a finite set are finitely many.
LEMMA FiniteValues ==
  ASSUME NEW S, IsFiniteSet(S), NEW f, DOMAIN f = S, f = [x \in S |-> f[x]]
  PROVE  IsFiniteSet({f[x] : x \in S})
<1> DEFINE T == {f[x] : x \in S}
<1>1. f \in [S -> T]
  OBVIOUS
<1>2. \A t \in T : \E s \in S : f[s] = t
  OBVIOUS
<1>3. f \in Surjection(S, T)
  BY <1>1, <1>2 DEF Surjection
<1> QED BY <1>3, FS_Surjection

\* The largest of finitely many integers and zero stays below a bound that each
\* of them stays below.
LEMMA LargestBelow ==
  ASSUME NEW S, IsFiniteSet(S), NEW f \in [S -> Int], NEW top \in Nat,
         \A x \in S : f[x] <= top
  PROVE  Max({0} \cup {f[x] : x \in S}) \in Int /\ Max({0} \cup {f[x] : x \in S}) <= top
<1> DEFINE V == {f[x] : x \in S}
           T == {0} \cup V
<1>1. IsFiniteSet(V)
  <2>1. DOMAIN f = S /\ f = [x \in S |-> f[x]]
    OBVIOUS
  <2> QED BY <2>1, FiniteValues
<1>2. V \cup {0} = T
  OBVIOUS
<1>3. PICK W : W = V
  OBVIOUS
<1>4. IsFiniteSet(W \cup {0})
  BY <1>1, <1>3, FS_AddElement
<1>5. PICK X : X = T
  OBVIOUS
<1>6. IsFiniteSet(X) /\ X # {} /\ \A x \in X : x \in Int /\ x <= top
  BY <1>2, <1>3, <1>4, <1>5
<1>7. Max(X) \in X
  BY <1>6, MaxInt
<1> QED BY <1>5, <1>6, <1>7

=============================================================================
