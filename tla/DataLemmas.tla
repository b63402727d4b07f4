----------------------------- MODULE DataLemmas -----------------------------
(***************************************************************************)
(* Facts about numbers and finite sets that the proofs of several modules  *)
(* need: induction, stated with a set in place of a predicate, quotients,  *)
(* powers, and sums of functions over finite sets.                         *)
(***************************************************************************)
EXTENDS Integers, Functions, FiniteSetTheorems, TLAPS

LEMMA LessIsWellFounded ==
  \E R : IsWellFoundedOn(R, Nat) /\ \A y, x \in Nat : y < x => <<y, x>> \in R
<1>1. \A y, x \in Nat : y < x => <<y, x>> \in OpToRel(<, Nat)
  BY DEF OpToRel
<1> QED BY <1>1, NatLessThanWellFounded

\* A set of numbers that is not empty has a least element.
LEMMA LeastNumber ==
  ASSUME NEW T, T \subseteq Nat, T # {}
  PROVE  \E m \in T : \A k \in T : m =< k
<1>1. PICK R : IsWellFoundedOn(R, Nat) /\ \A y, x \in Nat : y < x => <<y, x>> \in R
  BY LessIsWellFounded
<1>2. \E x \in T : \A y \in T : ~ (<<y, x>> \in R)
  <2>1. IsWellFoundedOn(R, Nat)
    BY <1>1
  <2> QED BY <2>1, WFMin
<1>3. \A x, y \in T : ~ (<<y, x>> \in R) => x =< y
  BY <1>1
<1> QED BY <1>2, <1>3

\* Induction on the natural numbers.
LEMMA NumberInduction ==
  ASSUME NEW T, 0 \in T, \A n \in Nat : n \in T => n + 1 \in T
  PROVE  Nat \subseteq T
<1> DEFINE Bad == Nat \ T
<1>1. ASSUME Bad # {} PROVE FALSE
  <2>1. PICK m \in Bad : \A k \in Bad : m =< k
    BY <1>1, LeastNumber
  <2>2. m \in Nat /\ m # 0 /\ m \notin T
    BY <2>1
  <2>3. m - 1 \in Nat /\ ~(m =< m - 1) /\ (m - 1) + 1 = m
    BY <2>2
  <2>4. m - 1 \in T
    BY <2>1, <2>3
  <2> QED BY <2>2, <2>3, <2>4
<1> QED BY <1>1

\* Induction on the size of the subsets of a finite set.
LEMMA SizeInduction ==
  ASSUME NEW S, IsFiniteSet(S), NEW T,
         \A D \in SUBSET S :
           (\A E \in SUBSET S : Cardinality(E) < Cardinality(D) => E \in T) => D \in T
  PROVE  S \in T
<1> DEFINE U == {n \in Nat : \A D \in SUBSET S : Cardinality(D) < n => D \in T}
<1>1. \A D \in SUBSET S : IsFiniteSet(D) /\ Cardinality(D) \in Nat
  BY FS_Subset, FS_CardinalityType
<1>2. 0 \in U
  BY <1>1
<1>3. ASSUME NEW n \in Nat, n \in U PROVE n + 1 \in U
  <2> SUFFICES ASSUME NEW D \in SUBSET S, Cardinality(D) < n + 1 PROVE D \in T
    OBVIOUS
  <2>1. ASSUME NEW E \in SUBSET S, Cardinality(E) < Cardinality(D) PROVE E \in T
    <3>1. Cardinality(E) < n
      BY <1>1, <2>1
    <3> QED BY <1>3, <3>1
  <2> QED BY <2>1
<1> HIDE DEF U
<1>4. Nat \subseteq U
  BY <1>2, <1>3, NumberInduction
<1>5. Cardinality(S) + 1 \in U /\ Cardinality(S) \in Nat
  BY <1>1, <1>4
<1>6. Cardinality(S) < Cardinality(S) + 1
  BY <1>5
<1> QED BY <1>5, <1>6 DEF U

\* A subset without one of its elements is smaller.
LEMMA SmallerWithout ==
  ASSUME NEW S, IsFiniteSet(S), NEW x \in S
  PROVE  /\ IsFiniteSet(S \ {x}) /\ Cardinality(S) \in Nat
         /\ Cardinality(S \ {x}) = Cardinality(S) - 1
         /\ Cardinality(S \ {x}) < Cardinality(S)
<1>1. IsFiniteSet(S \ {x}) /\ Cardinality(S \ {x}) = Cardinality(S) - 1
  BY FS_RemoveElement
<1>2. Cardinality(S) \in Nat
  BY FS_CardinalityType
<1> QED BY <1>1, <1>2

-----------------------------------------------------------------------------
(* Quotients and digits.                                                   *)

LEMMA Division ==
  ASSUME NEW a \in Nat, NEW r \in Nat, r > 0
  PROVE  a = r * (a \div r) + (a % r) /\ a % r \in 0 .. r - 1 /\ a \div r \in Nat
<1>1. a % r \in 0 .. r - 1
  OBVIOUS
<1>2. a = r * (a \div r) + (a % r)
  OBVIOUS
<1>3. a \div r \in Int /\ a \div r >= 0
  <2>1. a \div r \in Int
    OBVIOUS
  <2>2. a \div r >= 0
    OBVIOUS
  <2> QED BY <2>1, <2>2
<1> QED BY <1>1, <1>2, <1>3

LEMMA DivisionIsUnique ==
  ASSUME NEW r \in Nat, r > 0, NEW q \in Nat, NEW a \in 0 .. r - 1
  PROVE  (r * q + a) \div r = q /\ (r * q + a) % r = a
OBVIOUS

LEMMA TwoDigits ==
  ASSUME NEW r \in Nat, r > 0, NEW w \in Nat, w > 0, NEW a \in 0 .. r - 1, NEW b \in 0 .. w - 1
  PROVE  w * a + b \in 0 .. r * w - 1 /\ r * w \in Nat /\ r * w > 0
<1>1. w * a =< w * (r - 1)
  OBVIOUS
<1>2. w * (r - 1) = r * w - w
  OBVIOUS
<1>3. w * a \in Nat
  OBVIOUS
<1>4. r * w \in Nat /\ r * w > 0
  OBVIOUS
<1> QED BY <1>1, <1>2, <1>3, <1>4

LEMMA Regrouped ==
  ASSUME NEW r \in Nat, NEW w \in Nat, NEW q \in Nat, NEW a \in Nat
  PROVE  w * (r * q + a) = (r * w) * q + w * a
OBVIOUS

\* One more digit of n, of weight w.
LEMMA NextDigit ==
  ASSUME NEW w \in Nat, w > 0, NEW r \in Nat, r > 0, NEW n \in Nat
  PROVE  n % (r * w) = (n % w) + ((n \div w) % r) * w
<1> DEFINE q == n \div w  a == n % w  e == q \div r  b == q % r
<1>1. n = w * q + a /\ a \in 0 .. w - 1 /\ q \in Nat
  BY Division
<1>2. q = r * e + b /\ b \in 0 .. r - 1 /\ e \in Nat
  BY <1>1, Division
<1> HIDE DEF q, a, e, b
<1>3. w * b + a \in 0 .. r * w - 1 /\ r * w \in Nat /\ r * w > 0
  BY <1>1, <1>2, TwoDigits
<1>4. w * q = (r * w) * e + w * b
  BY <1>2, Regrouped
<1>5. w * b \in Int /\ (r * w) * e \in Int
  BY <1>2, <1>3
<1>6. n = (r * w) * e + (w * b + a)
  BY <1>1, <1>4, <1>5
<1>7. n % (r * w) = w * b + a
  BY <1>2, <1>3, <1>6, DivisionIsUnique
<1>8. b * w = w * b
  BY <1>2
<1>9. n % (r * w) = a + b * w
  BY <1>1, <1>5, <1>7, <1>8
<1> QED BY <1>9 DEF a, b, q

LEMMA QuotientGrows ==
  ASSUME NEW a \in Nat, NEW b \in Nat, a =< b, NEW r \in Nat, r > 0
  PROVE  a \div r =< b \div r
OBVIOUS

LEMMA QuotientOfProduct == ASSUME NEW a \in Nat, NEW r \in Nat, r > 0 PROVE (a * r) \div r = a
OBVIOUS

LEMMA ProductGrows ==
  ASSUME NEW a \in Nat, NEW j \in Nat, NEW k \in Nat, j =< k
  PROVE  a * j \in Nat /\ a * k \in Nat /\ a * j =< a * k
OBVIOUS

LEMMA Shuffled ==
  ASSUME NEW r \in Nat, NEW a \in Nat, NEW b \in Nat
  PROVE  r * (a * b) = a * (r * b)
OBVIOUS

LEMMA QuotientBelow ==
  ASSUME NEW p \in Nat, NEW w \in Nat, w > 0, NEW c \in Nat, p < w * c
  PROVE  p \div w \in 0 .. c - 1
<1> DEFINE q == p \div w
<1>1. p = w * q + (p % w) /\ p % w >= 0 /\ p % w \in Int /\ q \in Nat
  BY Division
<1> HIDE DEF q
<1>2. ASSUME q >= c PROVE FALSE
  <2>1. w * c =< w * q
    BY <1>1, <1>2, ProductGrows
  <2>2. w * c \in Int /\ w * q \in Int
    BY <1>1
  <2> QED BY <1>1, <2>1, <2>2
<1>3. q \in 0 .. c - 1
  BY <1>1, <1>2
<1> QED BY <1>3 DEF q

-----------------------------------------------------------------------------
(* Powers of a number, as a recursive function tabulates them.             *)

ArePowers(g, r, n) == g = [i \in 0 .. n |-> IF i = 0 THEN 1 ELSE r * g[i - 1]]

LEMMA PowersExist ==
  ASSUME NEW r, NEW m \in Nat
  PROVE  \E g : ArePowers(g, r, m)
<1> DEFINE T == {n \in Nat : \E g : ArePowers(g, r, n)}
<1>1. 0 \in T
  <2> DEFINE z == [i \in 0 .. 0 |-> 1]
  <2>1. ArePowers(z, r, 0)
    BY DEF ArePowers
  <2> QED BY <2>1
<1>2. ASSUME NEW n \in Nat, n \in T PROVE n + 1 \in T
  <2>1. PICK g : ArePowers(g, r, n)
    BY <1>2
  <2> DEFINE h == [i \in 0 .. n + 1 |-> IF i = 0 THEN 1 ELSE r * g[i - 1]]
  <2>2. ASSUME NEW i \in 0 .. n + 1, i # 0 PROVE h[i - 1] = g[i - 1]
    <3>1. i - 1 \in 0 .. n /\ i - 1 \in 0 .. n + 1
      BY <2>2
    <3> HIDE DEF h
    <3>2. g[i - 1] = IF i - 1 = 0 THEN 1 ELSE r * g[(i - 1) - 1]
      BY <2>1, <3>1 DEF ArePowers
    <3>3. h[i - 1] = IF i - 1 = 0 THEN 1 ELSE r * g[(i - 1) - 1]
      BY <3>1 DEF h
    <3> QED BY <3>2, <3>3
  <2>3. ArePowers(h, r, n + 1)
    BY <2>2 DEF ArePowers
  <2> HIDE DEF h
  <2>4. n + 1 \in Nat /\ \E k : ArePowers(k, r, n + 1)
    BY <2>3
  <2> QED BY <2>4, Zenon
<1> HIDE DEF T
<1>3. m \in T
  BY <1>1, <1>2, NumberInduction
<1> QED BY <1>3, Zenon DEF T

LEMMA PowerSteps ==
  ASSUME NEW g, NEW r, NEW n \in Nat, ArePowers(g, r, n)
  PROVE  g[0] = 1 /\ \A i \in 0 .. n - 1 : g[i + 1] = r * g[i]
<1>1. g[0] = 1
  BY DEF ArePowers
<1>2. ASSUME NEW i \in 0 .. n - 1 PROVE g[i + 1] = r * g[i]
  <2>1. i + 1 \in 0 .. n /\ i + 1 # 0 /\ (i + 1) - 1 = i
    OBVIOUS
  <2>2. g[i + 1] = r * g[(i + 1) - 1]
    BY <2>1 DEF ArePowers
  <2> QED BY <2>1, <2>2
<1> QED BY <1>1, <1>2

LEMMA PowerType ==
  ASSUME NEW g, NEW r \in Nat, r > 0, NEW n \in Nat, ArePowers(g, r, n)
  PROVE  \A i \in 0 .. n : g[i] \in Nat /\ g[i] > 0
<1> DEFINE T == {i \in Nat : i =< n => g[i] \in Nat /\ g[i] > 0}
<1>1. 0 \in T
  BY PowerSteps
<1>2. ASSUME NEW i \in Nat, i \in T PROVE i + 1 \in T
  <2> SUFFICES ASSUME i + 1 =< n PROVE g[i + 1] \in Nat /\ g[i + 1] > 0
    OBVIOUS
  <2>1. i \in 0 .. n - 1 /\ i =< n
    OBVIOUS
  <2>2. g[i + 1] = r * g[i] /\ g[i] \in Nat /\ g[i] > 0
    BY <1>2, <2>1, PowerSteps
  <2> QED BY <2>2
<1> HIDE DEF T
<1>3. Nat \subseteq T
  BY <1>1, <1>2, NumberInduction
<1>4. \A i \in 0 .. n : i \in T /\ i =< n
  BY <1>3
<1> QED BY <1>4 DEF T

LEMMA PowersMultiply ==
  ASSUME NEW g, NEW r \in Nat, r > 0, NEW n \in Nat, ArePowers(g, r, n), NEW a \in 0 .. n
  PROVE  \A b \in 0 .. n - a : g[a + b] = g[a] * g[b]
<1> DEFINE T == {b \in Nat : a + b =< n => g[a + b] = g[a] * g[b]}
<1>1. \A i \in 0 .. n : g[i] \in Nat
  BY PowerType
<1>2. 0 \in T
  <2>1. g[0] = 1 /\ a + 0 = a /\ g[a] \in Nat
    BY <1>1, PowerSteps
  <2> QED BY <2>1
<1>3. ASSUME NEW b \in Nat, b \in T PROVE b + 1 \in T
  <2> SUFFICES ASSUME a + (b + 1) =< n PROVE g[a + (b + 1)] = g[a] * g[b + 1]
    OBVIOUS
  <2>1. /\ a + b \in 0 .. n - 1 /\ b \in 0 .. n - 1 /\ (a + b) + 1 = a + (b + 1)
        /\ a + b =< n /\ b \in 0 .. n
    OBVIOUS
  <2>2. g[(a + b) + 1] = r * g[a + b] /\ g[b + 1] = r * g[b]
    BY <2>1, PowerSteps
  <2>3. g[a + b] = g[a] * g[b]
    BY <1>3, <2>1
  <2>4. g[a] \in Nat /\ g[b] \in Nat
    BY <1>1, <2>1
  <2>5. r * (g[a] * g[b]) = g[a] * (r * g[b])
    BY <2>4, Shuffled
  <2> QED BY <2>1, <2>2, <2>3, <2>5
<1> HIDE DEF T
<1>4. Nat \subseteq T
  BY <1>2, <1>3, NumberInduction
<1>5. \A b \in 0 .. n - a : b \in T /\ a + b =< n
  BY <1>4
<1> QED BY <1>5 DEF T

\* The b high digits of a number of n digits.
LEMMA HighDigits ==
  ASSUME NEW g, NEW r \in Nat, r > 0, NEW n \in Nat, ArePowers(g, r, n),
         NEW p \in 0 .. g[n] - 1, NEW b \in 0 .. n
  PROVE  p \div g[n - b] \in 0 .. g[b] - 1
<1>1. n - b \in 0 .. n /\ b \in 0 .. n - (n - b) /\ (n - b) + b = n /\ n \in 0 .. n
  OBVIOUS
<1>2. /\ g[n - b] \in Nat /\ g[n - b] > 0 /\ g[b] \in Nat /\ g[b] > 0 /\ g[n] \in Nat
  BY <1>1, PowerType
<1>3. g[n] = g[n - b] * g[b]
  <2>1. g[(n - b) + b] = g[n - b] * g[b]
    BY <1>1, PowersMultiply
  <2> QED BY <1>1, <2>1
<1>4. p \in Nat /\ p < g[n - b] * g[b]
  BY <1>2, <1>3
<1> QED BY <1>2, <1>4, QuotientBelow

-----------------------------------------------------------------------------
(* Sums.                                                                   *)

\* g adds up f on the subsets of S, as a fold does.
Adds(f, S, g) ==
  g = [s \in SUBSET S |-> IF s = {} THEN 0
                          ELSE LET x == CHOOSE y \in s : TRUE IN f[x] + g[s \ {x}]]

\* The fold behind a sum is such a function if there is one.
LEMMA SumIsFold ==
  ASSUME NEW f, NEW S, \E g : Adds(f, S, g)
  PROVE  \E g : Adds(f, S, g) /\ SumFunctionOnSet(f, S) = g[S]
BY Zenon DEF SumFunctionOnSet, FoldFunctionOnSet, MapThenFoldSet, Adds

\* There is one for every finite set.
LEMMA FoldExists ==
  ASSUME NEW f, NEW S, IsFiniteSet(S)
  PROVE  \E g : Adds(f, S, g)
<1> DEFINE Small(n) == {s \in SUBSET S : Cardinality(s) < n}
           Step(g, s) == IF s = {} THEN 0
                         ELSE LET x == CHOOSE y \in s : TRUE IN f[x] + g[s \ {x}]
           T == {n \in Nat : \E g : g = [s \in Small(n) |-> Step(g, s)]}
<1>1. \A s \in SUBSET S : IsFiniteSet(s) /\ Cardinality(s) \in Nat
  BY FS_Subset, FS_CardinalityType
<1>2. 0 \in T
  <2>1. Small(0) = {}
    BY <1>1
  <2>2. \A g : [s \in Small(0) |-> Step(g, s)] = [s \in {} |-> 0]
    BY <2>1
  <2> DEFINE z == [s \in {} |-> 0]
  <2>3. z = [s \in Small(0) |-> Step(z, s)]
    BY <2>2
  <2> QED BY <2>3
<1>3. ASSUME NEW n \in Nat, n \in T PROVE n + 1 \in T
  <2>1. PICK g : g = [s \in Small(n) |-> Step(g, s)]
    BY <1>3
  <2> DEFINE h == [s \in Small(n + 1) |-> Step(g, s)]
  <2>2. ASSUME NEW s \in Small(n + 1), s # {}, NEW x \in s
        PROVE  s \ {x} \in Small(n) /\ s \ {x} \in Small(n + 1)
    <3>1. Cardinality(s \ {x}) < Cardinality(s) /\ Cardinality(s) < n + 1
      BY <1>1, <2>2, SmallerWithout
    <3>2. Cardinality(s \ {x}) \in Nat /\ Cardinality(s) \in Nat
      BY <1>1
    <3>3. Cardinality(s \ {x}) < n /\ Cardinality(s \ {x}) < n + 1
      BY <3>1, <3>2
    <3> QED BY <3>3
  <2>3. ASSUME NEW t \in Small(n), t \in Small(n + 1) PROVE h[t] = g[t]
    <3>1. g[t] = Step(g, t)
      BY <2>1
    <3>2. h[t] = Step(g, t)
      BY <2>3
    <3> QED BY <3>1, <3>2
  <2>4. ASSUME NEW s \in Small(n + 1) PROVE Step(g, s) = Step(h, s)
    <3>1. CASE s = {}
      BY <3>1
    <3>2. CASE s # {}
      <4> DEFINE x == CHOOSE y \in s : TRUE
      <4>1. x \in s
        BY <3>2
      <4>2. h[s \ {x}] = g[s \ {x}]
        BY <2>2, <2>3, <3>2, <4>1
      <4> QED BY <3>2, <4>2
    <3> QED BY <3>1, <3>2
  <2>5. h = [s \in Small(n + 1) |-> Step(h, s)]
    BY <2>4
  <2> HIDE DEF h, Step, Small
  <2>6. \E k : k = [s \in Small(n + 1) |-> Step(k, s)]
    BY <2>5
  <2>7. n + 1 \in Nat
    OBVIOUS
  <2> QED BY <2>6, <2>7, Zenon
<1> HIDE DEF T
<1>4. Cardinality(S) + 1 \in T
  BY <1>1, <1>2, <1>3, NumberInduction
<1>5. Small(Cardinality(S) + 1) = SUBSET S
  <2> SUFFICES ASSUME NEW s \in SUBSET S PROVE Cardinality(s) < Cardinality(S) + 1
    OBVIOUS
  <2>1. Cardinality(s) =< Cardinality(S)
    BY FS_Subset
  <2> QED BY <2>1, <1>1
<1>6. PICK g : g = [s \in Small(Cardinality(S) + 1) |-> Step(g, s)]
  BY <1>4, Zenon DEF T
<1> HIDE DEF Small
<1>7. g = [s \in SUBSET S |-> Step(g, s)]
  BY <1>5, <1>6, Zenon
<1> QED BY <1>7, Zenon DEF Adds

-----------------------------------------------------------------------------
\* What the fold adds up for the subset D does not depend on the set around it.
LEMMA FoldsAgree ==
  ASSUME NEW f, NEW S, NEW D \in SUBSET S, IsFiniteSet(D),
         NEW g, Adds(f, S, g), NEW h, Adds(f, D, h)
  PROVE  g[D] = h[D]
<1> DEFINE T == {s \in SUBSET D : g[s] = h[s]}
           Step(k, s) == IF s = {} THEN 0
                         ELSE LET x == CHOOSE y \in s : TRUE IN f[x] + k[s \ {x}]
<1>1. \A s \in SUBSET D : g[s] = Step(g, s) /\ h[s] = Step(h, s)
  BY DEF Adds
<1>2. ASSUME NEW s \in SUBSET D,
             \A E \in SUBSET D : Cardinality(E) < Cardinality(s) => E \in T
      PROVE  s \in T
  <2>1. CASE s = {}
    BY <1>1, <2>1
  <2>2. CASE s # {}
    <3> DEFINE x == CHOOSE y \in s : TRUE
    <3>1. x \in s /\ s \ {x} \in SUBSET D
      BY <2>2
    <3> HIDE DEF x
    <3>2. Cardinality(s \ {x}) < Cardinality(s)
      BY <3>1, SmallerWithout, FS_Subset
    <3>3. g[s \ {x}] = h[s \ {x}]
      BY <1>2, <3>1, <3>2
    <3>4. g[s] = f[x] + g[s \ {x}] /\ h[s] = f[x] + h[s \ {x}]
      BY <1>1, <2>2 DEF x
    <3> QED BY <3>3, <3>4
  <2> QED BY <2>1, <2>2
<1> HIDE DEF T
<1>3. D \in T
  BY <1>2, SizeInduction
<1> QED BY <1>3 DEF T

\* The sum over the empty set is 0.
LEMMA SumOfNone == \A f : SumFunctionOnSet(f, {}) = 0
<1> SUFFICES ASSUME NEW f PROVE SumFunctionOnSet(f, {}) = 0
  OBVIOUS
<1>1. PICK g : Adds(f, {}, g) /\ SumFunctionOnSet(f, {}) = g[{}]
  BY FoldExists, SumIsFold, FS_EmptySet
<1>2. g[{}] = 0
  BY <1>1 DEF Adds
<1> QED BY <1>1, <1>2

\* The sum over any other takes one element out.
LEMMA SumTakesOne ==
  ASSUME NEW f, NEW S, IsFiniteSet(S), S # {}
  PROVE  LET x == CHOOSE y \in S : TRUE
         IN  SumFunctionOnSet(f, S) = f[x] + SumFunctionOnSet(f, S \ {x})
<1> DEFINE x == CHOOSE y \in S : TRUE
<1>1. PICK g : Adds(f, S, g) /\ SumFunctionOnSet(f, S) = g[S]
  BY FoldExists, SumIsFold
<1>2. x \in S
  OBVIOUS
<1>3. g[S] = f[x] + g[S \ {x}]
  BY <1>1 DEF Adds
<1> HIDE DEF x
<1>4. IsFiniteSet(S \ {x})
  BY <1>2, SmallerWithout
<1>5. PICK h : Adds(f, S \ {x}, h) /\ SumFunctionOnSet(f, S \ {x}) = h[S \ {x}]
  BY <1>4, FoldExists, SumIsFold
<1>6. S \ {x} \in SUBSET S
  OBVIOUS
<1>7. g[S \ {x}] = h[S \ {x}]
  BY <1>1, <1>4, <1>5, <1>6, FoldsAgree
<1>8. SumFunctionOnSet(f, S) = f[x] + SumFunctionOnSet(f, S \ {x})
  BY <1>1, <1>3, <1>5, <1>7
<1> QED BY <1>8 DEF x

\* A sum of integers is an integer, and of natural numbers a natural number.
LEMMA SumType ==
  ASSUME NEW S, IsFiniteSet(S), NEW N, N = Int \/ N = Nat, NEW f, \A y \in S : f[y] \in N
  PROVE  SumFunctionOnSet(f, S) \in N
<1> DEFINE T == {D \in SUBSET S : SumFunctionOnSet(f, D) \in N}
<1>1. ASSUME NEW D \in SUBSET S,
             \A E \in SUBSET S : Cardinality(E) < Cardinality(D) => E \in T
      PROVE  D \in T
  <2>1. CASE D = {}
    BY <2>1, SumOfNone
  <2>2. CASE D # {}
    <3> DEFINE x == CHOOSE y \in D : TRUE
    <3>1. SumFunctionOnSet(f, D) = f[x] + SumFunctionOnSet(f, D \ {x})
      BY <2>2, SumTakesOne, FS_Subset
    <3>2. x \in D /\ D \ {x} \in SUBSET S
      BY <2>2
    <3> HIDE DEF x
    <3>3. Cardinality(D \ {x}) < Cardinality(D)
      BY <3>2, SmallerWithout, FS_Subset
    <3>4. SumFunctionOnSet(f, D \ {x}) \in N /\ f[x] \in N
      BY <1>1, <3>2, <3>3
    <3>5. f[x] + SumFunctionOnSet(f, D \ {x}) \in N
      BY <3>4
    <3> QED BY <3>1, <3>5
  <2> QED BY <2>1, <2>2
<1> HIDE DEF T
<1>2. S \in T
  BY <1>1, SizeInduction
<1> QED BY <1>2 DEF T

\* Whichever element is taken out.
LEMMA SumWithout ==
  ASSUME NEW S, IsFiniteSet(S), NEW f, \A y \in S : f[y] \in Int, NEW x \in S
  PROVE  SumFunctionOnSet(f, S) = f[x] + SumFunctionOnSet(f, S \ {x})
<1> DEFINE Sum(D) == SumFunctionOnSet(f, D)
           T == {D \in SUBSET S : \A d \in D : Sum(D) = f[d] + Sum(D \ {d})}
<1>1. \A D \in SUBSET S : Sum(D) \in Int /\ IsFiniteSet(D)
  BY SumType, FS_Subset
<1>2. ASSUME NEW D \in SUBSET S,
             \A E \in SUBSET S : Cardinality(E) < Cardinality(D) => E \in T
      PROVE  D \in T
  <2> SUFFICES ASSUME NEW d \in D PROVE Sum(D) = f[d] + Sum(D \ {d})
    OBVIOUS
  <2> DEFINE c == CHOOSE y \in D : TRUE
  <2>1. Sum(D) = f[c] + Sum(D \ {c})
    BY <1>1, SumTakesOne
  <2>2. c \in D
    OBVIOUS
  <2> HIDE DEF c
  <2>3. CASE d = c
    BY <2>1, <2>3
  <2>4. CASE d # c
    <3>1. /\ d \in D \ {c} /\ c \in D \ {d}
          /\ D \ {c} \in SUBSET S /\ D \ {d} \in SUBSET S
          /\ (D \ {c}) \ {d} = (D \ {d}) \ {c} /\ (D \ {c}) \ {d} \in SUBSET S
      BY <2>2, <2>4
    <3>2. Cardinality(D \ {c}) < Cardinality(D) /\ Cardinality(D \ {d}) < Cardinality(D)
      BY <1>1, <2>2, SmallerWithout
    <3>3. D \ {c} \in T /\ D \ {d} \in T
      BY <1>2, <3>1, <3>2
    <3>4. /\ Sum(D \ {c}) = f[d] + Sum((D \ {c}) \ {d})
          /\ Sum(D \ {d}) = f[c] + Sum((D \ {c}) \ {d})
      BY <3>1, <3>3
    <3>5. f[c] \in Int /\ f[d] \in Int /\ Sum((D \ {c}) \ {d}) \in Int
      BY <1>1, <2>2, <3>1
    <3> HIDE DEF Sum
    <3> QED BY <2>1, <3>4, <3>5
  <2> QED BY <2>3, <2>4
<1> HIDE DEF T
<1>3. S \in T
  BY <1>2, SizeInduction
<1> QED BY <1>3 DEF T

\* A sum depends on the values in the set only.
LEMMA SumSame ==
  ASSUME NEW S, IsFiniteSet(S), NEW f, NEW h, \A y \in S : f[y] = h[y]
  PROVE  SumFunctionOnSet(f, S) = SumFunctionOnSet(h, S)
<1> DEFINE T == {D \in SUBSET S : SumFunctionOnSet(f, D) = SumFunctionOnSet(h, D)}
<1>1. ASSUME NEW D \in SUBSET S,
             \A E \in SUBSET S : Cardinality(E) < Cardinality(D) => E \in T
      PROVE  D \in T
  <2>1. CASE D = {}
    BY <2>1, SumOfNone
  <2>2. CASE D # {}
    <3> DEFINE x == CHOOSE y \in D : TRUE
    <3>1. /\ SumFunctionOnSet(f, D) = f[x] + SumFunctionOnSet(f, D \ {x})
          /\ SumFunctionOnSet(h, D) = h[x] + SumFunctionOnSet(h, D \ {x})
      BY <2>2, SumTakesOne, FS_Subset
    <3>2. x \in D /\ D \ {x} \in SUBSET S
      BY <2>2
    <3> HIDE DEF x
    <3>3. Cardinality(D \ {x}) < Cardinality(D)
      BY <3>2, SmallerWithout, FS_Subset
    <3>4. SumFunctionOnSet(f, D \ {x}) = SumFunctionOnSet(h, D \ {x}) /\ f[x] = h[x]
      BY <1>1, <3>2, <3>3
    <3> QED BY <3>1, <3>4
  <2> QED BY <2>1, <2>2
<1> HIDE DEF T
<1>2. S \in T
  BY <1>1, SizeInduction
<1> QED BY <1>2 DEF T

\* Where one value changes, the sum changes as much.
LEMMA SumChangesOne ==
  ASSUME NEW S, IsFiniteSet(S), NEW f, \A y \in S : f[y] \in Int,
         NEW h, NEW x \in S, h[x] \in Int, \A y \in S \ {x} : h[y] = f[y]
  PROVE  SumFunctionOnSet(h, S) = SumFunctionOnSet(f, S) + (h[x] - f[x])
<1>1. \A y \in S : h[y] \in Int
  OBVIOUS
<1>2. /\ SumFunctionOnSet(f, S) = f[x] + SumFunctionOnSet(f, S \ {x})
      /\ SumFunctionOnSet(h, S) = h[x] + SumFunctionOnSet(h, S \ {x})
  BY <1>1, SumWithout
<1>3. IsFiniteSet(S \ {x})
  BY SmallerWithout
<1>4. SumFunctionOnSet(f, S \ {x}) = SumFunctionOnSet(h, S \ {x})
  BY <1>3, SumSame
<1>5. f[x] \in Int /\ SumFunctionOnSet(f, S \ {x}) \in Int
  BY <1>3, SumType
<1> QED BY <1>2, <1>4, <1>5

\* A sum of zeroes is zero.
LEMMA SumOfZeroes ==
  ASSUME NEW S, IsFiniteSet(S), NEW f, \A y \in S : f[y] = 0
  PROVE  SumFunctionOnSet(f, S) = 0
<1> DEFINE T == {D \in SUBSET S : SumFunctionOnSet(f, D) = 0}
<1>1. ASSUME NEW D \in SUBSET S,
             \A E \in SUBSET S : Cardinality(E) < Cardinality(D) => E \in T
      PROVE  D \in T
  <2>1. CASE D = {}
    BY <2>1, SumOfNone
  <2>2. CASE D # {}
    <3>1. PICK x \in D : TRUE
      BY <2>2
    <3>2. IsFiniteSet(D) /\ D \ {x} \in SUBSET S /\ \A y \in D : f[y] \in Int
      BY FS_Subset
    <3>3. Cardinality(D \ {x}) < Cardinality(D)
      BY <3>2, SmallerWithout
    <3>4. SumFunctionOnSet(f, D \ {x}) = 0 /\ f[x] = 0
      BY <1>1, <3>2, <3>3
    <3>5. SumFunctionOnSet(f, D) = f[x] + SumFunctionOnSet(f, D \ {x})
      BY <3>2, SumWithout
    <3> QED BY <3>4, <3>5
  <2> QED BY <2>1, <2>2
<1> HIDE DEF T
<1>2. S \in T
  BY <1>1, SizeInduction
<1> QED BY <1>2 DEF T

\* Sums of whole functions: where nothing is counted, and where one more is.
LEMMA TotalOfZeroes ==
  ASSUME NEW S, IsFiniteSet(S)
  PROVE  SumFunction([y \in S |-> 0]) = 0
<1> DEFINE z == [y \in S |-> 0]
<1>1. DOMAIN z = S /\ \A y \in S : z[y] = 0
  OBVIOUS
<1> HIDE DEF z
<1>2. SumFunctionOnSet(z, S) = 0
  BY <1>1, SumOfZeroes
<1>3. SumFunction(z) = 0
  BY <1>1, <1>2 DEF SumFunction
<1> QED BY <1>3 DEF z

\* A count that ticks shows in the sums over the sets it belongs to.
LEMMA SumTicks ==
  ASSUME NEW D, IsFiniteSet(D), NEW f, \A y \in D : f[y] \in Int,
         NEW x, NEW h, h[x] = f[x] + 1, \A y \in D \ {x} : h[y] = f[y]
  PROVE  /\ x \in D => SumFunctionOnSet(h, D) = SumFunctionOnSet(f, D) + 1
         /\ x \notin D => SumFunctionOnSet(h, D) = SumFunctionOnSet(f, D)
<1>1. ASSUME x \in D PROVE SumFunctionOnSet(h, D) = SumFunctionOnSet(f, D) + 1
  <2>1. f[x] \in Int /\ h[x] \in Int /\ h[x] - f[x] = 1
    BY <1>1
  <2>2. SumFunctionOnSet(h, D) = SumFunctionOnSet(f, D) + (h[x] - f[x])
    BY <1>1, <2>1, SumChangesOne
  <2> QED BY <2>1, <2>2
<1>2. ASSUME x \notin D PROVE SumFunctionOnSet(h, D) = SumFunctionOnSet(f, D)
  BY <1>2, SumSame
<1> QED BY <1>1, <1>2

LEMMA TotalTicks ==
  ASSUME NEW S, IsFiniteSet(S), NEW f \in [S -> Nat], NEW x \in S
  PROVE  /\ SumFunction(f) \in Nat
         /\ SumFunction([f EXCEPT ![x] = @ + 1]) = SumFunction(f) + 1
<1> DEFINE h == [f EXCEPT ![x] = @ + 1]
<1>1. /\ DOMAIN f = S /\ DOMAIN h = S
      /\ f[x] \in Int /\ h[x] = f[x] + 1 /\ h[x] \in Int
      /\ \A y \in S \ {x} : h[y] = f[y]
      /\ \A y \in S : f[y] \in Int /\ f[y] \in Nat
  OBVIOUS
<1> HIDE DEF h
<1>2. SumFunctionOnSet(h, S) = SumFunctionOnSet(f, S) + (h[x] - f[x])
  BY <1>1, SumChangesOne
<1>3. SumFunctionOnSet(f, S) \in Nat
  BY <1>1, SumType
<1>4. SumFunctionOnSet(h, S) = SumFunctionOnSet(f, S) + 1
  BY <1>1, <1>2, <1>3
<1>5. SumFunction(f) = SumFunctionOnSet(f, S) /\ SumFunction(h) = SumFunctionOnSet(h, S)
  BY <1>1 DEF SumFunction
<1> QED BY <1>3, <1>4, <1>5 DEF h

LEMMA IntervalGrows ==
  ASSUME NEW n \in Nat
  PROVE  /\ IsFiniteSet(1 .. n) /\ IsFiniteSet(1 .. n + 1)
         /\ n + 1 \in 1 .. n + 1 /\ (1 .. n + 1) \ {n + 1} = 1 .. n
<1>1. 1 \in Int /\ n \in Int /\ n + 1 \in Int
  OBVIOUS
<1>2. IsFiniteSet(1 .. n) /\ IsFiniteSet(1 .. n + 1)
  BY <1>1, FS_Interval
<1>3. n + 1 \in 1 .. n + 1 /\ (1 .. n + 1) \ {n + 1} = 1 .. n
  OBVIOUS
<1> QED BY <1>2, <1>3

=============================================================================
