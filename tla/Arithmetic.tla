------------------------------ MODULE Arithmetic ------------------------------
(***************************************************************************)
(* Lemmas that several proofs need: products and remainders of integers,   *)
(* induction over finite sets and numbers, and sums.  SumFunctionOnSet is  *)
(* defined by recursion, in an order that CHOOSE gives; the proofs about   *)
(* it are inductions in the form of a minimal counterexample.              *)
(***************************************************************************)
EXTENDS Integers, FiniteSetsExt, Functions, FiniteSetTheorems, WellFoundedInduction,
        TLAPS

-----------------------------------------------------------------------------
(***************************************************************************)
(* Products and remainders.                                                *)
(***************************************************************************)
\* Multiplication by a natural number keeps the order.
LEMMA ProductMonotone ==
    ASSUME NEW a \in Nat, NEW b \in Nat, NEW m \in Nat, a <= b
    PROVE  a * m <= b * m /\ a * m \in Nat /\ b * m \in Nat
<1>1. b * m = a * m + (b - a) * m OBVIOUS
<1>2. (b - a) * m \in Nat OBVIOUS
<1>3. a * m \in Nat /\ b * m \in Nat OBVIOUS
<1> QED BY <1>1, <1>2, <1>3

\* The quotient is how many times the divisor fits.
LEMMA Quotient ==
    ASSUME NEW a \in Nat, NEW s \in Nat \ {0}
    PROVE  a \div s \in Nat /\ (a \div s) * s <= a /\ a < ((a \div s) + 1) * s
OBVIOUS

\* Division keeps the order.
LEMMA QuotientMonotone ==
    ASSUME NEW a \in Nat, NEW b \in Nat, NEW s \in Nat \ {0}, a <= b
    PROVE  a \div s <= b \div s
<1>1. SUFFICES ASSUME (b \div s) + 1 <= a \div s PROVE FALSE BY Quotient
<1>2. ((b \div s) + 1) * s <= (a \div s) * s BY <1>1, Quotient, ProductMonotone
<1>3. (a \div s) * s <= a /\ b < ((b \div s) + 1) * s BY Quotient
<1>4. (a \div s) * s \in Nat /\ ((b \div s) + 1) * s \in Nat BY Quotient, ProductMonotone
<1> QED BY <1>2, <1>3, <1>4

\* A number is in the block that its quotient gives.
LEMMA QuotientIs ==
    ASSUME NEW a \in Nat, NEW s \in Nat \ {0}, NEW b \in Nat
    PROVE  a \div s = b <=> b * s <= a /\ a < (b + 1) * s
<1>1. a \div s \in Nat /\ (a \div s) * s <= a /\ a < ((a \div s) + 1) * s BY Quotient
<1>2. ASSUME b * s <= a, a < (b + 1) * s PROVE a \div s = b
  <2>1. a - b * s \in 0 .. s - 1
    <3>1. b * s \in Nat /\ (b + 1) * s = b * s + s BY ProductMonotone
    <3> QED BY <1>2, <3>1
  <2>2. a = b * s + (a - b * s)
    <3>1. b * s \in Nat BY ProductMonotone
    <3> QED BY <3>1
  <2> DEFINE r == a - b * s
  <2>3. r \in 0 .. s - 1 /\ a = b * s + r BY <2>1, <2>2
  <2> HIDE DEF r
  <2>4. (b * s + r) \div s = b BY <2>3
  <2> QED BY <2>3, <2>4
<1> QED BY <1>1, <1>2

\* A number is its quotient times the divisor and the remainder.
LEMMA Remainder ==
    ASSUME NEW a \in Int, NEW m \in Nat \ {0}
    PROVE  a % m \in 0 .. m - 1 /\ a \div m \in Int /\ a = (a \div m) * m + (a % m)
OBVIOUS

\* That says what the remainder is,
LEMMA RemainderUnique ==
    ASSUME NEW m \in Nat \ {0}, NEW q \in Int, NEW r \in 0 .. m - 1
    PROVE  (q * m + r) % m = r
OBVIOUS

\* for a number below the divisor, itself,
LEMMA RemainderSmall ==
    ASSUME NEW m \in Nat \ {0}, NEW r \in 0 .. m - 1
    PROVE  r % m = r
BY RemainderUnique

\* and the same for numbers a multiple apart.
LEMMA RemainderShift ==
    ASSUME NEW a \in Int, NEW k \in Int, NEW m \in Nat \ {0}
    PROVE  (a + k * m) % m = a % m
<1> DEFINE q == a \div m
           r == a % m
<1>1. q \in Int /\ r \in 0 .. m - 1 /\ a = q * m + r BY Remainder
<1> HIDE DEF q, r
<1>2. a + k * m = (q + k) * m + r BY <1>1
<1>3. ((q + k) * m + r) % m = r BY <1>1, RemainderUnique
<1> QED BY <1>2, <1>3 DEF r

\* A number without a remainder is a multiple.
LEMMA Multiple ==
    ASSUME NEW k \in Int, NEW m \in Nat \ {0}
    PROVE  (k * m) % m = 0
OBVIOUS

\* And the other way round.
LEMMA MultipleOf ==
    ASSUME NEW a \in Int, NEW m \in Nat \ {0}, a % m = 0
    PROVE  \E k \in Int : a = k * m
OBVIOUS

\* Sums, differences, products and remainders of multiples are multiples.
LEMMA MultipleSum ==
    ASSUME NEW a \in Int, NEW b \in Int, NEW m \in Nat \ {0}, a % m = 0, b % m = 0
    PROVE  (a + b) % m = 0 /\ (a - b) % m = 0
<1>1. PICK k \in Int : a = k * m BY MultipleOf
<1>2. PICK l \in Int : b = l * m BY MultipleOf
<1>3. a + b = (k + l) * m /\ a - b = (k - l) * m BY <1>1, <1>2
<1>4. k + l \in Int /\ k - l \in Int OBVIOUS
<1> QED BY <1>3, <1>4, Multiple

\* A product is a multiple of what a factor is one of.
LEMMA MultipleProduct ==
    ASSUME NEW a \in Int, NEW b \in Int, NEW m \in Nat \ {0}, a % m = 0
    PROVE  (a * b) % m = 0
<1>1. PICK k \in Int : a = k * m BY MultipleOf
<1>2. a * b = (k * b) * m BY <1>1
<1>3. k * b \in Int OBVIOUS
<1> QED BY <1>2, <1>3, Multiple

\* The remainder of a multiple is one, if the divisor is one too.
LEMMA MultipleRemainder ==
    ASSUME NEW a \in Int, NEW n \in Nat \ {0}, NEW m \in Nat \ {0},
           a % m = 0, n % m = 0
    PROVE  (a % n) % m = 0
<1> DEFINE q == a \div n
           r == a % n
<1>1. q \in Int /\ r \in Int /\ a = q * n + r BY Remainder
<1> HIDE DEF q, r
<1>a. n \in Int OBVIOUS
<1>b. n * q \in Int BY <1>1, <1>a
<1>2. (n * q) % m = 0 BY <1>1, <1>a, MultipleProduct
<1>3. r = a - n * q BY <1>1
<1>4. (a - n * q) % m = 0 BY <1>b, <1>2, MultipleSum
<1> QED BY <1>3, <1>4 DEF r

\* A remainder may be taken once or twice.
LEMMA RemainderOfSum ==
    ASSUME NEW a \in Int, NEW b \in Int, NEW m \in Nat \ {0}
    PROVE  ((a % m) + b) % m = (a + b) % m
<1> DEFINE q == a \div m
           r == a % m
<1>1. q \in Int /\ r \in Int /\ a = q * m + r BY Remainder
<1> HIDE DEF q, r
<1>2. a + b = (r + b) + q * m BY <1>1
<1>3. ((r + b) + q * m) % m = (r + b) % m
  <2>1. r + b \in Int BY <1>1
  <2> QED BY <1>1, <2>1, RemainderShift
<1> QED BY <1>2, <1>3 DEF r

\* A multiple of m below another one is at least m below it.
LEMMA MultipleBelow ==
    ASSUME NEW a \in Nat, NEW b \in Nat, NEW m \in Nat \ {0},
           a % m = 0, b % m = 0, a < b
    PROVE  a + m <= b
<1>a. a \in Int /\ b \in Int OBVIOUS
<1>1. PICK k \in Int : a = k * m BY <1>a, MultipleOf
<1>2. PICK l \in Int : b = l * m BY <1>a, MultipleOf
<1>3. k < l
  <2> SUFFICES ASSUME l <= k PROVE FALSE OBVIOUS
  <2>1. k - l \in Nat OBVIOUS
  <2>2. (k - l) * m \in Nat BY <2>1
  <2>3. (k - l) * m = a - b BY <1>1, <1>2
  <2> QED BY <2>2, <2>3
<1>4. (l - k - 1) * m \in Nat
  <2>1. l - k - 1 \in Nat BY <1>3
  <2> QED BY <2>1
<1>5. (l - k - 1) * m = b - a - m BY <1>1, <1>2
<1> QED BY <1>4, <1>5

-----------------------------------------------------------------------------
(***************************************************************************)
(* Induction; the set Q takes the place of a predicate.                    *)
(***************************************************************************)
\* What is true of the empty set, and of a set if it is of the set without one of its
\* elements, is true of a finite set.
LEMMA FiniteInduction ==
    ASSUME NEW S, IsFiniteSet(S), NEW Q, {} \in Q,
           \A T \in SUBSET S, x \in S : x \in T /\ T \ {x} \in Q => T \in Q
    PROVE  S \in Q
<1> SUFFICES ASSUME S \notin Q PROVE FALSE OBVIOUS
<1> DEFINE Bad == {T \in SUBSET S : T \notin Q}
<1>1. IsWellFoundedOn(StrictSubsetOrdering(S), FiniteSubsetsOf(S))
  BY FS_StrictSubsetOrderingWellFounded
<1>2. Bad \subseteq FiniteSubsetsOf(S) BY FS_FiniteSubsetsOfFinite
<1>3. Bad # {} OBVIOUS
<1>4. PICK T \in Bad : \A U \in Bad : ~(<<U, T>> \in StrictSubsetOrdering(S))
  <2> HIDE DEF Bad
  <2> QED BY <1>1, <1>2, <1>3, WFMin
<1>5. PICK x \in T : TRUE BY <1>4
<1>6. T \ {x} \in Q
  <2>1. <<T \ {x}, T>> \in StrictSubsetOrdering(S) BY <1>4, <1>5 DEF StrictSubsetOrdering
  <2> QED BY <1>4, <2>1
<1> QED BY <1>4, <1>5, <1>6

\* Induction over numbers, by that over sets with as many elements.
LEMMA NaturalInduction ==
    ASSUME NEW Q, 0 \in Q, \A n \in Nat : n \in Q => n + 1 \in Q, NEW m \in Nat
    PROVE  m \in Q
<1> DEFINE R == {T \in SUBSET (1 .. m) : Cardinality(T) \in Q}
<1>1. IsFiniteSet(1 .. m) /\ Cardinality(1 .. m) = m BY FS_Interval
<1>2. {} \in R BY FS_EmptySet
<1>3. ASSUME NEW T \in SUBSET (1 .. m), NEW x \in 1 .. m, x \in T, T \ {x} \in R
      PROVE  T \in R
  <2>1. IsFiniteSet(T) /\ IsFiniteSet(T \ {x}) BY <1>1, FS_Subset
  <2>2. Cardinality(T) \in Nat /\ Cardinality(T \ {x}) \in Nat BY <2>1, FS_CardinalityType
  <2>3. Cardinality(T \ {x}) = Cardinality(T) - 1 BY <1>3, <2>1, FS_RemoveElement
  <2>4. Cardinality(T) = Cardinality(T \ {x}) + 1 BY <2>2, <2>3
  <2> QED BY <1>3, <2>2, <2>4
<1>4. (1 .. m) \in R
  <2> HIDE DEF R
  <2> QED BY <1>1, <1>2, <1>3, FiniteInduction
<1> QED BY <1>1, <1>4

-----------------------------------------------------------------------------
(***************************************************************************)
(* The recursion has exactly one solution.                                 *)
(***************************************************************************)
Choice(s) == CHOOSE x \in s : TRUE

\* The equation that defines the sums over the subsets of S in the family F.
SumsOver(g, f, F) ==
    g = [s \in F |-> IF s = {} THEN 0 ELSE f[Choice(s)] + g[s \ {Choice(s)}]]

Sums(g, f, S) == SumsOver(g, f, SUBSET S)

\* SumFunctionOnSet is a solution of the recursion, if there is one.
LEMMA SumIsSums ==
    ASSUME NEW f, NEW S
    PROVE  SumFunctionOnSet(f, S) = (CHOOSE g : Sums(g, f, S))[S]
BY DEF SumFunctionOnSet, FoldFunctionOnSet, MapThenFoldSet, Sums, SumsOver, Choice

\* A set without the element that CHOOSE gives is smaller.
LEMMA WithoutChoice ==
    ASSUME NEW s, IsFiniteSet(s), s # {}
    PROVE  /\ Choice(s) \in s
           /\ Cardinality(s) \in Nat /\ IsFiniteSet(s \ {Choice(s)})
           /\ Cardinality(s \ {Choice(s)}) \in Nat
           /\ Cardinality(s) = Cardinality(s \ {Choice(s)}) + 1
<1>1. Choice(s) \in s BY DEF Choice
<1>2. IsFiniteSet(s \ {Choice(s)}) /\ Cardinality(s \ {Choice(s)}) = Cardinality(s) - 1
  BY <1>1, FS_RemoveElement
<1>3. Cardinality(s) \in Nat /\ Cardinality(s \ {Choice(s)}) \in Nat
  BY <1>2, FS_CardinalityType
<1> QED BY <1>1, <1>2, <1>3

\* There is a solution: by induction over the number of elements.
LEMMA SumsExist ==
    ASSUME NEW f, NEW S, IsFiniteSet(S)
    PROVE  \E g : Sums(g, f, S)
<1> DEFINE Upto(n) == {s \in SUBSET S : Cardinality(s) <= n}
           Q == {n \in Nat : \E g : SumsOver(g, f, Upto(n))}
<1>1. \A s \in SUBSET S : IsFiniteSet(s) /\ Cardinality(s) \in Nat
  BY FS_Subset, FS_CardinalityType
<1>2. 0 \in Q
  <2>1. \A s \in Upto(0) : s = {} BY <1>1, FS_EmptySet
  <2>2. SumsOver([s \in Upto(0) |-> 0], f, Upto(0)) BY <2>1 DEF SumsOver
  <2> QED BY <2>2
<1>3. ASSUME NEW n \in Nat, n \in Q PROVE n + 1 \in Q
  <2>1. PICK g : SumsOver(g, f, Upto(n)) BY <1>3
  <2> DEFINE h == [s \in Upto(n + 1) |->
                      IF s = {} THEN 0 ELSE f[Choice(s)] + g[s \ {Choice(s)}]]
  <2>2. ASSUME NEW s \in Upto(n + 1), s # {}
        PROVE  s \ {Choice(s)} \in Upto(n)
    <3>1. Cardinality(s) = Cardinality(s \ {Choice(s)}) + 1
          /\ Cardinality(s \ {Choice(s)}) \in Nat
      BY <1>1, <2>2, WithoutChoice
    <3> QED BY <3>1
  <2>3. ASSUME NEW s \in Upto(n) PROVE h[s] = g[s]
    <3>1. s \in Upto(n + 1) BY <1>1
    <3>2. g[s] = IF s = {} THEN 0 ELSE f[Choice(s)] + g[s \ {Choice(s)}]
      BY <2>1 DEF SumsOver
    <3> QED BY <3>1, <3>2
  <2>4. ASSUME NEW s \in Upto(n + 1)
        PROVE  h[s] = IF s = {} THEN 0 ELSE f[Choice(s)] + h[s \ {Choice(s)}]
    BY <2>2, <2>3
  <2>5. SumsOver(h, f, Upto(n + 1))
    <3>1. h = [s \in Upto(n + 1) |-> h[s]] OBVIOUS
    <3> HIDE DEF h
    <3> QED BY <2>4, <3>1 DEF SumsOver
  <2>6. \E k : SumsOver(k, f, Upto(n + 1))
    <3> HIDE DEF h, Upto
    <3> QED BY <2>5
  <2> HIDE DEF Upto
  <2> QED BY <2>6
<1>4. Cardinality(S) \in Nat BY FS_CardinalityType
<1>5. Cardinality(S) \in Q
  <2> HIDE DEF Q
  <2> QED BY <1>2, <1>3, <1>4, NaturalInduction
<1>6. Upto(Cardinality(S)) = SUBSET S BY FS_Subset
<1> QED BY <1>5, <1>6 DEF Sums

\* Sums of functions that agree on T agree, whatever families they are taken from.
LEMMA SumsAgree ==
    ASSUME NEW S, IsFiniteSet(S), NEW T, T \subseteq S,
           NEW f1, NEW f2, \A x \in T : f1[x] = f2[x],
           NEW g, Sums(g, f1, S), NEW h, Sums(h, f2, T)
    PROVE  g[T] = h[T]
<1> DEFINE Q == {n \in Nat : \A s \in SUBSET T : Cardinality(s) = n => g[s] = h[s]}
<1>1. \A s \in SUBSET T : IsFiniteSet(s) /\ Cardinality(s) \in Nat
  BY FS_Subset, FS_CardinalityType
<1>2. ASSUME NEW s \in SUBSET T
      PROVE  /\ g[s] = IF s = {} THEN 0 ELSE f1[Choice(s)] + g[s \ {Choice(s)}]
             /\ h[s] = IF s = {} THEN 0 ELSE f2[Choice(s)] + h[s \ {Choice(s)}]
  <2>1. s \in SUBSET S OBVIOUS
  <2> QED BY <2>1 DEF Sums, SumsOver
<1>3. 0 \in Q BY <1>1, <1>2, FS_EmptySet
<1>4. ASSUME NEW n \in Nat, n \in Q PROVE n + 1 \in Q
  <2>1. ASSUME NEW s \in SUBSET T, Cardinality(s) = n + 1 PROVE g[s] = h[s]
    <3>1. s # {} BY <2>1, FS_EmptySet
    <3>2. Choice(s) \in s /\ Cardinality(s \ {Choice(s)}) = n
      BY <1>1, <2>1, <3>1, WithoutChoice
    <3>3. g[s \ {Choice(s)}] = h[s \ {Choice(s)}] BY <1>4, <3>2
    <3> QED BY <1>2, <3>1, <3>2, <3>3
  <2> QED BY <2>1
<1>5. \A n \in Nat : n \in Q
  <2> HIDE DEF Q
  <2> QED BY <1>3, <1>4, NaturalInduction
<1> QED BY <1>1, <1>5

-----------------------------------------------------------------------------
(***************************************************************************)
(* What the rest of the proofs use.                                        *)
(***************************************************************************)
\* The sum of nothing.
LEMMA SumEmpty ==
    ASSUME NEW f
    PROVE  SumFunctionOnSet(f, {}) = 0
<1>1. PICK g : Sums(g, f, {}) BY SumsExist, FS_EmptySet
<1>2. Sums(CHOOSE h : Sums(h, f, {}), f, {}) BY <1>1
<1> QED BY <1>2, SumIsSums DEF Sums, SumsOver

\* Functions that agree on a set have the same sum there.
LEMMA SumSame ==
    ASSUME NEW S, IsFiniteSet(S), NEW f1, NEW f2, \A x \in S : f1[x] = f2[x]
    PROVE  SumFunctionOnSet(f1, S) = SumFunctionOnSet(f2, S)
<1> DEFINE g == CHOOSE x : Sums(x, f1, S)
           h == CHOOSE x : Sums(x, f2, S)
<1>1. Sums(g, f1, S) BY SumsExist
<1>2. Sums(h, f2, S) BY SumsExist
<1>3. g[S] = h[S]
  <2> HIDE DEF g, h
  <2> QED BY <1>1, <1>2, SumsAgree
<1> QED BY <1>3, SumIsSums

\* The recursion itself.
LEMMA SumChoice ==
    ASSUME NEW f, NEW S, IsFiniteSet(S), S # {}
    PROVE  SumFunctionOnSet(f, S) =
               f[Choice(S)] + SumFunctionOnSet(f, S \ {Choice(S)})
<1> DEFINE T == S \ {Choice(S)}
           g == CHOOSE x : Sums(x, f, S)
           h == CHOOSE x : Sums(x, f, T)
<1>1. IsFiniteSet(T) BY FS_RemoveElement
<1>2. Sums(g, f, S) BY SumsExist
<1>3. Sums(h, f, T) BY <1>1, SumsExist
<1>4. g[S] = f[Choice(S)] + g[T] BY <1>2 DEF Sums, SumsOver
<1>5. g[T] = h[T]
  <2> HIDE DEF g, h
  <2> QED BY <1>2, <1>3, SumsAgree
<1> QED BY <1>4, <1>5, SumIsSums

\* A sum of integers is one.
LEMMA SumInt ==
    ASSUME NEW f, NEW S, IsFiniteSet(S), \A x \in S : f[x] \in Int
    PROVE  SumFunctionOnSet(f, S) \in Int
<1> DEFINE Q == {n \in Nat : \A T \in SUBSET S :
                    Cardinality(T) = n => SumFunctionOnSet(f, T) \in Int}
<1>1. \A T \in SUBSET S : IsFiniteSet(T) /\ Cardinality(T) \in Nat
  BY FS_Subset, FS_CardinalityType
<1>2. 0 \in Q BY <1>1, FS_EmptySet, SumEmpty
<1>3. ASSUME NEW n \in Nat, n \in Q PROVE n + 1 \in Q
  <2>1. ASSUME NEW T \in SUBSET S, Cardinality(T) = n + 1
        PROVE  SumFunctionOnSet(f, T) \in Int
    <3>1. T # {} BY <2>1, FS_EmptySet
    <3>2. Choice(T) \in T /\ Cardinality(T \ {Choice(T)}) = n
      BY <1>1, <2>1, <3>1, WithoutChoice
    <3>3. SumFunctionOnSet(f, T \ {Choice(T)}) \in Int BY <1>3, <3>2
    <3> QED BY <1>1, <3>1, <3>2, <3>3, SumChoice
  <2> QED BY <2>1
<1>4. \A n \in Nat : n \in Q
  <2> HIDE DEF Q
  <2> QED BY <1>2, <1>3, NaturalInduction
<1> QED BY <1>1, <1>4

\* The order makes no difference: any element can be taken out.
LEMMA SumTakeOut ==
    ASSUME NEW f, NEW S, IsFiniteSet(S), \A x \in S : f[x] \in Int, NEW a \in S
    PROVE  SumFunctionOnSet(f, S) = f[a] + SumFunctionOnSet(f, S \ {a})
<1> DEFINE Good(T) == \A b \in T :
                          SumFunctionOnSet(f, T) = f[b] + SumFunctionOnSet(f, T \ {b})
           Q == {n \in Nat : \A T \in SUBSET S : Cardinality(T) = n => Good(T)}
<1>1. \A T \in SUBSET S : IsFiniteSet(T) /\ Cardinality(T) \in Nat
  BY FS_Subset, FS_CardinalityType
<1>2. 0 \in Q BY <1>1, FS_EmptySet
<1>3. ASSUME NEW n \in Nat, n \in Q PROVE n + 1 \in Q
  <2>1. ASSUME NEW T \in SUBSET S, Cardinality(T) = n + 1, NEW b \in T
        PROVE  SumFunctionOnSet(f, T) = f[b] + SumFunctionOnSet(f, T \ {b})
    <3> DEFINE c == Choice(T)
    <3>1. T # {} OBVIOUS
    <3>2. c \in T /\ Cardinality(T \ {c}) = n BY <1>1, <2>1, <3>1, WithoutChoice
    <3>3. SumFunctionOnSet(f, T) = f[c] + SumFunctionOnSet(f, T \ {c})
      BY <1>1, <3>1, SumChoice
    <3>4. CASE b = c BY <3>3, <3>4
    <3>5. CASE b # c
      <4>1. IsFiniteSet(T \ {b}) /\ Cardinality(T \ {b}) = n
        <5>1. Cardinality(T \ {b}) = Cardinality(T) - 1 BY <1>1, FS_RemoveElement
        <5> QED BY <1>1, <2>1, <5>1
      <4>2. Good(T \ {c}) /\ Good(T \ {b}) BY <1>3, <3>2, <4>1
      <4> HIDE DEF c
      <4> DEFINE rest == SumFunctionOnSet(f, (T \ {b}) \ {c})
      <4>3. (T \ {c}) \ {b} = (T \ {b}) \ {c} OBVIOUS
      <4>4. SumFunctionOnSet(f, T \ {c}) = f[b] + rest BY <4>2, <4>3, <3>5
      <4>5. SumFunctionOnSet(f, T \ {b}) = f[c] + rest BY <4>2, <3>2, <3>5
      <4>6. f[b] \in Int /\ f[c] \in Int BY <3>2
      <4>7. rest \in Int
        <5>1. IsFiniteSet((T \ {b}) \ {c}) BY <1>1
        <5> QED BY <5>1, SumInt
      <4> HIDE DEF rest
      <4> QED BY <3>3, <4>4, <4>5, <4>6, <4>7
    <3> QED BY <3>4, <3>5
  <2> QED BY <2>1
<1>4. \A n \in Nat : n \in Q
  <2> HIDE DEF Q
  <2> QED BY <1>2, <1>3, NaturalInduction
<1> QED BY <1>1, <1>4

\* A change of the value at one element changes the sum by as much.
LEMMA SumChange ==
    ASSUME NEW S, IsFiniteSet(S), NEW a \in S,
           NEW f, \A x \in S : f[x] \in Int, NEW g, \A x \in S : g[x] \in Int,
           \A x \in S : x # a => g[x] = f[x]
    PROVE  SumFunctionOnSet(g, S) = (SumFunctionOnSet(f, S) - f[a]) + g[a]
<1> DEFINE rest == SumFunctionOnSet(f, S \ {a})
<1>1. IsFiniteSet(S \ {a}) BY FS_RemoveElement
<1>2. rest = SumFunctionOnSet(g, S \ {a}) /\ rest \in Int BY <1>1, SumSame, SumInt
<1>3. SumFunctionOnSet(f, S) = f[a] + rest BY SumTakeOut
<1>4. SumFunctionOnSet(g, S) = g[a] + rest BY <1>2, SumTakeOut
<1>5. f[a] \in Int /\ g[a] \in Int OBVIOUS
<1> HIDE DEF rest
<1> QED BY <1>2, <1>3, <1>4, <1>5

\* The sum of zeros.
LEMMA SumZero ==
    ASSUME NEW S, IsFiniteSet(S), NEW f, \A x \in S : f[x] = 0
    PROVE  SumFunctionOnSet(f, S) = 0
<1> DEFINE Q == {T \in SUBSET S : SumFunctionOnSet(f, T) = 0}
<1>1. {} \in Q BY SumEmpty
<1>2. ASSUME NEW T \in SUBSET S, NEW x \in S, x \in T, T \ {x} \in Q
      PROVE  T \in Q
  <2>1. SumFunctionOnSet(f, T) = f[x] + SumFunctionOnSet(f, T \ {x})
    BY <1>2, FS_Subset, SumTakeOut
  <2> QED BY <1>2, <2>1
<1>3. S \in Q
  <2> HIDE DEF Q
  <2> QED BY <1>1, <1>2, FiniteInduction
<1> QED BY <1>3

\* A sum of larger numbers is larger.
LEMMA SumMonotone ==
    ASSUME NEW S, IsFiniteSet(S),
           NEW f, \A x \in S : f[x] \in Int, NEW g, \A x \in S : g[x] \in Int,
           \A x \in S : f[x] <= g[x]
    PROVE  SumFunctionOnSet(f, S) <= SumFunctionOnSet(g, S)
<1> DEFINE Q == {T \in SUBSET S : SumFunctionOnSet(f, T) <= SumFunctionOnSet(g, T)}
<1>1. {} \in Q BY SumEmpty
<1>2. ASSUME NEW T \in SUBSET S, NEW x \in S, x \in T, T \ {x} \in Q
      PROVE  T \in Q
  <2>1. IsFiniteSet(T) /\ IsFiniteSet(T \ {x}) BY FS_Subset
  <2>2. SumFunctionOnSet(f, T) = f[x] + SumFunctionOnSet(f, T \ {x})
    BY <1>2, <2>1, SumTakeOut
  <2>3. SumFunctionOnSet(g, T) = g[x] + SumFunctionOnSet(g, T \ {x})
    BY <1>2, <2>1, SumTakeOut
  <2>4. SumFunctionOnSet(f, T \ {x}) \in Int /\ SumFunctionOnSet(g, T \ {x}) \in Int
    BY <2>1, SumInt
  <2> QED BY <1>2, <2>2, <2>3, <2>4
<1>3. S \in Q
  <2> HIDE DEF Q
  <2> QED BY <1>1, <1>2, FiniteInduction
<1> QED BY <1>3

\* A sum of naturals is one.
LEMMA SumNat ==
    ASSUME NEW S, IsFiniteSet(S), NEW f, \A x \in S : f[x] \in Nat
    PROVE  SumFunctionOnSet(f, S) \in Nat
<1> DEFINE z == [x \in S |-> 0]
<1>1. SumFunctionOnSet(f, S) \in Int BY SumInt
<1>2. SumFunctionOnSet(z, S) = 0 BY SumZero
<1>3. SumFunctionOnSet(z, S) <= SumFunctionOnSet(f, S)
  <2>1. \A x \in S : z[x] \in Int /\ f[x] \in Int /\ z[x] <= f[x] OBVIOUS
  <2> HIDE DEF z
  <2> QED BY <2>1, SumMonotone
<1> QED BY <1>1, <1>2, <1>3

\* A sum is that of a part and that of the rest.
LEMMA SumSplit ==
    ASSUME NEW S, IsFiniteSet(S), NEW f, \A x \in S : f[x] \in Int,
           NEW T, T \subseteq S
    PROVE  SumFunctionOnSet(f, S) = SumFunctionOnSet(f, T) + SumFunctionOnSet(f, S \ T)
<1> DEFINE Q == {U \in SUBSET T : SumFunctionOnSet(f, S) =
                    SumFunctionOnSet(f, U) + SumFunctionOnSet(f, S \ U)}
<1>1. {} \in Q
  <2>1. S \ {} = S /\ SumFunctionOnSet(f, S) \in Int BY SumInt
  <2> QED BY <2>1, SumEmpty
<1>2. ASSUME NEW U \in SUBSET T, NEW x \in T, x \in U, U \ {x} \in Q
      PROVE  U \in Q
  <2> DEFINE V == S \ (U \ {x})
  <2>1. IsFiniteSet(U) /\ IsFiniteSet(U \ {x}) /\ IsFiniteSet(S \ U) /\ IsFiniteSet(V)
    BY FS_Subset
  <2>2. SumFunctionOnSet(f, U) = f[x] + SumFunctionOnSet(f, U \ {x})
    BY <1>2, <2>1, SumTakeOut
  <2>3. SumFunctionOnSet(f, V) = f[x] + SumFunctionOnSet(f, S \ U)
    <3>1. V \ {x} = S \ U /\ x \in V /\ \A y \in V : f[y] \in Int BY <1>2
    <3> HIDE DEF V
    <3> QED BY <2>1, <3>1, SumTakeOut
  <2>4. SumFunctionOnSet(f, U \ {x}) \in Int /\ SumFunctionOnSet(f, S \ U) \in Int
        /\ f[x] \in Int
    BY <2>1, SumInt
  <2>5. SumFunctionOnSet(f, S) = SumFunctionOnSet(f, U \ {x}) + SumFunctionOnSet(f, V)
    BY <1>2
  <2> HIDE DEF V
  <2> QED BY <2>2, <2>3, <2>4, <2>5
<1>3. IsFiniteSet(T) BY FS_Subset
<1>4. T \in Q
  <2> HIDE DEF Q
  <2> QED BY <1>1, <1>2, <1>3, FiniteInduction
<1> QED BY <1>4

\* A part of a sum of natural numbers is no more than the sum, and all of it if the
\* rest is 0.
LEMMA SumPart ==
    ASSUME NEW S, IsFiniteSet(S), NEW f, \A x \in S : f[x] \in Nat,
           NEW T, T \subseteq S
    PROVE  /\ SumFunctionOnSet(f, T) <= SumFunctionOnSet(f, S)
           /\ (\A x \in S \ T : f[x] = 0) =>
                 SumFunctionOnSet(f, T) = SumFunctionOnSet(f, S)
<1>1. IsFiniteSet(T) /\ IsFiniteSet(S \ T) BY FS_Subset
<1>2. SumFunctionOnSet(f, T) \in Nat /\ SumFunctionOnSet(f, S \ T) \in Nat
  BY <1>1, SumNat
<1>3. SumFunctionOnSet(f, S) = SumFunctionOnSet(f, T) + SumFunctionOnSet(f, S \ T)
  BY SumSplit
<1>4. (\A x \in S \ T : f[x] = 0) => SumFunctionOnSet(f, S \ T) = 0 BY <1>1, SumZero
<1> QED BY <1>2, <1>3, <1>4

\* One value is no more than the sum.
LEMMA SumElement ==
    ASSUME NEW S, IsFiniteSet(S), NEW f, \A x \in S : f[x] \in Nat, NEW a \in S
    PROVE  f[a] <= SumFunctionOnSet(f, S)
<1>1. SumFunctionOnSet(f, S) = f[a] + SumFunctionOnSet(f, S \ {a}) BY SumTakeOut
<1>2. SumFunctionOnSet(f, S \ {a}) \in Nat BY FS_RemoveElement, SumNat
<1> QED BY <1>1, <1>2

\* The largest of finitely many numbers.
LEMMA MaxIs ==
    ASSUME NEW S, IsFiniteSet(S), S # {}, S \subseteq Int
    PROVE  Max(S) \in S /\ \A x \in S : x <= Max(S)
<1> DEFINE Q == {T \in SUBSET S : T = {} \/ \E m \in T : \A x \in T : x <= m}
<1>1. {} \in Q OBVIOUS
<1>2. ASSUME NEW T \in SUBSET S, NEW x \in S, x \in T, T \ {x} \in Q
      PROVE  T \in Q
  <2>1. CASE T \ {x} = {} 
    <3>1. x \in Int /\ \A y \in T : y = x BY <1>2, <2>1
    <3> QED BY <1>2, <3>1
  <2>2. CASE \E m \in T \ {x} : \A y \in T \ {x} : y <= m
    <3>1. PICK m \in T \ {x} : \A y \in T \ {x} : y <= m BY <2>2
    <3>2. m \in Int /\ x \in Int BY <1>2, <3>1
    <3>3. CASE x <= m
      <4>1. \A y \in T : y <= m BY <3>1, <3>3
      <4> QED BY <4>1
    <3>4. CASE m < x
      <4>1. \A y \in T : y \in Int BY <1>2
      <4>2. \A y \in T : y <= x BY <3>1, <3>2, <3>4, <4>1
      <4> QED BY <1>2, <4>2
    <3> QED BY <3>2, <3>3, <3>4
  <2> QED BY <1>2, <2>1, <2>2
<1> HIDE DEF Q
<1>3. S \in Q BY <1>1, <1>2, FiniteInduction
<1>4. PICK m \in S : \A x \in S : x <= m BY <1>3 DEF Q
<1>5. \A x \in S : x \in Int OBVIOUS
<1>6. \E n \in S : \A x \in S : n >= x BY <1>4, <1>5
<1>7. Max(S) \in S /\ \A x \in S : Max(S) >= x BY <1>6 DEF Max
<1>8. Max(S) \in Int BY <1>7
<1> QED BY <1>5, <1>7, <1>8

\* The smallest.
LEMMA MinIs ==
    ASSUME NEW S, IsFiniteSet(S), S # {}, S \subseteq Int
    PROVE  Min(S) \in S /\ \A x \in S : Min(S) <= x
<1> DEFINE Q == {T \in SUBSET S : T = {} \/ \E m \in T : \A x \in T : m <= x}
<1>1. {} \in Q OBVIOUS
<1>2. ASSUME NEW T \in SUBSET S, NEW x \in S, x \in T, T \ {x} \in Q
      PROVE  T \in Q
  <2>1. CASE T \ {x} = {}
    <3>1. x \in Int /\ \A y \in T : y = x BY <1>2, <2>1
    <3> QED BY <1>2, <3>1
  <2>2. CASE \E m \in T \ {x} : \A y \in T \ {x} : m <= y
    <3>1. PICK m \in T \ {x} : \A y \in T \ {x} : m <= y BY <2>2
    <3>2. m \in Int /\ x \in Int BY <1>2, <3>1
    <3>3. CASE m <= x
      <4>1. \A y \in T : m <= y BY <3>1, <3>3
      <4> QED BY <4>1
    <3>4. CASE x < m
      <4>1. \A y \in T : y \in Int BY <1>2
      <4>2. \A y \in T : x <= y BY <3>1, <3>2, <3>4, <4>1
      <4> QED BY <1>2, <4>2
    <3> QED BY <3>2, <3>3, <3>4
  <2> QED BY <1>2, <2>1, <2>2
<1> HIDE DEF Q
<1>3. S \in Q BY <1>1, <1>2, FiniteInduction
<1>4. \E m \in S : \A x \in S : m <= x BY <1>3 DEF Q
<1> QED BY <1>4 DEF Min

\* A sum over a part, when one value is d more.
LEMMA SumAdd ==
    ASSUME NEW S, IsFiniteSet(S), NEW f, \A x \in S : f[x] \in Int, NEW a \in S, NEW d \in Int,
           NEW g, g[a] = f[a] + d, \A x \in S : x # a => g[x] = f[x],
           NEW T, T \subseteq S
    PROVE  /\ SumFunctionOnSet(f, T) \in Int
           /\ SumFunctionOnSet(g, T) = SumFunctionOnSet(f, T) + (IF a \in T THEN d ELSE 0)
<1>1. IsFiniteSet(T) BY FS_Subset
<1>2. \A x \in S : g[x] \in Int
  <2>1. g[a] \in Int OBVIOUS
  <2> QED BY <2>1
<1>3. SumFunctionOnSet(f, T) \in Int BY <1>1, SumInt
<1>4. CASE a \in T
  <2>1. SumFunctionOnSet(g, T) = (SumFunctionOnSet(f, T) - f[a]) + g[a]
    BY <1>1, <1>2, <1>4, SumChange
  <2>2. f[a] \in Int /\ g[a] = f[a] + d OBVIOUS
  <2> QED BY <1>3, <1>4, <2>1, <2>2
<1>5. CASE a \notin T
  <2>1. \A x \in T : g[x] = f[x] BY <1>5
  <2>2. SumFunctionOnSet(g, T) = SumFunctionOnSet(f, T) BY <1>1, <2>1, SumSame
  <2> QED BY <1>3, <1>5, <2>2
<1> QED BY <1>3, <1>4, <1>5

\* The same for the whole.
LEMMA SumAddWhole ==
    ASSUME NEW S, IsFiniteSet(S), NEW f, \A x \in S : f[x] \in Int, NEW a \in S, NEW d \in Int,
           NEW g, g[a] = f[a] + d, \A x \in S : x # a => g[x] = f[x]
    PROVE  /\ SumFunctionOnSet(f, S) \in Int
           /\ SumFunctionOnSet(g, S) = SumFunctionOnSet(f, S) + d
BY SumAdd
=============================================================================
