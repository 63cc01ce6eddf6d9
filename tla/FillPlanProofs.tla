---------------------------- MODULE FillPlanProofs ----------------------------
(***************************************************************************)
(* Where the I/Os of iofill are, for all parameters: in their region, never *)
(* two across each other, and the region is filled.                        *)
(***************************************************************************)
EXTENDS FillPlan, Arithmetic

-----------------------------------------------------------------------------
(***************************************************************************)
(* The region.                                                             *)
(***************************************************************************)
IosType == [off : 0 .. Word - 1, size : 0 .. Uint - 1]

LEMMA CommandType ==
    ASSUME NEW c \in Commands
    PROVE  /\ c.size \in Nat /\ c.size >= 1 /\ c.size < Uint /\ c.nio \in Nat /\ c.nio >= 1
           /\ c.nrep \in Nat /\ c.nrep >= 1
           /\ c.skip \in Nat /\ c.seekoff \in Nat /\ c.headersz \in Nat
           /\ c.minoff \in Nat /\ c.maxoff \in Nat /\ c.multiplier \in Nat
           /\ c.minoff < Word /\ c.maxoff < Word
           /\ Word \in Nat \ {0} /\ Uint \in Nat \ {0} /\ Uint <= Word
BY CommandsAssumption, WidthAssumption

LEMMA HeaderType ==
    ASSUME NEW c \in Commands
    PROVE  Headersz(c) \in 0 .. c.size
BY CommandType DEF Headersz

LEMMA BlksType ==
    ASSUME NEW c \in Commands
    PROVE  /\ Minblks(c) \in Nat /\ Maxblks(c) \in Nat
           /\ Minblks(c) * c.size \in Nat /\ Maxblks(c) * c.size \in Nat
           /\ Minblks(c) * c.size <= c.minoff
           /\ Maxblks(c) # Minblks(c)
           /\ \/ Maxblks(c) * c.size <= c.maxoff
              \/ Maxblks(c) = 1
              \/ Maxblks(c) = Minblks(c) + 1
<1> USE CommandType
<1>1. /\ c.minoff \div c.size \in Nat /\ (c.minoff \div c.size) * c.size <= c.minoff
      /\ c.maxoff \div c.size \in Nat /\ (c.maxoff \div c.size) * c.size <= c.maxoff
  BY Quotient
<1>2. Minblks(c) \in Nat /\ Maxblks(c) \in Nat BY <1>1 DEF Minblks, Maxblks
<1>3. Minblks(c) * c.size \in Nat /\ Maxblks(c) * c.size \in Nat BY <1>2, ProductMonotone
<1>4. Minblks(c) * c.size <= c.minoff BY <1>1 DEF Minblks
<1>5. Maxblks(c) # Minblks(c) BY <1>1, <1>2 DEF Maxblks
<1>6. \/ Maxblks(c) = c.maxoff \div c.size
      \/ Maxblks(c) = 1
      \/ Maxblks(c) = Minblks(c) + 1
  BY <1>1, <1>2 DEF Maxblks
<1> QED BY <1>1, <1>2, <1>3, <1>4, <1>5, <1>6

\* The length of the region is never 0, in whatever order minoff and maxoff are.
LEMMA RangeNonzero ==
    ASSUME NEW c \in Commands
    PROVE  Rangeoff(c) \in Nat /\ Rangeoff(c) # 0
<1> USE CommandType
<1> DEFINE s == c.size
           lo == Minblks(c)
           hi == Maxblks(c)
           d == (hi - lo) * s
<1>1. /\ s \in Nat /\ 1 <= s /\ s < Word /\ lo \in Nat /\ hi \in Nat /\ hi # lo
      /\ lo * s \in Nat /\ lo * s < Word /\ hi * s \in Nat
      /\ hi * s < Word \/ hi = 1 \/ hi = lo + 1
  BY BlksType
<1>a. Word \in Nat \ {0} OBVIOUS
<1> HIDE DEF s, lo, hi
<1>2. d = hi * s - lo * s /\ d \in Int BY <1>1
<1>3. d < Word
  <2>1. CASE hi * s < Word BY <1>1, <1>2, <1>a, <2>1
  <2>2. CASE hi = 1
    <3>1. hi * s = s BY <1>1, <2>2
    <3> QED BY <1>1, <1>2, <1>a, <3>1
  <2>3. CASE hi = lo + 1
    <3>1. hi * s = lo * s + s BY <1>1, <2>3
    <3> QED BY <1>1, <1>2, <1>a, <3>1
  <2> QED BY <1>1, <2>1, <2>2, <2>3
<1>4. 0 - Word < d BY <1>1, <1>2, <1>a
<1>5. d # 0
  <2>1. CASE hi < lo
    <3>1. hi + 1 \in Nat /\ hi + 1 <= lo BY <1>1, <2>1
    <3>2. (hi + 1) * s <= lo * s BY <1>1, <3>1, ProductMonotone
    <3>3. (hi + 1) * s = hi * s + s BY <1>1
    <3> QED BY <1>1, <1>2, <3>2, <3>3
  <2>2. CASE lo < hi
    <3>1. lo + 1 \in Nat /\ lo + 1 <= hi BY <1>1, <2>2
    <3>2. (lo + 1) * s <= hi * s BY <1>1, <3>1, ProductMonotone
    <3>3. (lo + 1) * s = lo * s + s BY <1>1
    <3> QED BY <1>1, <1>2, <3>2, <3>3
  <2> QED BY <1>1, <2>1, <2>2
<1> HIDE DEF d
<1>6. d % Word \in Nat BY <1>2, <1>a
<1>7. d % Word # 0
  <2>1. CASE 0 < d
    <3>1. d \in 0 .. Word - 1 BY <1>2, <1>3, <1>a, <2>1
    <3>2. d % Word = d BY <1>a, <3>1, RemainderSmall
    <3> QED BY <2>1, <3>2
  <2>2. CASE d < 0
    <3>1. d + Word \in 0 .. Word - 1 /\ d + Word # 0 BY <1>2, <1>4, <1>a, <2>2
    <3>2. (0 - 1) * Word + (d + Word) = d BY <1>2, <1>a
    <3>3. ((0 - 1) * Word + (d + Word)) % Word = d + Word
      <4> DEFINE x == d + Word
      <4>1. x \in 0 .. Word - 1 /\ 0 - 1 \in Int BY <3>1
      <4> HIDE DEF x
      <4>2. ((0 - 1) * Word + x) % Word = x BY <1>a, <4>1, RemainderUnique
      <4> QED BY <4>2 DEF x
    <3> QED BY <3>1, <3>2, <3>3
  <2> QED BY <1>2, <1>5, <2>1, <2>2
<1> QED BY <1>6, <1>7 DEF Rangeoff, d, s, lo, hi

\* Below 2^64 the region is what it says: at least a block, and at most one more than
\* there is between minoff and maxoff.
LEMMA RangeType ==
    ASSUME NEW c \in Commands, Fits(c)
    PROVE  /\ Rangeoff(c) = (Maxblks(c) - Minblks(c)) * c.size
           /\ Rangeoff(c) \in Nat /\ Rangeoff(c) >= c.size
           /\ Rangeoff(c) <= c.maxoff - c.minoff + c.size
<1> USE CommandType
<1> DEFINE s == c.size
           lo == c.minoff
           hi == c.maxoff
           m == c.multiplier
<1>1. Minblks(c) \in Nat /\ Maxblks(c) \in Nat BY BlksType
<1>2. /\ lo \in Nat /\ hi \in Nat /\ lo <= hi /\ s \in Nat \ {0} /\ m \in Nat /\ 1 <= m
      /\ lo + (hi - lo + s) * m + s <= Word
  BY DEF Fits, LastEnd
<1>3. /\ lo \div s \in Nat /\ (lo \div s) * s <= lo /\ lo < (lo \div s + 1) * s
      /\ hi \div s \in Nat /\ (hi \div s) * s <= hi /\ lo \div s <= hi \div s
  BY <1>2, Quotient, QuotientMonotone
<1> DEFINE a == lo \div s
           b == hi \div s
           d == (Maxblks(c) - Minblks(c)) * s
<1>4. Maxblks(c) = IF b = a THEN a + 1 ELSE IF b = 0 THEN 1 ELSE b
  BY <1>3 DEF Maxblks, Minblks
<1>4a. Minblks(c) = a BY DEF Minblks
<1>5. /\ a \in Nat /\ b \in Nat /\ a <= b /\ a * s <= lo /\ lo < (a + 1) * s /\ b * s <= hi
  BY <1>3
<1> HIDE DEF s, lo, hi, m, a, b
<1>6. a * s \in Nat /\ b * s \in Nat /\ (a + 1) * s = a * s + s BY <1>2, <1>5
<1>7. d \in Nat /\ s <= d /\ d <= hi - lo + s
  <2>1. CASE b = a
    <3>1. Maxblks(c) - Minblks(c) = 1 BY <1>4, <1>4a, <1>5, <2>1
    <3>2. d = s BY <1>2, <3>1
    <3> QED BY <1>2, <3>2
  <2>2. CASE a < b
    <3>1. Maxblks(c) = b BY <1>4, <1>5, <2>2
    <3>2. d = b * s - a * s BY <1>2, <1>4a, <1>5, <3>1
    <3>3. (a + 1) * s <= b * s
      <4>1. a + 1 \in Nat /\ a + 1 <= b BY <1>5, <2>2
      <4> QED BY <1>2, <1>5, <4>1, ProductMonotone
    <3> QED BY <1>2, <1>5, <1>6, <3>2, <3>3
  <2> QED BY <1>5, <2>1, <2>2
<1> HIDE DEF d
<1>8. d < Word
  <2> DEFINE e == hi - lo + s
  <2>1. e \in Nat BY <1>2
  <2>2. lo + e * m + s <= Word BY <1>2
  <2> HIDE DEF e
  <2>3. 1 * e <= m * e /\ m * e \in Nat BY <1>2, <2>1, ProductMonotone
  <2>4. m * e = e * m BY <1>2, <2>1
  <2>5. e < Word BY <1>2, <2>1, <2>2, <2>3, <2>4
  <2> QED BY <1>2, <1>7, <2>1, <2>5 DEF e
<1>9. d % Word = d
  <2>1. d \in 0 .. Word - 1 BY <1>7, <1>8
  <2> QED BY <2>1, RemainderSmall
<1> QED BY <1>7, <1>9 DEF Rangeoff, d, s, lo, hi

LEMMA EndType ==
    ASSUME NEW c \in Commands, Fits(c)
    PROVE  /\ RegionEnd(c) = c.minoff + Rangeoff(c) * c.multiplier
           /\ RegionEnd(c) \in Nat /\ RegionEnd(c) + c.size <= Word
           /\ RegionEnd(c) <= LastEnd(c)
<1> USE CommandType, RangeType
<1> DEFINE e == c.maxoff - c.minoff + c.size
           rng == Rangeoff(c)
           m == c.multiplier
           lo == c.minoff
           s == c.size
<1>1. /\ e \in Nat /\ rng \in Nat /\ rng <= e /\ m \in Nat /\ lo \in Nat /\ s \in Nat /\ 1 <= s
      /\ Word \in Nat \ {0} /\ lo + e * m + s <= Word /\ LastEnd(c) = lo + e * m
  BY DEF Fits, LastEnd
<1> HIDE DEF e, rng, m, lo, s
<1>2. rng * m <= e * m /\ rng * m \in Nat /\ e * m \in Nat BY <1>1, ProductMonotone
<1> DEFINE x == lo + rng * m
<1>3. x \in 0 .. Word - 1 BY <1>1, <1>2
<1>4. x % Word = x
  <2> HIDE DEF x
  <2> QED BY <1>1, <1>3, RemainderSmall
<1>5. RegionEnd(c) = x BY <1>4 DEF RegionEnd, rng, m, lo
<1> QED BY <1>1, <1>2, <1>5 DEF rng, m, lo, s

\* The whole blocks between two offsets are longer than what is between them by the
\* difference of their places in their blocks.
LEMMA BlocksBetween ==
    ASSUME NEW lo \in Nat, NEW hi \in Nat, NEW s \in Nat \ {0}, lo + s <= hi
    PROVE  /\ lo \div s < hi \div s /\ lo % s \in Nat /\ hi % s \in Nat
           /\ (hi \div s - lo \div s) * s = hi - lo + ((lo % s) - (hi % s))
<1> DEFINE a == lo \div s
           b == hi \div s
           x == lo % s
           y == hi % s
<1>1. /\ a \in Nat /\ lo = a * s + x /\ x \in Nat /\ a * s <= lo
      /\ b \in Nat /\ hi = b * s + y /\ y \in Nat /\ hi < (b + 1) * s
  BY Quotient, Remainder
<1> HIDE DEF a, b, x, y
<1>2. a < b
  <2> SUFFICES ASSUME b <= a PROVE FALSE BY <1>1
  <2>1. (b + 1) * s <= (a + 1) * s BY <1>1, ProductMonotone
  <2>2. (a + 1) * s = a * s + s /\ a * s \in Nat /\ (b + 1) * s \in Nat
    BY <1>1, ProductMonotone
  <2> QED BY <1>1, <2>1, <2>2
<1>3. a * s \in Nat /\ b * s \in Nat /\ (b - a) * s = b * s - a * s BY <1>1
<1>4. (b - a) * s = hi - lo + (x - y) BY <1>1, <1>3
<1> QED BY <1>1, <1>2, <1>4 DEF a, b, x, y

\* A factor keeps the order of two lengths.
LEMMA Stretched ==
    ASSUME NEW r \in Nat, NEW d \in Nat, NEW m \in Nat, 1 <= m,
           NEW x \in Nat, NEW y \in Nat, r = d + (x - y)
    PROVE  r * m <= d * m <=> x <= y
<1>1. r * m \in Nat /\ d * m \in Nat BY ProductMonotone
<1>2. ASSUME x <= y PROVE r * m <= d * m
  <2>1. r <= d BY <1>2
  <2> QED BY <2>1, ProductMonotone
<1>3. ASSUME y < x PROVE d * m < r * m
  <2>1. d + 1 <= r /\ d + 1 \in Nat BY <1>3
  <2>2. (d + 1) * m <= r * m BY <2>1, ProductMonotone
  <2>3. (d + 1) * m = d * m + m OBVIOUS
  <2> QED BY <1>1, <2>2, <2>3
<1> QED BY <1>1, <1>2, <1>3

\* With a block between minoff and maxoff, the region ends behind maxoff exactly if
\* minoff lies further into its block.
LEMMA EndsByMaxoff ==
    ASSUME NEW c \in Commands, Fits(c), c.minoff + c.size <= c.maxoff
    PROVE  RegionEnd(c) <= MaxEnd(c) <=> c.minoff % c.size <= c.maxoff % c.size
<1> DEFINE s == c.size
           lo == c.minoff
           hi == c.maxoff
           m == c.multiplier
           r == Rangeoff(c)
           d == hi - lo
<1>1. /\ lo \in Nat /\ hi \in Nat /\ s \in Nat \ {0} /\ lo + s <= hi
      /\ m \in Nat /\ 1 <= m /\ r \in Nat
  BY CommandType, RangeType DEF Fits
<1>2. r = (Maxblks(c) - Minblks(c)) * s BY RangeType
<1>3. Minblks(c) = lo \div s BY DEF Minblks
<1>4. Maxblks(c) = IF hi \div s = 0 THEN (IF 1 = lo \div s THEN 2 ELSE 1)
                   ELSE IF hi \div s = lo \div s THEN hi \div s + 1 ELSE hi \div s
  BY <1>3 DEF Maxblks
<1>5. RegionEnd(c) = lo + r * m /\ MaxEnd(c) = lo + d * m BY EndType DEF MaxEnd
<1> HIDE DEF s, lo, hi, m, r
<1>6. /\ lo \div s < hi \div s /\ lo % s \in Nat /\ hi % s \in Nat
      /\ (hi \div s - lo \div s) * s = d + ((lo % s) - (hi % s))
  BY <1>1, BlocksBetween
<1>7. lo \div s \in Nat /\ hi \div s \in Nat BY <1>1, Quotient
<1>8. Maxblks(c) = hi \div s BY <1>4, <1>6, <1>7
<1>9. r = d + ((lo % s) - (hi % s)) BY <1>2, <1>3, <1>6, <1>8
<1>10. d \in Nat BY <1>1
<1> HIDE DEF d
<1>11. r * m <= d * m <=> lo % s <= hi % s BY <1>1, <1>6, <1>9, <1>10, Stretched
<1>12. r * m \in Nat /\ d * m \in Nat BY <1>1, <1>10, ProductMonotone
<1>13. RegionEnd(c) <= MaxEnd(c) <=> r * m <= d * m BY <1>1, <1>5, <1>12
<1>14. RegionEnd(c) <= MaxEnd(c) <=> lo % s <= hi % s BY <1>11, <1>13
<1> QED BY <1>14 DEF lo, hi, s

\* Every byte of the fill has its place in the region.
LEMMA PlaceType ==
    ASSUME NEW c \in Commands, Fits(c), NEW x \in Nat
    PROVE  /\ Place(c, x) = c.minoff + (x % Rangeoff(c)) * c.multiplier
           /\ Place(c, x) \in Nat /\ c.minoff <= Place(c, x) /\ Place(c, x) < RegionEnd(c)
<1> USE CommandType, RangeType
<1> DEFINE y == x % Rangeoff(c)
<1>1. Rangeoff(c) \in Nat \ {0} OBVIOUS
<1>2. y \in Nat /\ y + 1 <= Rangeoff(c) BY <1>1
<1>a. c.multiplier >= 1 BY DEF Fits
<1> HIDE DEF y
<1>3. (y + 1) * c.multiplier <= Rangeoff(c) * c.multiplier
      /\ Rangeoff(c) * c.multiplier \in Nat
  BY <1>2, ProductMonotone
<1>4. (y + 1) * c.multiplier = y * c.multiplier + c.multiplier BY <1>2
<1>5. y * c.multiplier \in Nat BY <1>2, ProductMonotone
<1>6. y * c.multiplier < Rangeoff(c) * c.multiplier BY <1>3, <1>4, <1>5, <1>a
<1> DEFINE z == c.minoff + y * c.multiplier
<1>7. z \in Nat /\ c.minoff <= z /\ z < RegionEnd(c) BY <1>3, <1>5, <1>6, EndType
<1>8. z \in 0 .. Word - 1 BY <1>7, EndType
<1> HIDE DEF z
<1>9. z % Word = z BY <1>8, RemainderSmall
<1> QED BY <1>7, <1>9 DEF Place, y, z

\* A block ends before 2^64, and what is cut off is less than a block.
LEMMA ClippedType ==
    ASSUME NEW c \in Commands, Fits(c), NEW off \in Nat, off < RegionEnd(c)
    PROVE  Clipped(c, off) = IF off + c.size > RegionEnd(c) THEN RegionEnd(c) - off ELSE c.size
<1> USE CommandType, EndType
<1> DEFINE x == off + c.size
           y == RegionEnd(c) - off
<1>1. x \in 0 .. Word - 1 BY WidthAssumption
<1>2. x % Word = x
  <2> HIDE DEF x
  <2> QED BY <1>1, RemainderSmall
<1>3. CASE x > RegionEnd(c)
  <2>1. y \in 0 .. Uint - 1 /\ y \in 0 .. Word - 1 BY <1>3
  <2> HIDE DEF y
  <2>2. y % Word = y BY <2>1, RemainderSmall
  <2>3. y % Uint = y BY <2>1, RemainderSmall
  <2> QED BY <1>2, <1>3, <2>2, <2>3 DEF Clipped, y
<1>4. CASE ~(x > RegionEnd(c)) BY <1>2, <1>4 DEF Clipped
<1> QED BY <1>3, <1>4

\* A block of the fill, before it is placed.
LEMMA StartIs ==
    ASSUME NEW c \in Commands, Fits(c), NEW b \in 0 .. c.nio - 1
    PROVE  /\ Stride(c) \in Nat /\ Stride(c) * b \in Nat
           /\ Start(c, b) = c.seekoff + Headersz(c) + Stride(c) * b
<1> USE CommandType, HeaderType
<1>1. Stride(c) \in Nat BY ProductMonotone DEF Stride
<1> DEFINE t == Stride(c)
           n == c.nio
<1>2. t \in Nat /\ n \in Nat /\ b \in Nat /\ b + 1 <= n BY <1>1
<1>3. c.seekoff + c.size + t * n <= Word BY DEF Fits
<1> HIDE DEF t, n
<1>4. (b + 1) * t <= n * t /\ n * t \in Nat BY <1>2, ProductMonotone
<1>5. (b + 1) * t = t * b + t /\ t * b \in Nat /\ n * t = t * n BY <1>2
<1>6. t >= 1
  <2>1. 1 * (1 + c.skip) <= c.size * (1 + c.skip) BY ProductMonotone
  <2> QED BY <1>1, <2>1 DEF t, Stride
<1> DEFINE x == c.seekoff + Headersz(c) + t * b
<1>7. x \in 0 .. Word - 1 BY <1>2, <1>3, <1>4, <1>5, <1>6
<1>8. x % Word = x
  <2> HIDE DEF x
  <2> QED BY <1>7, RemainderSmall
<1> QED BY <1>2, <1>5, <1>8 DEF Start, t

\* Whatever the options are, an I/O has an offset and a size.
LEMMA IosTypes ==
    ASSUME NEW c \in Commands
    PROVE  /\ Header(c) \in IosType
           /\ \A b \in Nat : Block(c, b) \in IosType
<1> USE CommandType, HeaderType, RangeNonzero
<1>1. ASSUME NEW x \in Nat PROVE Place(c, x) \in 0 .. Word - 1
  <2> DEFINE y == x % Rangeoff(c)
  <2>1. y \in Nat OBVIOUS
  <2> HIDE DEF y
  <2>2. y * c.multiplier \in Nat BY <2>1, ProductMonotone
  <2> DEFINE z == c.minoff + y * c.multiplier
  <2>3. z \in Nat BY <2>2
  <2> HIDE DEF z
  <2>4. z % Word \in 0 .. Word - 1 BY <2>3
  <2> QED BY <2>4 DEF Place, y, z
<1>2. ASSUME NEW off \in 0 .. Word - 1 PROVE Clipped(c, off) \in 0 .. Uint - 1
  <2>1. RegionEnd(c) \in Int
    <3>1. Rangeoff(c) * c.multiplier \in Nat BY ProductMonotone
    <3> DEFINE z == c.minoff + Rangeoff(c) * c.multiplier
    <3>2. z \in Nat BY <3>1
    <3> HIDE DEF z
    <3>3. z % Word \in Int BY <3>2
    <3> QED BY <3>3 DEF RegionEnd, z
  <2> DEFINE w == (RegionEnd(c) - off) % Word
  <2>2. w \in Int BY <2>1
  <2> HIDE DEF w
  <2>3. w % Uint \in 0 .. Uint - 1 BY <2>2
  <2> QED BY <2>3 DEF Clipped, w
<1>3. ASSUME NEW b \in Nat PROVE Start(c, b) \in Nat
  <2>1. Stride(c) \in Nat BY ProductMonotone DEF Stride
  <2>2. Stride(c) * b \in Nat BY <2>1, ProductMonotone
  <2> DEFINE z == c.seekoff + Headersz(c) + Stride(c) * b
  <2>3. z \in Nat BY <2>2
  <2> HIDE DEF z
  <2>4. z % Word \in Nat BY <2>3
  <2> QED BY <2>4 DEF Start, z
<1>4. Header(c) \in IosType BY <1>1 DEF Header, IosType
<1>5. ASSUME NEW b \in Nat PROVE Block(c, b) \in IosType
  BY <1>1, <1>2, <1>3 DEF Block, IosType
<1> QED BY <1>4, <1>5

LEMMA BlockInside ==
    ASSUME NEW c \in Commands, Fits(c), NEW b \in Nat
    PROVE  Inside(c, Block(c, b)) /\ Block(c, b) \in [off : Nat, size : Nat]
<1> USE CommandType
<1>1. Start(c, b) \in Nat
  <2>1. Stride(c) \in Nat BY ProductMonotone DEF Stride
  <2>2. Stride(c) * b \in Nat BY <2>1, ProductMonotone
  <2> DEFINE z == c.seekoff + Headersz(c) + Stride(c) * b
  <2>3. z \in Nat BY <2>2, HeaderType
  <2> HIDE DEF z
  <2>4. z % Word \in Nat BY <2>3
  <2> QED BY <2>4 DEF Start, z
<1> DEFINE off == Place(c, Start(c, b))
<1>2. off \in Nat /\ c.minoff <= off /\ off < RegionEnd(c) BY <1>1, PlaceType
<1> HIDE DEF off
<1>3. Clipped(c, off) = IF off + c.size > RegionEnd(c) THEN RegionEnd(c) - off ELSE c.size
  BY <1>2, ClippedType
<1> QED BY <1>2, <1>3, EndType DEF Block, Inside, off

LEMMA HeaderInside ==
    ASSUME NEW c \in Commands, Fits(c), Headersz(c) # 0
    PROVE  /\ SeekFits(c) => Inside(c, Header(c))
           /\ Header(c) \in [off : Nat, size : Nat]
<1> USE CommandType, HeaderType, RangeType
<1> DEFINE y == c.seekoff % Rangeoff(c)
<1>1. Header(c) \in [off : Nat, size : Nat] BY PlaceType DEF Header
<1>2. ASSUME SeekFits(c) PROVE Inside(c, Header(c))
  <2>1. y \in Nat BY DEF y
  <2>2. y + Headersz(c) <= Rangeoff(c) BY <1>2 DEF SeekFits
  <2>a. c.multiplier >= 1 BY DEF Fits
  <2>b. Place(c, c.seekoff) = c.minoff + y * c.multiplier BY PlaceType
  <2>c. RegionEnd(c) = c.minoff + Rangeoff(c) * c.multiplier BY EndType
  <2> HIDE DEF y
  <2>3. (y + Headersz(c)) * c.multiplier <= Rangeoff(c) * c.multiplier
        /\ Rangeoff(c) * c.multiplier \in Nat
    BY <2>1, <2>2, ProductMonotone
  <2>4. (y + Headersz(c)) * c.multiplier = y * c.multiplier + Headersz(c) * c.multiplier
    BY <2>1
  <2>5. Headersz(c) <= Headersz(c) * c.multiplier /\ Headersz(c) * c.multiplier \in Nat
    <3>1. 1 * Headersz(c) <= c.multiplier * Headersz(c)
          /\ c.multiplier * Headersz(c) \in Nat
      BY <2>a, ProductMonotone
    <3> QED BY <3>1
  <2>6. y * c.multiplier \in Nat BY <2>1, ProductMonotone
  <2>7. y * c.multiplier + Headersz(c) <= Rangeoff(c) * c.multiplier
    BY <2>3, <2>4, <2>5, <2>6
  <2>8. c.minoff <= Header(c).off
    /\ Header(c).off + Headersz(c) <= RegionEnd(c)
    BY <2>3, <2>6, <2>7, <2>b, <2>c DEF Header
  <2> QED BY <2>8 DEF Inside, Header
<1> QED BY <1>1, <1>2

-----------------------------------------------------------------------------
(***************************************************************************)
(* The fixed pieces of the region.                                         *)
(***************************************************************************)
\* The I/Os that a fill can consist of.
Blocks(c)  == {Block(c, b) : b \in 0 .. c.nio - 1}
Headers(c) == IF Headersz(c) # 0 THEN {Header(c)} ELSE {}

\* Byte of the fill where block b starts, after turns around the region.
Piece(c, b) == Start(c, b) % Rangeoff(c)

LEMMA StartType ==
    ASSUME NEW c \in Commands, Fits(c), NEW b \in 0 .. c.nio - 1
    PROVE  /\ Stride(c) \in Nat /\ Stride(c) % c.size = 0
           /\ Start(c, b) \in Nat /\ Piece(c, b) \in 0 .. Rangeoff(c) - 1
<1> USE CommandType, HeaderType, RangeType
<1>1. c.size * (1 + c.skip) \in Nat BY ProductMonotone
<1>2. (c.size * (1 + c.skip)) % c.size = 0
  <2>1. ((1 + c.skip) * c.size) % c.size = 0 BY Multiple
  <2>2. (1 + c.skip) * c.size = c.size * (1 + c.skip) OBVIOUS
  <2> QED BY <2>1, <2>2
<1>3. Stride(c) \in Nat /\ Stride(c) % c.size = 0 BY <1>1, <1>2 DEF Stride
<1>5. Start(c, b) \in Nat BY StartIs
<1>6. Rangeoff(c) \in Nat \ {0} /\ Start(c, b) \in Int BY <1>5
<1>7. Piece(c, b) \in 0 .. Rangeoff(c) - 1 BY <1>6, Remainder DEF Piece
<1> QED BY <1>3, <1>5, <1>7

\* Without a seek every block starts a header and a number of whole blocks behind the
\* beginning of the region, in all turns around it.
LEMMA PieceShift ==
    ASSUME NEW c \in Commands, Fits(c), NEW b \in 0 .. c.nio - 1, c.seekoff = 0
    PROVE  (Piece(c, b) - Headersz(c)) % c.size = 0
<1> DEFINE s == c.size
           h == Headersz(c)
           rng == Rangeoff(c)
           x == Start(c, b)
<1>1. /\ s \in Nat \ {0} /\ h \in Int /\ rng \in Nat \ {0} /\ x \in Int
      /\ Stride(c) \in Int /\ Stride(c) % s = 0
  BY CommandType, HeaderType, RangeType, StartType
<1>2. rng % s = 0
  <2>1. Maxblks(c) - Minblks(c) \in Int BY BlksType
  <2> QED BY <1>1, <2>1, Multiple, RangeType
<1>3. (x - h) % s = 0
  <2>a. b \in Int OBVIOUS
  <2>1. (Stride(c) * b) % s = 0
    <3> HIDE DEF s
    <3> QED BY <1>1, <2>a, MultipleProduct
  <2>2. Stride(c) * b \in Int BY <1>1
  <2>3. x - h = Stride(c) * b BY <1>1, <2>2, StartIs
  <2> QED BY <2>1, <2>3
<1> HIDE DEF s, h, rng, x
<1> DEFINE q == x \div rng
           rest == x % rng
<1>4. q \in Int /\ rest \in Int /\ x = q * rng + rest BY <1>1, Remainder
<1> HIDE DEF q, rest
<1>a. rng \in Int BY <1>1
<1>5. (rng * q) % s = 0 /\ rng * q \in Int /\ rng * q = q * rng
  <2>1. (rng * q) % s = 0 BY <1>1, <1>2, <1>4, <1>a, MultipleProduct
  <2> QED BY <1>4, <1>a, <2>1
<1>6. rest - h = (x - h) - rng * q BY <1>1, <1>4, <1>5
<1>7. x - h \in Int BY <1>1
<1>8. ((x - h) - rng * q) % s = 0 BY <1>1, <1>3, <1>5, <1>7, MultipleSum
<1> QED BY <1>6, <1>8 DEF Piece, s, h, rng, x, rest

\* Of two blocks that start at different places, one ends before the other starts.
LEMMA BlocksApart ==
    ASSUME NEW c \in Commands, Fits(c), c.seekoff = 0,
           NEW a \in 0 .. c.nio - 1, NEW b \in 0 .. c.nio - 1,
           Piece(c, a) < Piece(c, b)
    PROVE  Block(c, a).off + Block(c, a).size <= Block(c, b).off
<1> DEFINE x == Piece(c, a)
           y == Piece(c, b)
           s == c.size
           h == Headersz(c)
           m == c.multiplier
<1>1. /\ x \in Nat /\ y \in Nat /\ s \in Nat \ {0} /\ h \in Int /\ m \in Nat /\ m >= 1
      /\ c.minoff \in Nat
  BY CommandType, HeaderType, RangeType, StartType DEF Fits
<1>2. (x - h) % s = 0 /\ (y - h) % s = 0 BY PieceShift
<1>3. Block(c, a).off = c.minoff + x * m /\ Block(c, b).off = c.minoff + y * m
  BY PlaceType, StartType DEF Block, Piece
<1>4. Block(c, a).size <= s /\ Block(c, a).size \in Nat
  BY BlockInside, CommandType DEF Inside
<1>5. x < y OBVIOUS
<1> HIDE DEF x, y, s, h, m
<1>6. (y - x) % s = 0
  <2>1. y - h \in Int /\ x - h \in Int BY <1>1
  <2>2. ((y - h) - (x - h)) % s = 0 BY <1>1, <1>2, <2>1, MultipleSum
  <2>3. (y - h) - (x - h) = y - x BY <1>1
  <2> QED BY <2>2, <2>3
<1>7. x + s <= y
  <2>1. y - x \in Nat /\ 0 < y - x /\ 0 \in Nat BY <1>1, <1>5
  <2>2. 0 % s = 0 BY <1>1
  <2>3. 0 + s <= y - x BY <1>1, <1>6, <2>1, <2>2, MultipleBelow
  <2> QED BY <1>1, <2>3
<1>8. (x + s) * m <= y * m /\ (x + s) * m \in Nat /\ y * m \in Nat
  BY <1>1, <1>7, ProductMonotone
<1>9. (x + s) * m = x * m + s * m /\ x * m \in Nat BY <1>1
<1>10. s <= s * m /\ s * m \in Nat
  <2>1. 1 * s <= m * s /\ m * s \in Nat BY <1>1, ProductMonotone
  <2>2. 1 * s = s /\ m * s = s * m BY <1>1
  <2> QED BY <2>1, <2>2
<1> QED BY <1>1, <1>3, <1>4, <1>8, <1>9, <1>10

\* The header is a piece too: a block is behind it, or is the same bytes.
LEMMA HeaderApart ==
    ASSUME NEW c \in Commands, Fits(c), c.seekoff = 0, Headersz(c) # 0,
           NEW b \in 0 .. c.nio - 1
    PROVE  \/ Header(c).off + Header(c).size <= Block(c, b).off
           \/ Header(c) = Block(c, b)
<1> DEFINE y == Piece(c, b)
           s == c.size
           h == Headersz(c)
           m == c.multiplier
<1>1. /\ y \in Nat /\ s \in Nat \ {0} /\ h \in 1 .. s /\ m \in Nat /\ m >= 1
      /\ c.minoff \in Nat /\ Rangeoff(c) \in Nat /\ Rangeoff(c) >= s
  BY CommandType, HeaderType, RangeType, StartType DEF Fits
<1>2. (y - h) % s = 0 BY PieceShift
<1>3. Block(c, b).off = c.minoff + y * m BY PlaceType, StartType DEF Block, Piece
<1>4. Header(c).off = c.minoff /\ Header(c).size = h
  <2>1. 0 % Rangeoff(c) = 0 BY <1>1
  <2>2. 0 * m = 0 BY <1>1
  <2>3. Place(c, 0) = c.minoff BY <1>1, <2>1, <2>2, PlaceType
  <2> QED BY <2>3 DEF Header
<1>5. CASE h <= y
  <2> HIDE DEF y, s, h, m
  <2>1. h * 1 <= y * m
    <3>1. h * m <= y * m /\ h * m \in Nat BY <1>1, <1>5, ProductMonotone
    <3>2. 1 * h <= m * h BY <1>1, ProductMonotone
    <3>3. m * h = h * m /\ 1 * h = h /\ h * 1 = h BY <1>1
    <3>4. y * m \in Nat BY <1>1
    <3> QED BY <1>1, <3>1, <3>2, <3>3, <3>4
  <2>2. y * m \in Nat BY <1>1
  <2> QED BY <1>1, <1>3, <1>4, <2>1, <2>2
<1>6. CASE y < h
  <2>1. h = s /\ y = 0
    <3> HIDE DEF y, s, h, m
    <3>1. h - y \in 1 .. s BY <1>1, <1>6
    <3>2. (h - y) % s = 0
      <4>1. y - h \in Int /\ 0 \in Int /\ 0 % s = 0 BY <1>1
      <4>2. (0 - (y - h)) % s = 0 BY <1>1, <1>2, <4>1, MultipleSum
      <4>3. 0 - (y - h) = h - y BY <1>1
      <4> QED BY <4>2, <4>3
    <3>3. h - y >= s
      <4>1. h - y \in Nat /\ 0 < h - y /\ 0 \in Nat /\ 0 % s = 0 BY <1>1, <3>1
      <4>2. 0 + s <= h - y BY <1>1, <3>2, <4>1, MultipleBelow
      <4> QED BY <1>1, <4>1, <4>2
    <3> QED BY <1>1, <3>3
  <2>2. Block(c, b).off = c.minoff BY <1>1, <1>3, <2>1
  <2>3. Place(c, Start(c, b)) = c.minoff BY <2>2 DEF Block
  <2>4. c.minoff + s <= RegionEnd(c)
    <3>1. 1 * Rangeoff(c) <= m * Rangeoff(c) BY <1>1, ProductMonotone
    <3>2. m * Rangeoff(c) = Rangeoff(c) * m /\ Rangeoff(c) * m \in Nat BY <1>1
    <3> QED BY <1>1, <3>1, <3>2, EndType
  <2>5. Clipped(c, c.minoff) = s
    <3>1. c.minoff < RegionEnd(c) BY <1>1, <2>4, EndType
    <3> QED BY <1>1, <2>4, <3>1, ClippedType, EndType
  <2>6. Block(c, b) = [off |-> c.minoff, size |-> s] BY <2>3, <2>5 DEF Block
  <2>7. Header(c) = [off |-> c.minoff, size |-> s] BY <1>4, <2>1 DEF Header
  <2> QED BY <2>6, <2>7
<1> QED BY <1>1, <1>5, <1>6

\* Any two I/Os of a fill without a seek.
LEMMA PiecesApart ==
    ASSUME NEW c \in Commands, Fits(c), c.seekoff = 0,
           NEW p \in Blocks(c) \cup Headers(c), NEW q \in Blocks(c) \cup Headers(c),
           Meet(p, q)
    PROVE  p = q
<1>1. ASSUME NEW u \in Blocks(c) \cup Headers(c)
      PROVE  u.off \in Nat /\ u.size \in Nat
  <2>1. CASE u \in Blocks(c) BY <2>1, BlockInside, CommandType DEF Blocks
  <2>2. CASE u \in Headers(c) BY <2>2, HeaderInside DEF Headers
  <2> QED BY <1>1, <2>1, <2>2
<1>2. /\ p.off \in Nat /\ p.size \in Nat /\ q.off \in Nat /\ q.size \in Nat
      /\ ~(p.off + p.size <= q.off) /\ ~(q.off + q.size <= p.off)
  BY <1>1 DEF Meet
<1>3. ASSUME NEW a \in 0 .. c.nio - 1, NEW b \in 0 .. c.nio - 1, p = Block(c, a), q = Block(c, b)
      PROVE  p = q
  <2>1. Piece(c, a) \in Nat /\ Piece(c, b) \in Nat BY StartType, RangeType
  <2>2. ~(Piece(c, a) < Piece(c, b)) BY <1>2, <1>3, BlocksApart
  <2>3. ~(Piece(c, b) < Piece(c, a)) BY <1>2, <1>3, BlocksApart
  <2>4. Piece(c, a) = Piece(c, b) BY <2>1, <2>2, <2>3
  <2>5. Place(c, Start(c, a)) = Place(c, Start(c, b))
    BY <2>4, PlaceType, StartType DEF Piece
  <2> QED BY <1>3, <2>5 DEF Block
<1>4. CASE p \in Headers(c) /\ q \in Blocks(c)
  <2>1. Headersz(c) # 0 /\ p = Header(c) BY <1>4 DEF Headers
  <2>2. PICK b \in 0 .. c.nio - 1 : q = Block(c, b) BY <1>4 DEF Blocks
  <2> QED BY <1>2, <2>1, <2>2, HeaderApart
<1>5. CASE q \in Headers(c) /\ p \in Blocks(c)
  <2>1. Headersz(c) # 0 /\ q = Header(c) BY <1>5 DEF Headers
  <2>2. PICK b \in 0 .. c.nio - 1 : p = Block(c, b) BY <1>5 DEF Blocks
  <2> QED BY <1>2, <2>1, <2>2, HeaderApart
<1>6. CASE p \in Headers(c) /\ q \in Headers(c) BY <1>6 DEF Headers
<1>7. CASE p \in Blocks(c) /\ q \in Blocks(c) BY <1>3, <1>7 DEF Blocks
<1> QED BY <1>4, <1>5, <1>6, <1>7

-----------------------------------------------------------------------------
(***************************************************************************)
(* A fill of as many blocks as the region: which block writes a byte.      *)
(***************************************************************************)
Exact(c) ==
    /\ Fits(c)
    /\ c.seekoff = 0 /\ c.skip = 0 /\ c.multiplier = 1
    /\ Headersz(c) < c.size
    /\ c.nio * c.size = Rangeoff(c)

Bytes(c) == c.minoff .. RegionEnd(c) - 1

\* The number of the block that is claimed when a byte is written.
Turn(c, byte) ==
    IF byte < c.minoff + Headersz(c) THEN 0
    ELSE (byte - c.minoff - Headersz(c)) \div c.size

LEMMA TurnIs ==
    ASSUME NEW c \in Commands, Exact(c), NEW byte \in Bytes(c)
    PROVE  /\ Turn(c, byte) \in 0 .. c.nio - 1
           /\ Covers(Header(c), byte) <=> byte < c.minoff + Headersz(c)
           /\ \A b \in 0 .. c.nio - 1 :
                 Covers(Block(c, b), byte)
                     <=> byte >= c.minoff + Headersz(c) /\ b = Turn(c, byte)
<1> DEFINE s == c.size
           h == Headersz(c)
           rng == Rangeoff(c)
           n == c.nio
           lo == c.minoff
           x == byte - lo
<1>1. /\ s \in Nat \ {0} /\ h \in Nat /\ h < s /\ rng \in Nat /\ rng >= s
      /\ n \in Nat \ {0} /\ lo \in Nat /\ n * s = rng
      /\ c.seekoff = 0 /\ c.skip = 0 /\ c.multiplier = 1
  BY CommandType, HeaderType, RangeType DEF Exact
<1>0. Fits(c) BY DEF Exact
<1>2. RegionEnd(c) = lo + rng
  <2>1. RegionEnd(c) = lo + rng * c.multiplier BY <1>0, EndType
  <2>2. rng * 1 = rng BY <1>1
  <2> QED BY <1>1, <2>1, <2>2
<1>3. byte \in Nat /\ lo <= byte /\ byte < lo + rng /\ x \in Nat /\ x < rng
  BY <1>1, <1>2 DEF Bytes
<1>4. Header(c).off = lo /\ Header(c).size = h
  <2>1. 0 % rng = 0 BY <1>1
  <2>2. 0 * 1 = 0 OBVIOUS
  <2>3. Place(c, 0) = lo BY <1>0, <1>1, <2>1, <2>2, PlaceType
  <2> QED BY <1>1, <2>3 DEF Header
<1>5. Covers(Header(c), byte) <=> byte < lo + h BY <1>1, <1>3, <1>4 DEF Covers
<1>6. byte >= lo + h => Turn(c, byte) = (x - h) \div s BY <1>1, <1>3 DEF Turn
<1>7. ASSUME NEW b \in 0 .. n - 1
      PROVE  Covers(Block(c, b), byte) <=> b * s + h <= x /\ x < (b + 1) * s + h
  <2>1. Stride(c) = s BY <1>1 DEF Stride
  <2>2. b \in Nat /\ s * b = b * s /\ b * s \in Nat /\ (b + 1) * s = b * s + s BY <1>1
  <2>3. Start(c, b) = b * s + h BY <1>0, <1>1, <2>1, <2>2, StartIs
  <2>a. b * s + h \in Nat BY <1>1, <2>2
  <2>4. (b + 1) * s <= rng
    <3>1. b + 1 \in Nat /\ n \in Nat /\ b + 1 <= n /\ s \in Nat BY <1>1
    <3> HIDE DEF s, n
    <3>2. (b + 1) * s <= n * s BY <3>1, ProductMonotone
    <3> QED BY <1>1, <3>2
  <2> HIDE DEF s, h, rng, n, x
  <2>5. b * s + h \in 0 .. rng - 1 BY <1>1, <2>2, <2>4
  <2>6. (b * s + h) % rng = b * s + h
    <3>1. rng \in Nat \ {0} BY <1>1
    <3> DEFINE y == b * s + h
    <3>2. y \in 0 .. rng - 1 BY <2>5
    <3> HIDE DEF y
    <3>3. y % rng = y BY <3>1, <3>2, RemainderSmall
    <3> QED BY <3>3 DEF y
  <2>7. Place(c, Start(c, b)) = lo + (b * s + h)
    <3>1. (b * s + h) * 1 = b * s + h BY <1>1, <2>2
    <3>2. Place(c, b * s + h) = lo + ((b * s + h) % rng) * c.multiplier
      <4> DEFINE y == b * s + h
      <4>1. y \in Nat BY <2>a
      <4> HIDE DEF y
      <4>2. Place(c, y) = lo + (y % rng) * c.multiplier BY <1>0, <4>1, PlaceType DEF lo, rng
      <4> QED BY <4>2 DEF y
    <3> QED BY <1>1, <2>3, <2>6, <3>1, <3>2
  <2> DEFINE off == lo + (b * s + h)
  <2>8. Block(c, b) = [off |-> off, size |-> Clipped(c, off)] BY <2>7 DEF Block
  <2>9. Clipped(c, off) = IF off + s > lo + rng THEN (lo + rng) - off ELSE s
    <3>1. off \in Nat /\ off < RegionEnd(c) BY <1>1, <1>2, <2>2, <2>5
    <3> HIDE DEF off
    <3> QED BY <1>0, <1>2, <3>1, ClippedType DEF s
  <2>10. off \in Nat /\ off < lo + rng BY <1>1, <2>2, <2>5
  <2>11. Covers(Block(c, b), byte) <=> off <= byte /\ byte < off + Clipped(c, off)
    BY <2>8 DEF Covers
  <2> HIDE DEF off
  <2>12. Covers(Block(c, b), byte) <=> off <= byte /\ byte < off + s
    BY <1>1, <1>3, <2>9, <2>10, <2>11
  <2> QED BY <1>1, <1>3, <2>2, <2>12 DEF off, x
<1>8. ASSUME NEW b \in 0 .. n - 1
      PROVE  Covers(Block(c, b), byte) <=> byte >= lo + h /\ b = Turn(c, byte)
  <2>1. CASE byte >= lo + h
    <3>1. x - h \in Nat BY <1>1, <1>3, <2>1
    <3>2. b \in Nat BY <1>1
    <3>3. (x - h) \div s = b <=> b * s <= x - h /\ x - h < (b + 1) * s
      <4> DEFINE y == x - h
      <4>1. y \in Nat BY <3>1
      <4> HIDE DEF y, s
      <4>2. y \div s = b <=> b * s <= y /\ y < (b + 1) * s BY <1>1, <3>2, <4>1, QuotientIs
      <4> QED BY <4>2 DEF y
    <3>4. b * s \in Nat /\ (b + 1) * s \in Nat BY <1>1, <3>2
    <3> HIDE DEF x, s, h
    <3> QED BY <1>1, <1>3, <1>6, <1>7, <2>1, <3>1, <3>3, <3>4
  <2>2. CASE byte < lo + h
    <3>1. b * s \in Nat BY <1>1
    <3> QED BY <1>1, <1>3, <1>7, <2>2, <3>1
  <2> QED BY <1>1, <1>3, <2>1, <2>2
<1>9. Turn(c, byte) \in 0 .. n - 1
  <2>1. CASE byte < lo + h BY <1>1, <2>1 DEF Turn
  <2>2. CASE byte >= lo + h
    <3> DEFINE y == x - h
               q == y \div s
    <3>1. y \in Nat /\ y < rng BY <1>1, <1>3, <2>2
    <3> HIDE DEF y, s, n
    <3>2. q \in Nat /\ q * s <= y BY <1>1, <3>1, Quotient
    <3> HIDE DEF q
    <3>3. q < n
      <4> SUFFICES ASSUME n <= q PROVE FALSE BY <1>1, <3>2
      <4>1. n * s <= q * s BY <1>1, <3>2, ProductMonotone
      <4>2. q * s \in Nat BY <1>1, <3>2
      <4> QED BY <1>1, <3>1, <3>2, <4>1, <4>2
    <3> QED BY <1>1, <1>6, <2>2, <3>2, <3>3 DEF q, y
  <2> QED BY <1>1, <1>3, <2>1, <2>2
<1> QED BY <1>5, <1>8, <1>9

-----------------------------------------------------------------------------
(***************************************************************************)
(* The fill.                                                               *)
(***************************************************************************)
WritesIn(list, byte) == {n \in 1 .. Len(list) : Covers(list[n], byte)}

Writes(byte) == WritesIn(ios, byte)

\* The fill is r blocks into repetition q.
At(q, r) ==
    /\ bno = q * cmd.nio + r
    /\ Len(ios) <= bno + q + (IF r = 0 THEN 0 ELSE 1)
    /\ Exact(cmd) => \A byte \in Bytes(cmd) :
          Cardinality(Writes(byte)) = q + (IF Turn(cmd, byte) < r THEN 1 ELSE 0)

IInv ==
    /\ cmd \in Commands /\ bno \in 0 .. Totalio(cmd)
    /\ ios \in Seq(IosType) /\ bno <= Len(ios)
    /\ \A n \in 1 .. Len(ios) : ios[n] \in Blocks(cmd) \cup Headers(cmd)
    /\ \E q \in Nat, r \in 0 .. cmd.nio - 1 : At(q, r)

LEMMA TotalType ==
    ASSUME NEW c \in Commands
    PROVE  /\ Totalio(c) \in Nat /\ Totalio(c) <= c.nrep * c.nio
           /\ Fits(c) => Totalio(c) = c.nrep * c.nio
<1> USE CommandType
<1> DEFINE n == c.nio * c.nrep
<1>1. n \in Nat /\ n = c.nrep * c.nio BY ProductMonotone
<1>2. Word \in Nat \ {0} OBVIOUS
<1>3. Fits(c) => n \in 0 .. Word - 1 BY <1>1 DEF Fits
<1>4. Totalio(c) = n % Word BY DEF Totalio
<1> HIDE DEF n
<1>5. n % Word \in Nat /\ n % Word <= n
  <2>a. n \in Int /\ n \in Nat BY <1>1
  <2>b. n \div Word \in Nat BY <1>2, <2>a, Quotient
  <2>1. /\ n % Word \in 0 .. Word - 1
        /\ n = (n \div Word) * Word + (n % Word)
    BY <1>2, <2>a, Remainder
  <2> DEFINE k == n \div Word
             rest == n % Word
  <2>2. k \in Nat /\ rest \in Nat /\ n = k * Word + rest BY <1>2, <2>1, <2>b
  <2> HIDE DEF k, rest
  <2>3. k * Word \in Nat BY <1>2, <2>2
  <2> QED BY <1>1, <2>2, <2>3 DEF rest
<1>6. Fits(c) => n % Word = n BY <1>2, <1>3, RemainderSmall
<1> QED BY <1>1, <1>4, <1>5, <1>6

LEMMA InvInit == Init => IInv
<1> SUFFICES ASSUME Init PROVE IInv OBVIOUS
<1>1. cmd \in Commands /\ bno = 0 /\ ios = <<>> BY DEF Init
<1>2. Totalio(cmd) \in Nat BY <1>1, TotalType
<1>3. cmd.nio \in Nat /\ cmd.nio >= 1 BY <1>1, CommandType
<1>4. At(0, 0)
  <2>1. 0 * cmd.nio = 0 BY <1>3
  <2>2. ASSUME Exact(cmd), NEW byte \in Bytes(cmd)
        PROVE  Cardinality(Writes(byte)) = 0 + (IF Turn(cmd, byte) < 0 THEN 1 ELSE 0)
    <3>1. Turn(cmd, byte) \in 0 .. cmd.nio - 1 BY <1>1, <2>2, TurnIs
    <3>2. Writes(byte) = {} BY <1>1 DEF Writes, WritesIn
    <3>3. Cardinality(Writes(byte)) = 0 BY <3>2, FS_EmptySet
    <3> QED BY <1>3, <3>1, <3>3
  <2> QED BY <1>1, <2>1, <2>2 DEF At
<1>5. 0 \in Nat /\ 0 \in 0 .. cmd.nio - 1 BY <1>3
<1> QED BY <1>1, <1>2, <1>4, <1>5 DEF IInv

\* Two elements more, or one.
LEMMA AppendTwo ==
    ASSUME NEW T, NEW s \in Seq(T), NEW x \in T, NEW y \in T
    PROVE  /\ s \o <<x, y>> \in Seq(T) /\ Len(s \o <<x, y>>) = Len(s) + 2
           /\ (s \o <<x, y>>)[Len(s) + 1] = x /\ (s \o <<x, y>>)[Len(s) + 2] = y
           /\ \A n \in 1 .. Len(s) : (s \o <<x, y>>)[n] = s[n]
OBVIOUS

LEMMA AppendOne ==
    ASSUME NEW T, NEW s \in Seq(T), NEW x \in T
    PROVE  /\ s \o <<x>> \in Seq(T) /\ Len(s \o <<x>>) = Len(s) + 1
           /\ (s \o <<x>>)[Len(s) + 1] = x
           /\ \A n \in 1 .. Len(s) : (s \o <<x>>)[n] = s[n]
OBVIOUS

Grown(c, b, list, more) ==
    /\ more \in Seq(IosType)
    /\ Len(more) = Len(list) + 1 \/ (b = 0 /\ Len(more) = Len(list) + 2)
    /\ \A n \in 1 .. Len(more) :
          \/ n <= Len(list) /\ more[n] = list[n]
          \/ n > Len(list) /\ more[n] \in Blocks(c) \cup Headers(c)
    /\ Exact(c) => \A byte \in Bytes(c) :
          Cardinality(WritesIn(more, byte)) =
              Cardinality(WritesIn(list, byte)) + (IF Turn(c, byte) = b THEN 1 ELSE 0)

\* What a claimed block adds to the I/Os: itself, and a header at the beginning of a
\* repetition; it writes a byte if the byte's turn has come.
LEMMA FillAdds ==
    ASSUME NEW c \in Commands, NEW b \in 0 .. c.nio - 1, NEW list \in Seq(IosType),
           NEW more, more = list \o IosOf(c, b)
    PROVE  Grown(c, b, list, more)
<1> DEFINE len == Len(list)
           W(l, byte) == WritesIn(l, byte)
           blk == Block(c, b)
           hdr == Header(c)
<1>a. b \in Nat /\ c.nio \in Nat BY CommandType
<1>1. blk \in IosType /\ blk \in Blocks(c) BY <1>a, IosTypes DEF Blocks
<1>2. Headersz(c) # 0 => hdr \in IosType /\ hdr \in Headers(c)
  BY IosTypes DEF Headers
<1>3. len \in Nat OBVIOUS
<1>4. ASSUME NEW byte
      PROVE  IsFiniteSet(W(list, byte)) /\ Cardinality(W(list, byte)) \in Nat
             /\ len + 1 \notin W(list, byte) /\ len + 2 \notin W(list, byte)
  <2>1. W(list, byte) \subseteq 1 .. len BY DEF WritesIn
  <2> HIDE DEF W
  <2>2. IsFiniteSet(W(list, byte))
    <3>1. IsFiniteSet(1 .. len) BY <1>3, FS_Interval
    <3> QED BY <2>1, <3>1, FS_Subset
  <2> QED BY <1>3, <2>1, <2>2, FS_CardinalityType
<1>5. CASE b = 0 /\ Headersz(c) # 0
  <2>1. more = list \o <<hdr, blk>> BY <1>5 DEF IosOf
  <2>2. hdr \in IosType /\ blk \in IosType BY <1>1, <1>2, <1>5
  <2> HIDE DEF hdr, blk
  <2>3. /\ more \in Seq(IosType) /\ Len(more) = len + 2
        /\ more[len + 1] = hdr /\ more[len + 2] = blk
        /\ \A n \in 1 .. len : more[n] = list[n]
    BY <2>1, <2>2, AppendTwo
  <2>4. ASSUME Exact(c), NEW byte \in Bytes(c)
        PROVE  Cardinality(W(more, byte)) =
                   Cardinality(W(list, byte)) + (IF Turn(c, byte) = b THEN 1 ELSE 0)
    <3>1. /\ Covers(hdr, byte) <=> byte < c.minoff + Headersz(c)
          /\ Covers(blk, byte) <=> byte >= c.minoff + Headersz(c) /\ b = Turn(c, byte)
      BY <2>4, TurnIs DEF hdr, blk
    <3>2. W(more, byte) = W(list, byte) \cup {n \in {len + 1} : Covers(hdr, byte)}
                                        \cup {n \in {len + 2} : Covers(blk, byte)}
      <4>1. 1 .. Len(more) = (1 .. len) \cup {len + 1, len + 2} BY <2>3
      <4>2. \A n \in 1 .. len : Covers(more[n], byte) <=> Covers(list[n], byte) BY <2>3
      <4> QED BY <2>3, <4>1, <4>2 DEF WritesIn
    <3> HIDE DEF W
    <3>3. byte \in Nat /\ c.minoff + Headersz(c) \in Nat
      BY CommandType, HeaderType DEF Bytes
    <3>4. CASE byte < c.minoff + Headersz(c)
      <4>1. Covers(hdr, byte) /\ ~Covers(blk, byte) BY <3>1, <3>3, <3>4
      <4>2. Turn(c, byte) = b BY <1>5, <3>4 DEF Turn
      <4>3. W(more, byte) = W(list, byte) \cup {len + 1} BY <3>2, <4>1
      <4>4. Cardinality(W(list, byte) \cup {len + 1}) = Cardinality(W(list, byte)) + 1
        BY <1>4, FS_AddElement
      <4> QED BY <4>2, <4>3, <4>4
    <3>5. CASE byte >= c.minoff + Headersz(c) /\ b = Turn(c, byte)
      <4>1. ~Covers(hdr, byte) /\ Covers(blk, byte) BY <3>1, <3>3, <3>5
      <4>2. W(more, byte) = W(list, byte) \cup {len + 2} BY <3>2, <4>1
      <4>3. Cardinality(W(list, byte) \cup {len + 2}) = Cardinality(W(list, byte)) + 1
        BY <1>4, FS_AddElement
      <4> QED BY <3>5, <4>2, <4>3
    <3>6. CASE byte >= c.minoff + Headersz(c) /\ b # Turn(c, byte)
      <4>1. ~Covers(hdr, byte) /\ ~Covers(blk, byte) BY <3>1, <3>3, <3>6
      <4>2. W(more, byte) = W(list, byte) BY <3>2, <4>1
      <4> QED BY <1>4, <3>6, <4>2
    <3> QED BY <3>3, <3>4, <3>5, <3>6
  <2>5. ASSUME NEW n \in 1 .. Len(more)
        PROVE  \/ n <= len /\ more[n] = list[n]
               \/ n > len /\ more[n] \in Blocks(c) \cup Headers(c)
    <3>1. n \in 1 .. len \/ n = len + 1 \/ n = len + 2 BY <1>3, <2>3
    <3> QED BY <1>1, <1>2, <1>3, <1>5, <2>3, <3>1 DEF blk, hdr
  <2> QED BY <1>5, <2>3, <2>4, <2>5 DEF Grown
<1>6. CASE ~(b = 0 /\ Headersz(c) # 0)
  <2>1. more = list \o <<blk>> BY <1>6 DEF IosOf
  <2>2. blk \in IosType BY <1>1
  <2> HIDE DEF blk, hdr
  <2>3. /\ more \in Seq(IosType) /\ Len(more) = len + 1 /\ more[len + 1] = blk
        /\ \A n \in 1 .. len : more[n] = list[n]
    BY <2>1, <2>2, AppendOne
  <2>4. ASSUME Exact(c), NEW byte \in Bytes(c)
        PROVE  Cardinality(W(more, byte)) =
                   Cardinality(W(list, byte)) + (IF Turn(c, byte) = b THEN 1 ELSE 0)
    <3>1. Covers(blk, byte) <=> byte >= c.minoff + Headersz(c) /\ b = Turn(c, byte)
      BY <2>4, TurnIs DEF blk
    <3>2. W(more, byte) = W(list, byte) \cup {n \in {len + 1} : Covers(blk, byte)}
      <4>1. 1 .. Len(more) = (1 .. len) \cup {len + 1} BY <2>3
      <4>2. \A n \in 1 .. len : Covers(more[n], byte) <=> Covers(list[n], byte) BY <2>3
      <4> QED BY <2>3, <4>1, <4>2 DEF WritesIn
    <3> HIDE DEF W
    <3>3. Covers(blk, byte) <=> Turn(c, byte) = b
      <4>1. byte \in Nat /\ c.minoff \in Nat /\ c.minoff <= byte /\ Headersz(c) \in Nat
        BY CommandType, HeaderType DEF Bytes
      <4>2. byte < c.minoff + Headersz(c) => Turn(c, byte) = 0 /\ Headersz(c) # 0
        BY <4>1 DEF Turn
      <4> QED BY <1>6, <3>1, <4>1, <4>2
    <3>4. CASE Turn(c, byte) = b
      <4>1. W(more, byte) = W(list, byte) \cup {len + 1} BY <3>2, <3>3, <3>4
      <4>2. Cardinality(W(list, byte) \cup {len + 1}) = Cardinality(W(list, byte)) + 1
        BY <1>4, FS_AddElement
      <4> QED BY <3>4, <4>1, <4>2
    <3>5. CASE Turn(c, byte) # b
      <4>1. W(more, byte) = W(list, byte) BY <3>2, <3>3, <3>5
      <4> QED BY <1>4, <3>5, <4>1
    <3> QED BY <3>4, <3>5
  <2>5. ASSUME NEW n \in 1 .. Len(more)
        PROVE  \/ n <= len /\ more[n] = list[n]
               \/ n > len /\ more[n] \in Blocks(c) \cup Headers(c)
    <3>1. n \in 1 .. len \/ n = len + 1 BY <1>3, <2>3
    <3> QED BY <1>1, <1>3, <2>3, <3>1 DEF blk
  <2> QED BY <2>3, <2>4, <2>5 DEF Grown
<1> QED BY <1>5, <1>6

LEMMA FillStep ==
    ASSUME IInv, Fill
    PROVE  IInv'
<1>1. /\ cmd \in Commands /\ bno \in Nat /\ bno < Totalio(cmd)
      /\ ios \in Seq(IosType) /\ cmd' = cmd /\ bno' = bno + 1
      /\ ios' = ios \o IosOf(cmd, bno % cmd.nio)
  BY DEF Fill, IInv
<1>2. PICK q \in Nat, r \in 0 .. cmd.nio - 1 : At(q, r) BY DEF IInv
<1>3. cmd.nio \in Nat \ {0} BY <1>1, CommandType
<1>4. bno % cmd.nio = r
  <2>1. bno = q * cmd.nio + r /\ q \in Int BY <1>2 DEF At
  <2> QED BY <1>3, <2>1, RemainderUnique
<1>5. /\ ios' \in Seq(IosType)
      /\ Len(ios') = Len(ios) + 1 \/ (r = 0 /\ Len(ios') = Len(ios) + 2)
      /\ \A n \in 1 .. Len(ios') :
            \/ n <= Len(ios) /\ ios'[n] = ios[n]
            \/ n > Len(ios) /\ ios'[n] \in Blocks(cmd) \cup Headers(cmd)
      /\ Exact(cmd) => \A byte \in Bytes(cmd) :
            Cardinality(Writes(byte)') =
                Cardinality(Writes(byte)) + (IF Turn(cmd, byte) = r THEN 1 ELSE 0)
  <2>1. ios' = ios \o IosOf(cmd, r) BY <1>1, <1>4
  <2>2. \A byte : Writes(byte)' = WritesIn(ios', byte)
    BY DEF Writes, WritesIn, Covers
  <2>3. r \in 0 .. cmd.nio - 1 /\ ios \in Seq(IosType) BY <1>1
  <2>4. Grown(cmd, r, ios, ios') BY <1>1, <2>1, <2>3, FillAdds
  <2> QED BY <2>2, <2>4 DEF Grown, Writes
<1>6. bno' \in 0 .. Totalio(cmd') /\ bno' <= Len(ios')
  <2>1. bno <= Len(ios) /\ Len(ios) \in Nat BY DEF IInv
  <2> QED BY <1>1, <1>5, <2>1, TotalType
<1>7. \A n \in 1 .. Len(ios') : ios'[n] \in Blocks(cmd') \cup Headers(cmd')
  <2>1. \A n \in 1 .. Len(ios) : ios[n] \in Blocks(cmd) \cup Headers(cmd) BY DEF IInv
  <2>2. ASSUME NEW n \in 1 .. Len(ios')
        PROVE  ios'[n] \in Blocks(cmd) \cup Headers(cmd)
    <3>1. Len(ios) \in Nat BY <1>1
    <3>2. n <= Len(ios) => n \in 1 .. Len(ios) BY <3>1
    <3> QED BY <1>5, <2>1, <3>2
  <2> QED BY <1>1, <2>2
<1>8. \E q1 \in Nat, r1 \in 0 .. cmd'.nio - 1 : At(q1, r1)'
  <2>1. Len(ios) \in Nat /\ Len(ios') \in Nat /\ q * cmd.nio \in Nat
    BY <1>1, <1>3, <1>5
  <2>2. Len(ios) <= bno + q + (IF r = 0 THEN 0 ELSE 1) /\ bno = q * cmd.nio + r
    BY <1>2 DEF At
  <2>3. Len(ios') <= bno' + q + 1
    <3> DEFINE len == Len(ios)
               more == Len(ios')
    <3>1. len \in Nat /\ more \in Nat /\ bno \in Nat /\ bno' = bno + 1
      BY <1>1, <2>1
    <3>2. more = len + 1 \/ (r = 0 /\ more = len + 2) BY <1>5
    <3>3. len <= bno + q + (IF r = 0 THEN 0 ELSE 1) BY <2>2
    <3> HIDE DEF len, more
    <3>4. more <= bno' + q + 1 BY <3>1, <3>2, <3>3
    <3> QED BY <3>4 DEF more
  <2>4. ASSUME Exact(cmd), NEW byte \in Bytes(cmd)
        PROVE  /\ Turn(cmd, byte) \in 0 .. cmd.nio - 1
               /\ Cardinality(Writes(byte)') = q + (IF Turn(cmd, byte) < r + 1 THEN 1 ELSE 0)
    <3>1. Turn(cmd, byte) \in 0 .. cmd.nio - 1 BY <1>1, <2>4, TurnIs
    <3>2. Cardinality(Writes(byte)) = q + (IF Turn(cmd, byte) < r THEN 1 ELSE 0)
      BY <1>2, <2>4 DEF At
    <3>3. Cardinality(Writes(byte)') =
            Cardinality(Writes(byte)) + (IF Turn(cmd, byte) = r THEN 1 ELSE 0)
      BY <1>5, <2>4
    <3> QED BY <1>3, <3>1, <3>2, <3>3
  <2>5. Exact(cmd)' = Exact(cmd) /\ Bytes(cmd)' = Bytes(cmd)
        /\ \A byte : Turn(cmd, byte)' = Turn(cmd, byte)
    BY <1>1 DEF Exact, Bytes, Turn, Headersz, Rangeoff, RegionEnd, Maxblks, Minblks,
                    Fits, LastEnd, Stride
  <2>6. CASE r + 1 < cmd.nio
    <3>0. bno' = q * cmd.nio + (r + 1)
      <4> DEFINE before == q * cmd.nio
      <4>1. before \in Int /\ r \in Int /\ bno = before + r /\ bno' = bno + 1
        BY <1>1, <1>3, <2>1, <2>2
      <4> HIDE DEF before
      <4>2. bno' = before + (r + 1) BY <4>1
      <4> QED BY <4>2 DEF before
    <3>1. bno' = q * cmd'.nio + (r + 1) BY <1>1, <3>0
    <3>2. r + 1 # 0 /\ r + 1 \in 0 .. cmd'.nio - 1 BY <1>1, <1>3, <2>6
    <3>3. At(q, r + 1)' BY <2>3, <2>4, <2>5, <3>1, <3>2 DEF At
    <3> QED BY <3>2, <3>3
  <2>7. CASE r + 1 = cmd.nio
    <3>1. (q + 1) * cmd.nio = q * cmd.nio + cmd.nio BY <1>3
    <3>0. bno' = (q + 1) * cmd.nio + 0
      <4> DEFINE before == q * cmd.nio
                 after  == (q + 1) * cmd.nio
      <4>1. /\ before \in Int /\ r \in Int /\ bno = before + r /\ bno' = bno + 1
            /\ cmd.nio \in Int
        BY <1>1, <1>3, <2>1, <2>2
      <4>2. after = before + cmd.nio BY <3>1
      <4> HIDE DEF before, after
      <4>3. bno' = after + 0 BY <2>7, <4>1, <4>2
      <4> QED BY <4>3 DEF after
    <3>2. bno' = (q + 1) * cmd'.nio + 0 BY <1>1, <3>0
    <3>3. Len(ios') <= bno' + (q + 1) + 0 BY <1>1, <2>1, <2>3
    <3>4. ASSUME Exact(cmd), NEW byte \in Bytes(cmd)
          PROVE  Cardinality(Writes(byte)')
                     = (q + 1) + (IF Turn(cmd, byte) < 0 THEN 1 ELSE 0)
      BY <1>3, <2>4, <2>7, <3>4
    <3>5. At(q + 1, 0)' BY <2>5, <3>2, <3>3, <3>4 DEF At
    <3>6. q + 1 \in Nat /\ 0 \in 0 .. cmd'.nio - 1 BY <1>1, <1>3
    <3> QED BY <3>5, <3>6
  <2> QED BY <1>3, <2>6, <2>7
<1> QED BY <1>1, <1>5, <1>6, <1>7, <1>8 DEF IInv

LEMMA InvStep == IInv /\ [Next]_vars => IInv'
<1> SUFFICES ASSUME IInv, [Next]_vars PROVE IInv' OBVIOUS
<1>1. CASE Fill BY <1>1, FillStep
<1>2. CASE UNCHANGED vars
  <2>1. cmd' = cmd /\ bno' = bno /\ ios' = ios BY <1>2 DEF vars
  <2>2. PICK q \in Nat, r \in 0 .. cmd.nio - 1 : At(q, r) BY DEF IInv
  <2>3. \A byte : Writes(byte)' = Writes(byte) BY <2>1 DEF Writes, WritesIn
  <2>4. At(q, r)' BY <2>1, <2>2, <2>3 DEF At
  <2>5. \E q1 \in Nat, r1 \in 0 .. cmd'.nio - 1 : At(q1, r1)' BY <2>1, <2>4
  <2> QED BY <2>1, <2>5 DEF IInv
<1> QED BY <1>1, <1>2 DEF Next, Filled

THEOREM Invariant == Spec => []IInv
<1>1. Init => IInv BY InvInit
<1>2. IInv /\ [Next]_vars => IInv' BY InvStep
<1> QED BY <1>1, <1>2, PTL DEF Spec

-----------------------------------------------------------------------------
(***************************************************************************)
(* The properties.                                                         *)
(***************************************************************************)
\* The number of repetitions that have begun, at most nrep.
LEMMA Repetitions ==
    ASSUME IInv, NEW q \in Nat, NEW r \in 0 .. cmd.nio - 1, At(q, r)
    PROVE  /\ q + (IF r = 0 THEN 0 ELSE 1) <= cmd.nrep
           /\ bno = Totalio(cmd) /\ Fits(cmd) => q = cmd.nrep /\ r = 0
<1>1. /\ cmd \in Commands /\ cmd.nio \in Nat \ {0} /\ cmd.nrep \in Nat
      /\ bno \in 0 .. Totalio(cmd) /\ Totalio(cmd) \in Nat
      /\ Totalio(cmd) <= cmd.nrep * cmd.nio
      /\ Fits(cmd) => Totalio(cmd) = cmd.nrep * cmd.nio
  BY CommandType, TotalType DEF IInv
<1> DEFINE n == cmd.nio
           k == cmd.nrep
<1>2. q * n + r <= k * n /\ q * n \in Nat /\ k * n \in Nat
  <2>1. bno = q * n + r BY DEF At
  <2>2. q * n \in Nat /\ k * n \in Nat BY <1>1
  <2> QED BY <1>1, <2>1, <2>2
<1>3. bno = Totalio(cmd) /\ Fits(cmd) => q * n + r = k * n BY <1>1 DEF At
<1>4. n \in Nat /\ n >= 1 /\ k \in Nat /\ r \in 0 .. n - 1 BY <1>1
<1> HIDE DEF n, k
<1>5. q <= k
  <2> SUFFICES ASSUME k + 1 <= q PROVE FALSE BY <1>4
  <2>1. (k + 1) * n <= q * n BY <1>4, ProductMonotone
  <2>2. (k + 1) * n = k * n + n BY <1>4
  <2> QED BY <1>2, <1>4, <2>1, <2>2
<1>6. r # 0 => q < k BY <1>2, <1>4, <1>5
<1>7. q * n + r = k * n => q = k /\ r = 0
  <2> SUFFICES ASSUME q * n + r = k * n, q < k PROVE FALSE BY <1>2, <1>4, <1>5
  <2>1. (q + 1) * n <= k * n BY <1>4, ProductMonotone
  <2>2. (q + 1) * n = q * n + n BY <1>4
  <2> QED BY <1>2, <1>4, <2>1, <2>2
<1> QED BY <1>3, <1>4, <1>5, <1>6, <1>7 DEF k

\* A block number is claimed below totalio only, and each gives an I/O, or two at the
\* beginning of a repetition.
THEOREM TypeCorrect == Spec => []TypeOK
<1>1. IInv => TypeOK
  <2> SUFFICES ASSUME IInv PROVE TypeOK OBVIOUS
  <2>1. PICK q \in Nat, r \in 0 .. cmd.nio - 1 : At(q, r) BY DEF IInv
  <2>2. q + (IF r = 0 THEN 0 ELSE 1) <= cmd.nrep BY <2>1, Repetitions
  <2>3. Len(ios) <= bno + q + (IF r = 0 THEN 0 ELSE 1) BY <2>1 DEF At
  <2>4. cmd.nrep \in Nat /\ bno \in Nat /\ Len(ios) \in Nat
    BY CommandType, TotalType DEF IInv
  <2>5. Len(ios) <= bno + cmd.nrep BY <2>2, <2>3, <2>4
  <2> QED BY <2>5 DEF IInv, TypeOK, IosType
<1> QED BY <1>1, Invariant, PTL

\* If the options are in order and no sum reaches 2^64, no I/O of a fill is empty or
\* too large, and none leaves the region, which ends at most a block behind maxoff, and
\* behind it exactly if minoff lies further into its block.
THEOREM Region == Spec => []InRegion
<1>1. IInv => InRegion
  <2> SUFFICES ASSUME IInv, Fits(cmd), SeekFits(cmd)
               PROVE  /\ RegionEnd(cmd) <= LastEnd(cmd)
                      /\ cmd.minoff + cmd.size <= cmd.maxoff =>
                            (RegionEnd(cmd) <= MaxEnd(cmd)
                                <=> cmd.minoff % cmd.size <= cmd.maxoff % cmd.size)
                      /\ \A n \in 1 .. Len(ios) : Inside(cmd, ios[n])
    BY DEF InRegion
  <2>1. cmd \in Commands BY DEF IInv
  <2>2. ASSUME NEW n \in 1 .. Len(ios) PROVE Inside(cmd, ios[n])
    <3>1. ios[n] \in Blocks(cmd) \cup Headers(cmd) BY DEF IInv
    <3> QED BY <2>1, <3>1, BlockInside, HeaderInside, CommandType DEF Blocks, Headers
  <2>3. ASSUME cmd.minoff + cmd.size <= cmd.maxoff
        PROVE  RegionEnd(cmd) <= MaxEnd(cmd)
                  <=> cmd.minoff % cmd.size <= cmd.maxoff % cmd.size
    BY <2>1, <2>3, EndsByMaxoff
  <2> QED BY <2>1, <2>2, <2>3, EndType
<1> QED BY <1>1, Invariant, PTL

\* Without a seek two I/Os are about the same bytes or about different ones.
THEOREM Pieces == Spec => []SameOrApart
<1>1. IInv => SameOrApart
  <2> SUFFICES ASSUME IInv, Fits(cmd), cmd.seekoff = 0, NEW m \in 1 .. Len(ios), NEW n \in 1 .. Len(ios),
                      Meet(ios[m], ios[n])
               PROVE  ios[m] = ios[n]
    BY DEF SameOrApart
  <2> QED BY PiecesApart DEF IInv
<1> QED BY <1>1, Invariant, PTL

\* A fill of as many blocks as the region writes each byte once in each repetition.
THEOREM Fills == Spec => []FillsRegion
<1>1. IInv => FillsRegion
  <2> SUFFICES ASSUME IInv, bno = Totalio(cmd), Exact(cmd), NEW byte \in Bytes(cmd)
               PROVE  Cardinality(Writes(byte)) = cmd.nrep
    BY DEF FillsRegion, Exact, Bytes, Writes, WritesIn
  <2>1. PICK q \in Nat, r \in 0 .. cmd.nio - 1 : At(q, r) BY DEF IInv
  <2>2. q = cmd.nrep /\ r = 0 BY <2>1, Repetitions DEF Exact
  <2>3. Turn(cmd, byte) \in Nat
    <3>1. cmd \in Commands /\ cmd.nio \in Nat BY CommandType DEF IInv
    <3> QED BY <3>1, TurnIs
  <2>4. Cardinality(Writes(byte)) = q + (IF Turn(cmd, byte) < r THEN 1 ELSE 0)
    BY <2>1 DEF At
  <2> QED BY <2>2, <2>3, <2>4
<1> QED BY <1>1, Invariant, PTL
=============================================================================
