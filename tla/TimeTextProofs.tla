--------------------------- MODULE TimeTextProofs ---------------------------
(***************************************************************************)
(* What the order of texts makes of the time-travel queries, for every base*)
(* and width of the fraction: a text stands for the end of its last digit's*)
(* unit, so a whole second is answered for as the end of that second.      *)
(***************************************************************************)
EXTENDS TimeText, EntryStoreProofs, NatLemmas

(* What the digits are, and what a power is; ten and nine in the code.     *)
Decimal ==
  /\ Base \in Nat \ {0, 1}
  /\ Width \in Nat \ {0}
  /\ Base ^ 0 = 1
  /\ \A k \in 0 .. Width - 1 : Base ^ (k + 1) = Base * Base ^ k

(* The number the first k digits of a fraction make.                       *)
Leading(f, k) == f \div Unit(k)

(* What is compared: a text stands for the end of its last unit, so it is  *)
(* after every text with more digits in that unit.                         *)
UpTo(s, t) ==
  IF Precision(s) >= Precision(t) THEN s < t + LastUnit(t) ELSE s + LastUnit(s) <= t

-----------------------------------------------------------------------------
(* Numbers and their digits.                                               *)

(* A quotient is known by its bounds.                                      *)
LEMMA QuotientUnique ==
  ASSUME NEW f \in Nat, NEW d \in Nat \ {0}, NEW q \in Nat, d * q <= f, f < d * q + d
  PROVE  f \div d = q
<1> DEFINE p == f \div d
<1>1. p \in Nat /\ d * p <= f /\ f < d * p + d
  OBVIOUS
<1> HIDE DEF p
<1>2. d * p \in Nat /\ d * q \in Nat /\ d * (p + 1) = d * p + d /\ d * (q + 1) = d * q + d
  BY <1>1
<1>3. ~(p < q)
  <2> SUFFICES ASSUME p < q PROVE FALSE
    OBVIOUS
  <2>1. d * (p + 1) <= d * q
    BY <1>1, Monotone
  <2> QED BY <1>1, <1>2, <2>1
<1>4. ~(q < p)
  <2> SUFFICES ASSUME q < p PROVE FALSE
    OBVIOUS
  <2>1. d * (q + 1) <= d * p
    BY <1>1, Monotone
  <2> QED BY <1>1, <1>2, <2>1
<1> QED BY <1>1, <1>3, <1>4 DEF p

(* A quotient and its remainder.                                           *)
LEMMA DivisionParts ==
  ASSUME NEW q \in Nat, NEW b \in Nat \ {0}
  PROVE  q \div b \in Nat /\ q % b \in 0 .. b - 1 /\ q = b * (q \div b) + (q % b)
OBVIOUS

(* Dividing twice is dividing by the product.                              *)
LEMMA DivideTwice ==
  ASSUME NEW f \in Nat, NEW b \in Nat \ {0}, NEW u \in Nat \ {0}
  PROVE  f \div (b * u) = (f \div u) \div b
<1> DEFINE q == f \div u
           r == f % u
           p == q \div b
           s == q % b
<1>1. q \in Nat /\ r \in 0 .. u - 1 /\ f = u * q + r
  OBVIOUS
<1> HIDE DEF q, r
<1>2. p \in Nat /\ s \in 0 .. b - 1 /\ q = b * p + s
  BY <1>1
<1> HIDE DEF p, s
<1> DEFINE d == b * u
<1>3. d \in Nat \ {0}
  <2>1. u * 1 <= u * b
    BY Monotone
  <2> QED BY <2>1
<1>4. u * q = u * (b * p) + u * s
  BY <1>1, <1>2
<1>5. u * (b * p) = d * p
  BY <1>2
<1>7. u * s \in Nat /\ d * p \in Nat
  BY <1>2
<1>8. u * (s + 1) <= u * b
  BY <1>2, Monotone
<1>9. u * (s + 1) = u * s + u /\ u * b = d
  BY <1>2
<1> HIDE DEF d
<1>6. f = d * p + (u * s + r)
  <2>1. f = (d * p + u * s) + r
    BY <1>1, <1>4, <1>5
  <2> QED BY <1>1, <1>7, <2>1
<1>10. u * s + r < d
  BY <1>1, <1>7, <1>8, <1>9
<1>11. d * p <= f /\ f < d * p + d
  BY <1>1, <1>3, <1>6, <1>7, <1>10
<1>12. f \div d = p
  BY <1>2, <1>3, <1>11, QuotientUnique
<1> QED BY <1>12 DEF d, p, q

(* The leading digit decides.                                              *)
LEMMA DigitOrder ==
  ASSUME NEW b \in Nat \ {0}, NEW x \in Nat, NEW y \in Nat, x < y,
         NEW c \in 0 .. b - 1, NEW d \in 0 .. b - 1
  PROVE  b * x + c < b * y + d
<1>1. b * (x + 1) <= b * y
  BY Monotone
<1>2. b * (x + 1) = b * x + b /\ b * x \in Nat /\ b * y \in Nat
  OBVIOUS
<1> QED BY <1>1, <1>2

(* The units are positive, each is Base of the next, the last is one.      *)
LEMMA Units ==
  ASSUME Decimal
  PROVE  /\ \A k \in 0 .. Width : Unit(k) \in Nat \ {0}
         /\ \A k \in 1 .. Width : Unit(k - 1) = Base * Unit(k)
         /\ Unit(Width) = 1 /\ Unit(0) = Second
<1> DEFINE S == {k \in Nat : k <= Width => Base ^ k \in Nat \ {0}}
<1>1. 0 \in S
  BY DEF Decimal
<1>2. ASSUME NEW k \in Nat, k \in S PROVE k + 1 \in S
  <2> SUFFICES ASSUME k + 1 <= Width PROVE Base ^ (k + 1) \in Nat \ {0}
    OBVIOUS
  <2> DEFINE p == Base ^ k
             q == Base ^ (k + 1)
  <2>1. p \in Nat \ {0} /\ Base \in Nat \ {0} /\ q = Base * p
    BY <1>2 DEF Decimal
  <2> HIDE DEF p, q
  <2>2. p * 1 <= p * Base
    BY <2>1, Monotone
  <2>3. q \in Nat \ {0}
    BY <2>1, <2>2
  <2> QED BY <2>3 DEF q
<1>3. \A k \in Nat : k \in S
  <2> HIDE DEF S
  <2> QED BY <1>1, <1>2, SetInduction
<1>4. ASSUME NEW k \in 0 .. Width PROVE Unit(k) \in Nat \ {0}
  <2>1. Width - k \in Nat /\ Width - k <= Width
    BY DEF Decimal
  <2> QED BY <1>3, <2>1 DEF Unit
<1>5. ASSUME NEW k \in 1 .. Width PROVE Unit(k - 1) = Base * Unit(k)
  <2>1. Width - k \in 0 .. Width - 1 /\ Width - (k - 1) = (Width - k) + 1
    BY DEF Decimal
  <2> QED BY <2>1 DEF Unit, Decimal
<1>6. Unit(Width) = 1 /\ Unit(0) = Second
  <2>1. Width - Width = 0 /\ Width - 0 = Width
    BY DEF Decimal
  <2> QED BY <2>1 DEF Unit, Decimal, Second
<1> QED BY <1>4, <1>5, <1>6

(* A unit is made of whole smaller units.                                  *)
LEMMA UnitsNest ==
  ASSUME Decimal, NEW k \in 0 .. Width, NEW m \in 0 .. k
  PROVE  \E c \in Nat : Unit(m) = Unit(k) * c
<1> DEFINE S == {j \in Nat : m <= j /\ j <= Width => \E c \in Nat : Unit(m) = Unit(j) * c}
<1>0. Width \in Nat /\ Base \in Nat /\ m \in 0 .. Width /\ Unit(m) \in Nat
  <2>1. Width \in Nat /\ Base \in Nat
    BY DEF Decimal
  <2>2. m \in 0 .. Width
    BY <2>1
  <2> QED BY <2>1, <2>2, Units
<1>1. \A j \in Nat : m = j => j \in S
  <2>1. Unit(m) = Unit(m) * 1
    BY <1>0
  <2> QED BY <2>1
<1>2. 0 \in S
  <2>1. CASE m = 0
    BY <1>1, <2>1
  <2>2. CASE m # 0
    BY <1>0, <2>2
  <2> QED BY <2>1, <2>2
<1>3. ASSUME NEW j \in Nat, j \in S PROVE j + 1 \in S
  <2> SUFFICES ASSUME m <= j, j + 1 <= Width
               PROVE  \E c \in Nat : Unit(m) = Unit(j + 1) * c
    BY <1>0, <1>1
  <2>1. PICK c \in Nat : Unit(m) = Unit(j) * c
    BY <1>0, <1>3
  <2>2. j + 1 \in 1 .. Width /\ (j + 1) - 1 = j /\ j + 1 \in 0 .. Width
    BY <1>0
  <2>3. Unit(j) = Base * Unit(j + 1) /\ Unit(j + 1) \in Nat
    BY <2>2, Units
  <2>4. Unit(m) = Unit(j + 1) * (Base * c) /\ Base * c \in Nat
    BY <1>0, <2>1, <2>3
  <2> QED BY <2>4
<1>4. \A j \in Nat : j \in S
  <2> HIDE DEF S
  <2> QED BY <1>2, <1>3, SetInduction
<1> QED BY <1>0, <1>4

(* A second is made of whole units.                                        *)
LEMMA UnitsInSecond ==
  ASSUME Decimal, NEW k \in 0 .. Width
  PROVE  \E c \in Nat : Second = Unit(k) * c
<1>1. 0 \in 0 .. k
  BY DEF Decimal
<1> QED BY <1>1, Units, UnitsNest

(* One more digit.                                                         *)
LEMMA LeadingStep ==
  ASSUME Decimal, NEW f \in Nat, NEW k \in 1 .. Width
  PROVE  /\ Leading(f, k) \in Nat /\ Leading(f, k - 1) \in Nat
         /\ DigitAt(f, k) \in 0 .. Base - 1
         /\ Leading(f, k) = Base * Leading(f, k - 1) + DigitAt(f, k)
<1>1. /\ Unit(k) \in Nat \ {0} /\ Unit(k - 1) = Base * Unit(k)
      /\ Base \in Nat \ {0}
  BY Units DEF Decimal
<1>2. Leading(f, k) \in Nat
  BY <1>1, DivisionParts DEF Leading
<1>3. Leading(f, k - 1) = Leading(f, k) \div Base
  BY <1>1, DivideTwice DEF Leading
<1>4. DigitAt(f, k) = Leading(f, k) % Base
  BY DEF DigitAt, Leading, Unit
<1> QED BY <1>1, <1>2, <1>3, <1>4, DivisionParts

(* No digit is nothing, and all digits are the fraction.                   *)
LEMMA LeadingEnds ==
  ASSUME Decimal, NEW f \in 0 .. Second - 1
  PROVE  Leading(f, 0) = 0 /\ Leading(f, Width) = f
<1>1. Second \in Nat \ {0}
  <2>1. 0 \in 0 .. Width
    BY DEF Decimal
  <2> QED BY <2>1, Units
<1>2. f \div Second = 0
  <2>1. Second * 0 <= f /\ f < Second * 0 + Second /\ f \in Nat
    BY <1>1
  <2> QED BY <1>1, <2>1, QuotientUnique
<1>3. f \div 1 = f
  BY <1>1
<1> QED BY <1>2, <1>3, Units DEF Leading

(* The first k digits agree when the numbers they make do.                 *)
LEMMA SamePrefix ==
  ASSUME Decimal, NEW f \in 0 .. Second - 1, NEW g \in 0 .. Second - 1
  PROVE  \A k \in 0 .. Width :
           (\A j \in 1 .. k : DigitAt(f, j) = DigitAt(g, j)) <=> Leading(f, k) = Leading(g, k)
<1> DEFINE Agree(k) == \A j \in 1 .. k : DigitAt(f, j) = DigitAt(g, j)
           S == {k \in Nat : k <= Width => (Agree(k) <=> Leading(f, k) = Leading(g, k))}
<1>0. Width \in Nat /\ Base \in Nat \ {0} /\ f \in Nat /\ g \in Nat
  BY Units DEF Decimal
<1>1. 0 \in S
  <2>1. Leading(f, 0) = 0 /\ Leading(g, 0) = 0
    BY LeadingEnds
  <2>2. Agree(0)
    OBVIOUS
  <2> HIDE DEF Agree
  <2> QED BY <2>1, <2>2
<1>2. ASSUME NEW k \in Nat, k \in S PROVE k + 1 \in S
  <2> SUFFICES ASSUME k + 1 <= Width
               PROVE  Agree(k + 1) <=> Leading(f, k + 1) = Leading(g, k + 1)
    OBVIOUS
  <2>1. Agree(k) <=> Leading(f, k) = Leading(g, k)
    BY <1>0, <1>2
  <2>2. Agree(k + 1) <=> Agree(k) /\ DigitAt(f, k + 1) = DigitAt(g, k + 1)
    OBVIOUS
  <2> DEFINE x == Leading(f, k)
             y == Leading(g, k)
             c == DigitAt(f, k + 1)
             d == DigitAt(g, k + 1)
  <2>3. k + 1 \in 1 .. Width /\ (k + 1) - 1 = k
    BY <1>0
  <2>4. x \in Nat /\ c \in 0 .. Base - 1 /\ Leading(f, k + 1) = Base * x + c
    BY <1>0, <2>3, LeadingStep
  <2>5. y \in Nat /\ d \in 0 .. Base - 1 /\ Leading(g, k + 1) = Base * y + d
    BY <1>0, <2>3, LeadingStep
  <2> HIDE DEF Agree, x, y, c, d
  <2>6. x < y => Base * x + c < Base * y + d
    BY <1>0, <2>4, <2>5, DigitOrder
  <2>7. y < x => Base * y + d < Base * x + c
    BY <1>0, <2>4, <2>5, DigitOrder
  <2>8. Base * x \in Nat /\ Base * y \in Nat
    BY <1>0, <2>4, <2>5
  <2>9. Base * x + c = Base * y + d <=> x = y /\ c = d
    <3>1. CASE x = y
      BY <2>4, <2>5, <2>8, <3>1
    <3>2. CASE x < y
      BY <2>4, <2>5, <2>6, <2>8, <3>2
    <3>3. CASE y < x
      BY <2>4, <2>5, <2>7, <2>8, <3>3
    <3> QED BY <2>4, <2>5, <3>1, <3>2, <3>3
  <2> QED BY <2>1, <2>2, <2>4, <2>5, <2>9 DEF x, y, c, d
<1>3. \A k \in Nat : k \in S
  <2> HIDE DEF S
  <2> QED BY <1>1, <1>2, SetInduction
<1> QED BY <1>0, <1>3

(* A smaller number stays smaller with more digits.                        *)
LEMMA SmallerStays ==
  ASSUME Decimal, NEW f \in Nat, NEW g \in Nat, NEW k \in 0 .. Width,
         Leading(f, k) < Leading(g, k), NEW m \in k .. Width
  PROVE  Leading(f, m) < Leading(g, m)
<1> DEFINE S == {i \in Nat : k + i <= Width => Leading(f, k + i) < Leading(g, k + i)}
<1>0. Width \in Nat /\ Base \in Nat \ {0} /\ k \in Nat
  BY DEF Decimal
<1>1. 0 \in S
  <2>1. k + 0 = k
    BY <1>0
  <2> QED BY <2>1
<1>2. ASSUME NEW i \in Nat, i \in S PROVE i + 1 \in S
  <2> DEFINE j == k + i
  <2>0. j \in Nat /\ k + (i + 1) = j + 1
    BY <1>0
  <2> SUFFICES ASSUME j + 1 <= Width PROVE Leading(f, j + 1) < Leading(g, j + 1)
    BY <2>0
  <2>1. Leading(f, j) < Leading(g, j)
    BY <1>0, <1>2, <2>0
  <2> HIDE DEF j
  <2>2. j + 1 \in 1 .. Width /\ (j + 1) - 1 = j
    BY <1>0, <2>0
  <2>3. /\ Leading(f, j) \in Nat /\ DigitAt(f, j + 1) \in 0 .. Base - 1
        /\ Leading(f, j + 1) = Base * Leading(f, j) + DigitAt(f, j + 1)
    BY <2>2, LeadingStep
  <2>4. /\ Leading(g, j) \in Nat /\ DigitAt(g, j + 1) \in 0 .. Base - 1
        /\ Leading(g, j + 1) = Base * Leading(g, j) + DigitAt(g, j + 1)
    BY <2>2, LeadingStep
  <2> QED BY <1>0, <2>1, <2>3, <2>4, DigitOrder
<1>3. \A i \in Nat : i \in S
  <2> HIDE DEF S
  <2> QED BY <1>1, <1>2, SetInduction
<1>4. m - k \in Nat /\ k + (m - k) = m /\ m <= Width
  BY <1>0
<1> QED BY <1>3, <1>4

-----------------------------------------------------------------------------
(* The digits that are written.                                            *)

(* They are the first ones, down to the last that is not zero.             *)
LEMMA WrittenDigits ==
  ASSUME Decimal, NEW f \in Nat
  PROVE  LET n == Cardinality(SignificantDigits(f))
         IN  /\ n \in 0 .. Width
             /\ SignificantDigits(f) = 1 .. n
             /\ n # 0 => DigitAt(f, n) # 0
             /\ \A j \in n + 1 .. Width : DigitAt(f, j) = 0
<1> DEFINE S == SignificantDigits(f)
<1>0. Width \in Nat
  BY DEF Decimal
<1>1. S = {k \in 1 .. Width : \E j \in k .. Width : DigitAt(f, j) # 0}
  BY DEF SignificantDigits
<1> HIDE DEF S
<1>2. IsFiniteSet(S)
  <2>1. IsFiniteSet(1 .. Width)
    BY <1>0, FS_Interval
  <2> QED BY <1>1, <2>1, FS_Subset
<1>3. CASE S = {}
  <2>1. Cardinality(S) = 0
    BY <1>3, FS_EmptySet
  <2>2. \A j \in 1 .. Width : DigitAt(f, j) = 0
    BY <1>0, <1>1, <1>3
  <2>3. 1 .. 0 = {}
    OBVIOUS
  <2> QED BY <1>0, <1>3, <2>1, <2>2, <2>3 DEF S
<1>4. CASE S # {}
  <2>1. [k \in S |-> k] \in [S -> Int]
    BY <1>0, <1>1
  <2>2. PICK n \in S : \A k \in S : [i \in S |-> i][k] <= [i \in S |-> i][n]
    BY <1>2, <1>4, <2>1, LargestValue
  <2>3. n \in 1 .. Width /\ \A k \in S : k <= n
    BY <1>1, <2>2
  <2>4. PICK j \in n .. Width : DigitAt(f, j) # 0
    BY <1>1, <2>2
  <2>5. j \in S
    BY <1>0, <1>1, <2>3, <2>4
  <2>6. j = n
    BY <1>0, <2>3, <2>4, <2>5
  <2>7. S = 1 .. n
    <3>1. ASSUME NEW k \in 1 .. n PROVE k \in S
      BY <1>0, <1>1, <2>3, <2>4, <2>6
    <3>2. ASSUME NEW k \in S PROVE k \in 1 .. n
      BY <1>0, <1>1, <2>3
    <3> QED BY <3>1, <3>2
  <2>8. Cardinality(S) = n
    <3>1. Cardinality(1 .. n) = IF 1 > n THEN 0 ELSE n - 1 + 1
      BY <2>3, FS_Interval
    <3> QED BY <1>0, <2>3, <2>7, <3>1
  <2>9. ASSUME NEW i \in n + 1 .. Width PROVE DigitAt(f, i) = 0
    <3> SUFFICES ASSUME DigitAt(f, i) # 0 PROVE FALSE
      OBVIOUS
    <3>1. i \in S
      BY <1>0, <1>1, <2>3
    <3> QED BY <1>0, <2>3, <3>1
  <2> QED BY <1>0, <2>3, <2>4, <2>6, <2>7, <2>8, <2>9 DEF S
<1> QED BY <1>3, <1>4

(* So a fraction is a multiple of the unit of its last digit.              *)
LEMMA MultipleOfUnit ==
  ASSUME Decimal, NEW f \in 0 .. Second - 1
  PROVE  LET n == Cardinality(SignificantDigits(f))
         IN  f = Unit(n) * Leading(f, n)
<1> DEFINE n == Cardinality(SignificantDigits(f))
           S == {i \in Nat : n <= Width - i => f = Unit(Width - i) * Leading(f, Width - i)}
<1>0. Width \in Nat /\ Base \in Nat /\ f \in Nat
  BY Units DEF Decimal
<1>1. n \in 0 .. Width /\ \A j \in n + 1 .. Width : DigitAt(f, j) = 0
  BY <1>0, WrittenDigits
<1> HIDE DEF n
<1>2. 0 \in S
  <2>1. Width - 0 = Width
    BY <1>0
  <2>2. Unit(Width) = 1 /\ Leading(f, Width) = f
    BY Units, LeadingEnds
  <2> QED BY <1>0, <2>1, <2>2
<1>3. ASSUME NEW i \in Nat, i \in S PROVE i + 1 \in S
  <2> DEFINE j == Width - i
  <2>0. Width - (i + 1) = j - 1 /\ j \in Int
    BY <1>0
  <2> SUFFICES ASSUME n <= j - 1 PROVE f = Unit(j - 1) * Leading(f, j - 1)
    BY <2>0
  <2>1. j \in n + 1 .. Width /\ j \in 1 .. Width
    BY <1>0, <1>1
  <2>2. f = Unit(j) * Leading(f, j)
    BY <1>0, <1>1, <1>3, <2>1
  <2> HIDE DEF j
  <2>3. DigitAt(f, j) = 0
    BY <1>1, <2>1
  <2>4. /\ Leading(f, j - 1) \in Nat
        /\ Leading(f, j) = Base * Leading(f, j - 1) + DigitAt(f, j)
    BY <1>0, <2>1, LeadingStep
  <2>5. Leading(f, j) = Base * Leading(f, j - 1)
    BY <1>0, <2>3, <2>4
  <2>6. Unit(j - 1) = Base * Unit(j) /\ Unit(j) \in Nat
    <3>1. j \in 0 .. Width
      BY <2>1
    <3> QED BY <2>1, <3>1, Units
  <2>7. \A u, l \in Nat : u * (Base * l) = (Base * u) * l
    BY <1>0
  <2> QED BY <2>2, <2>4, <2>5, <2>6, <2>7
<1>4. \A i \in Nat : i \in S
  <2> HIDE DEF S
  <2> QED BY <1>2, <1>3, SetInduction
<1>5. Width - n \in Nat /\ Width - (Width - n) = n
  BY <1>0, <1>1
<1>6. f = Unit(n) * Leading(f, n)
  BY <1>1, <1>4, <1>5
<1> QED BY <1>6 DEF n

(* Only a whole second is written without digits.                          *)
LEMMA NoDigits ==
  ASSUME Decimal, NEW f \in 0 .. Second - 1
  PROVE  Cardinality(SignificantDigits(f)) = 0 <=> f = 0
<1> DEFINE n == Cardinality(SignificantDigits(f))
<1>0. Width \in Nat /\ Base \in Nat \ {0} /\ f \in Nat /\ Second \in Nat
  BY Units DEF Decimal
<1>1. n = 0 => f = 0
  <2>1. f = Unit(n) * Leading(f, n)
    BY MultipleOfUnit
  <2>2. Unit(0) = Second /\ Leading(f, 0) = 0
    BY Units, LeadingEnds
  <2> QED BY <1>0, <2>1, <2>2
<1>2. ASSUME f = 0 PROVE n = 0
  <2>1. n \in 0 .. Width /\ (n # 0 => DigitAt(f, n) # 0)
    BY <1>0, WrittenDigits
  <2> SUFFICES ASSUME n # 0 PROVE FALSE
    OBVIOUS
  <2>2. n \in 0 .. Width /\ Leading(f, n) = 0 /\ Leading(f, n - 1) \in Nat
    <3>1. n \in 1 .. Width
      BY <1>0, <2>1
    <3>2. Unit(n) \in Nat \ {0}
      BY <2>1, Units
    <3>3. Unit(n) * 0 <= f /\ f < Unit(n) * 0 + Unit(n)
      BY <1>2, <3>2
    <3>4. Leading(f, n) = 0
      BY <1>0, <3>2, <3>3, QuotientUnique DEF Leading
    <3> QED BY <1>0, <2>1, <3>1, <3>4, LeadingStep
  <2>3. DigitAt(f, n) = 0 % Base
    BY <2>2 DEF DigitAt, Leading, Unit
  <2>4. 0 % Base = 0
    BY <1>0
  <2> QED BY <2>1, <2>3, <2>4
<1> QED BY <1>1, <1>2

-----------------------------------------------------------------------------
(* Texts.                                                                  *)

(* After the seconds comes nothing, or a dot and the digits, and a Z.      *)
LEMMA Tails ==
  ASSUME Decimal, NEW f \in 1 .. Second - 1
  PROVE  LET n == Digits(f)
             tail == AfterSeconds(f)
         IN  /\ n \in 1 .. Width
             /\ tail \in [1 .. n + 2 -> Nat]
             /\ tail[1] = Dot /\ tail[n + 2] = Zed
             /\ \A k \in 1 .. n : tail[k + 1] = Digit(DigitAt(f, k))
<1> DEFINE n == Digits(f)
<1>0. Base \in Nat /\ Width \in Nat /\ Second \in Nat /\ f \in Nat
  BY Units DEF Decimal
<1>1. n \in 1 .. Width
  <2>1. n \in 0 .. Width
    BY <1>0, WrittenDigits DEF Digits
  <2>2. n # 0
    BY <1>0, NoDigits DEF Digits
  <2> QED BY <1>0, <2>1, <2>2
<1>2. \A k \in 1 .. n : Digit(DigitAt(f, k)) \in Nat
  <2>1. ASSUME NEW k \in 1 .. n PROVE Digit(DigitAt(f, k)) \in Nat
    <3>1. k \in 1 .. Width
      BY <1>0, <1>1
    <3>2. DigitAt(f, k) \in 0 .. Base - 1
      BY <1>0, <3>1, LeadingStep
    <3> QED BY <1>0, <3>2 DEF Digit
  <2> QED BY <2>1
<1>3. Fraction(f) = [k \in 1 .. n |-> Digit(DigitAt(f, k))]
  BY DEF Fraction, Digits
<1> DEFINE fr == Fraction(f)
<1> HIDE DEF n, fr
<1>4. fr \in Seq(Nat) /\ Len(fr) = n /\ \A k \in 1 .. n : fr[k] = Digit(DigitAt(f, k))
  BY <1>1, <1>2, <1>3 DEF fr
<1>5. Dot \in Nat /\ Zed \in Nat
  BY <1>0 DEF Dot, Zed
<1>6. AfterSeconds(f) = <<Dot>> \o fr \o <<Zed>>
  BY DEF AfterSeconds, fr
<1> DEFINE a == <<Dot>> \o fr
           t == a \o <<Zed>>
<1>7. /\ a \in Seq(Nat) /\ Len(a) = n + 1 /\ a[1] = Dot
      /\ \A k \in 1 .. n : a[k + 1] = fr[k]
  BY <1>1, <1>4, <1>5
<1> HIDE DEF a
<1>8. /\ t \in Seq(Nat) /\ Len(t) = n + 2 /\ t[n + 2] = Zed
      /\ \A k \in 1 .. n + 1 : t[k] = a[k]
  BY <1>1, <1>5, <1>7
<1> HIDE DEF t
<1>9. t \in [1 .. n + 2 -> Nat]
  BY <1>8
<1>10. t[1] = Dot /\ \A k \in 1 .. n : t[k + 1] = Digit(DigitAt(f, k))
  <2>1. t[1] = Dot
    BY <1>1, <1>7, <1>8
  <2>2. ASSUME NEW k \in 1 .. n PROVE t[k + 1] = fr[k]
    <3>1. k + 1 \in 1 .. n + 1
      BY <1>1
    <3>2. t[k + 1] = a[k + 1]
      BY <1>8, <3>1
    <3> QED BY <1>7, <3>2
  <2> QED BY <1>4, <2>1, <2>2
<1>11. AfterSeconds(f) = t
  BY <1>6 DEF t, a
<1> QED BY <1>1, <1>8, <1>9, <1>10, <1>11 DEF n

(* The first difference decides.                                           *)
LEMMA FirstDifference ==
  ASSUME NEW p \in Nat, NEW q \in Nat, NEW a \in [1 .. p -> Nat], NEW b \in [1 .. q -> Nat],
         NEW i \in Nat, i \in 1 .. p, i \in 1 .. q,
         \A j \in 1 .. i - 1 : a[j] = b[j], a[i] # b[i]
  PROVE  TailLess(a, b) <=> a[i] < b[i]
<1>1. a[i] < b[i] => TailLess(a, b)
  BY DEF TailLess
<1>2. ASSUME TailLess(a, b) PROVE a[i] < b[i]
  <2>1. PICK k \in DOMAIN a \cap DOMAIN b :
          a[k] < b[k] /\ \A j \in 1 .. k - 1 : a[j] = b[j]
    BY <1>2 DEF TailLess
  <2>2. k \in 1 .. p /\ k \in 1 .. q /\ a[k] \in Nat /\ b[k] \in Nat
    BY <2>1
  <2>3. ~(k < i)
    BY <2>1, <2>2
  <2>4. ~(i < k)
    BY <2>1, <2>2
  <2>5. k = i
    BY <2>2, <2>3, <2>4
  <2> QED BY <2>1, <2>5
<1> QED BY <1>1, <1>2

(* When the digits both texts have differ, they decide.                    *)
LEMMA CommonDigitsDecide ==
  ASSUME Decimal, NEW f \in 1 .. Second - 1, NEW g \in 1 .. Second - 1,
         NEW c \in 1 .. Width, c <= Digits(f), c <= Digits(g),
         Leading(f, c) # Leading(g, c)
  PROVE  TailLess(AfterSeconds(f), AfterSeconds(g)) <=> Leading(f, c) < Leading(g, c)
<1> DEFINE a == AfterSeconds(f)
           b == AfterSeconds(g)
           S == {k \in 1 .. c : DigitAt(f, k) # DigitAt(g, k)}
<1>0. /\ Width \in Nat /\ Base \in Nat \ {0} /\ Second \in Nat /\ f \in Nat /\ g \in Nat
      /\ f \in 0 .. Second - 1 /\ g \in 0 .. Second - 1 /\ c \in 0 .. Width
  BY Units DEF Decimal
<1>1. S # {} /\ S \in SUBSET Nat
  <2>1. ~\A k \in 1 .. c : DigitAt(f, k) = DigitAt(g, k)
    BY <1>0, SamePrefix
  <2> QED BY <2>1
<1>2. PICK i \in S : \A k \in S : i <= k
  BY <1>1, LeastNat
<1>3. /\ i \in 1 .. c /\ DigitAt(f, i) # DigitAt(g, i)
      /\ \A k \in 1 .. i - 1 : DigitAt(f, k) = DigitAt(g, k)
  BY <1>0, <1>2
<1>4. i \in 1 .. Width /\ i - 1 \in 0 .. Width
  BY <1>0, <1>3
<1>5. Leading(f, i - 1) = Leading(g, i - 1)
  BY <1>0, <1>3, <1>4, SamePrefix
<1> DEFINE x == DigitAt(f, i)
           y == DigitAt(g, i)
           l == Leading(f, i - 1)
<1>6. l \in Nat /\ x \in 0 .. Base - 1 /\ Leading(f, i) = Base * l + x
  BY <1>0, <1>4, LeadingStep
<1>7. y \in 0 .. Base - 1 /\ Leading(g, i) = Base * l + y
  BY <1>0, <1>4, <1>5, LeadingStep
<1>8. x # y
  BY <1>3
<1> HIDE DEF x, y, l, S
<1>9. Base * l \in Nat
  BY <1>0, <1>6
<1>10. x < y => Leading(f, c) < Leading(g, c)
  <2> SUFFICES ASSUME x < y PROVE Leading(f, c) < Leading(g, c)
    OBVIOUS
  <2>1. Leading(f, i) < Leading(g, i)
    BY <1>0, <1>6, <1>7, <1>9
  <2>2. i \in 0 .. Width /\ c \in i .. Width
    BY <1>0, <1>3
  <2> QED BY <1>0, <2>1, <2>2, SmallerStays
<1>11. y < x => Leading(g, c) < Leading(f, c)
  <2> SUFFICES ASSUME y < x PROVE Leading(g, c) < Leading(f, c)
    OBVIOUS
  <2>1. Leading(g, i) < Leading(f, i)
    BY <1>0, <1>6, <1>7, <1>9
  <2>2. i \in 0 .. Width /\ c \in i .. Width
    BY <1>0, <1>3
  <2> QED BY <1>0, <2>1, <2>2, SmallerStays
<1>12. Leading(f, c) \in Nat /\ Leading(g, c) \in Nat
  BY <1>0, LeadingStep
<1>13. x < y <=> Leading(f, c) < Leading(g, c)
  BY <1>0, <1>6, <1>7, <1>8, <1>10, <1>11, <1>12
<1> DEFINE p == Digits(f) + 2
           q == Digits(g) + 2
<1>14. /\ Digits(f) \in 1 .. Width /\ a \in [1 .. p -> Nat] /\ a[1] = Dot
       /\ \A k \in 1 .. Digits(f) : a[k + 1] = Digit(DigitAt(f, k))
  BY Tails
<1>15. /\ Digits(g) \in 1 .. Width /\ b \in [1 .. q -> Nat] /\ b[1] = Dot
       /\ \A k \in 1 .. Digits(g) : b[k + 1] = Digit(DigitAt(g, k))
  BY Tails
<1> HIDE DEF a, b
<1>16. a[i + 1] = x + 1 /\ b[i + 1] = y + 1
  BY <1>0, <1>3, <1>14, <1>15 DEF x, y, Digit
<1>17. ASSUME NEW j \in 1 .. (i + 1) - 1 PROVE a[j] = b[j]
  <2>1. CASE j = 1
    BY <1>14, <1>15, <2>1
  <2>2. CASE j # 1
    <3>1. j - 1 \in 1 .. i - 1 /\ (j - 1) + 1 = j
      BY <1>3, <2>2
    <3>2. j - 1 \in 1 .. Digits(f) /\ j - 1 \in 1 .. Digits(g)
      BY <1>0, <1>3, <1>14, <1>15, <3>1
    <3>3. DigitAt(f, j - 1) = DigitAt(g, j - 1)
      BY <1>3, <3>1
    <3> QED BY <1>14, <1>15, <3>1, <3>2, <3>3
  <2> QED BY <2>1, <2>2
<1>18. i + 1 \in 1 .. p /\ i + 1 \in 1 .. q /\ p \in Nat /\ q \in Nat /\ i + 1 \in Nat
  BY <1>0, <1>3, <1>14, <1>15
<1>19. a[i + 1] # b[i + 1]
  BY <1>6, <1>7, <1>8, <1>16
<1> HIDE DEF p, q
<1>20. TailLess(a, b) <=> a[i + 1] < b[i + 1]
  BY <1>14, <1>15, <1>17, <1>18, <1>19, FirstDifference
<1>21. a[i + 1] < b[i + 1] <=> x < y
  BY <1>0, <1>6, <1>7, <1>16
<1> QED BY <1>13, <1>20, <1>21 DEF a, b

(* A text goes before the texts it continues.                              *)
LEMMA MoreDigitsFirst ==
  ASSUME Decimal, NEW f \in 1 .. Second - 1, NEW g \in 1 .. Second - 1,
         Digits(g) < Digits(f), Leading(f, Digits(g)) = Leading(g, Digits(g))
  PROVE  /\ TailLess(AfterSeconds(f), AfterSeconds(g))
         /\ ~TailLess(AfterSeconds(g), AfterSeconds(f))
<1> DEFINE a == AfterSeconds(f)
           b == AfterSeconds(g)
           n == Digits(f)
           m == Digits(g)
           p == n + 2
           q == m + 2
<1>0. /\ Width \in Nat /\ Base \in Nat \ {0} /\ Second \in Nat /\ f \in Nat
      /\ f \in 0 .. Second - 1 /\ g \in 0 .. Second - 1
  BY Units DEF Decimal
<1>1. /\ n \in 1 .. Width /\ a \in [1 .. p -> Nat] /\ a[1] = Dot
      /\ \A k \in 1 .. n : a[k + 1] = Digit(DigitAt(f, k))
  BY Tails
<1>2. /\ m \in 1 .. Width /\ b \in [1 .. q -> Nat] /\ b[1] = Dot /\ b[q] = Zed
      /\ \A k \in 1 .. m : b[k + 1] = Digit(DigitAt(g, k))
  BY Tails
<1>3. \A k \in 1 .. m : DigitAt(f, k) = DigitAt(g, k)
  <2>1. m \in 0 .. Width
    BY <1>0, <1>2
  <2> QED BY <1>0, <2>1, SamePrefix
<1>4. m < n
  OBVIOUS
<1>5. a[q] < b[q]
  <2>1. m + 1 \in 1 .. n /\ m + 1 \in 1 .. Width /\ q = (m + 1) + 1
    BY <1>0, <1>1, <1>2, <1>4
  <2>2. a[q] = DigitAt(f, m + 1) + 1
    BY <1>1, <2>1 DEF Digit
  <2>3. DigitAt(f, m + 1) \in 0 .. Base - 1
    BY <1>0, <2>1, LeadingStep
  <2> QED BY <1>0, <1>2, <2>2, <2>3 DEF Zed
<1> HIDE DEF a, b, n, m
<1>6. ASSUME NEW j \in 1 .. q - 1 PROVE a[j] = b[j]
  <2>1. CASE j = 1
    BY <1>1, <1>2, <2>1
  <2>2. CASE j # 1
    <3>1. j - 1 \in 1 .. m /\ j - 1 \in 1 .. n /\ (j - 1) + 1 = j
      BY <1>0, <1>1, <1>2, <1>4, <2>2
    <3> QED BY <1>1, <1>2, <1>3, <3>1
  <2> QED BY <2>1, <2>2
<1>7. q \in 1 .. p /\ q \in 1 .. q /\ p \in Nat /\ q \in Nat
  BY <1>0, <1>1, <1>2, <1>4
<1> HIDE DEF p, q
<1>8. a[q] # b[q] /\ a[q] \in Nat /\ b[q] \in Nat
  BY <1>1, <1>2, <1>5, <1>7
<1>9. TailLess(a, b) <=> a[q] < b[q]
  BY <1>1, <1>2, <1>6, <1>7, <1>8, FirstDifference
<1>10. TailLess(b, a) <=> b[q] < a[q]
  <2>1. \A j \in 1 .. q - 1 : b[j] = a[j]
    BY <1>6
  <2> QED BY <1>1, <1>2, <1>7, <1>8, <2>1, FirstDifference
<1> QED BY <1>5, <1>8, <1>9, <1>10 DEF a, b

(* A Z goes after a dot.                                                   *)
LEMMA DotBeforeZed ==
  ASSUME Decimal, NEW f \in 1 .. Second - 1
  PROVE  /\ TailLess(AfterSeconds(f), AfterSeconds(0))
         /\ ~TailLess(AfterSeconds(0), AfterSeconds(f))
<1> DEFINE a == AfterSeconds(f)
           z == AfterSeconds(0)
<1>0. Base \in Nat /\ Width \in Nat
  BY DEF Decimal
<1>1. Dot \in Nat /\ Zed \in Nat /\ Dot < Zed
  BY <1>0 DEF Dot, Zed
<1>2. z \in [1 .. 1 -> Nat] /\ z[1] = Zed
  BY <1>1 DEF AfterSeconds
<1>3. PICK p \in Nat : 1 \in 1 .. p /\ a \in [1 .. p -> Nat] /\ a[1] = Dot
  <2>1. /\ Digits(f) \in 1 .. Width /\ a \in [1 .. Digits(f) + 2 -> Nat] /\ a[1] = Dot
    BY Tails
  <2>2. Digits(f) + 2 \in Nat /\ 1 \in 1 .. Digits(f) + 2
    BY <1>0, <2>1
  <2> QED BY <2>1, <2>2
<1> HIDE DEF a, z
<1>4. a[1] # z[1] /\ 1 \in 1 .. 1
  BY <1>1, <1>2, <1>3
<1>5. \A j \in 1 .. 1 - 1 : a[j] = z[j] /\ z[j] = a[j]
  OBVIOUS
<1>6. TailLess(a, z) <=> a[1] < z[1]
  BY <1>2, <1>3, <1>4, <1>5, FirstDifference
<1>7. TailLess(z, a) <=> z[1] < a[1]
  BY <1>2, <1>3, <1>4, <1>5, FirstDifference
<1> QED BY <1>1, <1>2, <1>3, <1>6, <1>7 DEF a, z

(* A number is at least a multiple when its quotient is.                   *)
LEMMA QuotientBound ==
  ASSUME NEW f \in Nat, NEW u \in Nat \ {0}, NEW l \in Nat
  PROVE  u * l <= f <=> l <= f \div u
<1> DEFINE q == f \div u
           r == f % u
<1>1. q \in Nat /\ r \in 0 .. u - 1 /\ f = u * q + r
  BY DivisionParts
<1> HIDE DEF q, r
<1>2. u * q \in Nat /\ u * l \in Nat /\ u * (q + 1) = u * q + u
  BY <1>1
<1>3. l <= q => u * l <= f
  <2> SUFFICES ASSUME l <= q PROVE u * l <= f
    OBVIOUS
  <2>1. u * l <= u * q
    BY <1>1, Monotone
  <2> QED BY <1>1, <1>2, <2>1
<1>4. ~(l <= q) => ~(u * l <= f)
  <2> SUFFICES ASSUME q + 1 <= l PROVE ~(u * l <= f)
    BY <1>1
  <2>1. u * (q + 1) <= u * l
    BY <1>1, Monotone
  <2> QED BY <1>1, <1>2, <2>1
<1> QED BY <1>3, <1>4 DEF q

(* The fractions of one second, in the order of their texts.               *)
LEMMA FractionOrder ==
  ASSUME Decimal, NEW f \in 0 .. Second - 1, NEW g \in 0 .. Second - 1, f # g
  PROVE  TailLess(AfterSeconds(f), AfterSeconds(g))
           <=> IF Digits(f) >= Digits(g) THEN f < g + Unit(Digits(g))
                                         ELSE f + Unit(Digits(f)) <= g
<1> DEFINE n == Digits(f)
           m == Digits(g)
           Less == TailLess(AfterSeconds(f), AfterSeconds(g))
<1>0. /\ Width \in Nat /\ Base \in Nat \ {0} /\ Second \in Nat \ {0}
      /\ f \in Nat /\ g \in Nat
  BY Units DEF Decimal
<1>1. n \in 0 .. Width /\ (n = 0 <=> f = 0)
  BY <1>0, WrittenDigits, NoDigits DEF Digits
<1>2. m \in 0 .. Width /\ (m = 0 <=> g = 0)
  BY <1>0, WrittenDigits, NoDigits DEF Digits
<1>3. Unit(0) = Second
  BY Units
<1>4. f = Unit(n) * Leading(f, n) /\ g = Unit(m) * Leading(g, m)
  BY MultipleOfUnit DEF Digits
<1> HIDE DEF n, m, Less
<1>5. CASE f = 0
  <2>1. g \in 1 .. Second - 1
    BY <1>0, <1>5
  <2>2. ~Less
    BY <1>5, <2>1, DotBeforeZed DEF Less
  <2>3. n = 0 /\ ~(n >= m) /\ ~(f + Unit(n) <= g)
    BY <1>0, <1>1, <1>2, <1>3, <1>5, <2>1
  <2> QED BY <2>2, <2>3 DEF n, m, Less
<1>6. CASE g = 0
  <2>1. f \in 1 .. Second - 1
    BY <1>0, <1>6
  <2>2. Less
    BY <1>6, <2>1, DotBeforeZed DEF Less
  <2>3. m = 0 /\ n >= m /\ f < g + Unit(m)
    BY <1>0, <1>1, <1>2, <1>3, <1>6, <2>1
  <2> QED BY <2>2, <2>3 DEF n, m, Less
<1>7. ASSUME f # 0, g # 0, n >= m PROVE Less <=> f < g + Unit(m)
  <2> DEFINE u == Unit(m)
             x == Leading(f, m)
             y == Leading(g, m)
  <2>0. f \in 1 .. Second - 1 /\ g \in 1 .. Second - 1 /\ m \in 1 .. Width
    BY <1>0, <1>2, <1>7
  <2>1. u \in Nat \ {0} /\ x \in Nat /\ y \in Nat
    BY <1>0, <1>2, <2>0, Units, LeadingStep
  <2>2. f < g + u <=> x <= y
    <3>1. g = u * y /\ x = f \div u
      BY <1>4 DEF Leading
    <3> HIDE DEF u, x, y
    <3>2. u * (y + 1) = u * y + u /\ u * y \in Nat /\ y + 1 \in Nat
      BY <2>1
    <3>3. u * (y + 1) <= f <=> y + 1 <= x
      BY <1>0, <2>1, <3>1, <3>2, QuotientBound
    <3> QED BY <1>0, <2>1, <3>1, <3>2, <3>3
  <2>3. CASE x # y
    <3>1. m <= n /\ m <= m
      BY <1>1, <1>2, <1>7
    <3>2. Less <=> x < y
      BY <2>0, <2>3, <3>1, CommonDigitsDecide DEF Less, n, m
    <3> HIDE DEF u, x, y
    <3> QED BY <2>1, <2>2, <2>3, <3>2 DEF u
  <2>4. CASE x = y
    <3>1. n # m
      BY <1>4, <2>4
    <3>2. m < n
      BY <1>1, <1>2, <1>7, <3>1
    <3>3. Less
      BY <2>0, <2>4, <3>2, MoreDigitsFirst DEF Less, n, m
    <3> HIDE DEF u, x, y
    <3> QED BY <2>1, <2>2, <2>4, <3>3 DEF u
  <2> QED BY <2>3, <2>4
<1>8. ASSUME f # 0, g # 0, n < m PROVE Less <=> f + Unit(n) <= g
  <2> DEFINE u == Unit(n)
             x == Leading(f, n)
             y == Leading(g, n)
  <2>0. f \in 1 .. Second - 1 /\ g \in 1 .. Second - 1 /\ n \in 1 .. Width
    BY <1>0, <1>1, <1>8
  <2>1. u \in Nat \ {0} /\ x \in Nat /\ y \in Nat
    BY <1>0, <1>1, <2>0, Units, LeadingStep
  <2>2. f + u <= g <=> x < y
    <3>1. f = u * x /\ y = g \div u
      BY <1>4 DEF Leading
    <3> HIDE DEF u, x, y
    <3>2. u * (x + 1) = u * x + u /\ u * x \in Nat /\ x + 1 \in Nat
      BY <2>1
    <3>3. u * (x + 1) <= g <=> x + 1 <= y
      BY <1>0, <2>1, <3>1, <3>2, QuotientBound
    <3> QED BY <1>0, <2>1, <3>1, <3>2, <3>3
  <2>3. CASE x # y
    <3>1. n <= m /\ n <= n
      BY <1>1, <1>2, <1>8
    <3>2. Less <=> x < y
      BY <2>0, <2>3, <3>1, CommonDigitsDecide DEF Less, n, m
    <3> QED BY <2>2, <3>2
  <2>4. CASE x = y
    <3>1. ~Less
      BY <1>8, <2>0, <2>4, MoreDigitsFirst DEF Less, n, m
    <3> HIDE DEF u, x, y
    <3> QED BY <2>1, <2>2, <2>4, <3>1 DEF u
  <2> QED BY <2>3, <2>4
<1>9. n >= m \/ n < m
  BY <1>0, <1>1, <1>2
<1>10. n < m => ~(n >= m)
  BY <1>0, <1>1, <1>2
<1>11. CASE f # 0 /\ g # 0
  BY <1>7, <1>8, <1>9, <1>10, <1>11 DEF Less, n, m
<1> QED BY <1>5, <1>6, <1>11

-----------------------------------------------------------------------------
(* Instants.                                                               *)

(* An instant is a number of seconds and a fraction, and the unit of its   *)
(* last digit ends in the same second.                                     *)
LEMMA InstantParts ==
  ASSUME Decimal, NEW t \in Nat
  PROVE  /\ t \div Second \in Nat
         /\ t % Second \in 0 .. Second - 1
         /\ t = Second * (t \div Second) + (t % Second)
         /\ Precision(t) \in 0 .. Width
         /\ LastUnit(t) \in Nat \ {0}
         /\ (t % Second) + LastUnit(t) <= Second
         /\ \E c \in Nat : t = LastUnit(t) * c
<1> DEFINE a == t \div Second
           f == t % Second
           n == Digits(f)
           u == Unit(n)
           x == Leading(f, n)
<1>0. Width \in Nat /\ Second \in Nat \ {0}
  BY Units DEF Decimal
<1>1. a \in Nat /\ f \in 0 .. Second - 1 /\ t = Second * a + f
  BY <1>0, DivisionParts
<1> HIDE DEF a, f
<1>2. n \in 0 .. Width
  BY <1>0, <1>1, WrittenDigits DEF Digits
<1>3. f = u * x
  BY <1>1, MultipleOfUnit DEF Digits
<1> HIDE DEF n
<1>4. u \in Nat \ {0}
  BY <1>2, Units
<1>5. PICK c \in Nat : Second = u * c
  BY <1>2, UnitsInSecond
<1>6. x \in Nat
  <2>1. x = f \div u
    BY DEF Leading
  <2> HIDE DEF x, u
  <2> QED BY <1>0, <1>1, <1>4, <2>1, DivisionParts
<1> HIDE DEF x, u
<1>7. x < c
  <2> SUFFICES ASSUME c <= x PROVE FALSE
    BY <1>6
  <2>1. u * c <= u * x
    BY <1>4, <1>6, Monotone
  <2> QED BY <1>0, <1>1, <1>3, <1>5, <2>1
<1>8. f + u <= Second
  <2>1. u * (x + 1) <= u * c
    BY <1>4, <1>6, <1>7, Monotone
  <2>2. u * (x + 1) = u * x + u
    BY <1>4, <1>6
  <2> QED BY <1>3, <1>5, <2>1, <2>2
<1>9. t = u * (c * a + x) /\ c * a + x \in Nat
  <2>1. c * a \in Nat
    BY <1>1
  <2>2. (u * c) * a = u * (c * a)
    BY <1>1, <1>4
  <2>3. u * (c * a + x) = u * (c * a) + u * x
    BY <1>4, <1>6, <2>1
  <2> QED BY <1>1, <1>3, <1>5, <1>6, <2>1, <2>2, <2>3
<1>10. Precision(t) = n /\ LastUnit(t) = u
  BY DEF LastUnit, Precision, n, u, f
<1> QED BY <1>1, <1>2, <1>4, <1>8, <1>9, <1>10 DEF a, f

(* Every text is a sequence of characters, so none is before itself.       *)
LEMMA NotBeforeItself ==
  ASSUME Decimal, NEW f \in 0 .. Second - 1
  PROVE  ~TailLess(AfterSeconds(f), AfterSeconds(f))
<1> DEFINE a == AfterSeconds(f)
<1>0. Second \in Nat /\ Base \in Nat /\ Width \in Nat
  BY Units DEF Decimal
<1>1. \E p \in Nat : a \in [1 .. p -> Nat]
  <2>1. CASE f = 0
    <3>1. a \in [1 .. 1 -> Nat]
      BY <1>0, <2>1 DEF AfterSeconds, Zed
    <3> QED BY <3>1
  <2>2. CASE f # 0
    <3>1. f \in 1 .. Second - 1
      BY <1>0, <2>2
    <3>2. Digits(f) \in 1 .. Width /\ a \in [1 .. Digits(f) + 2 -> Nat]
      BY <3>1, Tails
    <3>3. Digits(f) + 2 \in Nat
      BY <1>0, <3>2
    <3> QED BY <3>2, <3>3
  <2> QED BY <2>1, <2>2
<1> HIDE DEF a
<1>2. \A k \in DOMAIN a : a[k] \in Nat
  BY <1>1
<1>3. \A k \in DOMAIN a : ~(a[k] < a[k])
  BY <1>2
<1> QED BY <1>3 DEF TailLess, a

(* Of two instants exactly one is up to the other, but for their units.    *)
LEMMA UpToTotal ==
  ASSUME Decimal, NEW s \in Nat, NEW t \in Nat, s # t
  PROVE  UpTo(t, s) <=> ~UpTo(s, t)
<1> DEFINE u == LastUnit(s)
           v == LastUnit(t)
           n == Precision(s)
           m == Precision(t)
<1>0. Width \in Nat
  BY DEF Decimal
<1>1. PICK x \in Nat : s = u * x
  BY InstantParts
<1>2. PICK y \in Nat : t = v * y
  BY InstantParts
<1>3. n \in 0 .. Width /\ m \in 0 .. Width /\ u \in Nat \ {0} /\ v \in Nat \ {0}
  BY InstantParts
<1>4. n = m => u = v
  BY DEF LastUnit
<1>5. UpTo(s, t) <=> IF n >= m THEN s < t + v ELSE s + u <= t
  BY DEF UpTo
<1>6. UpTo(t, s) <=> IF m >= n THEN t < s + u ELSE t + v <= s
  BY DEF UpTo
<1> HIDE DEF u, v, n, m
<1>7. CASE n < m
  BY <1>0, <1>3, <1>5, <1>6, <1>7
<1>8. CASE m < n
  BY <1>0, <1>3, <1>5, <1>6, <1>8
<1>9. CASE n = m
  <2>1. u * (x + 1) = u * x + u /\ u * (y + 1) = u * y + u
    BY <1>1, <1>2, <1>3
  <2>2. x # y
    BY <1>1, <1>2, <1>4, <1>9
  <2>3. CASE x < y
    <3>1. u * (x + 1) <= u * y
      BY <1>1, <1>2, <1>3, <2>3, Monotone
    <3>2. s + u <= t
      BY <1>1, <1>2, <1>4, <1>9, <2>1, <3>1
    <3> QED BY <1>0, <1>3, <1>4, <1>5, <1>6, <1>9, <3>2
  <2>4. CASE y < x
    <3>1. u * (y + 1) <= u * x
      BY <1>1, <1>2, <1>3, <2>4, Monotone
    <3>2. t + u <= s
      BY <1>1, <1>2, <1>4, <1>9, <2>1, <3>1
    <3> QED BY <1>0, <1>3, <1>4, <1>5, <1>6, <1>9, <3>2
  <2> QED BY <1>1, <1>2, <2>2, <2>3, <2>4
<1> QED BY <1>0, <1>3, <1>7, <1>8, <1>9

(* conv.go:275: what SQLite finds for two columns, whatever the instants.  *)
THEOREM TextOrder ==
  ASSUME Decimal, NEW s \in Nat, NEW t \in Nat
  PROVE  /\ TextLeq(Text(s), Text(t)) <=> UpTo(s, t)
         /\ TextLess(Text(t), Text(s)) <=> ~UpTo(s, t)
<1> DEFINE a == s \div Second
           b == t \div Second
           f == s % Second
           g == t % Second
           A == AfterSeconds(f)
           B == AfterSeconds(g)
           u == LastUnit(s)
           v == LastUnit(t)
<1>0. Second \in Nat \ {0} /\ Width \in Nat
  BY Units DEF Decimal
<1>1. /\ a \in Nat /\ f \in 0 .. Second - 1 /\ s = Second * a + f
      /\ Precision(s) \in 0 .. Width /\ u \in Nat \ {0} /\ f + u <= Second
  BY InstantParts
<1>2. /\ b \in Nat /\ g \in 0 .. Second - 1 /\ t = Second * b + g
      /\ Precision(t) \in 0 .. Width /\ v \in Nat \ {0} /\ g + v <= Second
  BY InstantParts
<1>3. Text(s) = [seconds |-> a, tail |-> A] /\ Text(t) = [seconds |-> b, tail |-> B]
  BY DEF Text
<1>4. UpTo(s, t) <=> IF Precision(s) >= Precision(t) THEN s < t + v ELSE s + u <= t
  BY DEF UpTo
<1>5. ~TailLess(A, A) /\ ~TailLess(B, B)
  BY <1>1, <1>2, NotBeforeItself
<1>6. Precision(s) = Digits(f) /\ u = Unit(Digits(f))
  BY DEF Precision, LastUnit
<1>7. Precision(t) = Digits(g) /\ v = Unit(Digits(g))
  BY DEF Precision, LastUnit
<1> HIDE DEF a, b, f, g, A, B, u, v
<1>8. TextLess(Text(s), Text(t)) <=> a < b \/ (a = b /\ TailLess(A, B))
  BY <1>3 DEF TextLess
<1>9. TextLess(Text(t), Text(s)) <=> b < a \/ (b = a /\ TailLess(B, A))
  BY <1>3 DEF TextLess
<1>10. Text(s) = Text(t) <=> a = b /\ A = B
  BY <1>3
<1>11. Second * a \in Nat /\ Second * b \in Nat
  BY <1>0, <1>1, <1>2
<1>12. CASE a < b
  <2>1. Second * (a + 1) <= Second * b
    BY <1>0, <1>1, <1>2, <1>12, Monotone
  <2>2. Second * (a + 1) = Second * a + Second
    BY <1>0, <1>1
  <2>3. s + u <= t /\ s < t + v
    BY <1>0, <1>1, <1>2, <1>11, <2>1, <2>2
  <2>4. UpTo(s, t)
    BY <1>4, <2>3
  <2> QED BY <1>1, <1>2, <1>8, <1>9, <1>12, <2>4 DEF TextLeq
<1>13. CASE b < a
  <2>1. Second * (b + 1) <= Second * a
    BY <1>0, <1>1, <1>2, <1>13, Monotone
  <2>2. Second * (b + 1) = Second * b + Second
    BY <1>0, <1>2
  <2>3. ~(s + u <= t) /\ ~(s < t + v)
    BY <1>0, <1>1, <1>2, <1>11, <2>1, <2>2
  <2>4. ~UpTo(s, t)
    BY <1>4, <2>3
  <2> QED BY <1>1, <1>2, <1>8, <1>9, <1>10, <1>13, <2>4 DEF TextLeq
<1>14. CASE a = b /\ f = g
  <2>1. s = t /\ A = B
    BY <1>1, <1>2, <1>14 DEF A, B
  <2>2. UpTo(s, t)
    BY <1>2, <1>4, <2>1
  <2> QED BY <1>1, <1>2, <1>5, <1>9, <1>10, <1>14, <2>1, <2>2 DEF TextLeq
<1>15. CASE a = b /\ f # g
  <2>1. TailLess(A, B) <=> IF Digits(f) >= Digits(g) THEN f < g + v ELSE f + u <= g
    BY <1>1, <1>2, <1>6, <1>7, <1>15, FractionOrder DEF A, B
  <2>2. TailLess(B, A) <=> IF Digits(g) >= Digits(f) THEN g < f + u ELSE g + v <= f
    BY <1>1, <1>2, <1>6, <1>7, <1>15, FractionOrder DEF A, B
  <2>3. UpTo(t, s) <=> IF Precision(t) >= Precision(s) THEN t < s + u ELSE t + v <= s
    BY DEF UpTo, u, v
  <2>4. s < t + v <=> f < g + v
    BY <1>0, <1>1, <1>2, <1>11, <1>15
  <2>5. s + u <= t <=> f + u <= g
    BY <1>0, <1>1, <1>2, <1>11, <1>15
  <2>6. t < s + u <=> g < f + u
    BY <1>0, <1>1, <1>2, <1>11, <1>15
  <2>7. t + v <= s <=> g + v <= f
    BY <1>0, <1>1, <1>2, <1>11, <1>15
  <2>8. TailLess(A, B) <=> UpTo(s, t)
    BY <1>4, <1>6, <1>7, <2>1, <2>4, <2>5
  <2>9. TailLess(B, A) <=> UpTo(t, s)
    BY <1>6, <1>7, <2>2, <2>3, <2>6, <2>7
  <2>10. UpTo(t, s) <=> ~UpTo(s, t)
    <3>1. s # t
      BY <1>0, <1>1, <1>2, <1>11, <1>15
    <3> QED BY <3>1, UpToTotal
  <2>11. A # B
    BY <1>5, <2>8, <2>9, <2>10
  <2> QED BY <1>1, <1>2, <1>8, <1>9, <1>10, <1>15, <2>8, <2>9, <2>10, <2>11 DEF TextLeq
<1> QED BY <1>1, <1>2, <1>12, <1>13, <1>14, <1>15

(* What an instant leaves when digits are cut off has fewer digits.        *)
LEMMA CutOffIsShorter ==
  ASSUME Decimal, NEW s \in Nat, NEW t \in Nat, CutOff(s, t)
  PROVE  Precision(s) < Precision(t)
<1> DEFINE u == LastUnit(s)
           v == LastUnit(t)
<1>0. Width \in Nat
  BY DEF Decimal
<1>1. Precision(s) \in 0 .. Width /\ u \in Nat \ {0} /\ u = Unit(Precision(s))
  BY InstantParts DEF LastUnit
<1>2. Precision(t) \in 0 .. Width /\ v \in Nat \ {0} /\ v = Unit(Precision(t))
  BY InstantParts DEF LastUnit
<1>3. PICK x \in Nat : s = u * x
  BY InstantParts
<1>4. PICK y \in Nat : t = v * y
  BY InstantParts
<1>5. s < t /\ t < s + u
  BY DEF CutOff
<1> HIDE DEF u, v
<1>6. ASSUME Precision(t) <= Precision(s) PROVE FALSE
  <2>1. Precision(t) \in 0 .. Precision(s)
    BY <1>0, <1>1, <1>2, <1>6
  <2>2. PICK c \in Nat : v = u * c
    BY <1>1, <1>2, <2>1, UnitsNest
  <2> DEFINE z == c * y
  <2>3. z \in Nat /\ t = u * z
    BY <1>1, <1>4, <2>2
  <2> HIDE DEF z
  <2>4. CASE z <= x
    <3>1. u * z <= u * x
      BY <1>1, <2>3, <2>4, Monotone
    <3> QED BY <1>3, <1>5, <2>3, <3>1
  <2>5. CASE x + 1 <= z
    <3>1. u * (x + 1) <= u * z
      BY <1>1, <2>3, <2>5, Monotone
    <3>2. u * (x + 1) = u * x + u
      BY <1>1
    <3>3. s + u <= t
      BY <1>3, <2>3, <3>1, <3>2
    <3> QED BY <1>1, <1>5, <3>3
  <2> QED BY <2>3, <2>4, <2>5
<1> QED BY <1>0, <1>1, <1>2, <1>6

(* conv.go:275: stored texts compare like the instants they stand for, but *)
(* for one case: if one of the two is what remains of the other when digits*)
(* are cut off, they compare the other way round.                          *)
THEOREM OnlyCutOffsMislead ==
  ASSUME Decimal, NEW s \in Nat, NEW t \in Nat
  PROVE  /\ TextLeq(Text(s), Text(t)) <=> (s <= t /\ ~CutOff(s, t)) \/ CutOff(t, s)
         /\ TextLess(Text(t), Text(s)) <=> (t < s /\ ~CutOff(t, s)) \/ CutOff(s, t)
<1> DEFINE u == LastUnit(s)
           v == LastUnit(t)
           n == Precision(s)
           m == Precision(t)
<1>0. n \in Nat /\ m \in Nat /\ u \in Nat \ {0} /\ v \in Nat \ {0}
  <2>1. Width \in Nat
    BY DEF Decimal
  <2> QED BY <2>1, InstantParts
<1>1. CutOff(s, t) <=> s < t /\ t < s + u
  BY DEF CutOff
<1>2. CutOff(t, s) <=> t < s /\ s < t + v
  BY DEF CutOff
<1>3. UpTo(s, t) <=> IF n >= m THEN s < t + v ELSE s + u <= t
  BY DEF UpTo
<1>4. /\ CutOff(s, t) => n < m
      /\ CutOff(t, s) => m < n
      /\ s = t => n = m
  BY CutOffIsShorter
<1> HIDE DEF u, v, n, m
<1>5. UpTo(s, t) <=> (s <= t /\ ~CutOff(s, t)) \/ CutOff(t, s)
  <2>1. CASE n >= m
    BY <1>0, <1>1, <1>2, <1>3, <1>4, <2>1
  <2>2. CASE n < m
    BY <1>0, <1>1, <1>2, <1>3, <1>4, <2>2
  <2> QED BY <1>0, <2>1, <2>2
<1>6. ~UpTo(s, t) <=> (t < s /\ ~CutOff(t, s)) \/ CutOff(s, t)
  BY <1>1, <1>2, <1>5
<1> QED BY <1>5, <1>6, TextOrder

-----------------------------------------------------------------------------
(* What that makes of the time-travel queries.                             *)

(* With as many digits, texts compare like their instants.                 *)
LEMMA SamePrecision ==
  ASSUME Decimal, NEW s \in Nat, NEW t \in Nat, Precision(s) = Precision(t)
  PROVE  UpTo(s, t) <=> s <= t
<1>0. Precision(t) \in Nat /\ LastUnit(s) \in Nat \ {0} /\ LastUnit(t) \in Nat \ {0}
  <2>1. Width \in Nat
    BY DEF Decimal
  <2> QED BY <2>1, InstantParts
<1>1. CASE s = t
  BY <1>0, <1>1 DEF UpTo
<1>2. CASE s # t
  <2>1. UpTo(t, s) <=> ~UpTo(s, t)
    BY <1>2, UpToTotal
  <2>2. UpTo(s, t) <=> s < t + LastUnit(t)
    BY <1>0 DEF UpTo
  <2>3. UpTo(t, s) <=> t < s + LastUnit(s)
    BY <1>0 DEF UpTo
  <2> QED BY <1>0, <1>2, <2>1, <2>2, <2>3
<1> QED BY <1>1, <1>2

(* queries_temporal.go:197, conv.go:275: the exact answer of the query as  *)
(* SQLite evaluates it.  A link counts as written at the end of the last   *)
(* unit of its stamp when the stamp has fewer digits than the instant      *)
(* asked for, and the instant as the end of its own last unit when not.    *)
THEOREM StoredEdgesExactly ==
  ASSUME Decimal
  PROVE  Spec => [](\A t \in Nat :
           StoredEdgesAt(t) = {e \in DOMAIN edge :
             /\ UpTo(edge[e].ingested, t)
             /\ edge[e].detached = Null \/ ~UpTo(edge[e].detached, t)})
<1> DEFINE Exact == \A t \in Nat :
             StoredEdgesAt(t) = {e \in DOMAIN edge :
               /\ UpTo(edge[e].ingested, t)
               /\ edge[e].detached = Null \/ ~UpTo(edge[e].detached, t)}
<1>1. ASSUME TypeOK PROVE Exact
  <2> SUFFICES ASSUME NEW t \in Nat, NEW e \in DOMAIN edge
               PROVE  /\ TextLeq(Text(edge[e].ingested), Text(t)) <=> UpTo(edge[e].ingested, t)
                      /\ edge[e].detached # Null =>
                           (TextLess(Text(t), Text(edge[e].detached))
                              <=> ~UpTo(edge[e].detached, t))
    BY DEF StoredEdgesAt
  <2>1. edge[e].ingested \in Nat /\ edge[e].detached \in Nat \cup {Null}
    BY <1>1 DEF TypeOK, Link
  <2> QED BY <2>1, TextOrder
<1> QED BY <1>1, TypeCorrect, PTL

(* The instants in the edges table.                                        *)
Stamps == {edge[e].ingested : e \in DOMAIN edge}
            \cup {edge[e].detached : e \in {x \in DOMAIN edge : edge[x].detached # Null}}

(* conv.go:275: an instant that no stamp is less precise than is taken for *)
(* the end of its own last unit: what happened in that unit after it is in *)
(* the answer, what was detached in it is not, and nothing else is wrong.  *)
THEOREM CoarseInstantShowsItsEnd ==
  ASSUME Decimal
  PROVE  Spec => [](\A t \in Nat : (\A s \in Stamps : Precision(s) >= Precision(t)) =>
                      StoredEdgesAt(t) = EdgesAt(t + LastUnit(t) - 1))
<1> DEFINE EndShown == \A t \in Nat : (\A s \in Stamps : Precision(s) >= Precision(t)) =>
                         StoredEdgesAt(t) = EdgesAt(t + LastUnit(t) - 1)
<1>1. ASSUME TypeOK PROVE EndShown
  <2> SUFFICES ASSUME NEW t \in Nat, \A s \in Stamps : Precision(s) >= Precision(t)
               PROVE  StoredEdgesAt(t) = EdgesAt(t + LastUnit(t) - 1)
    OBVIOUS
  <2>0. LastUnit(t) \in Nat \ {0}
    BY InstantParts
  <2> SUFFICES ASSUME NEW e \in DOMAIN edge
               PROVE  e \in StoredEdgesAt(t) <=> WasLinked(e, t + LastUnit(t) - 1)
    BY DEF StoredEdgesAt, EdgesAt
  <2>1. edge[e].ingested \in Nat /\ edge[e].detached \in Nat \cup {Null}
    BY <1>1 DEF TypeOK, Link
  <2>2. ASSUME NEW s \in Nat, s \in Stamps
        PROVE  /\ TextLeq(Text(s), Text(t)) <=> s <= t + LastUnit(t) - 1
               /\ TextLess(Text(t), Text(s)) <=> s > t + LastUnit(t) - 1
    <3>1. UpTo(s, t) <=> s < t + LastUnit(t)
      BY <2>2 DEF UpTo
    <3>2. /\ s < t + LastUnit(t) <=> s <= t + LastUnit(t) - 1
          /\ ~(s < t + LastUnit(t)) <=> s > t + LastUnit(t) - 1
      BY <2>0
    <3> QED BY <3>1, <3>2, TextOrder
  <2>3. edge[e].ingested \in Stamps /\ (edge[e].detached # Null => edge[e].detached \in Stamps)
    BY DEF Stamps
  <2>4. edge[e].detached = Null \/ TextLess(Text(t), Text(edge[e].detached))
          <=> edge[e].detached = Null \/ edge[e].detached > t + LastUnit(t) - 1
    BY <2>1, <2>2, <2>3
  <2> QED BY <2>1, <2>2, <2>3, <2>4 DEF StoredEdgesAt, WasLinked
<1> QED BY <1>1, TypeCorrect, PTL

(* A whole second is written without a fraction.                           *)
LEMMA WholeSeconds ==
  ASSUME Decimal, NEW t \in Nat, t % Second = 0
  PROVE  Precision(t) = 0 /\ LastUnit(t) = Second
<1>1. Second \in Nat \ {0}
  <2>1. 0 \in 0 .. Width
    BY DEF Decimal
  <2> QED BY <2>1, Units
<1>2. 0 \in 0 .. Second - 1
  BY <1>1
<1>3. Digits(0) = 0
  BY <1>2, NoDigits DEF Digits
<1> QED BY <1>3, Units DEF Precision, LastUnit

(* conv.go:275, queries_temporal.go:197: asked for a whole second, which is*)
(* what a date or a truncated time is, the query answers with the links as *)
(* of the end of that second: up to a second of what had not happened yet  *)
(* is in the answer, and nothing that had.  A comparison of the instants   *)
(* would give EdgesAt(t).                                                  *)
THEOREM WholeSecondShowsItsEnd ==
  ASSUME Decimal
  PROVE  Spec => [](\A t \in Nat : t % Second = 0 =>
                      StoredEdgesAt(t) = EdgesAt(t + Second - 1))
<1> DEFINE Coarse == \A t \in Nat : (\A s \in Stamps : Precision(s) >= Precision(t)) =>
                       StoredEdgesAt(t) = EdgesAt(t + LastUnit(t) - 1)
           EndShown == \A t \in Nat : t % Second = 0 =>
                         StoredEdgesAt(t) = EdgesAt(t + Second - 1)
<1>1. ASSUME TypeOK, Coarse PROVE EndShown
  <2> SUFFICES ASSUME NEW t \in Nat, t % Second = 0
               PROVE  StoredEdgesAt(t) = EdgesAt(t + Second - 1)
    OBVIOUS
  <2>1. Precision(t) = 0 /\ LastUnit(t) = Second
    BY WholeSeconds
  <2>2. ASSUME NEW s \in Stamps PROVE Precision(s) >= 0
    <3>1. s \in Nat
      BY <1>1 DEF Stamps, TypeOK, Link
    <3>2. Precision(s) \in 0 .. Width /\ Width \in Nat
      BY <3>1, InstantParts DEF Decimal
    <3> QED BY <3>2
  <2> QED BY <1>1, <2>1, <2>2
<1>2. Spec => []Coarse
  BY CoarseInstantShowsItsEnd
<1> QED BY <1>1, <1>2, TypeCorrect, PTL

(* queries_temporal.go:197: the comparison is chronological, as the comment*)
(* says, as long as all stamps are written with the same number of digits  *)
(* and the instant asked for is too.                                       *)
THEOREM EvenStampsAreChronological ==
  ASSUME Decimal
  PROVE  Spec => [](\A t \in Nat : (\A s \in Stamps : Precision(s) = Precision(t)) =>
                      StoredEdgesAt(t) = EdgesAt(t))
<1> DEFINE Chronological == \A t \in Nat : (\A s \in Stamps : Precision(s) = Precision(t)) =>
                              StoredEdgesAt(t) = EdgesAt(t)
<1>1. ASSUME TypeOK PROVE Chronological
  <2> SUFFICES ASSUME NEW t \in Nat, \A s \in Stamps : Precision(s) = Precision(t),
                      NEW e \in DOMAIN edge
               PROVE  e \in StoredEdgesAt(t) <=> WasLinked(e, t)
    BY DEF StoredEdgesAt, EdgesAt
  <2>1. edge[e].ingested \in Nat /\ edge[e].detached \in Nat \cup {Null}
    BY <1>1 DEF TypeOK, Link
  <2>2. ASSUME NEW s \in Nat, s \in Stamps
        PROVE  /\ TextLeq(Text(s), Text(t)) <=> s <= t
               /\ TextLess(Text(t), Text(s)) <=> s > t
    <3>1. UpTo(s, t) <=> s <= t
      BY <2>2, SamePrecision
    <3>2. ~(s <= t) <=> s > t
      OBVIOUS
    <3> QED BY <3>1, <3>2, TextOrder
  <2>3. edge[e].ingested \in Stamps /\ (edge[e].detached # Null => edge[e].detached \in Stamps)
    BY DEF Stamps
  <2>4. edge[e].detached = Null \/ TextLess(Text(t), Text(edge[e].detached))
          <=> edge[e].detached = Null \/ edge[e].detached > t
    BY <2>1, <2>2, <2>3
  <2> QED BY <2>1, <2>2, <2>3, <2>4 DEF StoredEdgesAt, WasLinked
<1> QED BY <1>1, TypeCorrect, PTL

(* queries_temporal.go:39, conv.go:275: asked for a whole second, the query*)
(* answers with the entries as of the end of that second: a version that   *)
(* was replaced within it is not shown, the one that replaced it is.       *)
THEOREM WholeSecondShowsEntriesAtItsEnd ==
  ASSUME Decimal
  PROVE  Spec => [](\A t, epoch \in Nat : (epoch + t) % Second = 0 =>
                      StoredEntriesAt(t, epoch) = EntriesAt(t + Second - 1))
<1> DEFINE EndShown == \A t, epoch \in Nat : (epoch + t) % Second = 0 =>
                         StoredEntriesAt(t, epoch) = EntriesAt(t + Second - 1)
<1>1. ASSUME IInv PROVE EndShown
  <2> SUFFICES ASSUME NEW t \in Nat, NEW epoch \in Nat, (epoch + t) % Second = 0,
                      NEW i \in DOMAIN entry
               PROVE  i \in StoredEntriesAt(t, epoch) <=> WasCurrent(i, t + Second - 1)
    BY DEF StoredEntriesAt, EntriesAt
  <2>0. Second \in Nat \ {0}
    <3>1. 0 \in 0 .. Width
      BY DEF Decimal
    <3> QED BY <3>1, Units
  <2>1. ASSUME NEW s \in Nat
        PROVE  /\ TextLeq(Text(epoch + s), Text(epoch + t)) <=> s <= t + Second - 1
               /\ TextLess(Text(epoch + t), Text(epoch + s)) <=> s > t + Second - 1
    <3>1. epoch + s \in Nat /\ epoch + t \in Nat
      OBVIOUS
    <3>2. Precision(epoch + t) = 0 /\ LastUnit(epoch + t) = Second
      BY <3>1, WholeSeconds
    <3>3. Precision(epoch + s) >= 0
      <4>1. Width \in Nat
        BY DEF Decimal
      <4> QED BY <3>1, <4>1, InstantParts
    <3>4. UpTo(epoch + s, epoch + t) <=> epoch + s < epoch + t + Second
      BY <3>2, <3>3 DEF UpTo
    <3>5. /\ epoch + s < epoch + t + Second <=> s <= t + Second - 1
          /\ ~(s <= t + Second - 1) <=> s > t + Second - 1
      BY <2>0
    <3> QED BY <3>1, <3>4, <3>5, TextOrder
  <2>2. /\ entry[i].ingested \in Nat /\ entry[i].occurred \in Nat
        /\ entry[i].next # Null => entry[entry[i].next].ingested \in Nat
    BY <1>1 DEF IInv, TypeOK, Row, Successors
  <2>3. entry[i].next = Null \/ TextLess(Text(epoch + t), Text(epoch + entry[entry[i].next].ingested))
          <=> entry[i].next = Null \/ entry[entry[i].next].ingested > t + Second - 1
    BY <2>1, <2>2
  <2> QED BY <2>1, <2>2, <2>3 DEF StoredEntriesAt, WasCurrent
<1> QED BY <1>1, Invariance, PTL

=============================================================================
