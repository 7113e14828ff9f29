-------------------------- MODULE LogStreamProofs ---------------------------
(***************************************************************************)
(* LogStream for every size of the buffer, every integer of 64 bits and    *)
(* every double of up to 17 digits: nothing is written behind the end of   *)
(* the buffer, which takes the longest text a conversion can write; every  *)
(* text denotes the number that was logged, which takes reading the texts  *)
(* of convert() and of each form of Prettify(); and the digits of doubles  *)
(* are as few as they can be and the closest ones, which takes that the    *)
(* loops of DigitGen() and GrisuRound() end, and where.  The recursions in *)
(* NumberFormat are shown to be well-founded first.                        *)
(***************************************************************************)
EXTENDS LogStream, FiniteSetTheorems, SequenceTheorems, WellFoundedInduction, TLAPS

-----------------------------------------------------------------------------
(* Induction and recursion.                                                *)

(* A set of naturals that is not empty has a least member: the intervals 1 *)
(* .. n are finite and ordered by strict inclusion.                        *)
LEMMA LeastNumber ==
  ASSUME NEW M, M \subseteq Nat, M # {}
  PROVE  \E x \in M : \A y \in M : x <= y
<1> DEFINE U == {1 .. n : n \in M}
<1>1. U \subseteq FiniteSubsetsOf(Nat)
  BY FS_Interval DEF FiniteSubsetsOf
<1>2. IsWellFoundedOn(StrictSubsetOrdering(Nat), FiniteSubsetsOf(Nat))
  BY FS_StrictSubsetOrderingWellFounded
<1>0. U # {}
  OBVIOUS
<1>3. \E x \in U : \A y \in U : ~ (<<y, x>> \in StrictSubsetOrdering(Nat))
  <2> HIDE DEF U
  <2> QED
    BY <1>1, <1>2, <1>0, WFMin
<1>4. PICK x \in M : \A y \in M : ~ (<<1 .. y, 1 .. x>> \in StrictSubsetOrdering(Nat))
  BY <1>3
<1>5. ASSUME NEW y \in M, y < x PROVE FALSE
  <2>1. 1 .. y \subseteq 1 .. x /\ x \in 1 .. x /\ x \notin 1 .. y
    BY <1>5
  <2>2. 1 .. y \in SUBSET Nat /\ 1 .. x \in SUBSET Nat /\ 1 .. y # 1 .. x
    BY <2>1
  <2>3. <<1 .. y, 1 .. x>> \in StrictSubsetOrdering(Nat)
    <3> DEFINE a == 1 .. y  b == 1 .. x
    <3> HIDE DEF a, b
    <3>1. a \in SUBSET Nat /\ b \in SUBSET Nat /\ a \subseteq b /\ a # b
      BY <2>1, <2>2 DEF a, b
    <3>2. <<a, b>> \in StrictSubsetOrdering(Nat)
      BY <3>1 DEF StrictSubsetOrdering
    <3> QED
      BY <3>2 DEF a, b
  <2> QED
    BY <1>4, <2>3
<1> QED BY <1>5

(* Induction over the naturals, for a set instead of a predicate.          *)
LEMMA InductionOnNumbers ==
  ASSUME NEW M, 0 \in M, \A n \in Nat : n \in M => n + 1 \in M
  PROVE  Nat \subseteq M
<1> SUFFICES ASSUME Nat \ M # {} PROVE FALSE
  OBVIOUS
<1>1. PICK x \in Nat \ M : \A y \in Nat \ M : x <= y
  BY LeastNumber
<1>2. x # 0 /\ x - 1 \in Nat /\ x = (x - 1) + 1 /\ ~(x <= x - 1)
  BY <1>1
<1>3. x - 1 \in M
  BY <1>1, <1>2
<1> QED
  BY <1>1, <1>2, <1>3

(* A function that is defined by recursion exists if the argument gets     *)
(* smaller outside of B.                                                   *)
Solves(f, D, B, prev, base, rec) ==
  \A d \in D : f[d] = IF d \in B THEN base[d] ELSE rec[d][f[prev[d]]]

LEMMA RecursionExists ==
  ASSUME NEW D, NEW X, NEW B, NEW rank \in [D -> Nat], NEW prev \in [D -> D],
         NEW base \in [D -> X], NEW rec \in [D -> [X -> X]],
         \A d \in D : d \notin B => rank[prev[d]] < rank[d]
  PROVE  \E f \in [D -> X] : Solves(f, D, B, prev, base, rec)
<1> DEFINE Below(n) == {d \in D : rank[d] < n}
           Part(f, n) == f \in [Below(n) -> X] /\ Solves(f, Below(n), B, prev, base, rec)
<1>1. ASSUME NEW n \in Nat, NEW d \in Below(n), d \notin B
      PROVE  prev[d] \in Below(n) /\ prev[d] \in D /\ rank[prev[d]] \in Nat
  BY <1>1
<1>2. ASSUME NEW m \in Nat, NEW n \in Nat, NEW f, NEW g, Part(f, m), Part(g, n)
      PROVE  \A d \in Below(m) \cap Below(n) : f[d] = g[d]
  <2> DEFINE M == {k \in Nat : \A d \in Below(m) \cap Below(n) : rank[d] < k => f[d] = g[d]}
  <2>1. 0 \in M
    OBVIOUS
  <2>2. ASSUME NEW k \in Nat, k \in M PROVE k + 1 \in M
    <3> SUFFICES ASSUME NEW d \in Below(m) \cap Below(n), rank[d] < k + 1 PROVE f[d] = g[d]
      OBVIOUS
    <3>1. CASE d \in B
      BY <1>2, <3>1 DEF Solves
    <3>2. CASE d \notin B
      <4>1. prev[d] \in Below(m) \cap Below(n) /\ rank[prev[d]] < k
        BY <1>1, <3>2
      <4>2. f[prev[d]] = g[prev[d]]
        BY <2>2, <4>1
      <4> QED
        BY <1>2, <3>2, <4>2 DEF Solves
    <3> QED
      BY <3>1, <3>2
  <2>3. Nat \subseteq M
    <3> HIDE DEF M
    <3> QED
      BY <2>1, <2>2, InductionOnNumbers
  <2>4. ASSUME NEW d \in Below(m) \cap Below(n) PROVE f[d] = g[d]
    <3>1. rank[d] + 1 \in M
      BY <2>3
    <3> QED
      BY <3>1
  <2> QED
    BY <2>4
<1>3. \A n \in Nat : \E f : Part(f, n)
  <2> DEFINE M == {n \in Nat : \E f : Part(f, n)}
  <2>1. 0 \in M
    <3>1. Below(0) = {}
      OBVIOUS
    <3>2. Part([d \in Below(0) |-> base[d]], 0)
      BY <3>1 DEF Solves
    <3> QED
      BY <3>2
  <2>2. ASSUME NEW n \in Nat, n \in M PROVE n + 1 \in M
    <3>1. PICK f : Part(f, n)
      BY <2>2
    <3> DEFINE g == [d \in Below(n + 1) |-> IF d \in B THEN base[d] ELSE rec[d][f[prev[d]]]]
    <3>2. ASSUME NEW d \in Below(n + 1), d \notin B
          PROVE  prev[d] \in Below(n) /\ prev[d] \in Below(n + 1)
      BY <3>2
    <3>3. \A d \in Below(n) : d \in Below(n + 1) /\ g[d] = f[d]
      BY <3>1 DEF Solves
    <3>4. g \in [Below(n + 1) -> X]
      BY <3>1, <3>2
    <3>5. Solves(g, Below(n + 1), B, prev, base, rec)
      BY <3>2, <3>3 DEF Solves
    <3>6. Part(g, n + 1)
      BY <3>4, <3>5
    <3>7. \E x : Part(x, n + 1)
      <4> HIDE DEF Part, g
      <4> QED
        BY <3>6
    <3>8. n + 1 \in Nat
      OBVIOUS
    <3> HIDE DEF Part
    <3> QED
      BY <3>7, <3>8, Zenon
  <2>3. Nat \subseteq M
    <3> HIDE DEF M
    <3> QED
      BY <2>1, <2>2, InductionOnNumbers
  <2> QED
    BY <2>3
<1> DEFINE part(n) == CHOOSE f : Part(f, n)
           F == [d \in D |-> part(rank[d] + 1)[d]]
<1>4. \A n \in Nat : Part(part(n), n)
  <2> HIDE DEF Part
  <2> QED
    BY <1>3
<1>5. \A d \in D : rank[d] + 1 \in Nat /\ d \in Below(rank[d] + 1)
  OBVIOUS
<1>6. F \in [D -> X]
  BY <1>4, <1>5
<1>7. ASSUME NEW d \in D PROVE F[d] = IF d \in B THEN base[d] ELSE rec[d][F[prev[d]]]
  <2> DEFINE n == rank[d] + 1
             p == prev[d]
             m == rank[p] + 1
  <2>1. Part(part(n), n) /\ d \in Below(n) /\ F[d] = part(n)[d] /\ n \in Nat
    BY <1>4, <1>5
  <2>2. CASE d \in B
    BY <2>1, <2>2 DEF Solves
  <2>3. CASE d \notin B
    <3>1. p \in Below(n) /\ p \in D /\ p \in Below(m) /\ m \in Nat /\ F[p] = part(m)[p]
      BY <1>1, <1>5, <2>1, <2>3
    <3>2. Part(part(m), m)
      BY <1>4, <3>1
    <3>3. part(m)[p] = part(n)[p]
      <4> HIDE DEF part, Part, Below, n, m, p
      <4> QED
        BY <1>2, <2>1, <3>1, <3>2
    <3>4. part(n)[d] = rec[d][part(n)[p]]
      BY <2>1, <2>3 DEF Solves
    <3> QED
      BY <2>1, <2>3, <3>1, <3>3, <3>4
  <2> QED
    BY <2>2, <2>3
<1> QED
  BY <1>6, <1>7 DEF Solves

-----------------------------------------------------------------------------
(* The digits of numbers.                                                  *)
Digit == 0 .. 9

(* Those of an exponent: at most three.                                    *)
DigitsFrom(from) == from = [i \in Nat |-> IF i = 0 THEN <<>> ELSE Append(from[i \div 10], i % 10)]

(* Such a function exists, so DigitsOf() is one.                           *)
LEMMA DigitsExist == \E f : f \in [Nat -> Seq(Digit)] /\ DigitsFrom(f)
<1> DEFINE X == Seq(Digit)
           rank == [i \in Nat |-> i]
           prev == [i \in Nat |-> i \div 10]
           base == [i \in Nat |-> <<>>]
           rec == [i \in Nat |-> [r \in X |-> Append(r, i % 10)]]
<1>1. \A i \in Nat : i \div 10 \in Nat /\ i % 10 \in Digit /\ (i # 0 => i \div 10 < i)
  BY DEF Digit
<1>2. rank \in [Nat -> Nat] /\ prev \in [Nat -> Nat] /\ base \in [Nat -> X] /\ rec \in [Nat -> [X -> X]]
  <2>1. rank \in [Nat -> Nat] /\ prev \in [Nat -> Nat] /\ base \in [Nat -> X]
    BY <1>1
  <2>2. \A i \in Nat, r \in X : Append(r, i % 10) \in X
    BY <1>1
  <2> QED
    BY <2>1, <2>2
<1>3. \A i \in Nat : i \notin {0} => rank[prev[i]] < rank[i]
  BY <1>1
<1>4. PICK f \in [Nat -> X] : Solves(f, Nat, {0}, prev, base, rec)
  <2> HIDE DEF X, rank, prev, base, rec
  <2> QED
    BY <1>2, <1>3, RecursionExists
<1>5. \A i \in Nat : f[i] = IF i = 0 THEN <<>> ELSE Append(f[i \div 10], i % 10)
  BY <1>1, <1>4 DEF Solves
<1> QED
  BY <1>4, <1>5 DEF DigitsFrom

Magnitudes == 0 .. 999

(* The exponent of a double has at most three digits.                      *)
LEMMA DigitsOfExponent ==
  ASSUME NEW n \in Magnitudes
  PROVE  DigitsOf(n) \in Seq(Digit) /\ Len(DigitsOf(n)) <= 3
<1> DEFINE d == CHOOSE f : DigitsFrom(f)
<1>1. PICK f : f \in [Nat -> Seq(Digit)] /\ DigitsFrom(f)
  BY DigitsExist
<1>2. DigitsFrom(d)
  <2> HIDE DEF DigitsFrom
  <2> QED
    BY <1>1
<1>3. DigitsOf(n) = d[n]
  BY DEF DigitsOf, DigitsFrom
<1> HIDE DEF d
<1>4. \A i \in Nat : d[i] = IF i = 0 THEN <<>> ELSE Append(d[i \div 10], i % 10)
  BY <1>2 DEF DigitsFrom
<1>5. \A i \in Nat : i % 10 \in Digit /\ i \div 10 \in Nat
  BY DEF Digit
<1>6. ASSUME NEW m \in Nat, NEW i \in Nat, d[i \div 10] \in Seq(Digit), Len(d[i \div 10]) <= m
      PROVE  d[i] \in Seq(Digit) /\ Len(d[i]) <= m + 1
  <2> DEFINE x == d[i \div 10]
             y == i % 10
  <2>1. y \in Digit /\ x \in Seq(Digit) /\ Len(x) <= m
    BY <1>5, <1>6
  <2>2. d[i] = <<>> \/ d[i] = Append(x, y)
    BY <1>4
  <2> HIDE DEF x, y
  <2>3. Append(x, y) \in Seq(Digit) /\ Len(Append(x, y)) <= m + 1
    BY <2>1
  <2>4. <<>> \in Seq(Digit) /\ Len(<<>>) <= m + 1
    OBVIOUS
  <2> QED
    BY <2>2, <2>3, <2>4
<1>7. d[0] \in Seq(Digit) /\ Len(d[0]) <= 0
  <2>1. 0 \in Nat
    OBVIOUS
  <2>2. d[0] = <<>>
    BY <1>4, <2>1
  <2> QED
    BY <2>2
<1>8. ASSUME NEW i \in 0 .. 9 PROVE d[i] \in Seq(Digit) /\ Len(d[i]) <= 1
  <2>1. i \div 10 = 0 /\ i \in Nat
    OBVIOUS
  <2> QED
    BY <1>6, <1>7, <2>1
<1>9. ASSUME NEW i \in 0 .. 99 PROVE d[i] \in Seq(Digit) /\ Len(d[i]) <= 2
  <2>1. i \div 10 \in 0 .. 9 /\ i \in Nat /\ 1 \in Nat /\ 1 + 1 = 2
    OBVIOUS
  <2> QED
    BY <1>6, <1>8, <2>1
<1>10. d[n] \in Seq(Digit) /\ Len(d[n]) <= 3
  <2>1. n \div 10 \in 0 .. 99 /\ n \in Nat /\ 2 \in Nat /\ 2 + 1 = 3
    BY DEF Magnitudes
  <2>2. d[n \div 10] \in Seq(Digit) /\ Len(d[n \div 10]) <= 2
    BY <1>9, <2>1
  <2>3. d[n] \in Seq(Digit) /\ Len(d[n]) <= 2 + 1
    BY <1>6, <2>1, <2>2
  <2> QED
    BY <2>1, <2>3
<1> QED
  BY <1>3, <1>10

(* The digits of an integer, the last one first, until the quotient is 0.  *)
LowDigits(low) == low = [i \in Int |-> <<ZeroAt(Remainder(i))>> \o
                                       (IF Quotient(i) = 0 THEN <<>> ELSE low[Quotient(i)])]
Size_(i) == IF i < 0 THEN -i ELSE i

(* Division of C goes towards zero, so each remainder gives a digit.       *)
LEMMA DivisionOfC ==
  ASSUME NEW i \in Int
  PROVE  /\ Quotient(i) \in Int /\ ZeroAt(Remainder(i)) \in Digit
         /\ 10 * Size_(Quotient(i)) <= Size_(i)
         /\ Quotient(i) # 0 => Size_(Quotient(i)) < Size_(i)
         /\ Size_(i) <= 10 * Size_(Quotient(i)) + 9
         /\ Size_(i) \in Nat /\ Size_(Quotient(i)) \in Nat
<1>1. CASE i < 0
  <2> DEFINE q == (-i) \div 10
  <2>1. q \in Nat /\ 10 * q <= -i /\ -i <= 10 * q + 9
    BY <1>1
  <2>2. Quotient(i) = -q
    BY <1>1 DEF Quotient
  <2> HIDE DEF q
  <2> QED
    BY <1>1, <2>1, <2>2 DEF Size_, Remainder, ZeroAt, Digit
<1>2. CASE ~(i < 0)
  <2> DEFINE q == i \div 10
  <2>1. q \in Nat /\ 10 * q <= i /\ i <= 10 * q + 9
    BY <1>2
  <2>2. Quotient(i) = q
    BY <1>2 DEF Quotient
  <2> HIDE DEF q
  <2> QED
    BY <1>2, <2>1, <2>2 DEF Size_, Remainder, ZeroAt, Digit
<1> QED
  BY <1>1, <1>2

(* Hence the function that convert() computes exists.                      *)
LEMMA LowDigitsExist == \E f : f \in [Int -> Seq(Digit)] /\ LowDigits(f)
<1> DEFINE X == Seq(Digit)
           B == {i \in Int : Quotient(i) = 0}
           last == [i \in Int |-> ZeroAt(Remainder(i))]
           rank == [i \in Int |-> Size_(i)]
           prev == [i \in Int |-> Quotient(i)]
           base == [i \in Int |-> <<last[i]>>]
           rec == [i \in Int |-> [r \in X |-> <<last[i]>> \o r]]
<1>1. last \in [Int -> Digit]
  BY DivisionOfC
<1>2. rank \in [Int -> Nat] /\ prev \in [Int -> Int]
  BY DivisionOfC
<1>3. base \in [Int -> X] /\ rec \in [Int -> [X -> X]]
  <2> HIDE DEF last
  <2>1. \A i \in Int : <<last[i]>> \in X /\ \A r \in X : <<last[i]>> \o r \in X
    BY <1>1
  <2> QED
    BY <2>1
<1>4. \A i \in Int : i \notin B => rank[prev[i]] < rank[i]
  BY DivisionOfC
<1>5. PICK f \in [Int -> X] : Solves(f, Int, B, prev, base, rec)
  <2> HIDE DEF X, B, rank, prev, base, rec
  <2> QED
    BY <1>2, <1>3, <1>4, RecursionExists
<1>6. ASSUME NEW i \in Int
      PROVE  f[i] = <<ZeroAt(Remainder(i))>> \o (IF Quotient(i) = 0 THEN <<>> ELSE f[Quotient(i)])
  <2>1. f[i] = IF i \in B THEN base[i] ELSE rec[i][f[prev[i]]]
    BY <1>5 DEF Solves
  <2>2. last[i] \in Digit /\ last[i] = ZeroAt(Remainder(i))
    BY <1>1
  <2>3. CASE Quotient(i) = 0
    <3>1. f[i] = <<last[i]>> /\ <<last[i]>> = <<last[i]>> \o <<>>
      BY <2>1, <2>2, <2>3
    <3> QED
      BY <2>2, <2>3, <3>1
  <2>4. CASE Quotient(i) # 0
    <3>1. Quotient(i) \in Int /\ f[Quotient(i)] \in X
      BY <1>5, DivisionOfC
    <3>2. f[i] = <<last[i]>> \o f[Quotient(i)]
      BY <2>1, <2>4, <3>1
    <3> QED
      BY <2>2, <2>4, <3>2
  <2> QED
    BY <2>3, <2>4
<1> QED
  BY <1>5, <1>6 DEF LowDigits

(* It gives digits only.                                                   *)
LEMMA LowDigitsAreDigits ==
  ASSUME NEW low, LowDigits(low)
  PROVE  low \in [Int -> Seq(Digit)]
<1> DEFINE M == {n \in Nat : \A i \in Int : Size_(i) < n => low[i] \in Seq(Digit)}
<1>1. 0 \in M
  BY DivisionOfC
<1>2. ASSUME NEW n \in Nat, n \in M PROVE n + 1 \in M
  <2> SUFFICES ASSUME NEW i \in Int, Size_(i) < n + 1 PROVE low[i] \in Seq(Digit)
    OBVIOUS
  <2> DEFINE q == Quotient(i)
             z == ZeroAt(Remainder(i))
             rest == IF q = 0 THEN <<>> ELSE low[q]
  <2>1. q \in Int /\ z \in Digit /\ (q # 0 => Size_(q) < n)
    BY DivisionOfC
  <2>2. low[i] = <<z>> \o rest
    BY DEF LowDigits
  <2>3. rest \in Seq(Digit)
    BY <1>2, <2>1
  <2> HIDE DEF z, rest
  <2> QED
    BY <2>1, <2>2, <2>3
<1>3. Nat \subseteq M
  <2> HIDE DEF M
  <2> QED
    BY <1>1, <1>2, InductionOnNumbers
<1>4. ASSUME NEW i \in Int PROVE low[i] \in Seq(Digit)
  <2>1. Size_(i) + 1 \in M /\ Size_(i) < Size_(i) + 1
    <3>1. Size_(i) \in Nat
      BY DivisionOfC
    <3>2. Size_(i) + 1 \in Nat /\ Size_(i) < Size_(i) + 1
      BY <3>1
    <3> HIDE DEF M
    <3> QED
      BY <1>3, <3>2
  <2> QED
    BY <2>1
<1>5. \E g : low = [i \in Int |-> g[i]]
  <2>1. low = [i \in Int |-> low[i]]
    BY DEF LowDigits
  <2> QED
    BY <2>1
<1> QED
  BY <1>4, <1>5

(* The text of an integer of 64 bits: at most 20 digits and a sign.        *)
Short(low, k, c) == \A i \in Int : Size_(i) <= c => Len(low[i]) <= k

(* One digit more for numbers ten times as large.                          *)
LEMMA OneDigitMore ==
  ASSUME NEW low \in [Int -> Seq(Digit)], LowDigits(low), NEW k \in Nat, NEW c \in Nat,
         Short(low, k, c)
  PROVE  Short(low, k + 1, 10 * c + 9)
<1> SUFFICES ASSUME NEW i \in Int, Size_(i) <= 10 * c + 9 PROVE Len(low[i]) <= k + 1
  BY DEF Short
<1> DEFINE q == Quotient(i)
           z == ZeroAt(Remainder(i))
           rest == IF q = 0 THEN <<>> ELSE low[q]
<1>1. q \in Int /\ z \in Digit /\ 10 * Size_(q) <= Size_(i) /\ Size_(q) \in Nat /\ Size_(i) \in Nat
  BY DivisionOfC
<1>2. low[i] = <<z>> \o rest
  BY DEF LowDigits
<1> HIDE DEF q, z
<1>3. Size_(q) <= c
  BY <1>1
<1>4. rest \in Seq(Digit) /\ Len(rest) <= k
  BY <1>1, <1>3 DEF Short
<1> HIDE DEF rest
<1>5. Len(<<z>> \o rest) = 1 + Len(rest)
  BY <1>1, <1>4
<1> QED
  BY <1>2, <1>4, <1>5

Nines3(c) == 1000 * c + 999
Nines20 == Nines3(Nines3(Nines3(Nines3(Nines3(Nines3(99))))))

(* Twenty digits are enough for every number below 10^20.                  *)
LEMMA TwentyDigits ==
  ASSUME NEW low \in [Int -> Seq(Digit)], LowDigits(low)
  PROVE  Short(low, 20, Nines20)
<1> DEFINE Holds(k, c) == k \in Nat /\ c \in Nat /\ Short(low, k, c)
<1>1. Holds(1, 9)
  <2> SUFFICES ASSUME NEW i \in Int, Size_(i) <= 9 PROVE Len(low[i]) <= 1
    BY DEF Short
  <2> DEFINE z == ZeroAt(Remainder(i))
  <2>1. /\ Quotient(i) \in Int /\ z \in Digit
        /\ 10 * Size_(Quotient(i)) <= Size_(i) /\ Size_(i) \in Nat /\ Size_(Quotient(i)) \in Nat
    BY DivisionOfC
  <2>3. Size_(Quotient(i)) = 0
    <3> DEFINE x == Size_(Quotient(i))  y == Size_(i)
    <3>1. x \in Nat /\ y \in Nat /\ 10 * x <= y /\ y <= 9
      BY <2>1
    <3> HIDE DEF x, y
    <3>2. x = 0
      BY <3>1
    <3> QED
      BY <3>2 DEF x
  <2>4. Quotient(i) = 0
    BY <2>1, <2>3 DEF Size_
  <2>2. low[i] = <<z>> \o <<>>
    BY <2>4 DEF LowDigits
  <2> HIDE DEF z
  <2> QED
    BY <2>1, <2>2
<1>2. ASSUME NEW k, NEW c, Holds(k, c) PROVE Holds(k + 1, 10 * c + 9)
  <2>1. k \in Nat /\ c \in Nat /\ Short(low, k, c)
    BY <1>2
  <2>2. Short(low, k + 1, 10 * c + 9)
    BY <2>1, OneDigitMore
  <2> QED
    BY <2>1, <2>2
<1>3. ASSUME NEW k, NEW c, Holds(k, c) PROVE Holds(k + 3, Nines3(c))
  <2>1. k \in Nat /\ c \in Nat
    BY <1>3
  <2>2. /\ (k + 1) + 1 = k + 2 /\ 10 * (10 * c + 9) + 9 = 100 * c + 99
        /\ (k + 2) + 1 = k + 3 /\ 10 * (100 * c + 99) + 9 = Nines3(c)
    BY <2>1 DEF Nines3
  <2> HIDE DEF Holds
  <2>3. Holds(k + 1, 10 * c + 9)
    BY <1>2, <1>3
  <2>4. Holds(k + 2, 100 * c + 99)
    BY <1>2, <2>2, <2>3
  <2> QED
    BY <1>2, <2>2, <2>4
<1>4. Holds(2, 99)
  <2>1. 1 + 1 = 2 /\ 10 * 9 + 9 = 99
    OBVIOUS
  <2> HIDE DEF Holds
  <2>2. Holds(1 + 1, 10 * 9 + 9)
    BY <1>1, <1>2
  <2> QED
    BY <2>1, <2>2
<1> HIDE DEF Holds
<1>5. Holds(8, Nines3(Nines3(99)))
  <2>1. 2 + 3 = 5 /\ 5 + 3 = 8
    OBVIOUS
  <2>2. Holds(2 + 3, Nines3(99))
    BY <1>3, <1>4
  <2>3. Holds(5 + 3, Nines3(Nines3(99)))
    BY <1>3, <2>1, <2>2
  <2> QED
    BY <2>1, <2>3
<1>6. Holds(14, Nines3(Nines3(Nines3(Nines3(99)))))
  <2> DEFINE c == Nines3(Nines3(99))
  <2>1. 8 + 3 = 11 /\ 11 + 3 = 14
    OBVIOUS
  <2> HIDE DEF c
  <2>2. Holds(8 + 3, Nines3(c))
    BY <1>3, <1>5 DEF c
  <2>3. Holds(11, Nines3(c))
    BY <2>1, <2>2
  <2>4. Holds(11 + 3, Nines3(Nines3(c)))
    BY <1>3, <2>3
  <2>5. Holds(14, Nines3(Nines3(c)))
    BY <2>1, <2>4
  <2> QED
    BY <2>5 DEF c
<1>7. Holds(20, Nines20)
  <2> DEFINE c == Nines3(Nines3(Nines3(Nines3(99))))
  <2>1. 14 + 3 = 17 /\ 17 + 3 = 20
    OBVIOUS
  <2> HIDE DEF c
  <2>2. Holds(14 + 3, Nines3(c))
    BY <1>3, <1>6 DEF c
  <2>3. Holds(17, Nines3(c))
    BY <2>1, <2>2
  <2>4. Holds(17 + 3, Nines3(Nines3(c)))
    BY <1>3, <2>3
  <2>5. Holds(20, Nines3(Nines3(c)))
    BY <2>1, <2>4
  <2> QED
    BY <2>5 DEF c, Nines20
<1> QED
  BY <1>7 DEF Holds

(* An integer of 64 bits is below 10^20, and its sign is one character     *)
(* more.                                                                   *)
LEMMA ConvertFits ==
  ASSUME NEW v \in Int, HasDigits(v)
  PROVE  Convert(v) \in Seq(Characters) /\ Len(Convert(v)) <= 21
<1> DEFINE low == CHOOSE f : LowDigits(f)
           text == low[v] \o SignOf(v)
<1>1. PICK f : LowDigits(f)
  BY LowDigitsExist
<1>2. LowDigits(low)
  <2> HIDE DEF LowDigits
  <2> QED
    BY <1>1
<1>3. Convert(v) = Reverse(text)
  BY DEF Convert, LowDigits
<1> HIDE DEF low
<1>4. low \in [Int -> Seq(Digit)] /\ Short(low, 20, Nines20)
  BY <1>2, LowDigitsAreDigits, TwentyDigits
<1>5. Size_(v) <= Nines20
  <2>1. ASSUME NEW i \in Int, NEW c \in Nat, Size_(i \div 1000000000) <= c
        PROVE  Size_(i) <= Nines3(Nines3(Nines3(c)))
    <3> DEFINE a == i \div 1000000000
    <3>1. a \in Int /\ 1000000000 * a <= i /\ i <= 1000000000 * a + 999999999
      BY SMT
    <3> HIDE DEF a
    <3>2. a <= c /\ -a <= c
      BY <2>1, <3>1, SMT DEF Size_, a
    <3>3. Nines3(Nines3(Nines3(c))) = 1000000000 * c + 999999999
      BY SMT DEF Nines3
    <3> QED
      BY <3>1, <3>2, <3>3, SMT DEF Size_
  <2> DEFINE q == v \div 1000000000
  <2>2. q \in Int /\ q \div 1000000000 \in -10 .. 18
    BY SMT DEF HasDigits
  <2>3. Size_(q \div 1000000000) <= 99
    BY <2>2, SMT DEF Size_
  <2> HIDE DEF q
  <2> DEFINE c == Nines3(Nines3(Nines3(99)))
  <2>4. Size_(q) <= c /\ c \in Nat
    BY <2>1, <2>2, <2>3, SMT DEF Nines3
  <2> HIDE DEF c
  <2>5. Size_(v) <= Nines3(Nines3(Nines3(c)))
    BY <2>1, <2>4, SMT DEF q
  <2> QED
    BY <2>5 DEF c, Nines20
<1>6. low[v] \in Seq(Digit) /\ Len(low[v]) <= 20
  BY <1>4, <1>5 DEF Short
<1>7. text \in Seq(Characters) /\ Len(text) <= 21
  <2> DEFINE l == low[v]  s == SignOf(v)
  <2>1. Digit \subseteq Characters /\ Minus \in Characters
    BY DEF Digit, Characters, Minus, Exponent
  <2>2. l \in Seq(Characters) /\ Len(l) <= 20
    BY <1>6, <2>1
  <2>3. s \in Seq(Characters) /\ Len(s) <= 1
    BY <2>1 DEF SignOf
  <2> HIDE DEF l, s
  <2>4. l \o s \in Seq(Characters) /\ Len(l \o s) = Len(l) + Len(s)
    BY <2>2, <2>3
  <2>5. Len(l \o s) <= 21
    BY <2>2, <2>3, <2>4
  <2> QED
    BY <2>4, <2>5 DEF l, s
<1> HIDE DEF text
<1>8. Reverse(text) \in Seq(Characters) /\ Len(Reverse(text)) = Len(text)
  BY <1>7 DEF Reverse
<1> QED
  BY <1>3, <1>7, <1>8

-----------------------------------------------------------------------------
(* The texts of doubles.                                                   *)

(* The parts of a text are put one behind the other.                       *)
Text(t, n) == t \in Seq(Characters) /\ Len(t) <= n

(* Two texts in a row are as long as both.                                 *)
LEMMA Joined ==
  ASSUME NEW s, NEW t, NEW m \in Nat, NEW n \in Nat, Text(s, m), Text(t, n)
  PROVE  Text(s \o t, m + n)
<1>1. s \o t \in Seq(Characters) /\ Len(s \o t) = Len(s) + Len(t)
  BY DEF Text
<1> QED
  BY <1>1 DEF Text

(* Characters and digits are texts.                                        *)
LEMMA CharacterTexts ==
  /\ \A c \in Characters : Text(<<c>>, 1)
  /\ Text(<<>>, 0)
  /\ \A s \in Seq(Digit), n \in Nat : Len(s) <= n => Text(s, n)
  /\ Digit \subseteq Characters /\ {Minus, Point, Exponent} \subseteq Characters
<1>1. Digit \subseteq Characters /\ {Minus, Point, Exponent} \subseteq Characters
  BY DEF Digit, Characters, Minus, Point, Exponent
<1>2. \A c \in Characters : <<c>> \in Seq(Characters) /\ Len(<<c>>) <= 1
  OBVIOUS
<1>3. <<>> \in Seq(Characters) /\ Len(<<>>) <= 0
  OBVIOUS
<1>4. \A s \in Seq(Digit) : s \in Seq(Characters)
  BY <1>1
<1> QED
  BY <1>1, <1>2, <1>3, <1>4 DEF Text

(* So are zeros.                                                           *)
LEMMA ZerosFit ==
  ASSUME NEW n \in Nat
  PROVE  Text(Zeros(n), n)
<1>1. 0 \in Characters
  BY DEF Characters, Exponent
<1>2. Zeros(n) \in Seq(Characters) /\ Len(Zeros(n)) = n
  BY <1>1 DEF Zeros
<1> QED
  BY <1>2 DEF Text

(* WriteExponent(): a sign and up to three digits.                         *)
Exponents == -999 .. 999

LEMMA WriteExponentFits ==
  ASSUME NEW K \in Exponents
  PROVE  Text(WriteExponent(K), 4)
<1> DEFINE abs == IF K < 0 THEN -K ELSE K
           sign == IF K < 0 THEN <<Minus>> ELSE <<>>
           digits == IF abs < 10 THEN <<abs>> ELSE DigitsOf(abs)
<1>1. abs \in Magnitudes
  BY DEF Exponents, Magnitudes
<1>2. Text(sign, 1)
  BY CharacterTexts DEF Text
<1>3. Text(digits, 3)
  <2>1. CASE abs < 10
    <3>1. abs \in Digit /\ digits = <<abs>>
      BY <1>1, <2>1 DEF Digit, Magnitudes
    <3> HIDE DEF abs, digits
    <3>2. Text(<<abs>>, 1)
      BY <3>1, CharacterTexts
    <3> QED
      BY <3>1, <3>2 DEF Text
  <2>2. CASE ~(abs < 10)
    <3>1. digits = DigitsOf(abs) /\ 3 \in Nat
      BY <2>2
    <3> HIDE DEF abs, digits
    <3>2. DigitsOf(abs) \in Seq(Digit) /\ Len(DigitsOf(abs)) <= 3
      BY <1>1, DigitsOfExponent
    <3> QED
      BY <3>1, <3>2, CharacterTexts
  <2> QED
    BY <2>1, <2>2
<1>4. WriteExponent(K) = sign \o digits
  BY DEF WriteExponent
<1> HIDE DEF sign, digits
<1> QED
  BY <1>2, <1>3, <1>4, Joined

(* Prettify(): the longest text is that of 17 digits behind 0.00000.       *)
LEMMA PrettifyFits ==
  ASSUME NEW digits \in Seq(Digit), NEW k \in Int, digits # <<>>,
         Len(digits) <= 17, Len(digits) + k \in -323 .. 309
  PROVE  Text(Prettify(digits, k), 24)
<1> DEFINE len == Len(digits)
           kk == len + k
           Scaled == len <= kk /\ kk <= 21
           Inside == 0 < kk /\ kk <= 21
           Small == -6 < kk /\ kk <= 0
           scaled == (digits \o Zeros(kk - len)) \o <<Point, 0>>
           inside == (SubSeq(digits, 1, kk) \o <<Point>>) \o SubSeq(digits, kk + 1, len)
           small == (<<0, Point>> \o Zeros(Offset(kk) - 2)) \o digits
           rest == IF len = 1 THEN <<>> ELSE <<Point>> \o Tail(digits)
           scientific == ((<<Head(digits)>> \o rest) \o <<Exponent>>) \o WriteExponent(kk - 1)
<1>1. Prettify(digits, k) = CASE Scaled -> scaled
                              [] ~Scaled /\ Inside -> inside
                              [] Small -> small
                              [] ~Inside /\ ~Small /\ ~Scaled -> scientific
  BY DEF Prettify
<1>2. len \in 1 .. 17 /\ kk \in -323 .. 309 /\ k \in Int
  <2>1. len # 0 /\ len \in Nat
    BY EmptySeq
  <2>2. len <= 17 /\ kk \in -323 .. 309
    OBVIOUS
  <2>3. \A n \in Nat : n # 0 /\ n <= 17 => n \in 1 .. 17
    OBVIOUS
  <2> HIDE DEF len, kk
  <2>4. len \in 1 .. 17
    BY <2>1, <2>2, <2>3
  <2> QED
    BY <2>2, <2>4
<1>form. /\ Scaled => Prettify(digits, k) = scaled
         /\ ~Scaled /\ Inside => Prettify(digits, k) = inside
         /\ ~Scaled /\ ~Inside /\ Small => Prettify(digits, k) = small
         /\ ~Inside /\ ~Small /\ ~Scaled => Prettify(digits, k) = scientific
  <2>1. (Scaled => ~Small) /\ (Inside => ~Small)
    BY <1>2
  <2> HIDE DEF Scaled, Inside, Small, scaled, inside, small, scientific
  <2>2. CASE Scaled
    BY <1>1, <2>1, <2>2
  <2>3. CASE ~Scaled /\ Inside
    BY <1>1, <2>1, <2>3
  <2>4. CASE ~Scaled /\ ~Inside /\ Small
    BY <1>1, <2>4
  <2>5. CASE ~Scaled /\ ~Inside /\ ~Small
    BY <1>1, <2>5
  <2> QED
    BY <2>2, <2>3, <2>4, <2>5
<1>3. /\ Text(digits, 17) /\ Text(<<Point, 0>>, 2) /\ Text(<<0, Point>>, 2)
      /\ Text(<<Point>>, 1) /\ Text(<<Exponent>>, 1) /\ Text(<<Head(digits)>>, 1)
  <2>1. Text(digits, 17) /\ Text(<<Point>>, 1) /\ Text(<<Exponent>>, 1)
    BY CharacterTexts
  <2>2. Text(<<Point, 0>>, 2) /\ Text(<<0, Point>>, 2)
    BY CharacterTexts DEF Text, Digit
  <2>3. Head(digits) \in Digit
    BY <1>2
  <2>4. Text(<<Head(digits)>>, 1)
    BY <2>3, CharacterTexts
  <2> QED
    BY <2>1, <2>2, <2>4
<1>4. CASE Scaled
  <2>1. Prettify(digits, k) = scaled
    <3> HIDE DEF Scaled, Inside, Small, scaled, inside, small, scientific
    <3> QED
      BY <1>form, <1>4
  <2>2. kk - len \in Nat /\ len + (kk - len) <= 21
    BY <1>2, <1>4
  <2>3. Text(digits, len) /\ Text(Zeros(kk - len), kk - len)
    BY <2>2, ZerosFit, CharacterTexts
  <2> DEFINE zeros == Zeros(kk - len)
             n == kk - len
  <2>4. Text(digits \o zeros, len + n)
    <3> HIDE DEF zeros, n
    <3> QED
      BY <1>2, <2>2, <2>3, Joined DEF zeros, n
  <2>5. Text(digits \o zeros, 21)
    BY <2>2, <2>4 DEF Text
  <2>6. Text(scaled, 21 + 2)
    <3> HIDE DEF zeros
    <3> QED
      BY <1>3, <2>5, Joined DEF zeros
  <2> QED
    BY <2>1, <2>6 DEF Text
<1>5. CASE ~Scaled /\ Inside
  <2>1. Prettify(digits, k) = inside
    <3> HIDE DEF Scaled, Inside, Small, scaled, inside, small, scientific
    <3> QED
      BY <1>form, <1>5
  <2>2. 1 <= kk /\ kk < len
    BY <1>2, <1>5
  <2> DEFINE l == SubSeq(digits, 1, kk)
             r == SubSeq(digits, kk + 1, len)
  <2>3. l \in Seq(Digit) /\ Len(l) = kk /\ r \in Seq(Digit) /\ Len(r) = len - kk
    BY <1>2, <2>2
  <2> HIDE DEF l, r
  <2>4. Text(l, 17) /\ Text(r, 17)
    BY <1>2, <2>2, <2>3, CharacterTexts
  <2>5. (l \o <<Point>>) \o r \in Seq(Characters)
    BY <1>3, <2>4 DEF Text
  <2>6. Len((l \o <<Point>>) \o r) = kk + 1 + (len - kk)
    BY <1>2, <1>3, <2>2, <2>3
  <2>7. Text((l \o <<Point>>) \o r, 24)
    BY <1>2, <2>5, <2>6 DEF Text
  <2> QED
    BY <2>1, <2>7 DEF l, r
<1>6. CASE ~Scaled /\ ~Inside /\ Small
  <2>1. Prettify(digits, k) = small
    <3> HIDE DEF Scaled, Inside, Small, scaled, inside, small, scientific
    <3> QED
      BY <1>form, <1>6
  <2> DEFINE n == Offset(kk) - 2
             zeros == Zeros(n)
  <2>2. n \in 0 .. 5
    BY <1>2, <1>6 DEF Offset
  <2>3. Text(zeros, 5)
    <3> HIDE DEF n
    <3>1. Text(Zeros(n), n)
      BY <2>2, ZerosFit
    <3> QED
      BY <2>2, <3>1 DEF Text
  <2> HIDE DEF zeros
  <2>4. Text(<<0, Point>> \o zeros, 2 + 5)
    BY <1>3, <2>3, Joined
  <2>5. Text((<<0, Point>> \o zeros) \o digits, (2 + 5) + 17)
    BY <1>3, <2>4, Joined
  <2> QED
    BY <2>1, <2>5 DEF zeros
<1>7. CASE ~Inside /\ ~Small /\ ~Scaled
  <2>1. Prettify(digits, k) = scientific
    <3> HIDE DEF Scaled, Inside, Small, scaled, inside, small, scientific
    <3> QED
      BY <1>form, <1>7
  <2>2. Text(rest, 17)
    <3>1. CASE len = 1
      BY <3>1, CharacterTexts DEF Text
    <3>2. CASE len # 1
      <4> DEFINE t == Tail(digits)
      <4>1. t \in Seq(Digit) /\ Len(t) <= 16
        BY <1>2
      <4> HIDE DEF t
      <4>2. Text(t, 16)
        BY <4>1, CharacterTexts
      <4>3. Text(<<Point>> \o t, 1 + 16)
        BY <1>3, <4>2, Joined
      <4> QED
        BY <3>2, <4>3 DEF t
    <3> QED
      BY <3>1, <3>2
  <2> DEFINE head == <<Head(digits)>>
             exponent == WriteExponent(kk - 1)
  <2>3. Text(exponent, 4)
    <3> DEFINE K == kk - 1
    <3>1. K \in Exponents
      BY <1>2 DEF Exponents
    <3> HIDE DEF K
    <3>2. Text(WriteExponent(K), 4)
      BY <3>1, WriteExponentFits
    <3> QED
      BY <3>2 DEF K
  <2> HIDE DEF rest, head, exponent
  <2>4. Text(head \o rest, 1 + 17)
    BY <1>3, <2>2, Joined DEF head
  <2>5. Text((head \o rest) \o <<Exponent>>, (1 + 17) + 1)
    BY <1>3, <2>4, Joined
  <2>6. Text(((head \o rest) \o <<Exponent>>) \o exponent, ((1 + 17) + 1) + 4)
    BY <2>3, <2>5, Joined
  <2> QED
    BY <2>1, <2>6 DEF Text, head, exponent
<1> QED
  BY <1>4, <1>5, <1>6, <1>7

(* dtoa_milo(): a sign more, and never more than 25 characters; what it    *)
(* returns is less.                                                        *)
LEMMA DtoaFits ==
  ASSUME NEW d, IsDouble(d)
  PROVE  Text(Dtoa(d), 25) /\ DtoaLength(d) \in 0 .. 18
<1>1. d.digits \in Seq(Digit) /\ Len(d.digits) \in 0 .. 17
  <2> DEFINE x == d.digits
  <2>1. x \in Seq(0 .. 9) /\ Len(x) <= 17
    BY DEF IsDouble
  <2> HIDE DEF x
  <2>2. x \in Seq(Digit)
    BY <2>1 DEF Digit
  <2>3. Len(x) \in Nat
    BY <2>2
  <2>4. \A n \in Nat : n <= 17 => n \in 0 .. 17
    OBVIOUS
  <2>5. Len(x) \in 0 .. 17
    BY <2>1, <2>3, <2>4
  <2> QED
    BY <2>2, <2>5 DEF x
<1>2. DtoaLength(d) \in 0 .. 18
  <2>1. DtoaLength(d) = 3 \/ DtoaLength(d) = Len(d.digits) + 1
    BY DEF DtoaLength
  <2>2. \A n \in 0 .. 17 : n + 1 \in 0 .. 18
    OBVIOUS
  <2>3. Len(d.digits) + 1 \in 0 .. 18
    BY <1>1, <2>2
  <2> QED
    BY <2>1, <2>3
<1>3. CASE IsZero(d)
  <2>1. Text(<<0, Point, 0>>, 3)
    BY CharacterTexts DEF Text, Digit
  <2> QED
    BY <1>2, <1>3, <2>1 DEF Dtoa, Text
<1>4. CASE ~IsZero(d)
  <2> DEFINE sign == IF d.neg THEN <<Minus>> ELSE <<>>
             text == Prettify(d.digits, d.k)
  <2>1. Text(sign, 1)
    BY CharacterTexts DEF Text
  <2>2. Text(text, 24)
    BY <1>1, <1>4, PrettifyFits DEF IsDouble, IsZero
  <2>3. Dtoa(d) = sign \o text
    BY <1>4 DEF Dtoa
  <2> HIDE DEF sign, text
  <2>4. Text(sign \o text, 1 + 24)
    BY <2>1, <2>2, Joined
  <2> QED
    BY <1>2, <2>3, <2>4
<1> QED
  BY <1>3, <1>4

-----------------------------------------------------------------------------
(* Powers and values.                                                      *)

PowersOf(b, to) == to = [i \in Nat |-> IF i = 0 THEN 1 ELSE b * to[i - 1]]

(* The recursion of Power() ends at zero.                                  *)
LEMMA PowersExist ==
  ASSUME NEW b \in Nat
  PROVE  \E f : PowersOf(b, f)
<1> DEFINE rank == [i \in Nat |-> i]
           prev == [i \in Nat |-> IF i = 0 THEN 0 ELSE i - 1]
           base == [i \in Nat |-> 1]
           rec == [i \in Nat |-> [r \in Nat |-> b * r]]
<1>1. rank \in [Nat -> Nat] /\ prev \in [Nat -> Nat] /\ base \in [Nat -> Nat]
  OBVIOUS
<1>2. rec \in [Nat -> [Nat -> Nat]]
  OBVIOUS
<1>3. \A i \in Nat : i \notin {0} => rank[prev[i]] < rank[i]
  OBVIOUS
<1>4. PICK f \in [Nat -> Nat] : Solves(f, Nat, {0}, prev, base, rec)
  <2> HIDE DEF rank, prev, base, rec
  <2> QED
    BY <1>1, <1>2, <1>3, RecursionExists
<1>5. \A i \in Nat : f[i] = IF i = 0 THEN 1 ELSE b * f[i - 1]
  <2> SUFFICES ASSUME NEW i \in Nat PROVE f[i] = IF i = 0 THEN 1 ELSE b * f[i - 1]
    OBVIOUS
  <2>1. f[prev[i]] \in Nat
    BY <1>1, <1>4
  <2> QED
    BY <1>4, <2>1 DEF Solves
<1> QED
  BY <1>4, <1>5 DEF PowersOf

(* So Power() is what its recursion says, and a natural number.            *)
LEMMA PowerSteps ==
  ASSUME NEW b \in Nat
  PROVE  /\ Power(b, 0) = 1
         /\ \A n \in Nat : Power(b, n + 1) = b * Power(b, n)
         /\ \A n \in Nat : Power(b, n) \in Nat
<1> DEFINE to == CHOOSE f : PowersOf(b, f)
<1>1. PowersOf(b, to)
  <2>1. PICK f : PowersOf(b, f)
    BY PowersExist
  <2> HIDE DEF PowersOf
  <2> QED
    BY <2>1
<1>2. \A n : Power(b, n) = to[n]
  BY DEF Power, PowersOf
<1> HIDE DEF to
<1>3. \A n \in Nat : to[n] = IF n = 0 THEN 1 ELSE b * to[n - 1]
  BY <1>1 DEF PowersOf
<1>4. to[0] = 1 /\ \A n \in Nat : to[n + 1] = b * to[n]
  BY <1>3
<1> DEFINE M == {n \in Nat : to[n] \in Nat}
<1>5. 0 \in M /\ \A n \in Nat : n \in M => n + 1 \in M
  BY <1>4
<1>6. Nat \subseteq M
  <2> HIDE DEF M
  <2> QED
    BY <1>5, InductionOnNumbers
<1> QED
  BY <1>2, <1>4, <1>6

(* Powers of a positive number are positive.                               *)
LEMMA PowerPositive ==
  ASSUME NEW b \in Nat, b > 0, NEW n \in Nat
  PROVE  Power(b, n) \in Nat /\ Power(b, n) > 0
<1> DEFINE M == {i \in Nat : Power(b, i) > 0}
<1>1. 0 \in M
  BY PowerSteps
<1>2. ASSUME NEW i \in Nat, i \in M PROVE i + 1 \in M
  <2> DEFINE p == Power(b, i)
  <2>1. p \in Nat /\ p > 0 /\ Power(b, i + 1) = b * p
    BY <1>2, PowerSteps
  <2> HIDE DEF p
  <2> QED
    BY <2>1
<1>3. Nat \subseteq M
  <2> HIDE DEF M
  <2> QED
    BY <1>1, <1>2, InductionOnNumbers
<1> QED
  BY <1>3, PowerSteps

(* The value of digits grows with every digit.                             *)
ValuesOf(digits, of) ==
  of = [i \in 0 .. Len(digits) |-> IF i = 0 THEN 0 ELSE 10 * of[i - 1] + digits[i]]

(* The recursion of ValueOf() follows the digits.                          *)
LEMMA ValuesExist ==
  ASSUME NEW s \in Seq(Int)
  PROVE  \E f : f \in [0 .. Len(s) -> Int] /\ ValuesOf(s, f)
<1> DEFINE D == 0 .. Len(s)
           rank == [i \in D |-> i]
           prev == [i \in D |-> IF i = 0 THEN 0 ELSE i - 1]
           base == [i \in D |-> 0]
           rec == [i \in D |-> [r \in Int |-> IF i = 0 THEN 0 ELSE 10 * r + s[i]]]
<1>1. rank \in [D -> Nat] /\ prev \in [D -> D] /\ base \in [D -> Int]
  OBVIOUS
<1>2. rec \in [D -> [Int -> Int]]
  OBVIOUS
<1>3. \A i \in D : i \notin {0} => rank[prev[i]] < rank[i]
  OBVIOUS
<1>4. PICK f \in [D -> Int] : Solves(f, D, {0}, prev, base, rec)
  <2> HIDE DEF D, rank, prev, base, rec
  <2> QED
    BY <1>1, <1>2, <1>3, RecursionExists
<1>5. \A i \in D : f[i] = IF i = 0 THEN 0 ELSE 10 * f[i - 1] + s[i]
  <2> SUFFICES ASSUME NEW i \in D PROVE f[i] = IF i = 0 THEN 0 ELSE 10 * f[i - 1] + s[i]
    OBVIOUS
  <2>1. f[prev[i]] \in Int
    BY <1>1, <1>4
  <2> QED
    BY <1>4, <2>1 DEF Solves
<1> QED
  BY <1>4, <1>5 DEF ValuesOf

(* So the value of digits is ten times that of all but the last, and the   *)
(* last.                                                                   *)
LEMMA ValueSteps ==
  /\ ValueOf(<<>>) = 0
  /\ \A s \in Seq(Int) : ValueOf(s) \in Int
  /\ \A s \in Seq(Int), d \in Int : ValueOf(Append(s, d)) = 10 * ValueOf(s) + d
<1> DEFINE of(s) == CHOOSE f : ValuesOf(s, f)
<1>1. ASSUME NEW s \in Seq(Int)
      PROVE  ValuesOf(s, of(s))
  <2>1. PICK f : ValuesOf(s, f)
    BY ValuesExist
  <2> HIDE DEF ValuesOf
  <2> QED
    BY <2>1
<1>2. \A s : ValueOf(s) = of(s)[Len(s)]
  BY DEF ValueOf, ValuesOf
<1> HIDE DEF of
<1>3. ASSUME NEW s \in Seq(Int), NEW i \in 0 .. Len(s)
      PROVE  of(s)[i] = IF i = 0 THEN 0 ELSE 10 * of(s)[i - 1] + s[i]
  BY <1>1 DEF ValuesOf
<1>4. ASSUME NEW s \in Seq(Int), NEW t \in Seq(Int), Len(s) <= Len(t),
             \A i \in 1 .. Len(s) : s[i] = t[i]
      PROVE  \A i \in 0 .. Len(s) : of(s)[i] = of(t)[i] /\ of(s)[i] \in Int
  <2> DEFINE M == {n \in Nat : n <= Len(s) => of(s)[n] = of(t)[n] /\ of(s)[n] \in Int}
  <2>1. 0 \in M
    BY <1>3
  <2>2. ASSUME NEW n \in Nat, n \in M PROVE n + 1 \in M
    <3> SUFFICES ASSUME n + 1 <= Len(s)
                 PROVE  of(s)[n + 1] = of(t)[n + 1] /\ of(s)[n + 1] \in Int
      OBVIOUS
    <3>1. of(s)[n] = of(t)[n] /\ of(s)[n] \in Int
      BY <2>2
    <3>2. n + 1 \in 0 .. Len(s) /\ n + 1 \in 0 .. Len(t) /\ n + 1 # 0 /\ (n + 1) - 1 = n
          /\ n + 1 \in 1 .. Len(s)
      BY <1>4
    <3>3. of(s)[n + 1] = 10 * of(s)[n] + s[n + 1] /\ of(t)[n + 1] = 10 * of(t)[n] + t[n + 1]
      BY <1>3, <3>2
    <3>4. s[n + 1] = t[n + 1] /\ s[n + 1] \in Int
      BY <1>4, <3>2
    <3> QED
      BY <3>1, <3>3, <3>4
  <2>3. Nat \subseteq M
    <3> HIDE DEF M
    <3> QED
      BY <2>1, <2>2, InductionOnNumbers
  <2> QED
    BY <2>3
<1>5. ValueOf(<<>>) = 0
  <2>1. <<>> \in Seq(Int) /\ Len(<<>>) = 0 /\ 0 \in 0 .. 0
    OBVIOUS
  <2> QED
    BY <1>2, <1>3, <2>1
<1>6. ASSUME NEW s \in Seq(Int) PROVE ValueOf(s) \in Int
  BY <1>2, <1>4
<1>7. ASSUME NEW s \in Seq(Int), NEW d \in Int
      PROVE  ValueOf(Append(s, d)) = 10 * ValueOf(s) + d
  <2> DEFINE t == Append(s, d)
             n == Len(s)
  <2>1. t \in Seq(Int) /\ Len(t) = n + 1 /\ t[n + 1] = d /\ n \in Nat
        /\ \A i \in 1 .. n : s[i] = t[i]
    OBVIOUS
  <2> HIDE DEF t
  <2>2. n + 1 \in 0 .. Len(t) /\ n + 1 # 0 /\ (n + 1) - 1 = n /\ n \in 0 .. n /\ n <= Len(t)
    BY <2>1
  <2>3. of(s)[n] = of(t)[n]
    BY <1>4, <2>1, <2>2
  <2>4. of(t)[n + 1] = 10 * of(t)[n] + t[n + 1]
    BY <1>3, <2>1, <2>2
  <2> QED
    BY <1>2, <2>1, <2>3, <2>4 DEF t
<1> QED
  BY <1>5, <1>6, <1>7

(* The digits of a number, again one by one, and their value.              *)
LEMMA TenTimes ==
  ASSUME NEW M, 0 \in M, \A n \in Nat : n > 0 /\ n \div 10 \in M => n \in M
  PROVE  Nat \subseteq M
<1> DEFINE L == {n \in Nat : \A i \in 0 .. n : i \in M}
<1>1. 0 \in L
  OBVIOUS
<1>2. ASSUME NEW n \in Nat, n \in L PROVE n + 1 \in L
  <2>1. n + 1 \in Nat /\ n + 1 > 0 /\ (n + 1) \div 10 \in 0 .. n
    OBVIOUS
  <2>2. n + 1 \in M
    BY <1>2, <2>1
  <2> QED
    BY <1>2, <2>2
<1>3. Nat \subseteq L
  <2> HIDE DEF L
  <2> QED
    BY <1>1, <1>2, InductionOnNumbers
<1> QED
  BY <1>3

(* So DigitsOf() is what its recursion says.                               *)
LEMMA DigitsSteps ==
  /\ DigitsOf(0) = <<>>
  /\ \A n \in Nat : n > 0 => DigitsOf(n) = Append(DigitsOf(n \div 10), n % 10)
  /\ \A n \in Nat : DigitsOf(n) \in Seq(Digit)
<1> DEFINE d == CHOOSE f : DigitsFrom(f)
<1>1. DigitsFrom(d)
  <2>1. PICK f : DigitsFrom(f)
    BY DigitsExist
  <2> HIDE DEF DigitsFrom
  <2> QED
    BY <2>1
<1>2. \A n : DigitsOf(n) = d[n]
  BY DEF DigitsOf, DigitsFrom
<1> HIDE DEF d
<1>3. \A n \in Nat : d[n] = IF n = 0 THEN <<>> ELSE Append(d[n \div 10], n % 10)
  BY <1>1 DEF DigitsFrom
<1>4. 0 \in Nat /\ \A n \in Nat : n > 0 => n # 0
  OBVIOUS
<1>5. d[0] = <<>> /\ \A n \in Nat : n > 0 => d[n] = Append(d[n \div 10], n % 10)
  BY <1>3, <1>4
<1> DEFINE M == {n \in Nat : d[n] \in Seq(Digit)}
<1>6. 0 \in M
  <2>1. <<>> \in Seq(Digit) /\ 0 \in Nat
    OBVIOUS
  <2> QED
    BY <1>5, <2>1
<1>7. ASSUME NEW n \in Nat, n > 0, n \div 10 \in M PROVE n \in M
  <2>1. n % 10 \in Digit
    BY DEF Digit
  <2> DEFINE x == d[n \div 10]  y == n % 10
  <2>2. x \in Seq(Digit) /\ y \in Digit /\ d[n] = Append(x, y)
    BY <1>5, <1>7, <2>1
  <2> HIDE DEF x, y
  <2>3. d[n] \in Seq(Digit)
    BY <2>2
  <2> QED
    BY <2>3
<1>8. Nat \subseteq M
  <2> HIDE DEF M
  <2> QED
    BY <1>6, <1>7, TenTimes
<1> QED
  BY <1>2, <1>5, <1>8

(* The digits of a number have its value.                                  *)
LEMMA ValueOfDigits ==
  ASSUME NEW n \in Nat
  PROVE  ValueOf(DigitsOf(n)) = n
<1> DEFINE M == {i \in Nat : ValueOf(DigitsOf(i)) = i}
<1>1. 0 \in M
  BY DigitsSteps, ValueSteps
<1>2. ASSUME NEW i \in Nat, i > 0, i \div 10 \in M PROVE i \in M
  <2> DEFINE q == i \div 10  r == i % 10
  <2>1. q \in Nat /\ r \in Digit /\ r \in Int /\ i = 10 * q + r
    BY DEF Digit
  <2>2. ValueOf(DigitsOf(q)) = q /\ DigitsOf(i) = Append(DigitsOf(q), r)
    BY <1>2, DigitsSteps
  <2>3. DigitsOf(q) \in Seq(Int)
    <3>1. DigitsOf(q) \in Seq(Digit) /\ Digit \subseteq Int
      BY <2>1, DigitsSteps DEF Digit
    <3> HIDE DEF q
    <3> QED
      BY <3>1, SeqMonotonic
  <2> HIDE DEF q, r
  <2>4. ValueOf(DigitsOf(i)) = 10 * q + r
    BY <2>1, <2>2, <2>3, ValueSteps
  <2> QED
    BY <2>1, <2>4
<1>3. Nat \subseteq M
  <2> HIDE DEF M
  <2> QED
    BY <1>1, <1>2, TenTimes
<1> QED
  BY <1>3

-----------------------------------------------------------------------------
(* The text of an integer.                                                 *)

(* Reverse() keeps length and members.                                     *)
LEMMA ReverseProperties ==
  ASSUME NEW S, NEW s \in Seq(S)
  PROVE  /\ Reverse(s) \in Seq(S) /\ Len(Reverse(s)) = Len(s)
         /\ \A i \in 1 .. Len(s) : Reverse(s)[i] = s[(Len(s) - i) + 1]
<1>1. \A i \in 1 .. Len(s) : s[(Len(s) - i) + 1] \in S
  OBVIOUS
<1> QED
  BY <1>1 DEF Reverse

(* The last one first, also of two sequences.                              *)
LEMMA ReverseConcat ==
  ASSUME NEW S, NEW s \in Seq(S), NEW t \in Seq(S)
  PROVE  Reverse(s \o t) = Reverse(t) \o Reverse(s)
<1> DEFINE u == s \o t
           l == Reverse(u)
           a == Reverse(t)  b == Reverse(s)
           r == a \o b
           m == Len(s)  n == Len(t)
<1>1. u \in Seq(S) /\ Len(u) = m + n /\ m \in Nat /\ n \in Nat
      /\ \A i \in 1 .. m + n : u[i] = IF i <= m THEN s[i] ELSE t[i - m]
  BY ConcatProperties
<1>2. l \in Seq(S) /\ Len(l) = m + n /\ \A i \in 1 .. m + n : l[i] = u[((m + n) - i) + 1]
  <2> HIDE DEF u, m, n
  <2>1. l \in Seq(S) /\ Len(l) = Len(u)
        /\ \A i \in 1 .. Len(u) : l[i] = u[(Len(u) - i) + 1]
    BY <1>1, ReverseProperties
  <2> HIDE DEF l
  <2> QED
    BY <1>1, <2>1
<1>3. /\ a \in Seq(S) /\ Len(a) = n /\ \A i \in 1 .. n : a[i] = t[(n - i) + 1]
      /\ b \in Seq(S) /\ Len(b) = m /\ \A i \in 1 .. m : b[i] = s[(m - i) + 1]
  BY ReverseProperties
<1> HIDE DEF a, b, u, l
<1>4. r \in Seq(S) /\ Len(r) = m + n
      /\ \A i \in 1 .. n + m : r[i] = IF i <= n THEN a[i] ELSE b[i - n]
  <2> HIDE DEF m, n
  <2>1. r \in Seq(S) /\ Len(r) = Len(a) + Len(b)
        /\ \A i \in 1 .. Len(a) + Len(b) : r[i] = IF i <= Len(a) THEN a[i] ELSE b[i - Len(a)]
    BY <1>3, ConcatProperties
  <2> HIDE DEF r
  <2>2. n + m = m + n
    BY <1>1
  <2> QED
    BY <1>3, <2>1, <2>2
<1> HIDE DEF r, m, n
<1>5. ASSUME NEW i \in 1 .. m + n PROVE l[i] = r[i]
  <2>1. l[i] = u[((m + n) - i) + 1] /\ r[i] = IF i <= n THEN a[i] ELSE b[i - n]
    BY <1>1, <1>2, <1>4
  <2> DEFINE j == ((m + n) - i) + 1
  <2>2. j \in 1 .. m + n
    BY <1>1
  <2>3. u[j] = IF j <= m THEN s[j] ELSE t[j - m]
    BY <1>1, <2>2
  <2>4. CASE i <= n
    <3>1. ~(j <= m) /\ j - m = (n - i) + 1 /\ i \in 1 .. n
      BY <1>1, <2>4
    <3> QED
      BY <1>3, <2>1, <2>3, <2>4, <3>1
  <2>5. CASE ~(i <= n)
    <3>1. j <= m /\ j = (m - (i - n)) + 1 /\ i - n \in 1 .. m
      BY <1>1, <2>5
    <3> QED
      BY <1>3, <2>1, <2>3, <2>5, <3>1
  <2> QED
    BY <2>4, <2>5
<1>6. l = r
  BY <1>2, <1>4, <1>5, SeqEqual
<1> QED
  BY <1>6 DEF l, r, u, a, b

(* Zero has a digit, too.                                                  *)
Decimal(n) == IF n = 0 THEN <<0>> ELSE DigitsOf(n)

(* It is made of digits, and there is at least one.                        *)
LEMMA DecimalProperties ==
  ASSUME NEW n \in Nat
  PROVE  Decimal(n) \in Seq(Digit) /\ Decimal(n) # <<>>
<1>1. CASE n = 0
  BY <1>1 DEF Decimal, Digit
<1>2. CASE n # 0
  <2> DEFINE q == n \div 10  r == n % 10
  <2>1. q \in Nat /\ r \in Digit /\ n > 0
    BY <1>2 DEF Digit
  <2>2. DigitsOf(n) = Append(DigitsOf(q), r) /\ DigitsOf(q) \in Seq(Digit)
    BY <2>1, DigitsSteps
  <2> HIDE DEF q, r
  <2>3. DigitsOf(n) \in Seq(Digit) /\ DigitsOf(n) # <<>>
    BY <2>1, <2>2, AppendProperties
  <2> QED
    BY <1>2, <2>3 DEF Decimal
<1> QED
  BY <1>1, <1>2

(* What convert() collects are the digits of the number, the last one      *)
(* first, whatever its sign.                                               *)
LEMMA LowDigitsReversed ==
  ASSUME NEW low, LowDigits(low), NEW v \in Int
  PROVE  Reverse(low[v]) = Decimal(Size_(v))
<1> DEFINE M == {n \in Nat : \A i \in Int : Size_(i) < n => Reverse(low[i]) = Decimal(Size_(i))}
<1>1. low \in [Int -> Seq(Digit)]
  BY LowDigitsAreDigits
<1>2. 0 \in M
  BY DivisionOfC
<1>3. ASSUME NEW n \in Nat, n \in M PROVE n + 1 \in M
  <2> SUFFICES ASSUME NEW i \in Int, Size_(i) < n + 1 PROVE Reverse(low[i]) = Decimal(Size_(i))
    OBVIOUS
  <2> DEFINE q == Quotient(i)
             z == ZeroAt(Remainder(i))
             rest == IF q = 0 THEN <<>> ELSE low[q]
             a == Size_(i)
             b == Size_(q)
  <2>1. /\ q \in Int /\ z \in Digit /\ a \in Nat /\ b \in Nat
        /\ q # 0 => b < n
        /\ a = 10 * b + z /\ (q = 0 <=> b = 0)
    <3>1. q \in Int /\ z \in Digit /\ a \in Nat /\ b \in Nat /\ (q # 0 => b < a) /\ a < n + 1
      BY DivisionOfC
    <3>2. a = 10 * b + z /\ (q = 0 <=> b = 0)
      <4>1. CASE i < 0
        <5> DEFINE c == (-i) \div 10
        <5>1. c \in Nat /\ 10 * c <= -i /\ -i <= 10 * c + 9 /\ q = -c
          BY <4>1 DEF Quotient
        <5> HIDE DEF c
        <5> QED
          BY <4>1, <5>1 DEF Size_, Remainder, ZeroAt, Digit
      <4>2. CASE ~(i < 0)
        <5> DEFINE c == i \div 10
        <5>1. c \in Nat /\ 10 * c <= i /\ i <= 10 * c + 9 /\ q = c
          BY <4>2 DEF Quotient
        <5> HIDE DEF c
        <5> QED
          BY <4>2, <5>1 DEF Size_, Remainder, ZeroAt, Digit
      <4> QED
        BY <4>1, <4>2
    <3> HIDE DEF q, z, a, b
    <3> QED
      BY <3>1, <3>2
  <2>2. low[i] = <<z>> \o rest
    BY DEF LowDigits
  <2>3. rest \in Seq(Digit) /\ (q # 0 => rest = low[q]) /\ (q = 0 => rest = <<>>)
    BY <1>1, <2>1
  <2>4. q # 0 => Reverse(low[q]) = Decimal(b)
    BY <1>3, <2>1
  <2> HIDE DEF q, z, rest, a, b
  <2>5. Reverse(<<z>>) = <<z>> /\ Reverse(<<>>) = <<>>
    BY DEF Reverse
  <2>6. Reverse(low[i]) = Reverse(rest) \o <<z>>
    <3>1. <<z>> \in Seq(Digit)
      BY <2>1
    <3> QED
      BY <2>2, <2>3, <2>5, <3>1, ReverseConcat
  <2>7. a > 0 => DigitsOf(a) = Append(DigitsOf(b), z)
    <3>1. a \div 10 = b /\ a % 10 = z
      BY <2>1 DEF Digit
    <3> QED
      BY <2>1, <3>1, DigitsSteps
  <2>8. DigitsOf(b) \in Seq(Digit)
    BY <2>1, DigitsSteps
  <2>9. CASE q = 0
    <3>1. Reverse(low[i]) = <<z>> /\ a = z /\ b = 0
      <4>1. b = 0 /\ a = z
        BY <2>1, <2>9 DEF Digit
      <4>2. Reverse(low[i]) = <<>> \o <<z>>
        BY <2>3, <2>5, <2>6, <2>9
      <4>3. <<z>> \in Seq(Digit)
        BY <2>1
      <4> QED
        BY <4>1, <4>2, <4>3, ConcatEmptySeq
    <3>2. a = 0 => Decimal(a) = <<z>>
      BY <3>1 DEF Decimal
    <3>3. a # 0 => Decimal(a) = <<z>>
      <4>1. a # 0 => Decimal(a) = Append(<<>>, z)
        <5>1. a > 0 <=> a # 0
          BY <2>1
        <5> QED
          BY <2>7, <3>1, <5>1, DigitsSteps DEF Decimal
      <4> QED
        BY <4>1
    <3> QED
      BY <3>1, <3>2, <3>3 DEF a
  <2>10. CASE q # 0
    <3>1. Reverse(low[i]) = DigitsOf(b) \o <<z>>
      BY <2>1, <2>3, <2>4, <2>6, <2>10 DEF Decimal
    <3>2. a > 0 /\ a # 0
      BY <2>1, <2>10 DEF Digit
    <3>3. Append(DigitsOf(b), z) = DigitsOf(b) \o <<z>>
      BY <2>1, <2>8, AppendIsConcat
    <3> QED
      BY <2>7, <3>1, <3>2, <3>3 DEF Decimal, a
  <2> QED
    BY <2>9, <2>10
<1>4. Nat \subseteq M
  <2> HIDE DEF M
  <2> QED
    BY <1>2, <1>3, InductionOnNumbers
<1>5. Size_(v) + 1 \in Nat /\ Size_(v) < Size_(v) + 1
  BY DivisionOfC
<1>6. Size_(v) + 1 \in M
  <2> HIDE DEF M
  <2> QED
    BY <1>4, <1>5
<1> QED
  BY <1>5, <1>6

(* convert() writes the sign and the digits of a number.                   *)
LEMMA ConvertWrites ==
  ASSUME NEW v \in Int
  PROVE  Convert(v) = SignOf(v) \o Decimal(Size_(v))
<1> DEFINE low == CHOOSE f : LowDigits(f)
<1>1. LowDigits(low)
  <2>1. PICK f : LowDigits(f)
    BY LowDigitsExist
  <2> HIDE DEF LowDigits
  <2> QED
    BY <2>1
<1>2. Convert(v) = Reverse(low[v] \o SignOf(v))
  BY DEF Convert, LowDigits
<1> HIDE DEF low
<1> DEFINE l == low[v]  s == SignOf(v)
<1>3. l \in Seq(Int)
  <2>1. l \in Seq(Digit) /\ Digit \subseteq Int
    BY <1>1, LowDigitsAreDigits DEF Digit
  <2> HIDE DEF l
  <2> QED
    BY <2>1, SeqMonotonic
<1>4. s \in Seq(Int) /\ Reverse(s) = s
  BY DEF SignOf, Minus, Reverse
<1>5. Reverse(l) = Decimal(Size_(v))
  BY <1>1, LowDigitsReversed
<1> HIDE DEF l, s
<1>6. Reverse(l \o s) = Reverse(s) \o Reverse(l)
  BY <1>3, <1>4, ReverseConcat
<1> QED
  BY <1>2, <1>4, <1>5, <1>6 DEF l, s

-----------------------------------------------------------------------------
(* Reading a text again.                                                   *)

Nonzero(s) == {i \in DOMAIN s : s[i] # 0}
Ends(s, first, last) ==
  /\ first \in Nonzero(s) /\ last \in Nonzero(s)
  /\ \A i \in Nonzero(s) : first <= i /\ i <= last

(* Zeros at the ends do not count, and a number of zeros only is zero.     *)
LEMMA StrippedZero ==
  ASSUME NEW s, NEW k, Nonzero(s) = {}
  PROVE  Stripped(s, k) = [digits |-> <<>>, k |-> 0]
BY DEF Stripped, Nonzero

(* Of other digits, those from the first to the last that is not zero.     *)
LEMMA StrippedEnds ==
  ASSUME NEW s \in Seq(Int), NEW k, NEW first, NEW last, Ends(s, first, last)
  PROVE  Stripped(s, k) = [digits |-> SubSeq(s, first, last), k |-> k + Len(s) - last]
<1> DEFINE nonzero == {i \in DOMAIN s : s[i] # 0}
           a == CHOOSE i \in nonzero : \A j \in nonzero : i <= j
           b == CHOOSE i \in nonzero : \A j \in nonzero : j <= i
<1>1. Stripped(s, k) = IF nonzero = {} THEN [digits |-> <<>>, k |-> 0]
                       ELSE [digits |-> SubSeq(s, a, b), k |-> k + Len(s) - b]
  BY DEF Stripped
<1>2. nonzero \subseteq Int /\ nonzero = Nonzero(s)
  BY DEF Nonzero
<1>3. first \in nonzero /\ last \in nonzero /\ \A i \in nonzero : first <= i /\ i <= last
  BY <1>2 DEF Ends
<1> HIDE DEF nonzero
<1>4. a \in nonzero /\ \A j \in nonzero : a <= j
  BY <1>3
<1>5. b \in nonzero /\ \A j \in nonzero : j <= b
  BY <1>3
<1>6. a = first /\ b = last
  BY <1>2, <1>3, <1>4, <1>5
<1> HIDE DEF a, b
<1> QED
  BY <1>1, <1>3, <1>6

(* Which there are.                                                        *)
LEMMA EndsExist ==
  ASSUME NEW s \in Seq(Int), Nonzero(s) # {}
  PROVE  \E first, last : Ends(s, first, last)
<1> DEFINE n == Len(s)
           N == Nonzero(s)
           L == {n - i : i \in N}
<1>1. N \subseteq 1 .. n /\ n \in Nat
  BY DEF Nonzero
<1>2. N \subseteq Nat /\ L \subseteq Nat /\ L # {}
  BY <1>1
<1> HIDE DEF N, n
<1>3. PICK first \in N : \A i \in N : first <= i
  BY <1>2, LeastNumber DEF N
<1>4. PICK l \in L : \A i \in L : l <= i
  <2> HIDE DEF L
  <2> QED
    BY <1>2, LeastNumber
<1>5. PICK last \in N : l = n - last
  BY <1>4
<1>6. \A i \in N : i <= last
  <2>1. ASSUME NEW i \in N PROVE i <= last
    <3>1. n - i \in L
      OBVIOUS
    <3>2. l <= n - i /\ l = n - last
      BY <1>4, <1>5, <3>1
    <3>3. i \in Int /\ last \in Int /\ n \in Int
      BY <1>1
    <3> HIDE DEF L
    <3> QED
      BY <3>2, <3>3
  <2> QED
    BY <2>1
<1>7. Ends(s, first, last)
  BY <1>3, <1>6 DEF Ends, N
<1> QED
  BY <1>7

(* Zeros are digits, as many as one asks for.                              *)
LEMMA ZerosAre ==
  ASSUME NEW n \in Nat
  PROVE  Zeros(n) \in Seq(Digit) /\ Len(Zeros(n)) = n /\ \A i \in 1 .. n : Zeros(n)[i] = 0
BY DEF Zeros, Digit

(* Zeros behind the digits count for the exponent.                         *)
LEMMA ZerosBehind ==
  ASSUME NEW s \in Seq(Int), NEW m \in Nat, NEW k \in Int
  PROVE  Stripped(s \o Zeros(m), k) = Stripped(s, k + m)
<1> DEFINE z == Zeros(m)  t == s \o z  n == Len(s)
<1>1. z \in Seq(Int) /\ Len(z) = m /\ \A i \in 1 .. m : z[i] = 0
  BY DEF Zeros
<1> HIDE DEF z
<1>2. t \in Seq(Int) /\ Len(t) = n + m /\ n \in Nat
      /\ \A i \in 1 .. n + m : t[i] = IF i <= n THEN s[i] ELSE z[i - n]
  <2>1. t \in Seq(Int) /\ Len(t) = Len(s) + Len(z)
        /\ \A i \in 1 .. Len(s) + Len(z) : t[i] = IF i <= Len(s) THEN s[i] ELSE z[i - Len(s)]
    BY <1>1, ConcatProperties
  <2> QED
    BY <1>1, <2>1
<1> HIDE DEF t
<1>3. DOMAIN t = 1 .. n + m /\ DOMAIN s = 1 .. n
  BY <1>2
<1>4. Nonzero(t) = Nonzero(s)
  <2>1. \A i \in 1 .. n + m : i <= n => t[i] = s[i] /\ i \in 1 .. n
    <3>1. ASSUME NEW i \in 1 .. n + m, i <= n PROVE t[i] = s[i] /\ i \in 1 .. n
      <4>1. i \in 1 .. n
        BY <1>2, <3>1
      <4> QED
        BY <1>2, <3>1
    <3> QED
      BY <3>1
  <2>2. \A i \in 1 .. n + m : ~(i <= n) => t[i] = 0
    <3>1. ASSUME NEW i \in 1 .. n + m, ~(i <= n) PROVE t[i] = 0
      <4>1. i - n \in 1 .. m /\ t[i] = z[i - n]
        BY <1>2, <3>1
      <4> QED
        BY <1>1, <4>1
    <3> QED
      BY <3>1
  <2>3. \A i \in 1 .. n : i \in 1 .. n + m /\ i <= n
    BY <1>2
  <2> QED
    BY <1>3, <2>1, <2>2, <2>3 DEF Nonzero
<1>5. CASE Nonzero(s) = {}
  BY <1>4, <1>5, StrippedZero DEF t, z
<1>6. CASE Nonzero(s) # {}
  <2>1. PICK first, last : Ends(s, first, last)
    BY <1>6, EndsExist
  <2>2. Ends(t, first, last)
    BY <1>4, <2>1 DEF Ends
  <2>3. first \in 1 .. n /\ last \in 1 .. n
    BY <1>3, <2>1 DEF Ends, Nonzero
  <2>4. SubSeq(t, first, last) = SubSeq(s, first, last)
    BY <1>1, <2>3, SubSeqOfConcat1 DEF t
  <2>5. k + Len(t) - last = (k + m) + Len(s) - last
    BY <1>2, <2>3
  <2>6. Stripped(s, k + m) = [digits |-> SubSeq(s, first, last), k |-> (k + m) + Len(s) - last]
    BY <2>1, StrippedEnds
  <2>7. Stripped(t, k) = [digits |-> SubSeq(t, first, last), k |-> k + Len(t) - last]
    BY <1>2, <2>2, StrippedEnds
  <2> QED
    BY <2>4, <2>5, <2>6, <2>7 DEF t, z
<1> QED
  BY <1>5, <1>6

(* Zeros in front of them do not count.                                    *)
LEMMA ZerosInFront ==
  ASSUME NEW s \in Seq(Int), NEW m \in Nat, NEW k \in Int
  PROVE  Stripped(Zeros(m) \o s, k) = Stripped(s, k)
<1> DEFINE z == Zeros(m)  t == z \o s  n == Len(s)
<1>1. z \in Seq(Int) /\ Len(z) = m /\ \A i \in 1 .. m : z[i] = 0
  BY DEF Zeros
<1> HIDE DEF z
<1>2. t \in Seq(Int) /\ Len(t) = m + n /\ n \in Nat
      /\ \A i \in 1 .. m + n : t[i] = IF i <= m THEN z[i] ELSE s[i - m]
  <2>1. t \in Seq(Int) /\ Len(t) = Len(z) + Len(s)
        /\ \A i \in 1 .. Len(z) + Len(s) : t[i] = IF i <= Len(z) THEN z[i] ELSE s[i - Len(z)]
    BY <1>1, ConcatProperties
  <2> QED
    BY <1>1, <2>1
<1> HIDE DEF t
<1>3. DOMAIN t = 1 .. m + n /\ DOMAIN s = 1 .. n
  BY <1>2
<1>4. ASSUME NEW i \in Nonzero(t) PROVE i \in Int /\ i - m \in Nonzero(s)
  <2>1. i \in 1 .. m + n /\ t[i] # 0
    BY <1>3 DEF Nonzero
  <2>2. ~(i <= m)
    BY <1>1, <1>2, <2>1
  <2>3. i - m \in 1 .. n /\ t[i] = s[i - m]
    BY <1>2, <2>1, <2>2
  <2> QED
    BY <1>3, <2>1, <2>3 DEF Nonzero
<1>5. ASSUME NEW i \in Nonzero(s) PROVE i \in 1 .. n /\ i + m \in Nonzero(t)
  <2>1. i \in 1 .. n /\ s[i] # 0
    BY <1>3 DEF Nonzero
  <2>2. i + m \in 1 .. m + n /\ ~(i + m <= m) /\ (i + m) - m = i
    BY <1>2, <2>1
  <2>3. t[i + m] = s[i]
    BY <1>2, <2>2
  <2> QED
    BY <1>3, <2>1, <2>2, <2>3 DEF Nonzero
<1>6. CASE Nonzero(s) = {}
  <2>1. Nonzero(t) = {}
    BY <1>4, <1>6
  <2> QED
    BY <1>6, <2>1, StrippedZero DEF t, z
<1>7. CASE Nonzero(s) # {}
  <2>1. PICK first, last : Ends(s, first, last)
    BY <1>7, EndsExist
  <2>2. first \in 1 .. n /\ last \in 1 .. n /\ first + m \in Nonzero(t) /\ last + m \in Nonzero(t)
    BY <1>5, <2>1 DEF Ends
  <2>3. ASSUME NEW i \in Nonzero(t) PROVE first + m <= i /\ i <= last + m
    <3>1. i \in Int /\ first <= i - m /\ i - m <= last
      BY <1>4, <2>1 DEF Ends
    <3> QED
      BY <2>2, <3>1
  <2>4. Ends(t, first + m, last + m)
    BY <2>2, <2>3 DEF Ends
  <2>5. SubSeq(t, first + m, last + m) = SubSeq(s, first, last)
    <3> DEFINE a == first + m  b == last + m
    <3>1. a \in Len(z) + 1 .. Len(z) + Len(s) /\ b \in Len(z) + 1 .. Len(z) + Len(s)
          /\ a - Len(z) = first /\ b - Len(z) = last
      BY <1>1, <1>2, <2>2
    <3> HIDE DEF a, b
    <3>2. SubSeq(z \o s, a, b) = SubSeq(s, a - Len(z), b - Len(z))
      BY <1>1, <3>1, SubSeqOfConcat2
    <3> QED
      BY <3>1, <3>2 DEF t, a, b
  <2>6. k + Len(t) - (last + m) = k + Len(s) - last
    BY <1>2, <2>2
  <2>7. Stripped(s, k) = [digits |-> SubSeq(s, first, last), k |-> k + Len(s) - last]
    BY <2>1, StrippedEnds
  <2>8. Stripped(t, k) = [digits |-> SubSeq(t, first + m, last + m), k |-> k + Len(t) - (last + m)]
    <3> DEFINE a == first + m  b == last + m
    <3>1. Ends(t, a, b)
      BY <2>4
    <3> HIDE DEF a, b
    <3>2. Stripped(t, k) = [digits |-> SubSeq(t, a, b), k |-> k + Len(t) - b]
      BY <1>2, <3>1, StrippedEnds
    <3> QED
      BY <3>2 DEF a, b
  <2> QED
    BY <2>5, <2>6, <2>7, <2>8 DEF t, z
<1> QED
  BY <1>6, <1>7
-----------------------------------------------------------------------------
(* The parts of a text.                                                    *)

(* Five parts in a row: the digits in front of the point, the point, those *)
(* behind it, the mark of the exponent and the exponent.                   *)
Row(s, t, u, v, w) == (((s \o t) \o u) \o v) \o w

InRow(r, s, t, u, v, w) ==
  LET a == Len(s)  b == a + Len(t)  c == b + Len(u)  d == c + Len(v)  e == d + Len(w) IN
  /\ r \in Seq(Int) /\ Len(r) = e
  /\ \A i \in 1 .. a : r[i] = s[i]
  /\ \A i \in a + 1 .. b : r[i] = t[i - a]
  /\ \A i \in b + 1 .. c : r[i] = u[i - b]
  /\ \A i \in c + 1 .. d : r[i] = v[i - c]
  /\ \A i \in d + 1 .. e : r[i] = w[i - d]

(* Two sequences in a row.                                                 *)
LEMMA TwoInARow ==
  ASSUME NEW s \in Seq(Int), NEW t \in Seq(Int)
  PROVE  /\ s \o t \in Seq(Int) /\ Len(s \o t) = Len(s) + Len(t)
         /\ \A i \in 1 .. Len(s) : (s \o t)[i] = s[i]
         /\ \A i \in Len(s) + 1 .. Len(s) + Len(t) : (s \o t)[i] = t[i - Len(s)]
         /\ Len(s) \in Nat /\ Len(t) \in Nat
<1>1. /\ s \o t \in Seq(Int) /\ Len(s \o t) = Len(s) + Len(t)
      /\ \A i \in 1 .. Len(s) + Len(t) : (s \o t)[i] = IF i <= Len(s) THEN s[i] ELSE t[i - Len(s)]
  BY ConcatProperties
<1>2. Len(s) \in Nat /\ Len(t) \in Nat
  OBVIOUS
<1> DEFINE a == Len(s)  b == Len(t)
<1> HIDE DEF a, b
<1>3. /\ \A i \in 1 .. a : i \in 1 .. a + b /\ i <= a
      /\ \A i \in a + 1 .. a + b : i \in 1 .. a + b /\ ~(i <= a)
  BY <1>2 DEF a, b
<1> QED
  BY <1>1, <1>2, <1>3 DEF a, b

(* The members of five parts in a row.                                     *)
LEMMA RowProperties ==
  ASSUME NEW s \in Seq(Int), NEW t \in Seq(Int), NEW u \in Seq(Int), NEW v \in Seq(Int),
         NEW w \in Seq(Int)
  PROVE  InRow(Row(s, t, u, v, w), s, t, u, v, w)
<1> DEFINE a == Len(s)  b == a + Len(t)  c == b + Len(u)  d == c + Len(v)  e == d + Len(w)
           st == s \o t
           su == st \o u
           sv == su \o v
           sw == sv \o w
<1>1. /\ st \in Seq(Int) /\ Len(st) = b /\ a \in Nat /\ b \in Nat /\ a <= b
      /\ \A i \in 1 .. a : st[i] = s[i]
      /\ \A i \in a + 1 .. b : st[i] = t[i - a]
  BY TwoInARow
<1> HIDE DEF st
<1>2. /\ su \in Seq(Int) /\ Len(su) = c /\ c \in Nat /\ b <= c
      /\ \A i \in 1 .. b : su[i] = st[i]
      /\ \A i \in b + 1 .. c : su[i] = u[i - b]
  <2> HIDE DEF b
  <2>1. /\ st \o u \in Seq(Int) /\ Len(st \o u) = Len(st) + Len(u) /\ Len(u) \in Nat
        /\ \A i \in 1 .. Len(st) : (st \o u)[i] = st[i]
        /\ \A i \in Len(st) + 1 .. Len(st) + Len(u) : (st \o u)[i] = u[i - Len(st)]
    BY <1>1, TwoInARow
  <2> QED
    BY <1>1, <2>1
<1> HIDE DEF su
<1>3. /\ sv \in Seq(Int) /\ Len(sv) = d /\ d \in Nat /\ c <= d
      /\ \A i \in 1 .. c : sv[i] = su[i]
      /\ \A i \in c + 1 .. d : sv[i] = v[i - c]
  <2> HIDE DEF c
  <2>1. /\ su \o v \in Seq(Int) /\ Len(su \o v) = Len(su) + Len(v) /\ Len(v) \in Nat
        /\ \A i \in 1 .. Len(su) : (su \o v)[i] = su[i]
        /\ \A i \in Len(su) + 1 .. Len(su) + Len(v) : (su \o v)[i] = v[i - Len(su)]
    BY <1>2, TwoInARow
  <2> QED
    BY <1>2, <2>1
<1> HIDE DEF sv
<1>4. /\ sw \in Seq(Int) /\ Len(sw) = e /\ e \in Nat /\ d <= e
      /\ \A i \in 1 .. d : sw[i] = sv[i]
      /\ \A i \in d + 1 .. e : sw[i] = w[i - d]
  <2> HIDE DEF d
  <2>1. /\ sv \o w \in Seq(Int) /\ Len(sv \o w) = Len(sv) + Len(w) /\ Len(w) \in Nat
        /\ \A i \in 1 .. Len(sv) : (sv \o w)[i] = sv[i]
        /\ \A i \in Len(sv) + 1 .. Len(sv) + Len(w) : (sv \o w)[i] = w[i - Len(sv)]
    BY <1>3, TwoInARow
  <2> QED
    BY <1>3, <2>1
<1>5. Row(s, t, u, v, w) = sw
  BY DEF Row, sv, su, st
<1> HIDE DEF a, b, c, d, e, sw
<1>6. \A i \in 1 .. a : sw[i] = s[i]
  BY <1>1, <1>2, <1>3, <1>4
<1>7. \A i \in a + 1 .. b : sw[i] = t[i - a]
  BY <1>1, <1>2, <1>3, <1>4
<1>8. \A i \in b + 1 .. c : sw[i] = u[i - b]
  BY <1>1, <1>2, <1>3, <1>4
<1>9. \A i \in c + 1 .. d : sw[i] = v[i - c]
  BY <1>1, <1>2, <1>3, <1>4
<1> QED
  BY <1>4, <1>5, <1>6, <1>7, <1>8, <1>9 DEF InRow, a, b, c, d, e

(* A part of a sequence is known by its members.                           *)
LEMMA PartOf ==
  ASSUME NEW r \in Seq(Int), NEW s \in Seq(Int), NEW m \in Nat, NEW n \in Nat,
         n = m + Len(s), n <= Len(r), \A i \in m + 1 .. n : r[i] = s[i - m]
  PROVE  SubSeq(r, m + 1, n) = s
<1> DEFINE a == m + 1
           x == SubSeq(r, a, n)
<1>1. Len(s) \in Nat /\ Len(r) \in Nat /\ a \in Nat
  OBVIOUS
<1>2. CASE Len(s) = 0
  <2>1. n < a /\ s = <<>>
    BY <1>1, <1>2, EmptySeq
  <2> HIDE DEF a
  <2>2. x = <<>>
    BY <1>1, <2>1
  <2> QED
    BY <2>1, <2>2 DEF a
<1>3. CASE Len(s) # 0
  <2>1. 1 <= a /\ a <= n /\ n - a + 1 = Len(s)
    BY <1>1, <1>3
  <2>2. \A i \in a .. n : i \in 1 .. Len(r)
    BY <1>1, <2>1
  <2>3. x \in Seq(Int) /\ Len(x) = Len(s) /\ \A i \in 1 .. Len(s) : x[i] = r[a + i - 1]
    <3> HIDE DEF a
    <3>1. a \in Int /\ n \in Int /\ \A i \in a .. n : r[i] \in Int
      BY <1>1, <2>1, <2>2
    <3>2. /\ SubSeq(r, a, n) \in Seq(Int)
          /\ Len(SubSeq(r, a, n)) = IF a <= n THEN n - a + 1 ELSE 0
          /\ \A i \in 1 .. n - a + 1 : SubSeq(r, a, n)[i] = r[a + i - 1]
      BY <3>1, SubSeqProperties
    <3> QED
      BY <2>1, <3>2
  <2>4. ASSUME NEW i \in 1 .. Len(s) PROVE x[i] = s[i]
    <3>1. a + i - 1 = m + i /\ m + i \in m + 1 .. n /\ (m + i) - m = i
      BY <1>1
    <3>2. r[m + i] = s[(m + i) - m]
      BY <3>1
    <3> HIDE DEF x
    <3> QED
      BY <2>3, <3>1, <3>2
  <2> HIDE DEF x
  <2>5. Len(x) = Len(s) /\ \A i \in 1 .. Len(x) : x[i] = s[i]
    BY <2>3, <2>4
  <2>6. x = s
    BY <2>3, <2>5, SeqEqual
  <2> QED
    BY <2>6 DEF x
<1> QED
  BY <1>2, <1>3

(* What Denotes() makes of a text behind the sign, and of an exponent.     *)
ExponentOf(exp) ==
  IF exp = <<>> THEN 0
  ELSE IF Head(exp) = Minus THEN -ValueOf(Tail(exp)) ELSE ValueOf(exp)
Places(body, c) == {i \in DOMAIN body : body[i] = c}
EndOf(body) ==
  IF Places(body, Exponent) = {} THEN Len(body)
  ELSE (CHOOSE i \in Places(body, Exponent) : TRUE) - 1
PointOf(body) ==
  IF Places(body, Point) = {} THEN EndOf(body) + 1
  ELSE CHOOSE i \in Places(body, Point) : TRUE
Reading(body) ==
  LET end == EndOf(body)
      exp == SubSeq(body, end + 2, Len(body))
      point == PointOf(body)
      behind == SubSeq(body, point + 1, end)
  IN  Stripped(SubSeq(body, 1, point - 1) \o behind, ExponentOf(exp) - Len(behind))

(* Denotes() is these and the sign.                                        *)
LEMMA DenotesReads ==
  ASSUME NEW text
  PROVE  /\ Head(text) = Minus => Denotes(text) = [neg |-> TRUE, number |-> Reading(Tail(text))]
         /\ Head(text) # Minus => Denotes(text) = [neg |-> FALSE, number |-> Reading(text)]
<1>1. ASSUME Head(text) = Minus
      PROVE  Denotes(text) = [neg |-> TRUE, number |-> Reading(Tail(text))]
  BY <1>1, Zenon DEF Denotes, Reading, EndOf, PointOf, Places, ExponentOf
<1>2. ASSUME Head(text) # Minus
      PROVE  Denotes(text) = [neg |-> FALSE, number |-> Reading(text)]
  BY <1>2, Zenon DEF Denotes, Reading, EndOf, PointOf, Places, ExponentOf
<1> QED
  BY <1>1, <1>2

(* The parts of a row that have the characters they should have are found  *)
(* again.                                                                  *)
LEMMA ReadingOfRow ==
  ASSUME NEW front \in Seq(Digit), NEW point \in {<<>>, <<Point>>}, NEW behind \in Seq(Digit),
         NEW mark \in {<<>>, <<Exponent>>}, NEW exp \in Seq(Digit \cup {Minus}),
         point = <<>> => behind = <<>>, mark = <<>> => exp = <<>>
  PROVE  Reading(Row(front, point, behind, mark, exp))
           = Stripped(front \o behind, ExponentOf(exp) - Len(behind))
<1> DEFINE body == Row(front, point, behind, mark, exp)
           a == Len(front)  b == a + Len(point)  c == b + Len(behind)
           d == c + Len(mark)  e == d + Len(exp)
<1>0. /\ Digit \subseteq Int /\ {Minus, Point, Exponent} \subseteq Int
      /\ Minus \notin Digit /\ Point \notin Digit \cup {Minus} /\ Exponent \notin Digit \cup {Minus}
      /\ Point # Exponent
  BY SMT DEF Digit, Minus, Point, Exponent
<1>1. /\ front \in Seq(Int) /\ point \in Seq(Int) /\ behind \in Seq(Int) /\ mark \in Seq(Int)
      /\ exp \in Seq(Int)
  <2>1. <<Point>> \in Seq(Int) /\ <<Exponent>> \in Seq(Int) /\ <<>> \in Seq(Int)
    BY <1>0
  <2>2. front \in Seq(Int) /\ behind \in Seq(Int)
    BY <1>0, SeqMonotonic
  <2>3. exp \in Seq(Int)
    <3>1. Digit \cup {Minus} \subseteq Int
      BY <1>0
    <3> QED
      BY <3>1, SeqMonotonic
  <2> QED
    BY <2>1, <2>2, <2>3
<1>2. InRow(body, front, point, behind, mark, exp)
  BY <1>1, RowProperties
<1>3. /\ body \in Seq(Int) /\ Len(body) = e
      /\ a \in Nat /\ b \in Nat /\ c \in Nat /\ d \in Nat /\ e \in Nat
      /\ a <= b /\ b <= c /\ c <= d /\ d <= e
      /\ \A i \in 1 .. a : body[i] = front[i]
      /\ \A i \in a + 1 .. b : body[i] = point[i - a]
      /\ \A i \in b + 1 .. c : body[i] = behind[i - b]
      /\ \A i \in c + 1 .. d : body[i] = mark[i - c]
      /\ \A i \in d + 1 .. e : body[i] = exp[i - d]
  <2>1. Len(front) \in Nat /\ Len(point) \in Nat /\ Len(behind) \in Nat /\ Len(mark) \in Nat
        /\ Len(exp) \in Nat
    BY <1>1
  <2>2. /\ a \in Nat /\ b \in Nat /\ c \in Nat /\ d \in Nat /\ e \in Nat
        /\ a <= b /\ b <= c /\ c <= d /\ d <= e
    BY <2>1
  <2> HIDE DEF body
  <2> QED
    BY <1>2, <2>2, Zenon DEF InRow
<1> HIDE DEF body
<1>4. DOMAIN body = 1 .. e
  BY <1>3
<1>5. b = (IF point = <<>> THEN a ELSE a + 1) /\ d = (IF mark = <<>> THEN c ELSE c + 1)
  <2>1. Len(<<Point>>) = 1 /\ Len(<<Exponent>>) = 1 /\ <<Point>> # <<>> /\ <<Exponent>> # <<>>
    OBVIOUS
  <2>2. Len(point) = (IF point = <<>> THEN 0 ELSE 1) /\ Len(mark) = (IF mark = <<>> THEN 0 ELSE 1)
    BY <2>1
  <2> HIDE DEF a, c
  <2> QED
    BY <1>3, <2>2
<1>6. (point = <<>> => c = b) /\ (mark = <<>> => e = d)
  <2>1. Len(<<>>) = 0
    OBVIOUS
  <2>2. (point = <<>> => Len(behind) = 0) /\ (mark = <<>> => Len(exp) = 0)
    BY <2>1
  <2>3. c = b + Len(behind) /\ e = d + Len(exp) /\ b + 0 = b /\ d + 0 = d
    <3> HIDE DEF b, d
    <3> QED
      BY <1>3
  <2> HIDE DEF b, c, d, e
  <2> QED
    BY <2>2, <2>3, Zenon
<1>7. /\ \A i \in 1 .. a : body[i] \in Digit
      /\ \A i \in b + 1 .. c : body[i] \in Digit
      /\ \A i \in d + 1 .. e : body[i] \in Digit \cup {Minus}
  <2>1. \A i \in 1 .. a : front[i] \in Digit
    OBVIOUS
  <2>2. \A i \in b + 1 .. c : i - b \in 1 .. Len(behind)
    <3> HIDE DEF b
    <3> QED
      BY <1>1, <1>3
  <2>3. \A i \in d + 1 .. e : i - d \in 1 .. Len(exp)
    <3> HIDE DEF d
    <3> QED
      BY <1>1, <1>3
  <2>4. /\ \A i \in 1 .. Len(behind) : behind[i] \in Digit
        /\ \A i \in 1 .. Len(exp) : exp[i] \in Digit \cup {Minus}
    OBVIOUS
  <2> HIDE DEF a, b, c, d, e
  <2> QED
    BY <1>3, <2>1, <2>2, <2>3, <2>4
<1>8. point # <<>> => b = a + 1 /\ body[a + 1] = Point
  <2>1. ASSUME point # <<>> PROVE b = a + 1 /\ body[a + 1] = Point
    <3>1. point = <<Point>> /\ point[1] = Point
      BY <2>1
    <3> HIDE DEF a, b
    <3> QED
      BY <1>3, <1>5, <2>1, <3>1
  <2> QED
    BY <2>1
<1>9. mark # <<>> => d = c + 1 /\ body[c + 1] = Exponent
  <2>1. ASSUME mark # <<>> PROVE d = c + 1 /\ body[c + 1] = Exponent
    <3>1. mark = <<Exponent>> /\ mark[1] = Exponent
      BY <2>1
    <3> HIDE DEF c, d
    <3> QED
      BY <1>3, <1>5, <2>1, <3>1
  <2> QED
    BY <2>1
<1> HIDE DEF b, c, d, e
<1>10. Places(body, Exponent) = IF mark = <<>> THEN {} ELSE {c + 1}
  <2>1. ASSUME NEW i \in 1 .. e, body[i] = Exponent PROVE mark # <<>> /\ i = c + 1
    <3> HIDE DEF a
    <3>1. i \in 1 .. a \/ i \in a + 1 .. b \/ i \in b + 1 .. c \/ i \in c + 1 .. d \/ i \in d + 1 .. e
      BY <1>3
    <3>2. i \notin 1 .. a /\ i \notin b + 1 .. c /\ i \notin d + 1 .. e
      BY <1>0, <1>7, <2>1
    <3>3. i \notin a + 1 .. b
      <4>1. ASSUME i \in a + 1 .. b PROVE FALSE
        <5>1. point # <<>> /\ i = a + 1
          BY <1>3, <1>5, <1>8, <4>1
        <5> QED
          BY <1>0, <1>8, <2>1, <5>1
      <4> QED
        BY <4>1
    <3> QED
      BY <1>3, <1>5, <1>9, <3>1, <3>2, <3>3
  <2>2. mark # <<>> => c + 1 \in 1 .. e
    BY <1>3, <1>9
  <2> QED
    BY <1>4, <1>9, <2>1, <2>2 DEF Places
<1>11. Places(body, Point) = IF point = <<>> THEN {} ELSE {a + 1}
  <2>1. ASSUME NEW i \in 1 .. e, body[i] = Point PROVE point # <<>> /\ i = a + 1
    <3> HIDE DEF a
    <3>1. i \in 1 .. a \/ i \in a + 1 .. b \/ i \in b + 1 .. c \/ i \in c + 1 .. d \/ i \in d + 1 .. e
      BY <1>3
    <3>2. i \notin 1 .. a /\ i \notin b + 1 .. c /\ i \notin d + 1 .. e
      BY <1>0, <1>7, <2>1
    <3>3. i \notin c + 1 .. d
      <4>1. ASSUME i \in c + 1 .. d PROVE FALSE
        <5>1. mark # <<>> /\ i = c + 1
          BY <1>3, <1>5, <1>9, <4>1
        <5> QED
          BY <1>0, <1>9, <2>1, <5>1
      <4> QED
        BY <4>1
    <3> QED
      BY <1>3, <1>5, <1>8, <3>1, <3>2, <3>3
  <2>2. point # <<>> => a + 1 \in 1 .. e
    BY <1>3, <1>8
  <2> QED
    BY <1>4, <1>8, <2>1, <2>2 DEF Places
<1> HIDE DEF a
<1>12. EndOf(body) = c
  <2>1. CASE mark = <<>>
    BY <1>3, <1>5, <1>6, <1>10, <2>1 DEF EndOf
  <2>2. CASE mark # <<>>
    <3>1. (CHOOSE i \in Places(body, Exponent) : TRUE) = c + 1 /\ Places(body, Exponent) # {}
      BY <1>10, <2>2
    <3>2. EndOf(body) = (c + 1) - 1
      BY <3>1 DEF EndOf
    <3> QED
      BY <1>3, <3>2
  <2> QED
    BY <2>1, <2>2
<1>13. PointOf(body) = a + 1
  <2>1. CASE point = <<>>
    BY <1>5, <1>6, <1>11, <1>12, <2>1 DEF PointOf
  <2>2. CASE point # <<>>
    BY <1>11, <2>2 DEF PointOf
  <2> QED
    BY <2>1, <2>2
<1>14. SubSeq(body, 1, a) = front
  <2>1. 0 \in Nat /\ a = 0 + a /\ 0 + 1 = 1 /\ a <= e /\ \A i \in 1 .. a : i - 0 = i
    BY <1>3
  <2>2. SubSeq(body, 0 + 1, a) = front
    <3>1. a = 0 + Len(front) /\ a <= Len(body)
      BY <1>3, <2>1 DEF a
    <3>2. \A i \in 0 + 1 .. a : body[i] = front[i - 0]
      BY <1>3, <2>1
    <3> QED
      BY <1>1, <1>3, <3>1, <3>2, PartOf
  <2> QED
    BY <2>1, <2>2
<1>15. SubSeq(body, a + 2, c) = behind
  <2>1. CASE point = <<>>
    <3>1. c < a + 2 /\ behind = <<>> /\ a + 2 \in Int /\ c \in Int
      BY <1>3, <1>5, <1>6, <2>1
    <3> QED
      BY <1>3, <3>1
  <2>2. CASE point # <<>>
    <3>1. a + 2 = b + 1 /\ c = b + Len(behind) /\ c <= Len(body)
      BY <1>3, <1>8, <2>2 DEF c
    <3>2. SubSeq(body, b + 1, c) = behind
      BY <1>1, <1>3, <3>1, PartOf
    <3> QED
      BY <3>1, <3>2
  <2> QED
    BY <2>1, <2>2
<1>16. SubSeq(body, c + 2, e) = exp
  <2>1. CASE mark = <<>>
    <3>1. e < c + 2 /\ exp = <<>> /\ c + 2 \in Int /\ e \in Int
      BY <1>3, <1>5, <1>6, <2>1
    <3> QED
      BY <1>3, <3>1
  <2>2. CASE mark # <<>>
    <3>1. c + 2 = d + 1 /\ e = d + Len(exp) /\ e <= Len(body)
      BY <1>3, <1>9, <2>2 DEF e
    <3>2. SubSeq(body, d + 1, e) = exp
      BY <1>1, <1>3, <3>1, PartOf
    <3> QED
      BY <3>1, <3>2
  <2> QED
    BY <2>1, <2>2
<1>17. (a + 1) - 1 = a /\ (a + 1) + 1 = a + 2
  BY <1>3
<1>18. Reading(body)
         = Stripped(SubSeq(body, 1, (a + 1) - 1) \o SubSeq(body, (a + 1) + 1, c),
                    ExponentOf(SubSeq(body, c + 2, e)) - Len(SubSeq(body, (a + 1) + 1, c)))
  BY <1>3, <1>12, <1>13 DEF Reading
<1>19. Reading(body)
         = Stripped(SubSeq(body, 1, a) \o SubSeq(body, a + 2, c),
                    ExponentOf(SubSeq(body, c + 2, e)) - Len(SubSeq(body, a + 2, c)))
  BY <1>17, <1>18
<1>20. Reading(body) = Stripped(front \o behind, ExponentOf(exp) - Len(behind))
  BY <1>14, <1>15, <1>16, <1>19
<1> QED
  BY <1>20 DEF body

(* Rules for sequences in a row.                                           *)
LEMMA RowRules ==
  /\ <<>> \in Seq(Int) /\ \A c \in Int : <<c>> \in Seq(Int)
  /\ \A s \in Seq(Int) : s \o <<>> = s /\ <<>> \o s = s
  /\ \A s \in Seq(Int), t \in Seq(Int) : s \o t \in Seq(Int)
  /\ \A s \in Seq(Int), t \in Seq(Int), u \in Seq(Int) : (s \o t) \o u = s \o (t \o u)
<1>1. \A s \in Seq(Int) : s \o <<>> = s /\ <<>> \o s = s
  BY ConcatEmptySeq
<1>2. \A s \in Seq(Int), t \in Seq(Int), u \in Seq(Int) : (s \o t) \o u = s \o (t \o u)
  <2>1. ASSUME NEW s \in Seq(Int), NEW t \in Seq(Int), NEW u \in Seq(Int)
        PROVE  (s \o t) \o u = s \o (t \o u)
    BY ConcatAssociative
  <2> QED
    BY <2>1
<1>3. <<>> \in Seq(Int) /\ \A c \in Int : <<c>> \in Seq(Int)
  OBVIOUS
<1>4. \A s \in Seq(Int), t \in Seq(Int) : s \o t \in Seq(Int)
  OBVIOUS
<1> QED
  BY <1>1, <1>2, <1>3, <1>4

(* Sequences in a row may be put together in any order.                    *)
LEMMA RowsRearranged ==
  ASSUME NEW s \in Seq(Int), NEW t \in Seq(Int), NEW u \in Seq(Int)
  PROVE  (s \o t) \o u = s \o (t \o u)
BY RowRules

(* The first member of two sequences in a row.                             *)
LEMMA HeadOfRow ==
  ASSUME NEW s \in Seq(Int), NEW t \in Seq(Int), s # <<>>
  PROVE  Head(s \o t) = s[1] /\ s \o t # <<>>
<1>1. Len(s) \in Nat /\ Len(s) # 0 /\ Len(t) \in Nat
  BY EmptySeq
<1>2. 1 \in 1 .. Len(s) /\ 1 <= Len(s) + Len(t)
  BY <1>1
<1>3. s \o t \in Seq(Int) /\ Len(s \o t) = Len(s) + Len(t) /\ (s \o t)[1] = s[1]
  BY <1>2, TwoInARow
<1> DEFINE r == s \o t
<1> HIDE DEF r
<1>4. r \in Seq(Int) /\ Len(r) # 0 /\ r[1] = s[1]
  BY <1>1, <1>2, <1>3 DEF r
<1>5. r # <<>> /\ Head(r) = r[1]
  BY <1>4
<1> QED
  BY <1>4, <1>5 DEF r

(* And what is behind a single one.                                        *)
LEMMA TailBehind ==
  ASSUME NEW c \in Int, NEW t \in Seq(Int)
  PROVE  Head(<<c>> \o t) = c /\ Tail(<<c>> \o t) = t /\ <<c>> \o t # <<>>
<1> DEFINE s == <<c>>  r == s \o t
<1>1. s \in Seq(Int) /\ s # <<>> /\ s[1] = c /\ Len(s) = 1
  OBVIOUS
<1> HIDE DEF s
<1>2. Head(r) = c /\ r # <<>>
  BY <1>1, HeadOfRow
<1>3. /\ r \in Seq(Int) /\ Len(r) = 1 + Len(t)
      /\ \A i \in 1 + 1 .. 1 + Len(t) : r[i] = t[i - 1]
  <2>1. /\ r \in Seq(Int) /\ Len(r) = Len(s) + Len(t)
        /\ \A i \in Len(s) + 1 .. Len(s) + Len(t) : r[i] = t[i - Len(s)]
    BY <1>1, TwoInARow
  <2> HIDE DEF r
  <2> QED
    BY <1>1, <2>1
<1>4. Len(t) \in Nat
  OBVIOUS
<1> HIDE DEF r
<1>5. /\ Tail(r) \in Seq(Int) /\ Len(Tail(r)) = Len(r) - 1
      /\ \A i \in 1 .. Len(Tail(r)) : Tail(r)[i] = r[i + 1]
  BY <1>2, <1>3, HeadTailProperties
<1> DEFINE x == Tail(r)  n == Len(t)
<1>6. x \in Seq(Int) /\ Len(x) = n /\ n \in Nat
  BY <1>3, <1>4, <1>5
<1> HIDE DEF x, n
<1>7. ASSUME NEW i \in 1 .. n PROVE x[i] = t[i]
  <2>1. i \in 1 .. Len(Tail(r))
    BY <1>6 DEF x
  <2>2. x[i] = r[i + 1]
    BY <1>5, <2>1 DEF x
  <2>3. i + 1 \in 1 + 1 .. 1 + Len(t) /\ (i + 1) - 1 = i
    BY <1>6 DEF n
  <2>4. r[i + 1] = t[(i + 1) - 1]
    BY <1>3, <2>3
  <2> QED
    BY <2>2, <2>3, <2>4
<1>8. x = t
  <2>1. Len(x) = Len(t) /\ \A i \in 1 .. Len(x) : x[i] = t[i]
    BY <1>6, <1>7 DEF n
  <2> QED
    BY <1>6, <2>1, SeqEqual
<1> QED
  BY <1>2, <1>8 DEF x, r, s

(* Reading a text of such parts, with a sign in front or without.          *)
IsRow(front, point, behind, mark, exp) ==
  /\ front \in Seq(Digit) /\ front # <<>> /\ behind \in Seq(Digit)
  /\ exp \in Seq(Digit \cup {Minus})
  /\ point \in {<<>>, <<Point>>} /\ (point = <<>> => behind = <<>>)
  /\ mark \in {<<>>, <<Exponent>>} /\ (mark = <<>> => exp = <<>>)

(* Denotes() finds the parts of such a row and the sign in front of it.    *)
LEMMA ReadsBack ==
  ASSUME NEW sign \in BOOLEAN, NEW front, NEW point, NEW behind, NEW mark, NEW exp,
         IsRow(front, point, behind, mark, exp)
  PROVE  Denotes((IF sign THEN <<Minus>> ELSE <<>>) \o Row(front, point, behind, mark, exp))
           = [neg |-> sign,
              number |-> Stripped(front \o behind, ExponentOf(exp) - Len(behind))]
<1> DEFINE r == Row(front, point, behind, mark, exp)
<1>0. /\ front \in Seq(Digit) /\ front # <<>> /\ behind \in Seq(Digit)
      /\ exp \in Seq(Digit \cup {Minus})
      /\ point \in {<<>>, <<Point>>} /\ (point = <<>> => behind = <<>>)
      /\ mark \in {<<>>, <<Exponent>>} /\ (mark = <<>> => exp = <<>>)
  BY DEF IsRow
<1>1. Reading(r) = Stripped(front \o behind, ExponentOf(exp) - Len(behind))
  BY <1>0, ReadingOfRow
<1>2. Minus \in Int /\ Point \in Int /\ Exponent \in Int /\ Digit \subseteq Int /\ Minus \notin Digit
  BY SMT DEF Minus, Point, Exponent, Digit
<1>3. /\ front \in Seq(Int) /\ behind \in Seq(Int) /\ exp \in Seq(Int)
      /\ point \in Seq(Int) /\ mark \in Seq(Int)
  <2>1. front \in Seq(Int) /\ behind \in Seq(Int)
    BY <1>0, <1>2, SeqMonotonic
  <2>2. Digit \cup {Minus} \subseteq Int
    BY <1>2
  <2>3. exp \in Seq(Int)
    BY <1>0, <2>2, SeqMonotonic
  <2>4. point \in Seq(Int) /\ mark \in Seq(Int)
    BY <1>0, <1>2, RowRules
  <2> QED
    BY <2>1, <2>3, <2>4
<1>4. r \in Seq(Int) /\ Head(r) = front[1]
  <2>1. /\ front \o point \in Seq(Int) /\ Head(front \o point) = front[1] /\ front \o point # <<>>
        /\ (front \o point)[1] = front[1]
    <3>1. front \o point \in Seq(Int) /\ Head(front \o point) = front[1] /\ front \o point # <<>>
      BY <1>0, <1>3, RowRules, HeadOfRow
    <3> DEFINE x == front \o point
    <3> HIDE DEF x
    <3>2. x # <<>> /\ x \in Seq(Int) => Head(x) = x[1]
      OBVIOUS
    <3> QED
      BY <3>1, <3>2 DEF x
  <2> DEFINE x == front \o point  y == x \o behind  z == y \o mark
  <2> HIDE DEF x
  <2>2. y \in Seq(Int) /\ y # <<>> /\ y[1] = front[1]
    <3>1. y \in Seq(Int) /\ y # <<>> /\ Head(y) = x[1]
      BY <1>3, <2>1, RowRules, HeadOfRow DEF x
    <3> HIDE DEF y
    <3>2. y # <<>> /\ y \in Seq(Int) => Head(y) = y[1]
      OBVIOUS
    <3> QED
      BY <2>1, <3>1, <3>2 DEF x
  <2> HIDE DEF y
  <2>3. z \in Seq(Int) /\ z # <<>> /\ z[1] = front[1]
    <3>1. z \in Seq(Int) /\ z # <<>> /\ Head(z) = y[1]
      BY <1>3, <2>2, RowRules, HeadOfRow
    <3> HIDE DEF z
    <3>2. z # <<>> /\ z \in Seq(Int) => Head(z) = z[1]
      OBVIOUS
    <3> QED
      BY <2>2, <3>1, <3>2
  <2> HIDE DEF z
  <2>4. z \o exp \in Seq(Int) /\ Head(z \o exp) = z[1]
    BY <1>3, <2>3, RowRules, HeadOfRow
  <2> QED
    BY <2>3, <2>4 DEF Row, x, y, z
<1>5. front[1] # Minus
  <2>1. 1 \in 1 .. Len(front)
    <3>1. Len(front) \in Nat /\ Len(front) # 0
      BY <1>0, EmptySeq
    <3> QED
      BY <3>1
  <2>2. front[1] \in Digit
    BY <1>0, <2>1
  <2> QED
    BY <1>2, <2>2
<1> HIDE DEF r
<1>6. CASE sign
  <2>1. Head(<<Minus>> \o r) = Minus /\ Tail(<<Minus>> \o r) = r
    BY <1>2, <1>4, TailBehind
  <2> DEFINE x == <<Minus>> \o r
  <2> HIDE DEF x
  <2>2. Denotes(x) = [neg |-> TRUE, number |-> Reading(r)]
    BY <2>1, DenotesReads DEF x
  <2> QED
    BY <1>1, <1>6, <2>2 DEF r, x
<1>7. CASE ~sign
  <2>1. <<>> \o r = r
    BY <1>4, RowRules
  <2>2. Denotes(r) = [neg |-> FALSE, number |-> Reading(r)]
    BY <1>4, <1>5, DenotesReads
  <2> QED
    BY <1>1, <1>7, <2>1, <2>2 DEF r
<1> QED
  BY <1>6, <1>7

-----------------------------------------------------------------------------
(* The texts of numbers.                                                   *)

(* Digits are integers.                                                    *)
LEMMA DigitsAreIntegers ==
  /\ Digit \subseteq Int /\ \A s \in Seq(Digit) : s \in Seq(Int)
  /\ \A s \in Seq(Digit) : s \in Seq(Digit \cup {Minus})
  /\ <<>> \in Seq(Digit) /\ <<>> \in Seq(Digit \cup {Minus}) /\ <<0>> \in Seq(Digit) /\ 0 \in Digit
  /\ {Minus, Point, Exponent} \subseteq Int
<1>1. Digit \subseteq Int /\ 0 \in Digit
  BY DEF Digit
<1>2. {Minus, Point, Exponent} \subseteq Int
  BY DEF Minus, Point, Exponent
<1>3. \A s \in Seq(Digit) : s \in Seq(Int)
  BY <1>1, SeqMonotonic
<1>4. \A s \in Seq(Digit) : s \in Seq(Digit \cup {Minus})
  <2>1. Digit \subseteq Digit \cup {Minus}
    OBVIOUS
  <2> QED
    BY <2>1, SeqMonotonic
<1>5. <<>> \in Seq(Digit) /\ <<>> \in Seq(Digit \cup {Minus}) /\ <<0>> \in Seq(Digit)
  BY <1>1
<1> QED
  BY <1>1, <1>2, <1>3, <1>4, <1>5

(* Without point and exponent: an integer.                                 *)
LEMMA IntegersReadBack ==
  ASSUME NEW v \in Int
  PROVE  Denotes(Convert(v))
           = [neg |-> v < 0, number |-> Stripped(DigitsOf(IF v < 0 THEN -v ELSE v), 0)]
<1> DEFINE n == Size_(v)
           text == Decimal(n)
           sign == v < 0
<1>1. n \in Nat /\ n = IF v < 0 THEN -v ELSE v
  BY DEF Size_
<1>2. Convert(v) = (IF sign THEN <<Minus>> ELSE <<>>) \o text
  BY ConvertWrites DEF SignOf
<1> HIDE DEF n
<1>3. text \in Seq(Digit) /\ text # <<>>
  BY <1>1, DecimalProperties
<1>4. Stripped(text, 0) = Stripped(DigitsOf(n), 0)
  <2>1. CASE n = 0
    <3>1. text = <<0>> /\ DigitsOf(n) = <<>>
      BY <2>1, DigitsSteps DEF Decimal
    <3>2. Nonzero(<<0>>) = {} /\ Nonzero(<<>>) = {}
      BY DEF Nonzero
    <3> HIDE DEF text
    <3>3. Stripped(<<0>>, 0) = [digits |-> <<>>, k |-> 0] /\ Stripped(<<>>, 0) = [digits |-> <<>>, k |-> 0]
      BY <3>2, StrippedZero
    <3> QED
      BY <3>1, <3>3
  <2>2. CASE n # 0
    BY <2>2 DEF Decimal
  <2> QED
    BY <2>1, <2>2
<1> HIDE DEF text, sign
<1> DEFINE e == <<>>
<1>5. Row(text, e, e, e, e) = text /\ text \o e = text
  <2>1. text \in Seq(Int)
    BY <1>3, DigitsAreIntegers
  <2> QED
    BY <2>1, RowRules DEF Row
<1>6. ExponentOf(e) = 0 /\ Len(e) = 0 /\ 0 - 0 = 0
  BY DEF ExponentOf
<1>7. Denotes((IF sign THEN <<Minus>> ELSE <<>>) \o Row(text, e, e, e, e))
        = [neg |-> sign, number |-> Stripped(text \o e, ExponentOf(e) - Len(e))]
  <2>1. sign \in BOOLEAN
    BY DEF sign
  <2>2. IsRow(text, e, e, e, e)
    BY <1>3, DigitsAreIntegers DEF IsRow
  <2> HIDE DEF e
  <2> QED
    BY <2>1, <2>2, ReadsBack
<1> HIDE DEF e
<1>8. Denotes((IF sign THEN <<Minus>> ELSE <<>>) \o text)
        = [neg |-> sign, number |-> Stripped(DigitsOf(n), 0)]
  BY <1>4, <1>5, <1>6, <1>7
<1> QED
  BY <1>1, <1>2, <1>8 DEF sign

(* WriteExponent() writes its number.                                      *)
LEMMA ExponentReadsBack ==
  ASSUME NEW K \in Int
  PROVE  WriteExponent(K) \in Seq(Digit \cup {Minus}) /\ ExponentOf(WriteExponent(K)) = K
<1> DEFINE abs == IF K < 0 THEN -K ELSE K
           digits == IF abs < 10 THEN <<abs>> ELSE DigitsOf(abs)
<1>1. abs \in Nat /\ (K < 0 => K = -abs) /\ (~(K < 0) => K = abs)
  OBVIOUS
<1>2. WriteExponent(K) = (IF K < 0 THEN <<Minus>> ELSE <<>>) \o digits
  BY DEF WriteExponent
<1> HIDE DEF abs
<1>3. digits \in Seq(Digit) /\ digits # <<>> /\ ValueOf(digits) = abs
  <2>1. CASE abs < 10
    <3>1. abs \in Digit /\ abs \in Int
      BY <1>1, <2>1 DEF Digit
    <3>2. <<abs>> = Append(<<>>, abs) /\ <<abs>> # <<>> /\ <<abs>> \in Seq(Digit)
      BY <3>1
    <3>3. ValueOf(Append(<<>>, abs)) = 10 * ValueOf(<<>>) + abs
      BY <3>1, ValueSteps, RowRules
    <3>4. ValueOf(<<>>) = 0 /\ 10 * 0 + abs = abs
      BY <3>1, ValueSteps
    <3> QED
      BY <2>1, <3>2, <3>3, <3>4
  <2>2. CASE ~(abs < 10)
    <3>1. DigitsOf(abs) \in Seq(Digit) /\ ValueOf(DigitsOf(abs)) = abs
      BY <1>1, DigitsSteps, ValueOfDigits
    <3>2. abs > 0 /\ abs \div 10 \in Nat
      BY <1>1, <2>2
    <3>3. DigitsOf(abs) = Append(DigitsOf(abs \div 10), abs % 10) /\ DigitsOf(abs \div 10) \in Seq(Digit)
      BY <1>1, <3>2, DigitsSteps
    <3>4. DigitsOf(abs) # <<>>
      <4> DEFINE x == DigitsOf(abs \div 10)  y == abs % 10
      <4>1. y \in Digit
        BY <1>1 DEF Digit
      <4> HIDE DEF x, y
      <4>2. x \in Seq(Digit)
        BY <3>3 DEF x
      <4>3. Append(x, y) # <<>>
        BY <4>1, <4>2, AppendProperties
      <4> QED
        BY <3>3, <4>3 DEF x, y
    <3> QED
      BY <2>2, <3>1, <3>4
  <2> QED
    BY <2>1, <2>2
<1> HIDE DEF digits
<1>4. digits \in Seq(Int) /\ Minus \in Int /\ digits \in Seq(Digit \cup {Minus})
  BY <1>3, DigitsAreIntegers
<1>5. CASE K < 0
  <2> DEFINE t == <<Minus>> \o digits
  <2>1. Head(t) = Minus /\ Tail(t) = digits /\ t # <<>>
    BY <1>4, TailBehind
  <2>2. t \in Seq(Digit \cup {Minus})
    BY <1>4
  <2> HIDE DEF t
  <2>3. ExponentOf(t) = -abs
    BY <1>3, <2>1 DEF ExponentOf
  <2> QED
    BY <1>1, <1>2, <1>5, <2>2, <2>3 DEF t
<1>6. CASE ~(K < 0)
  <2>1. <<>> \o digits = digits
    BY <1>4, RowRules
  <2>2. Head(digits) \in Digit
    BY <1>3, HeadTailProperties
  <2>3. Head(digits) # Minus
    BY <2>2, SMT DEF Digit, Minus
  <2>4. ExponentOf(digits) = abs
    BY <1>3, <2>3 DEF ExponentOf
  <2> QED
    BY <1>1, <1>2, <1>4, <1>6, <2>1, <2>4
<1> QED
  BY <1>5, <1>6

(* The four forms of Prettify() have the digits and the exponent it was    *)
(* given: "1234e7 -> 12340000000.0".                                       *)
Reads(text, sign, digits, k) ==
  Denotes((IF sign THEN <<Minus>> ELSE <<>>) \o text) = [neg |-> sign, number |-> Stripped(digits, k)]

(* Digits, zeros up to the point, and a zero behind it.                    *)
LEMMA ScaledReadsBack ==
  ASSUME NEW sign \in BOOLEAN, NEW digits \in Seq(Digit), digits # <<>>, NEW k \in Nat
  PROVE  Reads((digits \o Zeros(k)) \o <<Point, 0>>, sign, digits, k)
<1> DEFINE z == Zeros(k)
           front == digits \o z
           p == <<Point>>
           b == <<0>>
           e == <<>>
<1>1. z \in Seq(Digit) /\ b \in Seq(Digit) /\ p \in Seq(Int) /\ e \in Seq(Digit) /\ b = Zeros(1)
      /\ e \in Seq(Digit \cup {Minus}) /\ Len(b) = 1 /\ p # <<>> /\ p \in {<<>>, <<Point>>}
  BY ZerosAre, DigitsAreIntegers, RowRules DEF Zeros
<1>2. /\ digits \in Seq(Int) /\ z \in Seq(Int) /\ b \in Seq(Int) /\ e \in Seq(Int)
      /\ front \in Seq(Int)
  BY <1>1, DigitsAreIntegers, RowRules
<1>3. front \in Seq(Digit) /\ front # <<>>
  <2>1. front # <<>>
    BY <1>2, HeadOfRow
  <2> QED
    BY <1>1, <2>1
<1>4. <<Point, 0>> = p \o b
  OBVIOUS
<1>5. ExponentOf(e) = 0 /\ 0 - 1 = -1
  BY DEF ExponentOf
<1> HIDE DEF z, p, b, front
<1>6. Row(front, p, b, e, e) = front \o (p \o b)
  <2>1. (front \o p) \o b = front \o (p \o b)
    BY <1>1, <1>2, RowsRearranged
  <2>2. (front \o p) \o b \in Seq(Int)
    <3>1. front \o p \in Seq(Int)
      BY <1>1, <1>2, RowRules
    <3> QED
      BY <1>2, <3>1, RowRules
  <2> QED
    BY <2>1, <2>2, RowRules DEF Row
<1>7. Stripped(front \o b, -1) = Stripped(digits, k)
  <2>1. Stripped(front \o Zeros(1), -1) = Stripped(front, -1 + 1)
    BY <1>2, ZerosBehind
  <2>2. Stripped(digits \o Zeros(k), 0) = Stripped(digits, 0 + k)
    BY <1>2, ZerosBehind
  <2>3. -1 + 1 = 0 /\ 0 + k = k
    OBVIOUS
  <2> QED
    BY <1>1, <2>1, <2>2, <2>3 DEF front, z
<1>8. Denotes((IF sign THEN <<Minus>> ELSE <<>>) \o Row(front, p, b, e, e))
        = [neg |-> sign, number |-> Stripped(front \o b, ExponentOf(e) - Len(b))]
  <2>1. IsRow(front, p, b, e, e)
    BY <1>1, <1>3 DEF IsRow
  <2> HIDE DEF e
  <2> QED
    BY <2>1, ReadsBack
<1> HIDE DEF e
<1>9. Denotes((IF sign THEN <<Minus>> ELSE <<>>) \o (front \o (p \o b)))
        = [neg |-> sign, number |-> Stripped(digits, k)]
  BY <1>1, <1>5, <1>6, <1>7, <1>8
<1> QED
  BY <1>4, <1>9 DEF Reads, front, z

(* A point among the digits.                                               *)
LEMMA InsideReadsBack ==
  ASSUME NEW sign \in BOOLEAN, NEW digits \in Seq(Digit), NEW kk \in 1 .. Len(digits) - 1
  PROVE  Reads((SubSeq(digits, 1, kk) \o <<Point>>) \o SubSeq(digits, kk + 1, Len(digits)),
               sign, digits, kk - Len(digits))
<1> DEFINE n == Len(digits)
           front == SubSeq(digits, 1, kk)
           b == SubSeq(digits, kk + 1, n)
           p == <<Point>>
           e == <<>>
<1>0. n \in Nat /\ kk \in Nat /\ 1 <= kk /\ kk <= n - 1
  OBVIOUS
<1>1. p \in Seq(Int) /\ e \in Seq(Digit) /\ e \in Seq(Digit \cup {Minus}) /\ p # <<>>
      /\ p \in {<<>>, <<Point>>}
  BY DigitsAreIntegers, RowRules
<1>2. front \in Seq(Digit) /\ Len(front) = kk /\ b \in Seq(Digit) /\ Len(b) = n - kk
  BY <1>0
<1>3. front # <<>>
  BY <1>0, <1>2, EmptySeq
<1>4. front \o b = digits
  <2>1. 1 \in 1 .. n + 1 /\ kk \in 1 - 1 .. n /\ n \in kk .. n
    BY <1>0
  <2>2. SubSeq(digits, 1, kk) \o SubSeq(digits, kk + 1, n) = SubSeq(digits, 1, n)
    BY <2>1, ConcatAdjacentSubSeq
  <2>3. SubSeq(digits, 1, n) = digits
    BY SubSeqFull
  <2> QED
    BY <2>2, <2>3
<1>5. ExponentOf(e) = 0 /\ 0 - (n - kk) = kk - n
  BY <1>0 DEF ExponentOf
<1> HIDE DEF p, b, front
<1>6. Row(front, p, b, e, e) = (front \o p) \o b
  <2>1. front \in Seq(Int) /\ b \in Seq(Int)
    BY <1>2, DigitsAreIntegers
  <2> QED
    BY <1>1, <2>1, RowRules DEF Row
<1>8. Denotes((IF sign THEN <<Minus>> ELSE <<>>) \o Row(front, p, b, e, e))
        = [neg |-> sign, number |-> Stripped(front \o b, ExponentOf(e) - Len(b))]
  <2>1. IsRow(front, p, b, e, e)
    BY <1>1, <1>2, <1>3 DEF IsRow
  <2> HIDE DEF e
  <2> QED
    BY <2>1, ReadsBack
<1> HIDE DEF e
<1>9. Denotes((IF sign THEN <<Minus>> ELSE <<>>) \o ((front \o p) \o b))
        = [neg |-> sign, number |-> Stripped(digits, kk - n)]
  BY <1>2, <1>4, <1>5, <1>6, <1>8
<1> QED
  BY <1>9 DEF Reads, front, b, p, n

(* Zeros between the point and the digits.                                 *)
LEMMA SmallReadsBack ==
  ASSUME NEW sign \in BOOLEAN, NEW digits \in Seq(Digit), NEW m \in Nat
  PROVE  Reads((<<0, Point>> \o Zeros(m)) \o digits, sign, digits, -(m + Len(digits)))
<1> DEFINE z == Zeros(m)
           front == <<0>>
           b == z \o digits
           p == <<Point>>
           e == <<>>
<1>1. z \in Seq(Digit) /\ Len(z) = m /\ front \in Seq(Digit) /\ p \in Seq(Int) /\ e \in Seq(Digit)
      /\ front = Zeros(1) /\ e \in Seq(Digit \cup {Minus}) /\ p # <<>> /\ front # <<>>
      /\ p \in {<<>>, <<Point>>}
  BY ZerosAre, DigitsAreIntegers, RowRules DEF Zeros
<1>2. digits \in Seq(Int) /\ z \in Seq(Int) /\ e \in Seq(Int) /\ front \in Seq(Int)
  BY <1>1, DigitsAreIntegers
<1>3. b \in Seq(Digit) /\ Len(b) = m + Len(digits) /\ b \in Seq(Int) /\ Len(digits) \in Nat
  <2>1. b \in Seq(Digit)
    BY <1>1
  <2>2. Len(b) = Len(z) + Len(digits) /\ b \in Seq(Int)
    BY <1>2, TwoInARow
  <2> QED
    BY <1>1, <2>1, <2>2
<1>4. <<0, Point>> = front \o p
  OBVIOUS
<1>5. ExponentOf(e) = 0 /\ 0 - (m + Len(digits)) = -(m + Len(digits))
  BY <1>3 DEF ExponentOf
<1> HIDE DEF z, p, front
<1>6. Row(front, p, b, e, e) = ((front \o p) \o z) \o digits
  <2>0. front \o p \in Seq(Int)
    BY <1>1, <1>2, RowRules
  <2>1. (front \o p) \o (z \o digits) = ((front \o p) \o z) \o digits
    BY <1>2, <2>0, RowsRearranged
  <2>2. (front \o p) \o b \in Seq(Int)
    BY <1>3, <2>0, RowRules
  <2> QED
    BY <2>1, <2>2, RowRules DEF Row
<1> DEFINE k == -(m + Len(digits))
<1>7. Stripped(front \o b, k) = Stripped(digits, k)
  <2>1. k \in Int
    BY <1>3
  <2> HIDE DEF k
  <2>2. Stripped(Zeros(1) \o b, k) = Stripped(b, k)
    BY <1>3, <2>1, ZerosInFront
  <2>3. Stripped(z \o digits, k) = Stripped(digits, k)
    BY <1>2, <2>1, ZerosInFront DEF z
  <2> QED
    BY <1>1, <2>2, <2>3
<1>8. Denotes((IF sign THEN <<Minus>> ELSE <<>>) \o Row(front, p, b, e, e))
        = [neg |-> sign, number |-> Stripped(front \o b, ExponentOf(e) - Len(b))]
  <2>1. IsRow(front, p, b, e, e)
    BY <1>1, <1>3 DEF IsRow
  <2> HIDE DEF e, b
  <2> QED
    BY <2>1, ReadsBack
<1> HIDE DEF e, b
<1>9. Denotes((IF sign THEN <<Minus>> ELSE <<>>) \o (((front \o p) \o z) \o digits))
        = [neg |-> sign, number |-> Stripped(digits, k)]
  BY <1>3, <1>5, <1>6, <1>7, <1>8
<1> QED
  BY <1>4, <1>9 DEF Reads, z

(* One digit in front of the point, and an exponent.                       *)
LEMMA ScientificReadsBack ==
  ASSUME NEW sign \in BOOLEAN, NEW digits \in Seq(Digit), digits # <<>>, NEW kk \in Int
  PROVE  Reads(((<<Head(digits)>> \o (IF Len(digits) = 1 THEN <<>> ELSE <<Point>> \o Tail(digits)))
                  \o <<Exponent>>) \o WriteExponent(kk - 1),
               sign, digits, kk - Len(digits))
<1> DEFINE n == Len(digits)
           front == <<Head(digits)>>
           b == Tail(digits)
           p == IF n = 1 THEN <<>> ELSE <<Point>>
           x == <<Exponent>>
           e == WriteExponent(kk - 1)
<1>0. n \in Nat /\ 1 <= n
  <2>1. n \in Nat /\ n # 0
    BY EmptySeq
  <2> HIDE DEF n
  <2> QED
    BY <2>1
<1>1. Head(digits) \in Digit /\ b \in Seq(Digit) /\ Len(b) = n - 1
  BY HeadTailProperties
<1>2. front \in Seq(Digit) /\ front # <<>> /\ x \in Seq(Int) /\ p \in Seq(Int)
      /\ p \in {<<>>, <<Point>>} /\ x \in {<<>>, <<Exponent>>} /\ x # <<>>
  BY <1>1, DigitsAreIntegers, RowRules
<1>3. p = <<>> => b = <<>>
  <2>1. ASSUME p = <<>> PROVE b = <<>>
    <3>1. <<Point>> # <<>>
      OBVIOUS
    <3>2. n = 1
      BY <2>1, <3>1
    <3> HIDE DEF n
    <3>3. Len(b) = 0
      BY <1>1, <3>2
    <3> QED
      BY <1>1, <3>3, EmptySeq
  <2> QED
    BY <2>1
<1>4. front \o b = digits
  <2>1. 1 \in 1 .. n /\ n \in 1 .. n
    BY <1>0
  <2>2. SubSeq(digits, 1, n) = <<digits[1]>> \o SubSeq(digits, 1 + 1, n)
    BY <2>1, SubSeqRecursiveFirst
  <2>3. SubSeq(digits, 1, n) = digits /\ b = SubSeq(digits, 2, n) /\ 1 + 1 = 2 /\ Head(digits) = digits[1]
    BY SubSeqFull, TailIsSubSeq
  <2> QED
    BY <2>2, <2>3
<1>5. e \in Seq(Digit \cup {Minus}) /\ ExponentOf(e) = kk - 1
  <2> DEFINE K == kk - 1
  <2>1. K \in Int
    OBVIOUS
  <2> HIDE DEF K
  <2>2. WriteExponent(K) \in Seq(Digit \cup {Minus}) /\ ExponentOf(WriteExponent(K)) = K
    BY <2>1, ExponentReadsBack
  <2> QED
    BY <2>2 DEF K
<1>6. <<Head(digits)>> \o (IF Len(digits) = 1 THEN <<>> ELSE <<Point>> \o Tail(digits))
        = (front \o p) \o b
  <2>0. front \in Seq(Int) /\ b \in Seq(Int) /\ <<Point>> \in Seq(Int)
    BY <1>1, <1>2, DigitsAreIntegers, RowRules
  <2>1. CASE n = 1
    <3>1. p = <<>> /\ b = <<>>
      BY <1>3, <2>1
    <3> HIDE DEF front, b, p
    <3>2. (front \o p) \o b = front /\ front \o <<>> = front
      BY <2>0, <3>1, RowRules
    <3> QED
      BY <2>1, <3>2 DEF front, b
  <2>2. CASE n # 1
    <3>1. p = <<Point>>
      BY <2>2
    <3> HIDE DEF front, b, p
    <3>2. (front \o p) \o b = front \o (p \o b)
      BY <2>0, <3>1, RowRules
    <3> QED
      BY <2>2, <3>1, <3>2 DEF front, b
  <2> QED
    BY <2>1, <2>2
<1> HIDE DEF front, b, p, x, e
<1>8. Denotes((IF sign THEN <<Minus>> ELSE <<>>) \o Row(front, p, b, x, e))
        = [neg |-> sign, number |-> Stripped(front \o b, ExponentOf(e) - Len(b))]
  <2>1. IsRow(front, p, b, x, e)
    BY <1>1, <1>2, <1>3, <1>5 DEF IsRow
  <2> QED
    BY <2>1, ReadsBack
<1>9. (kk - 1) - (n - 1) = kk - n
  BY <1>0
<1>10. Denotes((IF sign THEN <<Minus>> ELSE <<>>) \o ((((front \o p) \o b) \o x) \o e))
         = [neg |-> sign, number |-> Stripped(digits, kk - n)]
  BY <1>1, <1>4, <1>5, <1>8, <1>9 DEF Row
<1> QED
  BY <1>6, <1>10 DEF Reads, x, e

(* Which of the forms Prettify() takes.                                    *)
LEMMA PrettifyForms ==
  ASSUME NEW digits \in Seq(Digit), digits # <<>>, NEW k \in Int
  PROVE  LET len == Len(digits)
             kk == len + k
             Scaled == len <= kk /\ kk <= 21
             Inside == 0 < kk /\ kk <= 21
             Small == -6 < kk /\ kk <= 0
         IN  \/ /\ Scaled
                /\ Prettify(digits, k) = (digits \o Zeros(kk - len)) \o <<Point, 0>>
             \/ /\ ~Scaled /\ Inside
                /\ Prettify(digits, k)
                     = (SubSeq(digits, 1, kk) \o <<Point>>) \o SubSeq(digits, kk + 1, len)
             \/ /\ Small
                /\ Prettify(digits, k) = (<<0, Point>> \o Zeros(Offset(kk) - 2)) \o digits
             \/ Prettify(digits, k)
                  = ((<<Head(digits)>> \o (IF len = 1 THEN <<>> ELSE <<Point>> \o Tail(digits)))
                       \o <<Exponent>>) \o WriteExponent(kk - 1)
<1> DEFINE len == Len(digits)
           kk == len + k
           Scaled == len <= kk /\ kk <= 21
           Inside == 0 < kk /\ kk <= 21
           Small == -6 < kk /\ kk <= 0
           scaled == (digits \o Zeros(kk - len)) \o <<Point, 0>>
           inside == (SubSeq(digits, 1, kk) \o <<Point>>) \o SubSeq(digits, kk + 1, len)
           small == (<<0, Point>> \o Zeros(Offset(kk) - 2)) \o digits
           rest == IF len = 1 THEN <<>> ELSE <<Point>> \o Tail(digits)
           scientific == ((<<Head(digits)>> \o rest) \o <<Exponent>>) \o WriteExponent(kk - 1)
<1>1. Prettify(digits, k) = CASE Scaled -> scaled
                              [] ~Scaled /\ Inside -> inside
                              [] Small -> small
                              [] ~Inside /\ ~Small /\ ~Scaled -> scientific
  BY DEF Prettify
<1>2. len \in Nat /\ 1 <= len /\ kk \in Int
  <2>1. len \in Nat /\ len # 0
    BY EmptySeq
  <2> HIDE DEF len
  <2> QED
    BY <2>1
<1>3. (Scaled => ~Small) /\ (Inside => ~Small)
  <2> HIDE DEF len, kk
  <2> QED
    BY <1>2
<1> HIDE DEF Scaled, Inside, Small, scaled, inside, small, scientific
<1>4. \/ Scaled /\ Prettify(digits, k) = scaled
      \/ ~Scaled /\ Inside /\ Prettify(digits, k) = inside
      \/ Small /\ Prettify(digits, k) = small
      \/ Prettify(digits, k) = scientific
  BY <1>1, <1>3
<1> QED
  BY <1>4 DEF Scaled, Inside, Small, scaled, inside, small, scientific

(* Hence Prettify() writes the number it is given, whichever form it       *)
(* takes.                                                                  *)
LEMMA PrettifyReadsBack ==
  ASSUME NEW sign \in BOOLEAN, NEW digits \in Seq(Digit), digits # <<>>, NEW k \in Int
  PROVE  Reads(Prettify(digits, k), sign, digits, k)
<1> DEFINE len == Len(digits)
           kk == len + k
           text == Prettify(digits, k)
<1>1. len \in Nat /\ 1 <= len /\ kk \in Int /\ kk - len = k
  <2>1. len \in Nat /\ len # 0
    BY EmptySeq
  <2> HIDE DEF len
  <2> QED
    BY <2>1
<1>2. CASE len <= kk /\ text = (digits \o Zeros(kk - len)) \o <<Point, 0>>
  <2>1. k \in Nat
    <3> HIDE DEF len, text
    <3> QED
      BY <1>1, <1>2
  <2>2. Reads((digits \o Zeros(k)) \o <<Point, 0>>, sign, digits, k)
    BY <2>1, ScaledReadsBack
  <2> HIDE DEF len, kk, text
  <2> QED
    BY <1>1, <1>2, <2>2 DEF text
<1>3. CASE /\ ~(len <= kk) /\ 0 < kk
           /\ text = (SubSeq(digits, 1, kk) \o <<Point>>) \o SubSeq(digits, kk + 1, len)
  <2>1. kk \in 1 .. len - 1
    <3> HIDE DEF len, kk, text
    <3> QED
      BY <1>1, <1>3
  <2>2. Reads((SubSeq(digits, 1, kk) \o <<Point>>) \o SubSeq(digits, kk + 1, Len(digits)),
              sign, digits, kk - Len(digits))
    <3> HIDE DEF kk
    <3> QED
      BY <2>1, InsideReadsBack DEF len
  <2> HIDE DEF kk, text
  <2>3. text = (SubSeq(digits, 1, kk) \o <<Point>>) \o SubSeq(digits, kk + 1, Len(digits))
        /\ kk - Len(digits) = k
    BY <1>1, <1>3
  <2> QED
    BY <2>2, <2>3 DEF text
<1>4. CASE kk <= 0 /\ text = (<<0, Point>> \o Zeros(Offset(kk) - 2)) \o digits
  <2> DEFINE m == Offset(kk) - 2
  <2>1. m \in Nat /\ -(m + len) = k
    <3>1. m = -kk
      <4> HIDE DEF kk
      <4> QED
        BY <1>1 DEF Offset
    <3> HIDE DEF m, len, text
    <3> QED
      BY <1>1, <1>4, <3>1 DEF kk
  <2> HIDE DEF m
  <2>2. Reads((<<0, Point>> \o Zeros(m)) \o digits, sign, digits, -(m + Len(digits)))
    BY <2>1, SmallReadsBack
  <2>3. text = (<<0, Point>> \o Zeros(m)) \o digits
    BY <1>4 DEF m
  <2> HIDE DEF text
  <2> QED
    BY <2>1, <2>2, <2>3 DEF text
<1>5. CASE text = ((<<Head(digits)>> \o (IF len = 1 THEN <<>> ELSE <<Point>> \o Tail(digits)))
                     \o <<Exponent>>) \o WriteExponent(kk - 1)
  <2> DEFINE form == ((<<Head(digits)>>
                         \o (IF Len(digits) = 1 THEN <<>> ELSE <<Point>> \o Tail(digits)))
                        \o <<Exponent>>) \o WriteExponent(kk - 1)
  <2>1. Reads(form, sign, digits, kk - Len(digits))
    <3>1. kk \in Int
      BY <1>1
    <3> HIDE DEF kk
    <3> QED
      BY <3>1, ScientificReadsBack
  <2>2. text = form /\ kk - Len(digits) = k
    BY <1>1, <1>5
  <2> HIDE DEF form, kk, text
  <2> QED
    BY <2>1, <2>2 DEF text
<1>6. \/ len <= kk /\ text = (digits \o Zeros(kk - len)) \o <<Point, 0>>
      \/ /\ ~(len <= kk) /\ 0 < kk
         /\ text = (SubSeq(digits, 1, kk) \o <<Point>>) \o SubSeq(digits, kk + 1, len)
      \/ kk <= 0 /\ text = (<<0, Point>> \o Zeros(Offset(kk) - 2)) \o digits
      \/ text = ((<<Head(digits)>> \o (IF len = 1 THEN <<>> ELSE <<Point>> \o Tail(digits)))
                   \o <<Exponent>>) \o WriteExponent(kk - 1)
  <2> DEFINE Scaled == len <= kk /\ kk <= 21
             Inside == 0 < kk /\ kk <= 21
             Small == -6 < kk /\ kk <= 0
  <2>1. \/ Scaled /\ text = (digits \o Zeros(kk - len)) \o <<Point, 0>>
        \/ /\ ~Scaled /\ Inside
           /\ text = (SubSeq(digits, 1, kk) \o <<Point>>) \o SubSeq(digits, kk + 1, len)
        \/ Small /\ text = (<<0, Point>> \o Zeros(Offset(kk) - 2)) \o digits
        \/ text = ((<<Head(digits)>> \o (IF len = 1 THEN <<>> ELSE <<Point>> \o Tail(digits)))
                     \o <<Exponent>>) \o WriteExponent(kk - 1)
    BY PrettifyForms
  <2>2. /\ Scaled => len <= kk
        /\ ~Scaled /\ Inside => ~(len <= kk) /\ 0 < kk
        /\ Small => kk <= 0
    OBVIOUS
  <2> HIDE DEF Scaled, Inside, Small, len, kk, text
  <2> QED
    BY <2>1, <2>2, Zenon
<1> QED
  BY <1>2, <1>3, <1>4, <1>5, <1>6

(* Zero has a text of its own.                                             *)
LEMMA ZeroReadsBack ==
  Denotes(<<0, Point, 0>>) = [neg |-> FALSE, number |-> [digits |-> <<>>, k |-> 0]]
<1> DEFINE z == <<0>>  p == <<Point>>  e == <<>>
<1>1. IsRow(z, p, z, e, e)
  BY DigitsAreIntegers DEF IsRow
<1>2. z \in Seq(Int) /\ p \in Seq(Int) /\ e \in Seq(Int)
  BY DigitsAreIntegers, RowRules
<1>3. <<0, Point>> = z \o p
  OBVIOUS
<1>4. <<0, Point, 0>> = <<0, Point>> \o z
  OBVIOUS
<1>5. Nonzero(z \o z) = {}
  BY DEF Nonzero
<1> HIDE DEF z, p, e
<1>6. Row(z, p, z, e, e) = <<0, Point, 0>>
  <2>1. (z \o p) \o z \in Seq(Int)
    <3>1. z \o p \in Seq(Int)
      BY <1>2, RowRules
    <3> QED
      BY <1>2, <3>1, RowRules
  <2> QED
    BY <1>3, <1>4, <2>1, RowRules DEF Row, e
<1>7. \A sign \in BOOLEAN :
        Denotes((IF sign THEN <<Minus>> ELSE <<>>) \o Row(z, p, z, e, e))
          = [neg |-> sign, number |-> Stripped(z \o z, ExponentOf(e) - Len(z))]
  BY <1>1, ReadsBack
<1>8. Denotes(<<>> \o Row(z, p, z, e, e))
        = [neg |-> FALSE, number |-> Stripped(z \o z, ExponentOf(e) - Len(z))]
  BY <1>7
<1>9. <<>> \o Row(z, p, z, e, e) = <<0, Point, 0>>
  <2>1. <<0, Point, 0>> \in Seq(Int)
    <3>1. z \o p \in Seq(Int)
      BY <1>2, RowRules
    <3> QED
      BY <1>2, <1>3, <1>4, <3>1, RowRules
  <2> DEFINE t == <<0, Point, 0>>
  <2> HIDE DEF t
  <2> QED
    BY <1>6, <2>1, RowRules DEF t
<1> QED
  BY <1>5, <1>8, <1>9, StrippedZero

(* So does dtoa_milo(), with a sign, and for zero too.                     *)
LEMMA DoublesReadBack ==
  ASSUME NEW d, IsDouble(d)
  PROVE  Denotes(Dtoa(d)) = [neg |-> d.neg /\ ~IsZero(d), number |-> Stripped(d.digits, d.k)]
<1>1. d.digits \in Seq(Digit) /\ d.k \in Int /\ d.neg \in BOOLEAN
  BY DEF IsDouble, Digit
<1>2. CASE IsZero(d)
  <2>6. Stripped(d.digits, d.k) = [digits |-> <<>>, k |-> 0]
    <3>1. Nonzero(<<>>) = {}
      BY DEF Nonzero
    <3> QED
      BY <1>2, <3>1, StrippedZero DEF IsZero
  <2>7. Dtoa(d) = <<0, Point, 0>>
    BY <1>2 DEF Dtoa
  <2> QED
    BY <1>2, <2>6, <2>7, ZeroReadsBack
<1>3. CASE ~IsZero(d)
  <2>1. Reads(Prettify(d.digits, d.k), d.neg, d.digits, d.k)
    BY <1>1, <1>3, PrettifyReadsBack DEF IsZero
  <2>2. Dtoa(d) = (IF d.neg THEN <<Minus>> ELSE <<>>) \o Prettify(d.digits, d.k)
    BY <1>3 DEF Dtoa
  <2>3. (d.neg /\ ~IsZero(d)) = d.neg
    BY <1>1, <1>3
  <2> QED
    BY <2>1, <2>2, <2>3 DEF Reads
<1> QED
  BY <1>2, <1>3

-----------------------------------------------------------------------------
(* The digits of doubles.                                                  *)

(* Division with remainder.                                                *)
LEMMA Division ==
  ASSUME NEW a \in Nat, NEW b \in Nat, b > 0
  PROVE  /\ a \div b \in Nat /\ a % b \in Nat /\ a % b < b
         /\ a = (a \div b) * b + (a % b)
OBVIOUS

(* Quotient and remainder are known by their product and sum.              *)
LEMMA DivisionIs ==
  ASSUME NEW b \in Nat, b > 0, NEW q \in Nat, NEW r \in Nat, r < b
  PROVE  (q * b + r) \div b = q /\ (q * b + r) % b = r
OBVIOUS

(* Rules for products.                                                     *)
LEMMA Products ==
  /\ \A a, b \in Nat : a * b \in Nat /\ a * b = b * a
  /\ \A a, b, c \in Nat : (a * b) * c = a * (b * c) /\ a * (b + c) = a * b + a * c
  /\ \A a, b \in Nat : a > 0 /\ b > 0 => a * b > 0
OBVIOUS

(* GrisuRound(): the loop ends, at the latest when the last digit would be *)
(* zero, as then the number is too far below Mp.                           *)
LEMMA Rounds ==
  ASSUME NEW delta \in Nat, NEW rest \in Nat, NEW tk \in Nat, tk > 0, NEW wp_w \in Nat,
         rest <= delta, NEW last \in Digit, delta <= rest + last * tk
  PROVE  LET n == GrisuRound(delta, rest, tk, wp_w) IN
         /\ n \in Nat /\ n <= last
         /\ ~Closer(rest + n * tk, tk, wp_w, delta)
         /\ n > 0 => Closer(rest + (n - 1) * tk, tk, wp_w, delta)
<1> DEFINE C(m) == Closer(rest + m * tk, tk, wp_w, delta)
           M == {m \in Nat : ~C(m)}
           Good(n) == ~C(n) /\ \A m \in 0 .. n - 1 : C(m)
           g == CHOOSE n \in 0 .. 99 : Good(n)
<1>1. last \in Nat /\ last <= 9
  BY DEF Digit
<1>2. ~C(last)
  <2> DEFINE r == rest + last * tk
  <2>1. r \in Nat /\ delta <= r
    BY <1>1, Products
  <2> HIDE DEF r
  <2>2. ~Closer(r, tk, wp_w, delta)
    BY <2>1 DEF Closer
  <2> QED
    BY <2>2 DEF r
<1> HIDE DEF C
<1>3. PICK x \in M : \A y \in M : x <= y
  <2>1. M \subseteq Nat /\ M # {}
    BY <1>1, <1>2
  <2> HIDE DEF M
  <2> QED
    BY <2>1, LeastNumber
<1>4. x \in 0 .. 99 /\ Good(x)
  <2>1. x \in Nat /\ x <= last /\ ~C(x)
    BY <1>1, <1>2, <1>3
  <2>2. ASSUME NEW m \in 0 .. x - 1 PROVE C(m)
    <3>1. m \in Nat /\ ~(x <= m)
      BY <2>1
    <3> QED
      BY <1>3, <3>1
  <2> QED
    BY <1>1, <2>1, <2>2
<1>5. g \in 0 .. 99 /\ Good(g)
  <2> HIDE DEF Good
  <2> QED
    BY <1>4
<1>6. GrisuRound(delta, rest, tk, wp_w) = g
  BY DEF GrisuRound, C
<1> HIDE DEF g
<1>7. g <= last
  <2>1. last \notin 0 .. g - 1
    BY <1>2, <1>5
  <2> QED
    BY <1>1, <1>5, <2>1
<1>8. g > 0 => C(g - 1)
  <2>1. g > 0 => g - 1 \in 0 .. g - 1
    BY <1>5
  <2> QED
    BY <1>5, <2>1
<1> QED
  BY <1>5, <1>6, <1>7, <1>8 DEF C

(* The last digit is lowered, and by no more than it is.                   *)
LEMMA Lowers ==
  ASSUME NEW q \in Nat, q > 0, NEW n \in Nat, n <= q % 10
  PROVE  LET digits == Lowered(DigitsOf(q), n) IN
         /\ digits \in Seq(Digit)
         /\ ValueOf(digits) = q - n
<1> DEFINE s == DigitsOf(q \div 10)
           d == q % 10
           t == Append(s, d)
<1>1. q \div 10 \in Nat /\ d \in Digit /\ d \in Nat /\ d - n \in Digit /\ d - n \in Int
      /\ q = 10 * (q \div 10) + d
  BY DEF Digit
<1>2. DigitsOf(q) = t /\ s \in Seq(Digit) /\ ValueOf(s) = q \div 10
  BY <1>1, DigitsSteps, ValueOfDigits
<1> HIDE DEF s, d
<1>3. s \in Seq(Int) /\ Len(s) \in Nat
  BY <1>2, DigitsAreIntegers
<1>4. /\ t \in Seq(Digit) /\ Len(t) = Len(s) + 1 /\ t[Len(s) + 1] = d
      /\ \A i \in 1 .. Len(s) : t[i] = s[i]
  BY <1>1, <1>2, AppendProperties
<1> DEFINE u == Append(s, d - n)
<1>5. /\ u \in Seq(Digit) /\ Len(u) = Len(s) + 1 /\ u[Len(s) + 1] = d - n
      /\ \A i \in 1 .. Len(s) : u[i] = s[i]
  BY <1>1, <1>2, AppendProperties
<1>6. ValueOf(u) = 10 * (q \div 10) + (d - n)
  BY <1>1, <1>2, <1>3, ValueSteps
<1> HIDE DEF t, u
<1>7. Lowered(t, n) = u
  <2> DEFINE l == Lowered(t, n)  m == Len(s) + 1
  <2>1. m \in Nat /\ m \in 1 .. m /\ \A i \in 1 .. m : i # m => i \in 1 .. Len(s)
    BY <1>3
  <2>2. DOMAIN t = 1 .. m /\ DOMAIN u = 1 .. m /\ Len(t) = m
    BY <1>4, <1>5
  <2>3. l = [i \in 1 .. m |-> IF i = m THEN t[i] - n ELSE t[i]]
    BY <2>2 DEF Lowered
  <2>4. u = [i \in 1 .. m |-> u[i]]
    BY <1>5, <2>2
  <2> HIDE DEF l
  <2>5. ASSUME NEW i \in 1 .. m PROVE (IF i = m THEN t[i] - n ELSE t[i]) = u[i]
    <3>1. CASE i = m
      BY <1>4, <1>5, <3>1
    <3>2. CASE i # m
      BY <1>4, <1>5, <2>1, <3>2
    <3> QED
      BY <3>1, <3>2
  <2> HIDE DEF m
  <2>6. [i \in 1 .. m |-> IF i = m THEN t[i] - n ELSE t[i]] = [i \in 1 .. m |-> u[i]]
    BY <2>5
  <2> QED
    BY <2>3, <2>4, <2>6 DEF l
<1>8. 10 * (q \div 10) + (d - n) = q - n
  BY <1>1
<1> QED
  BY <1>2, <1>5, <1>6, <1>7, <1>8

(* Rounding makes a number of so many digits the closest one to W: the     *)
(* next one below is not closer, nor was the one above.                    *)
ShortAt(digits, low, high, unit) ==
  /\ \A i \in DOMAIN digits : digits[i] \in 0 .. 9
  /\ ValueOf(digits) * unit \in low .. high
  /\ (high \div (10 * unit)) * (10 * unit) <= low
ClosestAt(digits, low, high, w, unit) ==
  LET found == ValueOf(digits) * unit
  IN  \A other \in {found - unit, found + unit} \cap low .. high :
        Distance(found, w) <= Distance(other, w)

(* The arithmetic of that, with r below Mp for the number that is found.   *)
LEMMA ClosestBelow ==
  ASSUME NEW tk \in Nat, tk > 0, NEW delta \in Nat, NEW wp_w \in Nat, wp_w <= delta,
         NEW high \in Nat, delta <= high, NEW r \in Nat, r <= delta,
         ~Closer(r, tk, wp_w, delta), r < tk \/ (r >= tk /\ Closer(r - tk, tk, wp_w, delta)),
         NEW other \in {(high - r) - tk, (high - r) + tk} \cap (high - delta) .. high
  PROVE  Distance(high - r, high - wp_w) <= Distance(other, high - wp_w)
<1>1. CASE other = (high - r) - tk
  <2>1. delta - r >= tk
    BY <1>1
  <2>2. r >= wp_w \/ (r < wp_w /\ r + tk >= wp_w /\ wp_w - r <= (r + tk) - wp_w)
    BY <2>1 DEF Closer
  <2> QED
    BY <1>1, <2>2 DEF Distance
<1>2. CASE other = (high - r) + tk
  <2>1. r >= tk /\ Closer(r - tk, tk, wp_w, delta)
    BY <1>2
  <2>2. r < wp_w \/ (r - tk < wp_w /\ wp_w - (r - tk) > r - wp_w)
    BY <2>1 DEF Closer
  <2> QED
    BY <1>2, <2>1, <2>2 DEF Distance
<1> QED
  BY <1>1, <1>2

(* So DigitGen() has found a number in the interval, with so few digits    *)
(* that one less would leave it, and closest to W with that many if wp_w   *)
(* is the distance of W.                                                   *)
LEMMA Rounding ==
  ASSUME NEW tk \in Nat, tk > 0, NEW q \in Nat, q > 0, NEW rest \in Nat, rest < tk,
         NEW high \in Nat, high = q * tk + rest, NEW delta \in Nat, delta <= high,
         rest <= delta, delta <= rest + (q % 10) * tk, NEW wp_w \in Nat
  PROVE  LET digits == Lowered(DigitsOf(q), GrisuRound(delta, rest, tk, wp_w)) IN
         /\ ShortAt(digits, high - delta, high, tk)
         /\ wp_w <= delta => ClosestAt(digits, high - delta, high, high - wp_w, tk)
<1> DEFINE n == GrisuRound(delta, rest, tk, wp_w)
           digits == Lowered(DigitsOf(q), n)
           last == q % 10
           r == rest + n * tk
<1>1. last \in Digit /\ last \in Nat /\ last <= q /\ q = 10 * (q \div 10) + last /\ q \div 10 \in Nat
  BY DEF Digit
<1>2. /\ n \in Nat /\ n <= last
      /\ ~Closer(r, tk, wp_w, delta)
      /\ n > 0 => Closer(rest + (n - 1) * tk, tk, wp_w, delta)
  <2> HIDE DEF last
  <2> QED
    BY <1>1, Rounds DEF last
<1> HIDE DEF n
<1>3. digits \in Seq(Digit) /\ ValueOf(digits) = q - n
  BY <1>2, Lowers
<1> HIDE DEF digits
<1>4. r \in Nat /\ r <= delta /\ (r < tk \/ (r >= tk /\ Closer(r - tk, tk, wp_w, delta)))
  <2>1. CASE n = 0
    <3>1. r = rest
      BY <2>1
    <3> QED
      BY <3>1
  <2>2. CASE n > 0
    <3>1. r - tk = rest + (n - 1) * tk /\ (n - 1) * tk \in Nat /\ r \in Nat
      BY <1>2, <2>2
    <3> HIDE DEF r
    <3>2. Closer(r - tk, tk, wp_w, delta) /\ r >= tk
      BY <1>2, <2>2, <3>1
    <3>3. r <= delta
      BY <3>1, <3>2 DEF Closer
    <3> QED
      BY <3>1, <3>2, <3>3
  <2> QED
    BY <1>2, <2>1, <2>2
<1> DEFINE found == ValueOf(digits) * tk
<1>5. found = high - r
  <2>1. (q - n) * tk = q * tk - n * tk
    BY <1>2
  <2>2. q * tk \in Nat /\ n * tk \in Nat
    BY <1>2
  <2> QED
    BY <1>3, <2>1, <2>2
<1> HIDE DEF found, r
<1>6. \A i \in DOMAIN digits : digits[i] \in 0 .. 9
  BY <1>3 DEF Digit
<1>7. found \in (high - delta) .. high
  BY <1>4, <1>5
<1>8. (high \div (10 * tk)) * (10 * tk) <= high - delta
  <2> DEFINE b == 10 * tk  h == q \div 10  x == last * tk + rest
  <2>1. b \in Nat /\ b > 0 /\ h \in Nat
    BY <1>1
  <2>2. x \in Nat /\ x < b /\ high = h * b + x
    <3>1. last <= 9
      BY <1>1 DEF Digit
    <3>2. last * tk <= 9 * tk /\ last * tk \in Nat
      BY <1>1, <3>1
    <3>3. q * tk = h * b + last * tk
      BY <1>1
    <3> DEFINE y == last * tk  z == h * b
    <3> HIDE DEF last, h
    <3>4. y \in Nat /\ y <= 9 * tk /\ x = y + rest
      BY <3>2
    <3> HIDE DEF y, x
    <3>5. x \in Nat /\ x < b
      BY <3>4
    <3>6. z \in Nat
      BY <2>1
    <3>7. q * tk = z + y
      BY <3>3 DEF y
    <3> HIDE DEF z, b
    <3>8. high = z + x
      BY <3>4, <3>6, <3>7
    <3> QED
      BY <3>5, <3>8 DEF z
  <2> HIDE DEF b, h, x
  <2>3. high \div b = h /\ h * b \in Nat
    BY <2>1, <2>2, DivisionIs
  <2>4. (high \div b) * b = h * b
    BY <2>1, <2>3
  <2>5. delta <= x
    <3>1. last * tk \in Nat
      BY <1>1
    <3> HIDE DEF last
    <3> QED
      BY <3>1 DEF x, last
  <2>6. h * b <= high - delta
    BY <2>2, <2>3, <2>5
  <2> QED
    BY <2>4, <2>6 DEF b
<1>9. ASSUME wp_w <= delta, NEW other \in {found - tk, found + tk} \cap (high - delta) .. high
      PROVE  Distance(found, high - wp_w) <= Distance(other, high - wp_w)
  BY <1>2, <1>4, <1>5, <1>9, ClosestBelow
<1> QED
  BY <1>6, <1>7, <1>8, <1>9 DEF ShortAt, ClosestAt, found, digits, n

(* Cutting kappa digits off the part in front of the point.                *)
Cut(p1, p2, one, P, q, rest, tk) ==
  /\ q \in Nat /\ rest \in Nat /\ tk \in Nat /\ tk > 0
  /\ rest < tk
  /\ p1 * one + p2 = q * tk + rest
  /\ (p1 % (10 * P)) * one + p2 = rest + (q % 10) * tk

(* What is cut off stays below the unit of the last digit, and is Mp with  *)
(* the digits.                                                             *)
LEMMA CutInFront ==
  ASSUME NEW P \in Nat, P > 0, NEW one \in Nat, one > 0, NEW p1 \in Nat, NEW p2 \in Nat, p2 < one
  PROVE  Cut(p1, p2, one, P, p1 \div P, (p1 % P) * one + p2, P * one)
<1> DEFINE q == p1 \div P
           R == p1 % P
           rest == R * one + p2
           h == q \div 10
           l == q % 10
<1>1. q \in Nat /\ R \in Nat /\ R < P /\ p1 = q * P + R
  BY Division
<1> HIDE DEF q, R
<1>2. h \in Nat /\ l \in Nat /\ l <= 9 /\ q = h * 10 + l
  BY <1>1
<1>3. rest \in Nat /\ P * one \in Nat /\ P * one > 0
  BY <1>1, Products
<1>4. rest < P * one
  <2>1. R + 1 <= P /\ R + 1 \in Nat
    BY <1>1
  <2>2. (R + 1) * one <= P * one
    BY <2>1
  <2>3. (R + 1) * one = R * one + one /\ R * one \in Nat
    BY <1>1
  <2> QED
    BY <1>3, <2>2, <2>3
<1>5. p1 * one = q * (P * one) + R * one
  BY <1>1
<1>6. p1 % (10 * P) = l * P + R
  <2> DEFINE r == l * P + R  b == 10 * P
  <2>1. l * P \in Nat /\ l * P <= 9 * P
    BY <1>2
  <2>2. r \in Nat /\ r < b /\ b \in Nat /\ b > 0
    <3> DEFINE y == l * P
    <3>1. y \in Nat /\ y <= 9 * P /\ r = y + R
      BY <2>1
    <3> HIDE DEF y, r
    <3> QED
      BY <1>1, <3>1
  <2>3. p1 = h * b + r
    <3>1. q * P = h * (10 * P) + l * P
      BY <1>2
    <3> DEFINE y == l * P  z == h * (10 * P)
    <3>2. y \in Nat /\ z \in Nat
      BY <1>2, <2>1
    <3> HIDE DEF h, l
    <3>3. q * P = z + y
      BY <3>1
    <3> HIDE DEF y, z
    <3>4. p1 = z + (y + R)
      BY <1>1, <3>2, <3>3
    <3> QED
      BY <3>4 DEF y, z
  <2> HIDE DEF r, b, h
  <2>4. p1 % b = r
    BY <1>2, <2>2, <2>3, DivisionIs
  <2> QED
    BY <2>4 DEF r, b
<1>7. (l * P + R) * one + p2 = rest + l * (P * one)
  <2> HIDE DEF l
  <2> QED
    BY <1>1, <1>2
<1>8. p1 * one + p2 = q * (P * one) + rest
  <2> DEFINE a == p1 * one  b == q * (P * one)  c == R * one
  <2>1. a \in Nat /\ b \in Nat /\ c \in Nat /\ a = b + c
    BY <1>1, <1>3, <1>5
  <2> HIDE DEF a, b, c
  <2>2. a + p2 = b + (c + p2)
    BY <2>1
  <2> QED
    BY <2>2 DEF a, b, c
<1> QED
  BY <1>1, <1>3, <1>4, <1>6, <1>7, <1>8 DEF q, R, Cut

(* The digits of a part in front of the point that 32 bits hold.           *)
Tens(n) == Power(10, n)

(* Powers of ten, step by step.                                            *)
LEMMA TensSteps ==
  /\ Tens(0) = 1
  /\ \A n \in Nat : Tens(n) \in Nat /\ Tens(n) > 0 /\ Tens(n + 1) = 10 * Tens(n)
<1>1. 10 \in Nat /\ 10 > 0
  OBVIOUS
<1> QED
  BY <1>1, PowerSteps, PowerPositive DEF Tens

In32Bits(n) == n \div 65536 < 65536

(* CountDecimalDigit32() is defined for 32 bits.                           *)
LEMMA CountsDigits ==
  ASSUME NEW p1 \in Nat, In32Bits(p1)
  PROVE  CountDecimalDigit32(p1) \in 1 .. 10 /\ p1 < Tens(CountDecimalDigit32(p1))
<1> DEFINE Fits(c) == p1 < Tens(c)
           Count(c) == Fits(c) /\ (c > 1 => p1 >= Tens(c - 1))
           count == CHOOSE c \in 1 .. 10 : Count(c)
           M == {c \in Nat : c > 0 /\ Fits(c)}
<1>1. Fits(10)
  <2>1. Tens(5) = 100000
    <3>1. /\ Tens(0 + 1) = 10 * Tens(0) /\ Tens(1 + 1) = 10 * Tens(1) /\ Tens(2 + 1) = 10 * Tens(2)
          /\ Tens(3 + 1) = 10 * Tens(3) /\ Tens(4 + 1) = 10 * Tens(4)
      <4>1. 0 \in Nat /\ 1 \in Nat /\ 2 \in Nat /\ 3 \in Nat /\ 4 \in Nat
        OBVIOUS
      <4> QED
        BY <4>1, TensSteps
    <3>2. 0 + 1 = 1 /\ 1 + 1 = 2 /\ 2 + 1 = 3 /\ 3 + 1 = 4 /\ 4 + 1 = 5
      OBVIOUS
    <3> QED
      BY <3>1, <3>2, TensSteps, SMT
  <2>2. Tens(10) = 100000 * Tens(5)
    <3>1. /\ Tens(5 + 1) = 10 * Tens(5) /\ Tens(6 + 1) = 10 * Tens(6) /\ Tens(7 + 1) = 10 * Tens(7)
          /\ Tens(8 + 1) = 10 * Tens(8) /\ Tens(9 + 1) = 10 * Tens(9) /\ Tens(5) \in Nat
      <4>1. 5 \in Nat /\ 6 \in Nat /\ 7 \in Nat /\ 8 \in Nat /\ 9 \in Nat
        OBVIOUS
      <4> QED
        BY <4>1, TensSteps
    <3>2. 5 + 1 = 6 /\ 6 + 1 = 7 /\ 7 + 1 = 8 /\ 8 + 1 = 9 /\ 9 + 1 = 10
      OBVIOUS
    <3> QED
      BY <3>1, <3>2, SMT
  <2>3. p1 < 10000000000
    BY SMT DEF In32Bits
  <2>4. 100000 * 100000 = 10000000000
    BY SMT
  <2> QED
    BY <2>1, <2>2, <2>3, <2>4, SMT
<1> HIDE DEF Fits
<1>2. PICK x \in M : \A y \in M : x <= y
  <2>1. M \subseteq Nat /\ M # {}
    BY <1>1
  <2> HIDE DEF M
  <2> QED
    BY <2>1, LeastNumber
<1>3. x \in 1 .. 10 /\ Count(x)
  <2>1. x \in Nat /\ x > 0 /\ x <= 10 /\ Fits(x)
    BY <1>1, <1>2
  <2>2. ASSUME x > 1 PROVE p1 >= Tens(x - 1)
    <3>1. x - 1 \in Nat /\ x - 1 > 0 /\ ~(x <= x - 1)
      BY <2>1, <2>2
    <3>2. ~Fits(x - 1)
      BY <1>2, <3>1
    <3>3. Tens(x - 1) \in Nat
      BY <3>1, TensSteps
    <3> QED
      BY <3>2, <3>3 DEF Fits
  <2> QED
    BY <2>1, <2>2
<1>4. count \in 1 .. 10 /\ Count(count)
  <2> HIDE DEF Count
  <2> QED
    BY <1>3
<1>5. CountDecimalDigit32(p1) = count
  BY DEF CountDecimalDigit32, Fits, Tens
<1> QED
  BY <1>4, <1>5 DEF Fits

(* A set of small numbers that is not empty has a greatest member.         *)
LEMMA GreatestNumber ==
  ASSUME NEW m \in Nat, NEW M, M \subseteq 0 .. m, M # {}
  PROVE  \E x \in M : \A y \in M : y <= x
<1> DEFINE L == {m - y : y \in M}
<1>1. L \subseteq Nat /\ L # {}
  <2>1. \A y \in M : m - y \in Nat
    OBVIOUS
  <2>2. PICK y : y \in M
    OBVIOUS
  <2>3. m - y \in L
    BY <2>2
  <2> QED
    BY <2>1, <2>3
<1>2. PICK l \in L : \A i \in L : l <= i
  <2> HIDE DEF L
  <2> QED
    BY <1>1, LeastNumber
<1>3. PICK x \in M : l = m - x
  BY <1>2
<1>4. ASSUME NEW y \in M PROVE y <= x
  <2>1. m - y \in L
    OBVIOUS
  <2>2. l <= m - y
    BY <1>2, <2>1
  <2>3. x \in Int /\ y \in Int
    OBVIOUS
  <2> HIDE DEF L
  <2> QED
    BY <1>3, <2>2, <2>3
<1> QED
  BY <1>4

(* What DigitGen() is given.                                               *)
One(x) == Power(2, x.shift)
Whole(x) == x.mp \div One(x)
Fraction(x) == x.mp % One(x)
Above(x) == x.mp - x.w

(* Whole and fraction are Mp, W is inside of the interval, and kPow10 has  *)
(* an entry for each digit in front of the point.                          *)
LEMMA IntervalFacts ==
  ASSUME NEW x, IsInterval(x)
  PROVE  /\ x.shift \in Nat /\ x.mp \in Nat /\ x.delta \in Nat /\ x.w \in Nat /\ x.k \in Int
         /\ One(x) \in Nat /\ One(x) > 0
         /\ Whole(x) \in Nat /\ Whole(x) > 0 /\ In32Bits(Whole(x))
         /\ Fraction(x) \in Nat /\ Fraction(x) < One(x) /\ x.mp = Whole(x) * One(x) + Fraction(x)
         /\ 0 < x.delta /\ x.delta < x.mp
         /\ Above(x) \in Nat /\ Above(x) <= x.delta /\ x.w = x.mp - Above(x)
         /\ x.beyond \in Nat /\ CountDecimalDigit32(Whole(x)) <= PowerEntries
<1>1. /\ x.shift \in Nat /\ x.mp \in Nat /\ x.delta \in Nat /\ x.w \in Nat /\ x.k \in Int
      /\ 0 < x.delta /\ x.delta < x.mp /\ x.w \in x.mp - x.delta .. x.mp
      /\ Whole(x) > 0 /\ In32Bits(Whole(x))
      /\ x.beyond \in Nat /\ CountDecimalDigit32(Whole(x)) <= PowerEntries
  BY DEF IsInterval, Whole, One, In32Bits
<1>2. One(x) \in Nat /\ One(x) > 0
  <2>1. 2 \in Nat /\ 2 > 0
    OBVIOUS
  <2> QED
    BY <1>1, <2>1, PowerPositive DEF One
<1>3. /\ Whole(x) \in Nat /\ Fraction(x) \in Nat /\ Fraction(x) < One(x)
      /\ x.mp = Whole(x) * One(x) + Fraction(x)
  BY <1>1, <1>2, Division DEF Whole, Fraction
<1>4. Above(x) \in Nat /\ Above(x) <= x.delta /\ x.w = x.mp - Above(x)
  BY <1>1 DEF Above
<1> QED
  BY <1>1, <1>2, <1>3, <1>4

(* Where DigitGen() may stop in front of the point, and what is left of Mp *)
(* there.                                                                  *)
Left(x, kappa) == (Whole(x) % Tens(kappa)) * One(x) + Fraction(x)
Stops(x) == {kappa \in 0 .. CountDecimalDigit32(Whole(x)) - 1 : Left(x, kappa) <= x.delta}
LastStop(x) == CHOOSE i \in Stops(x) : \A j \in Stops(x) : j <= i

(* What is left behind the point, and where it may stop there.             *)
Rest(x, n) == (Fraction(x) * Tens(n)) % One(x)
Stop(x, n) ==
  /\ Rest(x, n) < x.delta * Tens(n)
  /\ \A j \in 1 .. n - 1 : Rest(x, j) >= x.delta * Tens(j)
FirstStop(x) == CHOOSE n \in 1 .. x.shift : Stop(x, n)

(* DigitGen() stops at one of the two.                                     *)
LEMMA DigitGenIs ==
  ASSUME NEW x
  PROVE  DigitGen(x) =
           IF Stops(x) # {}
           THEN Generated(DigitsOf(Whole(x) \div Tens(LastStop(x))), LastStop(x), x.k, x.delta,
                          Left(x, LastStop(x)), kPow10(x, LastStop(x)) * One(x), Above(x))
           ELSE Generated(DigitsOf((x.mp * Tens(FirstStop(x))) \div One(x)), -FirstStop(x), x.k,
                          x.delta * Tens(FirstStop(x)), Rest(x, FirstStop(x)), One(x),
                          Above(x) * kPow10(x, FirstStop(x)))
BY DEF DigitGen, Stops, LastStop, Left, Rest, Stop, FirstStop, Whole, Fraction, One, Above, Tens

(* The properties are the two above, scaled so that the last digit counts  *)
(* whole units.                                                            *)
LEMMA FoundIs ==
  ASSUME NEW x
  PROVE  LET digits == DigitGen(x).digits
             low == (x.mp - x.delta) * Scale(x)
             high == x.mp * Scale(x)
         IN  /\ Shortest(x) = ShortAt(digits, low, high, Unit(x))
             /\ Closest(x) = ClosestAt(digits, low, high, x.w * Scale(x), Unit(x))
BY DEF Shortest, Closest, ShortAt, ClosestAt, Found, Within

(* In front of the point.                                                  *)
LEMMA FoundInFront ==
  ASSUME NEW x, IsInterval(x), Stops(x) # {}
  PROVE  Shortest(x) /\ Closest(x)
<1> DEFINE count == CountDecimalDigit32(Whole(x))
           kappa == LastStop(x)
           P == Tens(kappa)
           q == Whole(x) \div P
           rest == Left(x, kappa)
           tk == P * One(x)
<1>0. /\ x.shift \in Nat /\ x.mp \in Nat /\ x.delta \in Nat /\ x.w \in Nat /\ x.k \in Int
      /\ One(x) \in Nat /\ One(x) > 0
      /\ Whole(x) \in Nat /\ Whole(x) > 0 /\ In32Bits(Whole(x))
      /\ Fraction(x) \in Nat /\ Fraction(x) < One(x) /\ x.mp = Whole(x) * One(x) + Fraction(x)
      /\ 0 < x.delta /\ x.delta < x.mp
      /\ Above(x) \in Nat /\ Above(x) <= x.delta /\ x.w = x.mp - Above(x)
      /\ count <= PowerEntries
  BY IntervalFacts
<1>1. count \in 1 .. 10 /\ Whole(x) < Tens(count)
  BY <1>0, CountsDigits
<1> HIDE DEF count
<1>2. kappa \in Stops(x) /\ \A j \in Stops(x) : j <= kappa
  <2>1. Stops(x) \subseteq 0 .. count - 1 /\ count - 1 \in Nat
    BY <1>1 DEF Stops, count
  <2>2. \E k \in Stops(x) : \A j \in Stops(x) : j <= k
    BY <2>1, GreatestNumber
  <2> QED
    BY <2>2 DEF LastStop
<1> HIDE DEF kappa
<1>3. kappa \in 0 .. count - 1 /\ rest <= x.delta
  BY <1>2 DEF Stops, count
<1>4. kappa \in Nat /\ P \in Nat /\ P > 0 /\ Tens(kappa + 1) = 10 * P
  BY <1>3, TensSteps
<1> HIDE DEF P
<1>5. /\ q \in Nat /\ rest \in Nat /\ tk \in Nat /\ tk > 0
      /\ rest < tk
      /\ x.mp = q * tk + rest
      /\ (Whole(x) % (10 * P)) * One(x) + Fraction(x) = rest + (q % 10) * tk
  <2>1. rest = (Whole(x) % P) * One(x) + Fraction(x)
    BY DEF Left, P
  <2>2. Cut(Whole(x), Fraction(x), One(x), P, q, rest, tk)
    BY <1>0, <1>4, <2>1, CutInFront
  <2> HIDE DEF q, rest, tk
  <2> QED
    BY <1>0, <2>2 DEF Cut
<1>6. q > 0
  <2>1. ASSUME q = 0 PROVE FALSE
    <3>1. q * tk = 0
      BY <1>5, <2>1
    <3>2. x.mp = rest
      <4> HIDE DEF q, rest, tk
      <4> QED
        BY <1>5, <3>1
    <3> HIDE DEF rest
    <3> QED
      BY <1>0, <1>3, <3>2
  <2> HIDE DEF q
  <2> QED
    BY <1>5, <2>1
<1>7. x.delta <= rest + (q % 10) * tk
  <2>1. Left(x, kappa + 1) = rest + (q % 10) * tk
    BY <1>4, <1>5 DEF Left
  <2>2. Left(x, kappa + 1) > x.delta
    <3>1. CASE kappa = count - 1
      <4>1. kappa + 1 = count
        BY <1>1, <3>1
      <4>2. Whole(x) < Tens(kappa + 1) /\ Tens(kappa + 1) \in Nat
        BY <1>1, <1>4, <4>1
      <4>3. Whole(x) % Tens(kappa + 1) = Whole(x)
        BY <1>0, <4>2
      <4>4. Left(x, kappa + 1) = x.mp
        BY <1>0, <4>3 DEF Left
      <4> QED
        BY <1>0, <4>4
    <3>2. CASE kappa # count - 1
      <4>1. kappa + 1 \in 0 .. count - 1 /\ ~(kappa + 1 <= kappa)
        BY <1>1, <1>3, <3>2
      <4>2. kappa + 1 \notin Stops(x)
        BY <1>2, <4>1
      <4>3. ~(Left(x, kappa + 1) <= x.delta)
        BY <4>1, <4>2 DEF Stops, count
      <4>4. Left(x, kappa + 1) \in Nat
        <5>1. (q % 10) \in Nat
          BY <1>5
        <5>2. (q % 10) * tk \in Nat
          BY <1>5, <5>1, Products
        <5> HIDE DEF q, rest, tk
        <5> QED
          BY <1>5, <2>1, <5>2
      <4> QED
        BY <1>0, <4>3, <4>4
    <3> QED
      BY <3>1, <3>2
  <2>3. Left(x, kappa + 1) \in Nat
    <3>1. (q % 10) \in Nat
      BY <1>5
    <3>2. (q % 10) * tk \in Nat
      BY <1>5, <3>1, Products
    <3> HIDE DEF q, rest, tk
    <3> QED
      BY <1>5, <2>1, <3>2
  <2> HIDE DEF q, rest, tk
  <2> QED
    BY <1>0, <2>1, <2>2, <2>3
<1> HIDE DEF q, rest, tk
<1> DEFINE digits == Lowered(DigitsOf(q), GrisuRound(x.delta, rest, tk, Above(x)))
<1>8. /\ ShortAt(digits, x.mp - x.delta, x.mp, tk)
      /\ ClosestAt(digits, x.mp - x.delta, x.mp, x.mp - Above(x), tk)
  <2>1. x.delta <= x.mp
    BY <1>0
  <2> QED
    BY <1>0, <1>3, <1>5, <1>6, <1>7, <2>1, Rounding
<1>9. DigitGen(x) = Generated(DigitsOf(q), kappa, x.k, x.delta, rest, tk, Above(x))
  <2>1. kappa < PowerEntries
    BY <1>0, <1>1, <1>3, StreamAssumption
  <2>2. kPow10(x, kappa) = P
    BY <2>1 DEF kPow10, P, Tens
  <2> QED
    BY <2>2, DigitGenIs DEF q, rest, tk, P, kappa
<1>10. DigitGen(x).digits = digits /\ Kappa(x) = kappa /\ ~(kappa < 0)
  <2>1. /\ DigitGen(x).digits = digits
        /\ DigitGen(x).k = x.k + kappa
    BY <1>9 DEF Generated
  <2>2. (x.k + kappa) - x.k = kappa /\ ~(kappa < 0)
    BY <1>0, <1>4
  <2> QED
    BY <2>1, <2>2 DEF Kappa
<1>11. /\ (x.mp - x.delta) * 1 = x.mp - x.delta /\ x.mp * 1 = x.mp /\ x.w * 1 = x.mp - Above(x)
       /\ One(x) * P = tk
  BY <1>0, <1>4 DEF tk
<1>12. Scale(x) = 1 /\ Unit(x) = tk
  BY <1>10, <1>11 DEF P, Scale, Unit, One, Tens
<1> HIDE DEF digits
<1> QED
  BY <1>8, <1>10, <1>11, <1>12, FoundIs

(* As 10 is twice 5, nothing is left behind as many digits as there are    *)
(* bits behind the point.                                                  *)
LEMMA TwosAndFives ==
  \A n \in Nat : Tens(n) = Power(2, n) * Power(5, n) /\ Power(2, n) \in Nat /\ Power(5, n) \in Nat
<1> DEFINE two(n) == Power(2, n)  five(n) == Power(5, n)
<1>1. /\ two(0) = 1 /\ \A n \in Nat : two(n + 1) = 2 * two(n) /\ two(n) \in Nat
      /\ five(0) = 1 /\ \A n \in Nat : five(n + 1) = 5 * five(n) /\ five(n) \in Nat
  <2>1. 2 \in Nat /\ 5 \in Nat
    OBVIOUS
  <2> QED
    BY <2>1, PowerSteps
<1> HIDE DEF two, five
<1> DEFINE M == {n \in Nat : Tens(n) = two(n) * five(n)}
<1>2. 0 \in M
  BY <1>1, TensSteps
<1>3. ASSUME NEW n \in Nat, n \in M PROVE n + 1 \in M
  <2>1. Tens(n + 1) = 10 * Tens(n) /\ Tens(n) = two(n) * five(n) /\ Tens(n) \in Nat
    BY <1>3, TensSteps
  <2>2. two(n + 1) = 2 * two(n) /\ five(n + 1) = 5 * five(n) /\ two(n) \in Nat /\ five(n) \in Nat
    BY <1>1
  <2>3. \A a, b \in Nat : 10 * (a * b) = (2 * a) * (5 * b)
    OBVIOUS
  <2>4. Tens(n + 1) = two(n + 1) * five(n + 1)
    BY <2>1, <2>2, <2>3
  <2> QED
    BY <2>4
<1>4. Nat \subseteq M
  <2> HIDE DEF M
  <2> QED
    BY <1>2, <1>3, InductionOnNumbers
<1> QED
  BY <1>1, <1>4 DEF two, five

(* What is behind the point does not depend on what is in front of it.     *)
LEMMA Remainders ==
  ASSUME NEW one \in Nat, one > 0, NEW a \in Nat, NEW b \in Nat
  PROVE  (a * one + b) % one = b % one /\ (a * one) % one = 0
<1> DEFINE q == b \div one  r == b % one
<1>1. q \in Nat /\ r \in Nat /\ r < one /\ b = q * one + r
  BY Division
<1> HIDE DEF q, r
<1>2. a + q \in Nat /\ a * one + b = (a + q) * one + r
  BY <1>1
<1>3. (a * one + b) % one = r
  <2> DEFINE c == a + q
  <2> HIDE DEF c
  <2>1. (c * one + r) % one = r
    BY <1>1, <1>2, DivisionIs DEF c
  <2> QED
    BY <1>2, <2>1 DEF c
<1>4. (a * one + 0) % one = 0 /\ a * one + 0 = a * one
  <2>1. 0 \in Nat /\ 0 < one /\ a * one \in Nat
    BY Products
  <2>2. (a * one + 0) % one = 0
    BY <2>1, DivisionIs
  <2> QED
    BY <2>1, <2>2
<1> QED
  BY <1>3, <1>4 DEF r

(* One digit more behind the point: with v at the digits before, which     *)
(* leave b, the next one leaves the remainder of 10 * b.                   *)
Digits(h, one, q, rest, b) ==
  /\ q \in Nat /\ rest \in Nat /\ rest < one /\ h = q * one + rest
  /\ rest + (q % 10) * one = 10 * b

(* The new digit is the last one of the number.                            *)
LEMMA DigitBehind ==
  ASSUME NEW one \in Nat, one > 0, NEW h \in Nat
  PROVE  Digits(10 * h, one, (10 * h) \div one, (10 * h) % one, h % one)
<1> DEFINE a == h \div one  b == h % one  c == 10 * b
           l == c \div one  r == c % one  q == 10 * a + l
<1>1. a \in Nat /\ b \in Nat /\ b < one /\ h = a * one + b
  BY Division
<1> HIDE DEF a, b
<1>2. c \in Nat /\ c < 10 * one
  BY <1>1
<1> HIDE DEF c
<1>3. l \in Nat /\ r \in Nat /\ r < one /\ c = l * one + r
  BY <1>2, Division
<1> HIDE DEF l, r
<1>4. l <= 9
  <2>1. ASSUME l >= 10 PROVE FALSE
    <3>1. l * one >= 10 * one /\ l * one \in Nat
      BY <1>3, <2>1
    <3> DEFINE y == l * one
    <3> HIDE DEF y
    <3>2. y \in Nat /\ y >= 10 * one /\ c = y + r
      BY <1>3, <3>1 DEF y
    <3> QED
      BY <1>2, <1>3, <3>2
  <2> QED
    BY <1>3, <2>1
<1>5. q \in Nat /\ q % 10 = l
  BY <1>1, <1>3, <1>4
<1>6. 10 * h = q * one + r
  <2>1. q * one = 10 * (a * one) + l * one
    BY <1>1, <1>3
  <2> DEFINE x == a * one  y == l * one  z == q * one
  <2>2. x \in Nat /\ y \in Nat /\ z = 10 * x + y
    BY <1>1, <1>3, <2>1
  <2>3. h = x + b /\ c = y + r
    BY <1>1, <1>3
  <2> HIDE DEF x, y, z, q
  <2>4. 10 * h = z + r
    BY <1>1, <1>3, <2>2, <2>3 DEF c
  <2> QED
    BY <2>4 DEF z
<1> HIDE DEF q
<1>7. (10 * h) \div one = q /\ (10 * h) % one = r
  BY <1>3, <1>5, <1>6, DivisionIs
<1>8. r + l * one = 10 * b
  <2>1. l * one \in Nat
    BY <1>3
  <2> DEFINE y == l * one
  <2> HIDE DEF y
  <2>2. y \in Nat /\ c = y + r
    BY <1>3, <2>1 DEF y
  <2>3. r + y = c
    BY <1>3, <2>2
  <2> QED
    BY <2>3 DEF y, c
<1> QED
  BY <1>3, <1>5, <1>6, <1>7, <1>8 DEF Digits, b

(* What is left behind n digits is left of Mp, too.                        *)
LEMMA RestOfMp ==
  ASSUME NEW x, IsInterval(x), NEW n \in Nat
  PROVE  Rest(x, n) = (x.mp * Tens(n)) % One(x) /\ Rest(x, n) \in Nat /\ Rest(x, n) < One(x)
<1> DEFINE one == One(x)  a == Whole(x)  b == Fraction(x)  t == Tens(n)
<1>1. one \in Nat /\ one > 0 /\ a \in Nat /\ b \in Nat /\ x.mp = a * one + b /\ t \in Nat
  BY IntervalFacts, TensSteps
<1>2. Rest(x, n) = (b * t) % one
  BY DEF Rest
<1> HIDE DEF one, a, b, t
<1>3. x.mp * t = (a * t) * one + b * t /\ a * t \in Nat /\ b * t \in Nat
  BY <1>1
<1>4. ((a * t) * one + b * t) % one = (b * t) % one
  BY <1>1, <1>3, Remainders
<1>5. (b * t) % one \in Nat /\ (b * t) % one < one
  BY <1>1, <1>3, Division
<1> QED
  BY <1>2, <1>3, <1>4, <1>5 DEF one, t

(* The loop behind the point ends.                                         *)
LEMMA StopsBehind ==
  ASSUME NEW x, IsInterval(x), Stops(x) = {}
  PROVE  /\ FirstStop(x) \in 1 .. x.shift /\ Stop(x, FirstStop(x))
         /\ Fraction(x) > x.delta
<1> DEFINE M == {n \in Nat : n > 0 /\ Rest(x, n) < x.delta * Tens(n)}
           S == x.shift
<1>0. /\ S \in Nat /\ x.delta \in Nat /\ x.delta > 0
      /\ One(x) \in Nat /\ One(x) > 0
      /\ Whole(x) \in Nat /\ In32Bits(Whole(x))
      /\ Fraction(x) \in Nat /\ Fraction(x) < One(x)
  BY IntervalFacts
<1>1. Fraction(x) > x.delta
  <2> DEFINE count == CountDecimalDigit32(Whole(x))
  <2>1. count \in 1 .. 10
    BY <1>0, CountsDigits
  <2> HIDE DEF count
  <2>2. 0 \in 0 .. count - 1
    BY <2>1
  <2>3. ~(Left(x, 0) <= x.delta)
    BY <2>2 DEF Stops, count
  <2>4. Left(x, 0) = Fraction(x)
    <3>1. Whole(x) % 1 = 0 /\ 0 * One(x) = 0
      BY <1>0
    <3> QED
      BY <1>0, <3>1, TensSteps DEF Left
  <2> QED
    BY <1>0, <2>3, <2>4
<1>2. S > 0
  <2>1. ASSUME S = 0 PROVE FALSE
    <3>1. One(x) = 1
      <4>1. Power(2, 0) = 1
        <5>1. 2 \in Nat
          OBVIOUS
        <5> QED
          BY <5>1, PowerSteps
      <4> QED
        BY <2>1, <4>1 DEF One
    <3> QED
      BY <1>0, <1>1, <3>1
  <2> QED
    BY <1>0, <2>1
<1>3. Rest(x, S) = 0
  <2> DEFINE f == Power(5, S)  b == Fraction(x)
  <2>1. Tens(S) = One(x) * f /\ f \in Nat
    BY <1>0, TwosAndFives DEF One
  <2> HIDE DEF f, b
  <2>2. b \in Nat
    BY <1>0 DEF b
  <2>3. b * (One(x) * f) = (b * f) * One(x) /\ b * f \in Nat
    BY <1>0, <2>1, <2>2
  <2>4. ((b * f) * One(x)) % One(x) = 0
    BY <1>0, <2>3, Remainders
  <2> QED
    BY <2>1, <2>3, <2>4 DEF Rest, b
<1>4. S \in M
  <2>1. Tens(S) \in Nat /\ Tens(S) > 0
    BY <1>0, TensSteps
  <2>2. 0 < x.delta * Tens(S)
    BY <1>0, <2>1, Products
  <2> QED
    BY <1>0, <1>2, <1>3, <2>2
<1>5. PICK n \in M : \A j \in M : n <= j
  <2>1. M \subseteq Nat /\ M # {}
    BY <1>4
  <2> HIDE DEF M
  <2> QED
    BY <2>1, LeastNumber
<1>6. n \in 1 .. S /\ Stop(x, n)
  <2>1. n \in Nat /\ n > 0 /\ n <= S /\ Rest(x, n) < x.delta * Tens(n)
    BY <1>4, <1>5
  <2>2. ASSUME NEW j \in 1 .. n - 1 PROVE Rest(x, j) >= x.delta * Tens(j)
    <3>1. j \in Nat /\ j > 0 /\ ~(n <= j)
      BY <2>1
    <3>2. ~(Rest(x, j) < x.delta * Tens(j))
      BY <1>5, <3>1
    <3>3. Rest(x, j) \in Nat /\ x.delta * Tens(j) \in Nat
      BY <1>0, <3>1, RestOfMp, TensSteps, Products
    <3> QED
      BY <3>2, <3>3
  <2> QED
    BY <1>0, <2>1, <2>2 DEF Stop
<1> QED
  BY <1>1, <1>6 DEF FirstStop

(* Behind the point.                                                       *)
LEMMA FoundBehind ==
  ASSUME NEW x, IsInterval(x), Stops(x) = {}
  PROVE  Shortest(x) /\ (-Kappa(x) < PowerEntries => Closest(x))
<1> DEFINE n == FirstStop(x)
           m == n - 1
           V == Tens(m)
           U == Tens(n)
           one == One(x)
           h == x.mp * V
           high == x.mp * U
           delta == x.delta * U
           entry == kPow10(x, n)
           wp_w == Above(x) * entry
           q == high \div one
           rest == Rest(x, n)
<1>0. /\ x.shift \in Nat /\ x.mp \in Nat /\ x.delta \in Nat /\ x.w \in Nat /\ x.k \in Int
      /\ one \in Nat /\ one > 0
      /\ Whole(x) \in Nat /\ Whole(x) > 0
      /\ Fraction(x) \in Nat /\ Fraction(x) < one /\ x.mp = Whole(x) * one + Fraction(x)
      /\ 0 < x.delta /\ x.delta < x.mp
      /\ Above(x) \in Nat /\ Above(x) <= x.delta /\ x.w = x.mp - Above(x)
      /\ x.beyond \in Nat
  BY IntervalFacts
<1>1. n \in 1 .. x.shift /\ Stop(x, n) /\ Fraction(x) > x.delta
  BY StopsBehind
<1>2. n \in Nat /\ n > 0 /\ m \in Nat /\ n = m + 1
  BY <1>0, <1>1
<1> HIDE DEF n, m
<1>3. V \in Nat /\ V > 0 /\ U \in Nat /\ U > 0 /\ U = 10 * V
  BY <1>2, TensSteps
<1>entry. entry \in Nat /\ (n < PowerEntries => entry = U)
  BY <1>0, <1>3 DEF kPow10, Tens
<1>4. rest = high % one /\ rest \in Nat /\ rest < one /\ rest < delta
  BY <1>1, <1>2, RestOfMp DEF Stop
<1>5. h % one >= x.delta * V
  <2>1. Rest(x, m) = h % one
    BY <1>2, RestOfMp
  <2>2. CASE m = 0
    <3>1. V = 1 /\ h = x.mp /\ x.delta * V = x.delta
      BY <1>0, <2>2, TensSteps
    <3>2. x.mp % one = Fraction(x)
      BY DEF Fraction
    <3> HIDE DEF h, one, V
    <3> QED
      BY <1>0, <1>1, <3>1, <3>2
  <2>3. CASE m # 0
    <3>1. m \in 1 .. n - 1
      BY <1>2, <2>3
    <3> QED
      BY <1>1, <2>1, <3>1 DEF Stop
  <2> QED
    BY <2>2, <2>3
<1> HIDE DEF V, U, one, entry
<1>6. h \in Nat /\ high \in Nat /\ delta \in Nat /\ wp_w \in Nat /\ high = 10 * h
      /\ delta = 10 * (x.delta * V) /\ x.delta * V \in Nat
  BY <1>0, <1>3, <1>entry
<1>7. /\ delta <= high /\ high - delta = (x.mp - x.delta) * U
      /\ entry = U => wp_w <= delta /\ high - wp_w = x.w * U
  <2>1. \A a, b, c \in Nat : a <= b => a * c <= b * c /\ (b - a) * c = b * c - a * c
    OBVIOUS
  <2>2. Above(x) <= x.mp /\ x.delta <= x.mp
    BY <1>0
  <2> QED
    BY <1>0, <1>3, <2>1, <2>2
<1>8. Digits(high, one, q, rest, h % one)
  <2>1. Digits(10 * h, one, (10 * h) \div one, (10 * h) % one, h % one)
    BY <1>0, <1>6, DigitBehind
  <2> HIDE DEF h, high, rest
  <2> QED
    BY <1>4, <1>6, <2>1
<1>9. q > 0
  <2>1. high >= x.mp /\ x.mp >= one
    <3>1. x.mp * U >= x.mp
      BY <1>0, <1>3
    <3>2. Whole(x) * one >= one /\ Whole(x) * one \in Nat
      BY <1>0
    <3> QED
      BY <1>0, <3>1, <3>2
  <2>2. q \in Nat /\ high = q * one + rest
    BY <1>8 DEF Digits
  <2>3. ASSUME q = 0 PROVE FALSE
    <3>1. q * one = 0
      BY <1>0, <2>3
    <3> HIDE DEF q, high, rest
    <3>2. high = rest
      BY <1>4, <2>2, <3>1
    <3> QED
      BY <1>0, <1>4, <2>1, <3>2
  <2> HIDE DEF q
  <2> QED
    BY <2>2, <2>3
<1>10. delta <= rest + (q % 10) * one
  <2> DEFINE b == h % one  e == x.delta * V
  <2>1. rest + (q % 10) * one = 10 * b
    BY <1>8 DEF Digits
  <2>2. b \in Nat /\ e \in Nat /\ b >= e
    BY <1>0, <1>5, <1>6
  <2>3. delta = 10 * e
    BY <1>6
  <2> HIDE DEF b, e, delta, rest, q
  <2> QED
    BY <2>1, <2>2, <2>3
<1> HIDE DEF h, high, delta, wp_w, q, rest
<1> DEFINE digits == Lowered(DigitsOf(q), GrisuRound(delta, rest, one, wp_w))
<1>11. /\ ShortAt(digits, high - delta, high, one)
       /\ wp_w <= delta => ClosestAt(digits, high - delta, high, high - wp_w, one)
  <2>1. q \in Nat /\ high = q * one + rest /\ rest <= delta
    BY <1>4, <1>6, <1>8 DEF Digits
  <2> QED
    BY <1>0, <1>4, <1>6, <1>7, <1>9, <1>10, <2>1, Rounding
<1>12. DigitGen(x) = Generated(DigitsOf(q), -n, x.k, delta, rest, one, wp_w)
  BY DigitGenIs DEF q, rest, one, high, delta, wp_w, U, n, entry
<1>13. DigitGen(x).digits = digits /\ Kappa(x) = -n /\ -n < 0 /\ -(-n) = n
  <2>1. /\ DigitGen(x).digits = digits
        /\ DigitGen(x).k = x.k + (-n)
    BY <1>12 DEF Generated
  <2>2. (x.k + (-n)) - x.k = -n /\ -n < 0 /\ -(-n) = n
    BY <1>0, <1>2
  <2> QED
    BY <2>1, <2>2 DEF Kappa
<1>14. Scale(x) = U /\ Unit(x) = one
  BY <1>0, <1>13 DEF U, one, Scale, Unit, One, Tens
<1> HIDE DEF digits
<1>15. Shortest(x)
  BY <1>7, <1>11, <1>13, <1>14, FoundIs DEF high
<1>16. ASSUME n < PowerEntries PROVE Closest(x)
  BY <1>7, <1>11, <1>13, <1>14, <1>16, <1>entry, FoundIs DEF high
<1> QED
  BY <1>13, <1>15, <1>16

(* DigitGen() finds what it should for every interval.                     *)
FoundFor(x) == Shortest(x) /\ (-Kappa(x) < PowerEntries => Closest(x))

(* In front of the point and behind it.                                    *)
LEMMA FoundForAll ==
  ASSUME NEW x, IsInterval(x)
  PROVE  FoundFor(x)
BY FoundInFront, FoundBehind DEF FoundFor

-----------------------------------------------------------------------------
(* The invariant.                                                          *)
Inv == TypeOK /\ InsideBuffer

(* What FixedBuffer::append() is asked for may be too long, what it takes  *)
(* is not: it stays inside of the buffer.                                  *)
LEMMA AppendFits ==
  ASSUME NEW at \in 0 .. Size, NEW n \in Nat
  PROVE  After(at, n) \in 0 .. Size
BY StreamAssumption DEF After, Avail, Smallest

(* So does the trailer, and the '\0' behind its number.                     *)
LEMMA TrailerFits ==
  ASSUME Inv, NEW line \in Lines
  PROVE  /\ After(Numbered(line), 1) \in 0 .. Size
         /\ HasRoom(Named) => Numbered(line) + 1 \in 0 .. Size
<1> DEFINE n == Len(Convert(line))
<1>1. length \in 0 .. Size /\ 3 + FileName + 1 \in Nat
  BY StreamAssumption DEF Inv, TypeOK
<1>2. Named \in 0 .. Size
  BY <1>1, AppendFits DEF Named
<1>3. n \in Nat /\ n <= 21
  <2>1. Convert(line) \in Seq(Characters) /\ n <= 21
    BY StreamAssumption, ConvertFits
  <2> QED
    BY <2>1
<1> HIDE DEF n
<1>4. CASE HasRoom(Named)
  <2>1. Size - Named >= 26 /\ Numbered(line) = Named + n /\ Size \in Nat
    BY <1>2, <1>4, StreamAssumption DEF HasRoom, Avail, Numbered, n
  <2>2. Numbered(line) \in 0 .. Size /\ Numbered(line) + 1 \in 0 .. Size
    BY <1>2, <1>3, <2>1
  <2> QED
    BY <2>2, AppendFits
<1>5. CASE ~HasRoom(Named)
  BY <1>2, <1>5, AppendFits DEF Numbered
<1> QED
  BY <1>4, <1>5

(* A number is written where kMaxNumericSize characters are left, of which *)
(* it takes up to 25 and a '\0'.                                           *)
LEMMA NumberKeeps ==
  ASSUME Inv, NEW value, NEW from, NEW text, NEW returned \in 0 .. 25,
         Text(text, 25), StreamNumber(value, from, text, returned)
  PROVE  Inv'
<1>1. /\ stage' = stage /\ logLevel' = logLevel /\ level' = level /\ output' = output
      /\ pieces < MaxPieces /\ pieces' = pieces + 1
      /\ numbers < MaxNumbers /\ numbers' = numbers + 1
  BY DEF StreamNumber, MayStream, Streams
<1>2. /\ pieces' \in 0 .. MaxPieces /\ numbers' \in 0 .. MaxNumbers
  BY <1>1, StreamAssumption, SMTT(30) DEF Inv, TypeOK
<1>3. length' \in 0 .. Size /\ touched' \in 0 .. Size
      /\ number'.text \in Seq(Characters) /\ number'.returned \in Nat
  <2>1. CASE HasRoom(length)
    <3>1. Len(text) \in Nat /\ Len(text) <= 25 /\ text \in Seq(Characters)
      BY DEF Text
    <3> DEFINE n == Len(text)
    <3>2. length' = length + returned /\ touched' = Largest(touched, length + n + 1)
      BY <2>1 DEF StreamNumber
    <3>3. number'.text = text /\ number'.returned = returned
      BY <2>1 DEF StreamNumber
    <3> HIDE DEF n
    <3>4. /\ Size - length >= Reserve /\ Reserve >= 26 /\ {Size, Reserve} \subseteq Nat
          /\ length \in 0 .. Size /\ touched \in Nat /\ touched <= Size
      BY <2>1, StreamAssumption DEF HasRoom, Avail, Inv, TypeOK, InsideBuffer
    <3>5. n \in Nat /\ n <= 25
      BY <3>1 DEF n
    <3>6. length' \in 0 .. Size /\ touched' \in 0 .. Size
      BY <3>2, <3>4, <3>5 DEF Largest
    <3> QED
      BY <3>1, <3>3, <3>6
  <2>2. CASE ~HasRoom(length)
    BY <2>2, StreamAssumption DEF StreamNumber, Inv, TypeOK, InsideBuffer
  <2> QED
    BY <2>1, <2>2
<1> QED
  BY <1>1, <1>2, <1>3 DEF Inv, TypeOK, InsideBuffer

(* Initially nothing has been written.                                     *)
LEMMA InitInv == Init => Inv
<1> SUFFICES ASSUME Init PROVE Inv
  OBVIOUS
<1>1. number.text \in Seq(Characters) /\ number.returned \in Nat
  BY DEF Init, NoNumber
<1> QED
  BY <1>1, StreamAssumption DEF Init, Inv, TypeOK, InsideBuffer

(* Every step keeps the invariant.                                         *)
LEMMA StepInv == Inv /\ [Next]_vars => Inv'
<1> SUFFICES ASSUME Inv, [Next]_vars PROVE Inv'
  OBVIOUS
<1> USE StreamAssumption
<1>1. CASE NewLogger
  <2>1. PICK n \in TidLengths : length' = After(0, FormatTime + n + LevelName)
    BY <1>1 DEF NewLogger
  <2>2. FormatTime + n + LevelName \in Nat /\ 0 \in 0 .. Size
    BY DEF FormatTime, LevelName
  <2>3. length' \in 0 .. Size /\ touched' \in 0 .. Size
    BY <1>1, <2>1, <2>2, AppendFits DEF NewLogger
  <2> QED
    BY <1>1, <2>3 DEF NewLogger, Inv, TypeOK, InsideBuffer
<1>2. CASE EndLogger
  <2>1. touched \in 0 .. Size
    BY DEF Inv, TypeOK, InsideBuffer
  <2>2. output' \in 0 .. Size /\ touched' \in 0 .. Size /\ stage' \in {"none", "open", "aborted"}
    <3>1. CASE Wanted
      <4>1. PICK line \in Lines :
              /\ output' = After(Numbered(line), 1)
              /\ touched' = Largest(touched, IF HasRoom(Named) THEN Numbered(line) + 1 ELSE output')
        BY <1>2, <3>1 DEF EndLogger
      <4>2. output' \in 0 .. Size /\ (HasRoom(Named) => Numbered(line) + 1 \in 0 .. Size)
        BY <4>1, TrailerFits
      <4>3. touched' \in 0 .. Size
        BY <2>1, <4>1, <4>2 DEF Largest
      <4> QED
        BY <1>2, <3>1, <4>2, <4>3 DEF EndLogger
    <3>2. CASE ~Wanted
      BY <1>2, <2>1, <3>2 DEF EndLogger, Inv, TypeOK
    <3> QED
      BY <3>1, <3>2
  <2>3. number'.text \in Seq(Characters) /\ number'.returned \in Nat
    BY <1>2 DEF EndLogger, NoNumber
  <2> QED
    BY <1>2, <2>2, <2>3 DEF EndLogger, Inv, TypeOK, InsideBuffer
<1>3. CASE ReInit
  BY <1>3 DEF ReInit, Inv, TypeOK, InsideBuffer
<1>4. ASSUME NEW n \in Texts, StreamText(n) PROVE Inv'
  <2>1. length' \in 0 .. Size /\ touched' \in 0 .. Size
    <3>1. length \in 0 .. Size /\ touched \in 0 .. Size
      BY DEF Inv, TypeOK, InsideBuffer
    <3>2. length' \in 0 .. Size /\ touched' = Largest(touched, length')
      BY <1>4, <3>1, AppendFits DEF StreamText
    <3> QED
      BY <3>1, <3>2 DEF Largest
  <2>2. pieces' \in 0 .. MaxPieces
    BY <1>4, SMTT(30) DEF StreamText, MayStream, Streams, Inv, TypeOK
  <2> QED
    BY <1>4, <2>1, <2>2 DEF StreamText, Streams, Inv, TypeOK, InsideBuffer
<1>5. ASSUME NEW v \in Integers_, StreamInteger(v) PROVE Inv'
  <2> DEFINE text == Convert(v)
  <2>1. text \in Seq(Characters) /\ Len(text) <= 21
    BY ConvertFits
  <2>2. Text(text, 25) /\ Len(text) \in 0 .. 25
    <3> HIDE DEF text
    <3>1. Len(text) \in Nat
      BY <2>1
    <3>2. \A n \in Nat : n <= 21 => n \in 0 .. 25 /\ n <= 25
      OBVIOUS
    <3> QED
      BY <2>1, <3>1, <3>2 DEF Text
  <2> DEFINE value == [neg |-> v < 0, number |-> Stripped(DigitsOf(IF v < 0 THEN -v ELSE v), 0)]
  <2>3. StreamNumber(value, {}, text, Len(text))
    BY <1>5 DEF StreamInteger
  <2> HIDE DEF text, value
  <2> QED
    BY <2>2, <2>3, NumberKeeps
<1>6. ASSUME NEW d, IsDouble(d), NEW from, StreamDouble(d, from) PROVE Inv'
  <2> DEFINE value == [neg |-> d.neg /\ ~IsZero(d), number |-> Stripped(d.digits, d.k)]
  <2>1. Text(Dtoa(d), 25) /\ DtoaLength(d) \in 0 .. 18
    BY <1>6, DtoaFits
  <2>2. DtoaLength(d) \in 0 .. 25
    BY <2>1
  <2>3. StreamNumber(value, from, Dtoa(d), DtoaLength(d))
    BY <1>6 DEF StreamDouble
  <2> HIDE DEF value
  <2> QED
    BY <2>1, <2>2, <2>3, NumberKeeps
<1>7. CASE UNCHANGED vars
  BY <1>7 DEF vars, Inv, TypeOK, InsideBuffer
<1>8. \A d \in Doubles \cup {Grisu2(x) : x \in Intervals} : IsDouble(d)
  BY StreamAssumption
<1> QED
  BY <1>1, <1>2, <1>3, <1>4, <1>5, <1>6, <1>7, <1>8 DEF Next

(* Hence it is an invariant of the specification.                          *)
LEMMA Invariant == Spec => []Inv
  BY InitInv, StepInv, PTL DEF Spec

(* The variables keep their types: in particular the text of a number has  *)
(* nothing but digits, a minus, a point and an exponent in it.             *)
THEOREM TypeCorrect == Spec => []TypeOK
<1>1. Inv => TypeOK
  BY DEF Inv
<1> QED
  BY <1>1, Invariant, PTL

(* kMaxNumericSize is enough for every integer of 64 bits and every double *)
(* of up to 17 digits: nothing is written behind the end of data_.         *)
THEOREM NothingBehindTheEnd == Spec => []InsideBuffer
<1>1. Inv => InsideBuffer
  BY DEF Inv
<1> QED
  BY <1>1, Invariant, PTL

-----------------------------------------------------------------------------
(* The texts of numbers and their digits.                                 *)
(* Every step keeps that: what is written is either what was written       *)
(* before, nothing, or one of the texts above.                             *)
LEMMA StepReadsBack == NumbersReadBack /\ [Next]_vars => NumbersReadBack'
<1> SUFFICES ASSUME NumbersReadBack, [Next]_vars PROVE NumbersReadBack'
  OBVIOUS
<1>1. ASSUME number' = number PROVE NumbersReadBack'
  BY <1>1 DEF NumbersReadBack
<1>2. ASSUME NEW value, NEW from, NEW text, NEW returned, Denotes(text) = value,
             StreamNumber(value, from, text, returned)
      PROVE  NumbersReadBack'
  <2>1. CASE HasRoom(length)
    <3>1. number'.text = text /\ number'.value = value
      BY <1>2, <2>1 DEF StreamNumber
    <3> QED
      BY <1>2, <3>1 DEF NumbersReadBack
  <2>2. CASE ~HasRoom(length)
    BY <1>1, <1>2, <2>2 DEF StreamNumber
  <2> QED
    BY <2>1, <2>2
<1>3. CASE NewLogger \/ ReInit \/ UNCHANGED vars \/ \E n \in Texts : StreamText(n)
  BY <1>1, <1>3 DEF NewLogger, ReInit, StreamText, vars
<1>4. CASE EndLogger
  BY <1>4 DEF EndLogger, NoNumber, NumbersReadBack
<1>5. ASSUME NEW v \in Integers_, StreamInteger(v) PROVE NumbersReadBack'
  <2> DEFINE value == [neg |-> v < 0, number |-> Stripped(DigitsOf(IF v < 0 THEN -v ELSE v), 0)]
             text == Convert(v)
  <2>1. v \in Int
    BY StreamAssumption
  <2>2. Denotes(text) = value
    BY <2>1, IntegersReadBack
  <2>3. StreamNumber(value, {}, text, Len(text))
    BY <1>5 DEF StreamInteger
  <2> HIDE DEF text, value
  <2> QED
    BY <1>2, <2>2, <2>3
<1>6. ASSUME NEW d, IsDouble(d), NEW from, StreamDouble(d, from) PROVE NumbersReadBack'
  <2> DEFINE value == [neg |-> d.neg /\ ~IsZero(d), number |-> Stripped(d.digits, d.k)]
  <2>1. Denotes(Dtoa(d)) = value
    BY <1>6, DoublesReadBack
  <2>2. StreamNumber(value, from, Dtoa(d), DtoaLength(d))
    BY <1>6 DEF StreamDouble
  <2> HIDE DEF value
  <2> QED
    BY <1>2, <2>1, <2>2
<1>7. \A d \in Doubles \cup {Grisu2(x) : x \in Intervals} : IsDouble(d)
  BY StreamAssumption
<1> QED
  BY <1>3, <1>4, <1>5, <1>6, <1>7 DEF Next

(* Every text of a number denotes the number that was logged: integers of  *)
(* any size by convert(), doubles by each of the forms of Prettify().      *)
THEOREM TextsDenoteTheirNumbers == Spec => []NumbersReadBack
<1>1. Init => NumbersReadBack
  BY DEF Init, NoNumber, NumbersReadBack
<1> QED
  BY <1>1, StepReadsBack, PTL DEF Spec

(* What number has been through DigitGen().                                *)
AllFound == \A x \in number.from : FoundFor(x)

(* A double that is written has been through it before.                    *)
LEMMA StepFound == AllFound /\ [Next]_vars => AllFound'
<1> SUFFICES ASSUME AllFound, [Next]_vars PROVE AllFound'
  OBVIOUS
<1>1. ASSUME number' = number PROVE AllFound'
  BY <1>1 DEF AllFound
<1>2. ASSUME NEW value, NEW from, NEW text, NEW returned, \A x \in from : FoundFor(x),
             StreamNumber(value, from, text, returned)
      PROVE  AllFound'
  <2>1. CASE HasRoom(length)
    <3>1. number'.from = from
      BY <1>2, <2>1 DEF StreamNumber
    <3> QED
      BY <1>2, <3>1 DEF AllFound
  <2>2. CASE ~HasRoom(length)
    BY <1>1, <1>2, <2>2 DEF StreamNumber
  <2> QED
    BY <2>1, <2>2
<1>3. CASE NewLogger \/ ReInit \/ UNCHANGED vars \/ \E n \in Texts : StreamText(n)
  BY <1>1, <1>3 DEF NewLogger, ReInit, StreamText, vars
<1>4. CASE EndLogger
  BY <1>4 DEF EndLogger, NoNumber, AllFound
<1>5. ASSUME NEW v, StreamInteger(v) PROVE AllFound'
  BY <1>2, <1>5 DEF StreamInteger
<1>6. ASSUME NEW d, StreamDouble(d, {}) PROVE AllFound'
  BY <1>2, <1>6 DEF StreamDouble
<1>7. ASSUME NEW x \in Intervals, StreamDouble(Grisu2(x), {x}) PROVE AllFound'
  <2>1. \A y \in {x} : FoundFor(y)
    BY StreamAssumption, FoundForAll
  <2> QED
    BY <1>2, <1>7, <2>1 DEF StreamDouble
<1> QED
  BY <1>3, <1>4, <1>5, <1>6, <1>7 DEF Next

(* So it holds in every state.                                             *)
LEMMA FoundAlways == Spec => []AllFound
<1>1. Init => AllFound
  BY DEF Init, NoNumber, AllFound
<1> QED
  BY <1>1, StepFound, PTL DEF Spec

(* Among the numbers above Mp - delta and up to Mp, DigitGen() finds one   *)
(* with the fewest digits, for every interval of up to 32 bits in front of *)
(* the point and of any width behind it, also where it reads behind the    *)
(* end of kPow10, and whatever it reads there.                             *)
THEOREM DigitsAreShortest == Spec => []ShortestDigits
<1>1. AllFound => ShortestDigits
  BY DEF AllFound, FoundFor, ShortestDigits
<1> QED
  BY <1>1, FoundAlways, PTL

(* With no more digits behind the point than kPow10 has entries for, it    *)
(* finds the one of those that is closest to W.                            *)
THEOREM DigitsAreClosestWithinTable == Spec => []ClosestWithinTable
<1>1. AllFound => ClosestWithinTable
  BY DEF AllFound, FoundFor, ClosestWithinTable
<1> QED
  BY <1>1, FoundAlways, PTL
=============================================================================
