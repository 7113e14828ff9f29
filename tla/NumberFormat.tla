---------------------------- MODULE NumberFormat ----------------------------
(***************************************************************************)
(* The conversions of ycnt/base/Utils.h and Utils.cpp that LogStream uses: *)
(* integers by their digits, doubles by Grisu2.  A text is a sequence of   *)
(* characters, and a character is its digit or one of the names below.     *)
(* DigitGen() gets from Grisu2() scaled numbers with `shift' bits behind   *)
(* the binary point, and gives Prettify() decimal digits and an exponent.  *)
(***************************************************************************)
EXTENDS Integers, Sequences, SequencesExt

CONSTANT PowerEntries \* entries of kPow10: ten

Minus == 10
Point == 11
Exponent == 12

Zeros(n) == [i \in 1 .. n |-> 0]
Power(b, n) ==
  LET to[i \in Nat] == IF i = 0 THEN 1 ELSE b * to[i - 1]
  IN  to[n]
ValueOf(digits) ==
  LET of[i \in 0 .. Len(digits)] == IF i = 0 THEN 0 ELSE 10 * of[i - 1] + digits[i]
  IN  of[Len(digits)]
DigitsOf(n) == \* of a number in base 10, without leading zeros
  LET from[i \in Nat] == IF i = 0 THEN <<>> ELSE Append(from[i \div 10], i % 10)
  IN  from[n]

-----------------------------------------------------------------------------
(* convert(): `/' and `%' of C truncate towards zero, and the table of     *)
(* digits is read at negative offsets for the digits of negative values.   *)
Quotient(i) == IF i < 0 THEN -((-i) \div 10) ELSE i \div 10
Remainder(i) == i - 10 * Quotient(i)
ZeroAt(lsd) == IF lsd < 0 THEN -lsd ELSE lsd

\* Mutants of the code that the properties of LogStream must notice.
NegatedFirst(v) == \* in a type of 8 bits, which has no 128
  LET abs == IF v = -128 \/ v >= 0 THEN v ELSE -v
      low[i \in Int] == <<Remainder(i)>> \o
                          (IF Quotient(i) = 0 THEN <<>> ELSE low[Quotient(i)])
  IN  Reverse(low[abs] \o (IF v < 0 THEN <<Minus>> ELSE <<>>))
NotCloser(r, ten_kappa, wp_w, delta) ==
  r < wp_w /\ delta - r >= ten_kappa /\ r + ten_kappa < wp_w
BelowInterval(r, ten_kappa, wp_w, delta) ==
  r < wp_w /\ delta > r /\ (r + ten_kappa < wp_w \/ wp_w - r > r + ten_kappa - wp_w)

SignOf(v) == IF v < 0 THEN <<Minus>> ELSE <<>>
Convert(v) ==
  LET low[i \in Int] == <<ZeroAt(Remainder(i))>> \o
                          (IF Quotient(i) = 0 THEN <<>> ELSE low[Quotient(i)])
  IN  Reverse(low[v] \o SignOf(v))

-----------------------------------------------------------------------------
(* GrisuRound(): how often the last digit is lowered to get closer to W.   *)
Closer(r, ten_kappa, wp_w, delta) ==
  /\ r < wp_w /\ delta - r >= ten_kappa
  /\ r + ten_kappa < wp_w \/ wp_w - r > r + ten_kappa - wp_w
GrisuRound(delta, rest, ten_kappa, wp_w) ==
  CHOOSE n \in 0 .. 99 :
    /\ ~Closer(rest + n * ten_kappa, ten_kappa, wp_w, delta)
    /\ \A m \in 0 .. n - 1 : Closer(rest + m * ten_kappa, ten_kappa, wp_w, delta)

Lowered(digits, n) == [digits EXCEPT ![Len(digits)] = @ - n]

(* kPow10 has its ten entries; behind them the code reads whatever is in   *)
(* memory there, x.beyond.                                                 *)
kPow10(x, i) == IF i < PowerEntries THEN Power(10, i) ELSE x.beyond

(* DigitGen(): the digits of Mp, as few of them as stay above Mp - delta,  *)
(* first those in front of the point, then as many behind it as it takes.  *)
Generated(digits, kappa, k, delta, rest, ten_kappa, wp_w) ==
  [digits |-> Lowered(digits, GrisuRound(delta, rest, ten_kappa, wp_w)),
   k |-> k + kappa]

CountDecimalDigit32(n) ==
  CHOOSE c \in 1 .. 10 : n < Power(10, c) /\ (c > 1 => n >= Power(10, c - 1))

DigitGen(x) ==
  LET one == Power(2, x.shift)
      p1 == x.mp \div one
      p2 == x.mp % one
      wp_w == x.mp - x.w
      Tmp(kappa) == (p1 % Power(10, kappa)) * one + p2
      Stops == {kappa \in 0 .. CountDecimalDigit32(p1) - 1 : Tmp(kappa) <= x.delta}
      Rest(n) == (p2 * Power(10, n)) % one
  IN  IF Stops # {}
      THEN LET kappa == CHOOSE i \in Stops : \A j \in Stops : j <= i IN
           Generated(DigitsOf(p1 \div Power(10, kappa)), kappa, x.k, x.delta, Tmp(kappa),
                     kPow10(x, kappa) * one, wp_w)
      ELSE LET n == CHOOSE i \in 1 .. x.shift :
                      /\ Rest(i) < x.delta * Power(10, i)
                      /\ \A j \in 1 .. i - 1 : Rest(j) >= x.delta * Power(10, j) IN
           Generated(DigitsOf((x.mp * Power(10, n)) \div one), -n, x.k,
                     x.delta * Power(10, n), Rest(n), one, wp_w * kPow10(x, n))

(* Grisu2(): the digits and the exponent of a positive double. *)
Grisu2(x) == LET g == DigitGen(x) IN [neg |-> FALSE, digits |-> g.digits, k |-> g.k]

-----------------------------------------------------------------------------
(* WriteExponent() and Prettify(). *)
WriteExponent(K) ==
  LET abs == IF K < 0 THEN -K ELSE K IN
  (IF K < 0 THEN <<Minus>> ELSE <<>>) \o
    (IF abs < 10 THEN <<abs>> ELSE DigitsOf(abs))

Offset(kk) == 2 - kk
Prettify(digits, k) ==
  LET length == Len(digits)
      kk == length + k
      Scaled == length <= kk /\ kk <= 21
      Inside == 0 < kk /\ kk <= 21
      Small == -6 < kk /\ kk <= 0
  IN  CASE Scaled -> digits \o Zeros(kk - length) \o <<Point, 0>>
        [] ~Scaled /\ Inside -> SubSeq(digits, 1, kk) \o <<Point>>
                                  \o SubSeq(digits, kk + 1, length)
        [] Small -> <<0, Point>> \o Zeros(Offset(kk) - 2) \o digits
        [] ~Inside /\ ~Small /\ ~Scaled ->
             <<Head(digits)>> \o (IF length = 1 THEN <<>> ELSE <<Point>> \o Tail(digits))
               \o <<Exponent>> \o WriteExponent(kk - 1)

(* dtoa_milo() of the double that Grisu2() turns into the digits and the   *)
(* exponent of d, and of zero, which has no digits: what is left in the    *)
(* buffer, and the length returned.                                        *)
IsZero(d) == d.digits = <<>>
Dtoa(d) ==
  IF IsZero(d) THEN <<0, Point, 0>>
  ELSE (IF d.neg THEN <<Minus>> ELSE <<>>) \o Prettify(d.digits, d.k)
DtoaLength(d) == (IF IsZero(d) THEN 2 ELSE Len(d.digits)) + 1

-----------------------------------------------------------------------------
(* Reading a text again: its sign, and its digits and exponent without     *)
(* zeros at either end.                                                    *)
Stripped(digits, k) ==
  LET nonzero == {i \in DOMAIN digits : digits[i] # 0}
      first == CHOOSE i \in nonzero : \A j \in nonzero : i <= j
      last == CHOOSE i \in nonzero : \A j \in nonzero : j <= i
  IN  IF nonzero = {} THEN [digits |-> <<>>, k |-> 0]
      ELSE [digits |-> SubSeq(digits, first, last), k |-> k + Len(digits) - last]

Denotes(text) ==
  LET neg == Head(text) = Minus
      body == IF neg THEN Tail(text) ELSE text
      At(c) == {i \in DOMAIN body : body[i] = c}
      end == IF At(Exponent) = {} THEN Len(body)
                                  ELSE (CHOOSE i \in At(Exponent) : TRUE) - 1
      exp == SubSeq(body, end + 2, Len(body))
      e == IF exp = <<>> THEN 0
           ELSE IF Head(exp) = Minus THEN -ValueOf(Tail(exp)) ELSE ValueOf(exp)
      point == IF At(Point) = {} THEN end + 1 ELSE CHOOSE i \in At(Point) : TRUE
      behind == SubSeq(body, point + 1, end)
  IN  [neg |-> neg,
       number |-> Stripped(SubSeq(body, 1, point - 1) \o behind, e - Len(behind))]
=============================================================================
