---------------------------- MODULE MCLogStream ----------------------------
(***************************************************************************)
(* Numbers for LogStream.  The intervals of DigitGen() are a few bits wide *)
(* instead of 64, and kPow10 has three entries instead of ten: those with  *)
(* 3 bits behind the point stay inside it, the finer ones take up to five  *)
(* digits behind the point.  Prettify() gets one, four and the longest     *)
(* possible 17 digits, with exponents for each of its branches, their      *)
(* edges (-6, 0 and 21), and exponents of 1, 2 and 3 digits.               *)
(***************************************************************************)
EXTENDS LogStream

Bytes == -128 .. -126 \cup -11 .. 11 \cup 99 .. 101 \cup 126 .. 127 \* of a signed type of 8 bits

Tops == 8 .. 26 \cup {55, 83, 804, 7995}
Widths == {1, 2, 5, 11, 30, 850}
Coarse ==
  {[shift |-> 3, mp |-> mp, delta |-> delta, w |-> mp - delta \div part, k |-> 0, beyond |-> 0] :
     mp \in Tops, delta \in Widths, part \in {1, 2, 3, 1000}}
Fine == \* beyond: nothing, too little, too much
  {[shift |-> 10, mp |-> mp, delta |-> delta, w |-> mp - delta \div part, k |-> 0, beyond |-> beyond] :
     mp \in {1025, 1030, 3077, 9999}, delta \in {1, 2}, part \in {1, 2, 1000},
     beyond \in {0, 999, 40000}}
Finest ==
  {[shift |-> 14, mp |-> 16385, delta |-> 1, w |-> w, k |-> 0, beyond |-> beyond] :
     w \in {16384, 16385}, beyond \in {0, 999, 40000}}
SomeIntervals == {x \in Coarse \cup Fine \cup Finest : x.delta < x.mp}

Digits == {<<7>>, <<9, 0, 3, 4>>, <<1, 7, 9, 7, 6, 9, 3, 1, 3, 4, 8, 6, 2, 3, 1, 5, 7>>}
Magnitudes == {-322, -99, -98, -10, -9, 100, 101, 309} \cup -7 .. 5 \cup 16 .. 22
SomeDoubles ==
  {[neg |-> neg, digits |-> digits, k |-> kk - Len(digits)] :
     neg \in BOOLEAN, digits \in Digits \cup {<<>>}, kk \in Magnitudes}
=============================================================================
