------------------------------ MODULE LogLines ------------------------------
(***************************************************************************)
(* Lines of several threads, each of them a pair <<thread, number>>.       *)
(***************************************************************************)
EXTENDS Naturals, Sequences

(* Those of one thread, in their order.                                    *)
Of(t, lines) ==
  LET of[i \in 0 .. Len(lines)] ==
        IF i = 0 THEN <<>>
        ELSE IF lines[i][1] = t THEN Append(of[i - 1], lines[i]) ELSE of[i - 1]
  IN  of[Len(lines)]
=============================================================================
