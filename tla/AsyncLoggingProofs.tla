------------------------- MODULE AsyncLoggingProofs -------------------------
(***************************************************************************)
(* AsyncLogging for every set of front-end threads, any number of buckets  *)
(* and any sizes: with its Thread, whose properties come from ThreadProofs *)
(* because the logger uses it as Thread specifies; the types; what a round *)
(* of the writer owes; the order of the lines that wait; and, from these,  *)
(* that the logger implements Log step by step.  Pending lines are defined *)
(* by recursion on the buffers, so the first part derives induction and    *)
(* what Of and FlattenSeq do.                                              *)
(***************************************************************************)
EXTENDS AsyncLogging, SequenceTheorems, FiniteSetTheorems, WellFoundedInduction, TLAPS

-----------------------------------------------------------------------------
(* Induction over numbers and sequences, from the well-foundedness of      *)
(* strict inclusion between finite sets.                                   *)

(* A set of naturals that is not empty has a least member: the intervals 1 *)
(* .. n are finite and ordered by strict inclusion.                        *)
LEMMA LeastNumber ==
  ASSUME NEW M, M \subseteq Nat, M # {}
  PROVE  \E x \in M : \A y \in M : x <= y
<1> DEFINE U == {1 .. n : n \in M}
<1>1. U \subseteq FiniteSubsetsOf(Nat)
  BY FS_Interval DEF FiniteSubsetsOf
<1>2. IsWellFoundedOn(StrictSubsetOrdering(Nat), FiniteSubsetsOf(Nat))
  BY FS_StrictSubsetOrderingWellFounded
<1>0. U # {}
  OBVIOUS
<1>3. \E x \in U : \A y \in U : ~ (<<y, x>> \in StrictSubsetOrdering(Nat))
  <2> HIDE DEF U
  <2> QED
    BY <1>1, <1>2, <1>0, WFMin
<1>4. PICK x \in M : \A y \in M : ~ (<<1 .. y, 1 .. x>> \in StrictSubsetOrdering(Nat))
  BY <1>3
<1>5. ASSUME NEW y \in M, y < x PROVE FALSE
  <2>1. 1 .. y \subseteq 1 .. x /\ x \in 1 .. x /\ x \notin 1 .. y
    BY <1>5
  <2>2. 1 .. y \in SUBSET Nat /\ 1 .. x \in SUBSET Nat /\ 1 .. y # 1 .. x
    BY <2>1
  <2>3. <<1 .. y, 1 .. x>> \in StrictSubsetOrdering(Nat)
    <3> DEFINE a == 1 .. y  b == 1 .. x
    <3> HIDE DEF a, b
    <3>1. a \in SUBSET Nat /\ b \in SUBSET Nat /\ a \subseteq b /\ a # b
      BY <2>1, <2>2 DEF a, b
    <3>2. <<a, b>> \in StrictSubsetOrdering(Nat)
      BY <3>1 DEF StrictSubsetOrdering
    <3> QED
      BY <3>2 DEF a, b
  <2> QED
    BY <1>4, <2>3
<1> QED BY <1>5

(* Induction over the naturals, for a set instead of a predicate.          *)
LEMMA InductionOnNumbers ==
  ASSUME NEW M, 0 \in M, \A n \in Nat : n \in M => n + 1 \in M
  PROVE  Nat \subseteq M
<1> SUFFICES ASSUME Nat \ M # {} PROVE FALSE
  OBVIOUS
<1>1. PICK x \in Nat \ M : \A y \in Nat \ M : x <= y
  BY LeastNumber
<1>2. x # 0 /\ x - 1 \in Nat /\ x = (x - 1) + 1 /\ ~(x <= x - 1)
  BY <1>1
<1>3. x - 1 \in M
  BY <1>1, <1>2
<1> QED
  BY <1>1, <1>2, <1>3

(* Induction over sequences: whatever holds of <<>> and survives Append    *)
(* holds of every sequence.                                                *)
LEMMA InductionOnSequences ==
  ASSUME NEW S, NEW M, <<>> \in M, \A s \in Seq(S), x \in S : s \in M => Append(s, x) \in M
  PROVE  Seq(S) \subseteq M
<1> DEFINE U == {n \in Nat : \A s \in Seq(S) : Len(s) = n => s \in M}
<1>1. 0 \in U
  <2>1. \A s \in Seq(S) : Len(s) = 0 => s = <<>>
    BY EmptySeq
  <2> QED
    BY <2>1
<1>2. ASSUME NEW n \in Nat, n \in U PROVE n + 1 \in U
  <2> SUFFICES ASSUME NEW s \in Seq(S), Len(s) = n + 1 PROVE s \in M
    OBVIOUS
  <2>1. s # <<>>
    OBVIOUS
  <2>2. PICK r \in Seq(S), x \in S : s = Append(r, x)
    BY <2>1, SequenceEmptyOrAppend
  <2>3. Len(r) = n
    BY <2>2, AppendProperties
  <2> QED
    BY <1>2, <2>2, <2>3
<1> HIDE DEF U
<1>3. Nat \subseteq U
  BY <1>1, <1>2, InductionOnNumbers
<1> QED
  BY <1>3, LenProperties DEF U

(* A function defined by primitive recursion exists, up to any number. *)
Iterates(f, n, x0, h) == f[0] = x0 /\ \A i \in 1 .. n : f[i] = h[i][f[i - 1]]

LEMMA PrimitiveRecursion ==
  ASSUME NEW X, NEW x0 \in X, NEW h \in [Nat -> [X -> X]], NEW n \in Nat
  PROVE  \E f \in [0 .. n -> X] : Iterates(f, n, x0, h)
<1> USE DEF Iterates
<1> DEFINE M == {k \in Nat : \E f \in [0 .. k -> X] : Iterates(f, k, x0, h)}
<1>1. 0 \in M
  <2>1. [i \in 0 .. 0 |-> x0] \in [0 .. 0 -> X] /\ Iterates([i \in 0 .. 0 |-> x0], 0, x0, h)
    OBVIOUS
  <2> QED
    BY <2>1
<1>2. ASSUME NEW k \in Nat, k \in M PROVE k + 1 \in M
  <2>1. PICK f \in [0 .. k -> X] : Iterates(f, k, x0, h)
    BY <1>2
  <2> DEFINE g == [i \in 0 .. k + 1 |-> IF i = k + 1 THEN h[k + 1][f[k]] ELSE f[i]]
  <2>2. h[k + 1][f[k]] \in X
    OBVIOUS
  <2>3. g \in [0 .. k + 1 -> X]
    BY <2>2
  <2>4. g[0] = x0
    BY <2>1
  <2>5. ASSUME NEW i \in 1 .. k + 1 PROVE g[i] = h[i][g[i - 1]]
    <3>1. CASE i = k + 1
      <4>1. i - 1 = k /\ k # k + 1 /\ k \in 0 .. k + 1 /\ i \in 0 .. k + 1
        BY <3>1
      <4>2. g[i] = h[k + 1][f[k]] /\ g[i - 1] = f[k]
        BY <3>1, <4>1
      <4> QED
        BY <3>1, <4>1, <4>2
    <3>2. CASE i # k + 1
      BY <2>1, <3>2
    <3> QED
      BY <3>1, <3>2
  <2> HIDE DEF g
  <2>6. Iterates(g, k + 1, x0, h)
    BY <2>4, <2>5
  <2> QED
    BY <2>3, <2>6
<1> QED
  <2> HIDE DEF M
  <2>1. n \in M
    BY <1>1, <1>2, InductionOnNumbers
  <2> QED
    BY <2>1 DEF M

-----------------------------------------------------------------------------
(* Of() is the last element of a sequence of results: what it finds in the *)
(* first i lines, for each i.                                              *)
LinesOf(t, s, f) ==
  /\ f[0] = <<>>
  /\ \A i \in 1 .. Len(s) :
       f[i] = IF s[i][1] = t THEN Append(f[i - 1], s[i]) ELSE f[i - 1]

(* Any such sequence of results ends in Of(): there is only one.           *)
LEMMA OfIsLast ==
  ASSUME NEW S, NEW t, NEW s \in Seq(S), NEW f \in [0 .. Len(s) -> Seq(S)], LinesOf(t, s, f)
  PROVE  Of(t, s) = f[Len(s)]
<1> DEFINE n == Len(s)
           Chain(g) == g = [i \in 0 .. n |->
                              IF i = 0 THEN <<>>
                              ELSE IF s[i][1] = t THEN Append(g[i - 1], s[i]) ELSE g[i - 1]]
<1>1. n \in Nat
  OBVIOUS
<1>2. Chain(f)
  <2> DEFINE e == [i \in 0 .. n |-> IF i = 0 THEN <<>>
                                   ELSE IF s[i][1] = t THEN Append(f[i - 1], s[i]) ELSE f[i - 1]]
  <2>1. \A i \in 0 .. n : i # 0 => i \in 1 .. n
    BY <1>1
  <2>2. \A i \in 0 .. n : f[i] = e[i]
    BY <2>1 DEF LinesOf
  <2>3. f = e
    BY <2>2
  <2> QED
    BY <2>3
<1>3. ASSUME NEW g, Chain(g) PROVE g = f
  <2>1. \A i \in 0 .. n : g[i] = IF i = 0 THEN <<>>
                                 ELSE IF s[i][1] = t THEN Append(g[i - 1], s[i]) ELSE g[i - 1]
    BY <1>3
  <2> DEFINE M == {k \in Nat : k <= n => g[k] = f[k]}
  <2>2. 0 \in M
    BY <1>1, <2>1 DEF LinesOf
  <2>3. ASSUME NEW k \in Nat, k \in M PROVE k + 1 \in M
    <3> SUFFICES ASSUME k + 1 <= n PROVE g[k + 1] = f[k + 1]
      OBVIOUS
    <3>1. k + 1 \in 1 .. n /\ (k + 1) - 1 = k /\ g[k] = f[k]
      BY <2>3, <1>1
    <3>2. g[k + 1] = IF s[k + 1][1] = t THEN Append(g[k], s[k + 1]) ELSE g[k]
      BY <3>1, <1>1, <2>1
    <3>3. f[k + 1] = IF s[k + 1][1] = t THEN Append(f[k], s[k + 1]) ELSE f[k]
      BY <3>1 DEF LinesOf
    <3> QED
      BY <3>1, <3>2, <3>3
  <2> HIDE DEF M
  <2>4. Nat \subseteq M
    BY <2>2, <2>3, InductionOnNumbers
  <2>5. \A k \in 0 .. n : g[k] = f[k]
    BY <2>4 DEF M
  <2> QED
    BY <1>3, <2>5
<1> DEFINE c == CHOOSE g : Chain(g)
<1>4. c = f
  <2> HIDE DEF Chain
  <2> QED
    BY <1>2, <1>3
<1>5. Of(t, s) = c[n]
  BY DEF Of
<1> QED
  BY <1>4, <1>5

(* And there is one for every sequence of lines.                           *)
LEMMA LinesOfExists ==
  ASSUME NEW S, NEW t, NEW s \in Seq(S)
  PROVE  \E f \in [0 .. Len(s) -> Seq(S)] : LinesOf(t, s, f)
<1> DEFINE n == Len(s)
           X == Seq(S)
           h == [i \in Nat |-> [r \in X |->
                   IF i \in 1 .. n /\ s[i][1] = t THEN Append(r, s[i]) ELSE r]]
<1>1. n \in Nat /\ <<>> \in X /\ \A i \in 1 .. n : s[i] \in S
  OBVIOUS
<1>2. h \in [Nat -> [X -> X]]
  BY <1>1
<1>3. PICK f \in [0 .. n -> X] : Iterates(f, n, <<>>, h)
  <2> HIDE DEF h, X, n
  <2> QED
    BY <1>1, <1>2, PrimitiveRecursion
<1>4. ASSUME NEW i \in 1 .. n
      PROVE  f[i] = IF s[i][1] = t THEN Append(f[i - 1], s[i]) ELSE f[i - 1]
  <2>1. i \in Nat /\ f[i - 1] \in X
    OBVIOUS
  <2> QED
    BY <1>3, <2>1 DEF Iterates
<1> HIDE DEF h
<1> QED
  BY <1>3, <1>4 DEF LinesOf, Iterates

-----------------------------------------------------------------------------
(* The same for FlattenSeq.                                                *)
Joined(ss, f) == f[0] = <<>> /\ \A i \in 1 .. Len(ss) : f[i] = f[i - 1] \o ss[i]

(* Any such sequence of partial joins ends in FlattenSeq: there is only    *)
(* one.                                                                    *)
LEMMA FlattenIsLast ==
  ASSUME NEW S, NEW ss \in Seq(Seq(S)), NEW f \in [0 .. Len(ss) -> Seq(S)], Joined(ss, f)
  PROVE  FlattenSeq(ss) = f[Len(ss)]
<1> DEFINE n == Len(ss)
           Chain(g) == g = [i \in 1 .. n |-> IF i = 1 THEN ss[i] ELSE g[i - 1] \o ss[i]]
           e == [i \in 1 .. n |-> f[i]]
<1>1. n \in Nat /\ \A i \in 1 .. n : ss[i] \in Seq(S)
  OBVIOUS
<1>2. CASE n = 0
  <2>1. ss = <<>> /\ FlattenSeq(ss) = ss
    BY <1>2, EmptySeq DEF FlattenSeq
  <2> QED
    BY <1>2, <2>1 DEF Joined
<1>3. CASE n # 0
  <2>1. Chain(e)
    <3>1. ASSUME NEW i \in 1 .. n
          PROVE  e[i] = IF i = 1 THEN ss[i] ELSE e[i - 1] \o ss[i]
      <4>1. f[i] = f[i - 1] \o ss[i]
        BY DEF Joined
      <4>2. CASE i = 1
        BY <1>1, <4>1, <4>2, ConcatEmptySeq DEF Joined
      <4>3. CASE i # 1
        <5>1. i - 1 \in 1 .. n
          BY <1>1, <4>3
        <5>2. e[i - 1] = f[i - 1] /\ e[i] = f[i]
          BY <5>1
        <5> QED
          BY <4>1, <4>3, <5>2
      <4> QED
        BY <4>2, <4>3
    <3> QED
      BY <3>1
  <2>2. ASSUME NEW g, Chain(g) PROVE g = e
    <3>1. \A i \in 1 .. n : g[i] = IF i = 1 THEN ss[i] ELSE g[i - 1] \o ss[i]
      BY <2>2
    <3> DEFINE M == {k \in Nat : k + 1 <= n => g[k + 1] = f[k + 1]}
    <3>2. 0 \in M
      <4>1. 1 \in 1 .. n /\ 1 - 1 = 0 /\ ss[1] \in Seq(S)
        BY <1>1, <1>3
      <4>2. f[1] = <<>> \o ss[1] /\ g[1] = ss[1]
        BY <3>1, <4>1 DEF Joined
      <4> QED
        BY <4>1, <4>2, ConcatEmptySeq
    <3>3. ASSUME NEW k \in Nat, k \in M PROVE k + 1 \in M
      <4> SUFFICES ASSUME (k + 1) + 1 <= n PROVE g[(k + 1) + 1] = f[(k + 1) + 1]
        OBVIOUS
      <4>1. (k + 1) + 1 \in 1 .. n /\ (k + 1) + 1 # 1 /\ ((k + 1) + 1) - 1 = k + 1 /\ g[k + 1] = f[k + 1]
        BY <1>1, <3>3
      <4>2. g[(k + 1) + 1] = g[k + 1] \o ss[(k + 1) + 1]
        BY <3>1, <4>1
      <4>3. f[(k + 1) + 1] = f[k + 1] \o ss[(k + 1) + 1]
        BY <4>1 DEF Joined
      <4> QED
        BY <4>1, <4>2, <4>3
    <3> HIDE DEF M
    <3>4. Nat \subseteq M
      BY <3>2, <3>3, InductionOnNumbers
    <3>5. ASSUME NEW i \in 1 .. n PROVE g[i] = f[i]
      <4>1. i - 1 \in Nat /\ (i - 1) + 1 = i /\ i <= n
        BY <1>1
      <4> QED
        BY <3>4, <4>1 DEF M
    <3> QED
      BY <2>2, <3>5
  <2> DEFINE c == CHOOSE g : Chain(g)
  <2>3. c = e
    <3> HIDE DEF Chain, e
    <3> QED
      BY <2>1, <2>2
  <2>4. FlattenSeq(ss) = c[n]
    BY <1>3 DEF FlattenSeq
  <2>5. n \in 1 .. n
    BY <1>1, <1>3
  <2>6. e[n] = f[n]
    BY <2>5
  <2> HIDE DEF c, e
  <2> QED
    BY <2>3, <2>4, <2>6
<1> QED
  BY <1>2, <1>3

(* And there is one for every sequence of buffers.                         *)
LEMMA JoinedExists ==
  ASSUME NEW S, NEW ss \in Seq(Seq(S))
  PROVE  \E f \in [0 .. Len(ss) -> Seq(S)] : Joined(ss, f)
<1> DEFINE n == Len(ss)
           X == Seq(S)
           h == [i \in Nat |-> [r \in X |-> IF i \in 1 .. n THEN r \o ss[i] ELSE r]]
<1>1. n \in Nat /\ <<>> \in X /\ \A i \in 1 .. n : ss[i] \in X
  OBVIOUS
<1>2. h \in [Nat -> [X -> X]]
  BY <1>1
<1>3. PICK f \in [0 .. n -> X] : Iterates(f, n, <<>>, h)
  <2> HIDE DEF h, X, n
  <2> QED
    BY <1>1, <1>2, PrimitiveRecursion
<1>4. ASSUME NEW i \in 1 .. n PROVE f[i] = f[i - 1] \o ss[i]
  <2>1. i \in Nat /\ f[i - 1] \in X
    <3> HIDE DEF h, X, n
    <3> QED
      BY <1>1, <1>3
  <2> QED
    BY <1>3, <2>1 DEF Iterates
<1> HIDE DEF h
<1> QED
  BY <1>3, <1>4 DEF Joined, Iterates

(* What Of() returns, by the structure of the sequence.                    *)
LEMMA OfEmpty == ASSUME NEW t PROVE Of(t, <<>>) = <<>>
<1> DEFINE f == [i \in 0 .. 0 |-> <<>>]  e == <<>>
<1>1. e \in Seq({}) /\ Len(e) = 0 /\ f \in [0 .. Len(e) -> Seq({})] /\ LinesOf(t, e, f)
  BY DEF LinesOf
<1>2. Of(t, e) = f[Len(e)]
  <2> HIDE DEF e, f
  <2> QED
    BY <1>1, OfIsLast
<1> QED
  BY <1>2

(* A line is added to those of its own thread and to no other's.           *)
LEMMA OfAppend ==
  ASSUME NEW S, NEW t, NEW s \in Seq(S), NEW x \in S
  PROVE  /\ Of(t, s) \in Seq(S)
         /\ Of(t, Append(s, x)) = IF x[1] = t THEN Append(Of(t, s), x) ELSE Of(t, s)
<1> DEFINE r == Append(s, x)  n == Len(s)
<1>1. /\ r \in Seq(S) /\ n \in Nat /\ Len(r) = n + 1 /\ r[n + 1] = x
      /\ \A i \in 1 .. n : r[i] = s[i]
  OBVIOUS
<1>2. PICK g \in [0 .. Len(r) -> Seq(S)] : LinesOf(t, r, g)
  <2> HIDE DEF r
  <2> QED
    BY <1>1, LinesOfExists
<1>3. Of(t, r) = g[n + 1]
  <2> HIDE DEF r
  <2> QED
    BY <1>1, <1>2, OfIsLast
<1> DEFINE f == [i \in 0 .. n |-> g[i]]
<1>4. f \in [0 .. n -> Seq(S)] /\ f[n] = g[n] /\ LinesOf(t, s, f)
  <2> HIDE DEF r
  <2>1. \A i \in 1 .. n : /\ i \in 1 .. Len(r) /\ i \in 0 .. n /\ i - 1 \in 0 .. n
                          /\ f[i] = g[i] /\ f[i - 1] = g[i - 1]
    BY <1>1
  <2>2. f[0] = <<>> /\ f[n] = g[n]
    BY <1>1, <1>2 DEF LinesOf
  <2>3. f \in [0 .. n -> Seq(S)]
    BY <1>1
  <2> QED
    BY <1>1, <1>2, <2>1, <2>2, <2>3 DEF LinesOf
<1>5. Of(t, s) = g[n]
  <2> HIDE DEF f
  <2> QED
    BY <1>4, OfIsLast
<1>6. g[n + 1] = IF x[1] = t THEN Append(g[n], x) ELSE g[n]
  <2>1. n + 1 \in 1 .. Len(r) /\ (n + 1) - 1 = n
    BY <1>1
  <2> HIDE DEF r, n
  <2> QED
    BY <1>1, <1>2, <2>1 DEF LinesOf
<1> QED
  BY <1>1, <1>2, <1>3, <1>5, <1>6

(* The lines of a thread in two sequences are those in the first, then     *)
(* those in the second.                                                    *)
LEMMA OfConcat ==
  ASSUME NEW S, NEW t, NEW r \in Seq(S), NEW s \in Seq(S)
  PROVE  Of(t, r \o s) = Of(t, r) \o Of(t, s)
<1> DEFINE M == {u \in Seq(S) : Of(t, r \o u) = Of(t, r) \o Of(t, u)}
<1>0. \A u \in Seq(S) : Of(t, u) \in Seq(S)
  <2> SUFFICES ASSUME NEW u \in Seq(S) PROVE Of(t, u) \in Seq(S)
    OBVIOUS
  <2>1. CASE S = {}
    <3>1. u = <<>>
      BY <2>1
    <3> QED
      BY <3>1, OfEmpty
  <2>2. CASE S # {}
    BY <2>2, OfAppend
  <2> QED
    BY <2>1, <2>2
<1>1. <<>> \in M
  BY <1>0, OfEmpty
<1>2. ASSUME NEW u \in Seq(S), NEW x \in S, u \in M PROVE Append(u, x) \in M
  <2>1. r \o Append(u, x) = Append(r \o u, x) /\ r \o u \in Seq(S) /\ Append(u, x) \in Seq(S)
    OBVIOUS
  <2>2. Of(t, r \o Append(u, x)) = IF x[1] = t THEN Append(Of(t, r \o u), x) ELSE Of(t, r \o u)
    <3> DEFINE v == r \o u
    <3> HIDE DEF v
    <3>1. v \in Seq(S) => Of(t, Append(v, x)) = IF x[1] = t THEN Append(Of(t, v), x) ELSE Of(t, v)
      BY OfAppend
    <3> QED
      BY <2>1, <3>1 DEF v
  <2>3. Of(t, Append(u, x)) = IF x[1] = t THEN Append(Of(t, u), x) ELSE Of(t, u)
    BY OfAppend
  <2>4. Of(t, r) \o Append(Of(t, u), x) = Append(Of(t, r) \o Of(t, u), x)
    BY <1>0
  <2> QED
    BY <1>2, <2>1, <2>2, <2>3, <2>4
<1> HIDE DEF M
<1>3. Seq(S) \subseteq M
  BY <1>1, <1>2, InductionOnSequences
<1> QED
  BY <1>3 DEF M

(* The lines of one thread are those, and nothing else. *)
LEMMA OfKeeps ==
  ASSUME NEW S, NEW t, NEW s \in Seq(S)
  PROVE  /\ Of(t, s) \in Seq(S)
         /\ ToSet(Of(t, s)) = {x \in ToSet(s) : x[1] = t}
<1> DEFINE M == {u \in Seq(S) : /\ Of(t, u) \in Seq(S)
                                /\ ToSet(Of(t, u)) = {x \in ToSet(u) : x[1] = t}}
<1>1. <<>> \in M
  <2>1. ToSet(<<>>) = {}
    BY DEF ToSet
  <2>2. <<>> \in Seq(S) /\ {x \in {} : x[1] = t} = {} /\ Of(t, <<>>) = <<>>
    BY OfEmpty
  <2> QED
    BY <2>1, <2>2
<1>2. ASSUME NEW u \in Seq(S), NEW x \in S, u \in M PROVE Append(u, x) \in M
  <2>1. \A v \in Seq(S) : Append(v, x) \in Seq(S) /\ ToSet(Append(v, x)) = ToSet(v) \cup {x}
    <3> SUFFICES ASSUME NEW v \in Seq(S) PROVE ToSet(Append(v, x)) = ToSet(v) \cup {x}
      OBVIOUS
    <3>1. /\ Len(v) \in Nat /\ DOMAIN v = 1 .. Len(v)
          /\ DOMAIN Append(v, x) = 1 .. Len(v) + 1 /\ Append(v, x)[Len(v) + 1] = x
          /\ \A i \in 1 .. Len(v) : Append(v, x)[i] = v[i]
      OBVIOUS
    <3> QED
      BY <3>1 DEF ToSet
  <2>2. Of(t, Append(u, x)) = IF x[1] = t THEN Append(Of(t, u), x) ELSE Of(t, u)
    BY OfAppend
  <2>3. /\ Append(u, x) \in Seq(S) /\ ToSet(Append(u, x)) = ToSet(u) \cup {x}
        /\ Of(t, u) \in Seq(S) /\ ToSet(Of(t, u)) = {y \in ToSet(u) : y[1] = t}
        /\ Append(Of(t, u), x) \in Seq(S) /\ ToSet(Append(Of(t, u), x)) = ToSet(Of(t, u)) \cup {x}
    BY <1>2, <2>1
  <2>4. CASE x[1] = t
    BY <2>2, <2>3, <2>4
  <2>5. CASE x[1] # t
    BY <2>2, <2>3, <2>5
  <2> QED
    BY <2>4, <2>5
<1> HIDE DEF M
<1>3. Seq(S) \subseteq M
  BY <1>1, <1>2, InductionOnSequences
<1> QED
  BY <1>3 DEF M

(* What FlattenSeq returns, by the structure of the sequence.              *)
LEMMA FlattenEmpty == FlattenSeq(<<>>) = <<>>
  BY DEF FlattenSeq

(* One more buffer comes behind the others.                                *)
LEMMA FlattenAppend ==
  ASSUME NEW S, NEW ss \in Seq(Seq(S)), NEW s \in Seq(S)
  PROVE  /\ FlattenSeq(ss) \in Seq(S)
         /\ FlattenSeq(Append(ss, s)) = FlattenSeq(ss) \o s
<1> DEFINE r == Append(ss, s)  n == Len(ss)
<1>1. /\ r \in Seq(Seq(S)) /\ n \in Nat /\ Len(r) = n + 1 /\ r[n + 1] = s
      /\ \A i \in 1 .. n : r[i] = ss[i]
  OBVIOUS
<1>2. PICK g \in [0 .. Len(r) -> Seq(S)] : Joined(r, g)
  <2> HIDE DEF r
  <2> QED
    BY <1>1, JoinedExists
<1>3. FlattenSeq(r) = g[n + 1]
  <2> HIDE DEF r
  <2> QED
    BY <1>1, <1>2, FlattenIsLast
<1> DEFINE f == [i \in 0 .. n |-> g[i]]
<1>4. f \in [0 .. n -> Seq(S)] /\ f[n] = g[n] /\ Joined(ss, f)
  <2> HIDE DEF r
  <2>1. \A i \in 1 .. n : /\ i \in 1 .. Len(r) /\ i \in 0 .. n /\ i - 1 \in 0 .. n
                          /\ f[i] = g[i] /\ f[i - 1] = g[i - 1]
    BY <1>1
  <2>2. f[0] = <<>> /\ f[n] = g[n]
    BY <1>1, <1>2 DEF Joined
  <2>3. f \in [0 .. n -> Seq(S)]
    BY <1>1
  <2> QED
    BY <1>1, <1>2, <2>1, <2>2, <2>3 DEF Joined
<1>5. FlattenSeq(ss) = g[n]
  <2> HIDE DEF f
  <2> QED
    BY <1>4, FlattenIsLast
<1>6. g[n + 1] = g[n] \o s
  <2>1. n + 1 \in 1 .. Len(r) /\ (n + 1) - 1 = n
    BY <1>1
  <2> HIDE DEF r, n
  <2> QED
    BY <1>1, <1>2, <2>1 DEF Joined
<1> QED
  BY <1>1, <1>2, <1>3, <1>5, <1>6

(* Joining buffers of lines makes a sequence of lines.                     *)
LEMMA FlattenType == ASSUME NEW S, NEW ss \in Seq(Seq(S)) PROVE FlattenSeq(ss) \in Seq(S)
<1>1. <<>> \in Seq(S)
  OBVIOUS
<1> QED
  BY <1>1, FlattenAppend

(* Two sequences of buffers can be joined one after the other.             *)
LEMMA FlattenConcat ==
  ASSUME NEW S, NEW rr \in Seq(Seq(S)), NEW ss \in Seq(Seq(S))
  PROVE  FlattenSeq(rr \o ss) = FlattenSeq(rr) \o FlattenSeq(ss)
<1> DEFINE X == Seq(S)
           M == {uu \in Seq(X) : FlattenSeq(rr \o uu) = FlattenSeq(rr) \o FlattenSeq(uu)}
<1>1. <<>> \in M
  <2>1. FlattenSeq(rr) \in Seq(S)
    BY FlattenType
  <2>2. FlattenSeq(rr) \o <<>> = FlattenSeq(rr) /\ rr \o <<>> = rr
    BY <2>1, ConcatEmptySeq
  <2>3. <<>> \in Seq(X)
    OBVIOUS
  <2> QED
    BY <2>2, <2>3, FlattenEmpty
<1>2. ASSUME NEW uu \in Seq(X), NEW x \in X, uu \in M PROVE Append(uu, x) \in M
  <2> DEFINE vv == rr \o uu
  <2>1. rr \o Append(uu, x) = Append(vv, x) /\ vv \in Seq(X) /\ Append(uu, x) \in Seq(X)
    OBVIOUS
  <2>2. FlattenSeq(Append(vv, x)) = FlattenSeq(vv) \o x
    <3> HIDE DEF vv
    <3> QED
      BY <2>1, FlattenAppend
  <2>3. FlattenSeq(Append(uu, x)) = FlattenSeq(uu) \o x
    BY FlattenAppend
  <2>4. FlattenSeq(rr) \in Seq(S) /\ FlattenSeq(uu) \in Seq(S)
    BY FlattenType
  <2>5. (FlattenSeq(rr) \o FlattenSeq(uu)) \o x = FlattenSeq(rr) \o (FlattenSeq(uu) \o x)
    BY <2>4, ConcatAssociative, SMTT(30)
  <2> QED
    BY <1>2, <2>1, <2>2, <2>3, <2>5
<1> HIDE DEF M
<1>3. Seq(X) \subseteq M
  <2> HIDE DEF X
  <2> QED
    BY <1>1, <1>2, InductionOnSequences
<1> QED
  BY <1>3 DEF M

(* What is in a concatenation is in one of its parts.                      *)
LEMMA RangeOfConcat ==
  ASSUME NEW S, NEW r \in Seq(S), NEW s \in Seq(S)
  PROVE  ToSet(r \o s) = ToSet(r) \cup ToSet(s)
<1> DEFINE n == Len(r)  k == Len(s)
<1>1. /\ n \in Nat /\ k \in Nat /\ DOMAIN r = 1 .. n /\ DOMAIN s = 1 .. k
      /\ DOMAIN (r \o s) = 1 .. n + k
      /\ \A i \in 1 .. n : (r \o s)[i] = r[i]
      /\ \A i \in 1 .. k : (r \o s)[n + i] = s[i]
  OBVIOUS
<1>2. ASSUME NEW i \in 1 .. n + k PROVE (r \o s)[i] \in ToSet(r) \cup ToSet(s)
  <2>1. CASE i <= n
    BY <1>1, <2>1 DEF ToSet
  <2>2. CASE ~(i <= n)
    <3>1. i - n \in 1 .. k /\ n + (i - n) = i
      BY <1>1, <2>2
    <3>2. (r \o s)[i] = s[i - n]
      BY <1>1, <3>1
    <3> QED
      BY <1>1, <3>1, <3>2 DEF ToSet
  <2> QED
    BY <2>1, <2>2
<1>3. ASSUME NEW i \in 1 .. n PROVE r[i] \in ToSet(r \o s)
  BY <1>1 DEF ToSet
<1>4. ASSUME NEW i \in 1 .. k PROVE s[i] \in ToSet(r \o s)
  <2>1. n + i \in 1 .. n + k /\ (r \o s)[n + i] = s[i]
    BY <1>1
  <2> QED
    BY <1>1, <2>1 DEF ToSet
<1> QED
  BY <1>1, <1>2, <1>3, <1>4 DEF ToSet

(* What is in a sequence of buffers is in one of the buffers.              *)
LEMMA FlattenKeeps ==
  ASSUME NEW S, NEW ss \in Seq(Seq(S))
  PROVE  ToSet(FlattenSeq(ss)) = UNION {ToSet(ss[i]) : i \in DOMAIN ss}
<1> DEFINE X == Seq(S)
           InAll(uu) == UNION {ToSet(uu[i]) : i \in DOMAIN uu}
           M == {uu \in Seq(X) : ToSet(FlattenSeq(uu)) = InAll(uu)}
<1>1. <<>> \in M
  <2>1. ToSet(<<>>) = {}
    BY DEF ToSet
  <2>2. InAll(<<>>) = {}
    OBVIOUS
  <2> QED
    BY <2>1, <2>2, FlattenEmpty
<1>2. ASSUME NEW uu \in Seq(X), NEW x \in X, uu \in M PROVE Append(uu, x) \in M
  <2> DEFINE n == Len(uu)  vv == Append(uu, x)
  <2>1. /\ n \in Nat /\ DOMAIN uu = 1 .. n /\ vv \in Seq(X) /\ DOMAIN vv = 1 .. n + 1
        /\ \A i \in 1 .. n : vv[i] = uu[i]
        /\ vv[n + 1] = x
    OBVIOUS
  <2>2. InAll(vv) = InAll(uu) \cup ToSet(x)
    <3> HIDE DEF n, vv
    <3>1. 1 .. n + 1 = 1 .. n \cup {n + 1}
      BY <2>1
    <3> QED
      BY <2>1, <3>1
  <2>3. ToSet(FlattenSeq(vv)) = ToSet(FlattenSeq(uu)) \cup ToSet(x)
    <3>1. FlattenSeq(vv) = FlattenSeq(uu) \o x
      BY FlattenAppend
    <3>2. FlattenSeq(uu) \in Seq(S)
      BY FlattenType
    <3> QED
      BY <3>1, <3>2, RangeOfConcat
  <2> QED
    BY <1>2, <2>1, <2>2, <2>3
<1> HIDE DEF M
<1>3. Seq(X) \subseteq M
  <2> HIDE DEF X
  <2> QED
    BY <1>1, <1>2, InductionOnSequences
<1> QED
  BY <1>3 DEF M

(* Empty buffers join to nothing.                                          *)
LEMMA FlattenEmpties ==
  ASSUME NEW S, NEW ss \in Seq(Seq(S)), \A i \in DOMAIN ss : ss[i] = <<>>
  PROVE  FlattenSeq(ss) = <<>>
<1>1. ToSet(FlattenSeq(ss)) = {}
  <2>1. ToSet(<<>>) = {}
    BY DEF ToSet
  <2> QED
    BY <2>1, FlattenKeeps
<1>2. FlattenSeq(ss) \in Seq(S)
  BY FlattenType
<1> DEFINE f == FlattenSeq(ss)
<1> HIDE DEF f
<1>3. ASSUME f \in Seq(S), ToSet(f) = {} PROVE f = <<>>
  <2>1. DOMAIN f = {}
    BY <1>3 DEF ToSet
  <2>2. Len(f) \in Nat /\ DOMAIN f = 1 .. Len(f)
    BY <1>3
  <2>3. Len(f) = 0
    BY <2>1, <2>2
  <2> QED
    BY <1>3, <2>3, EmptySeq
<1> QED
  BY <1>1, <1>2, <1>3 DEF f

-----------------------------------------------------------------------------
(* The logger and its Thread.                                              *)

Th == INSTANCE ThreadProofs WITH Objects <- {thread_}

-----------------------------------------------------------------------------
(* Every step of the logger is one of Thread, or leaves the object alone.  *)
LEMMA StepOfThread == [Next]_vars => [T!Next]_(T!vars)
<1> SUFFICES ASSUME [Next]_vars PROVE [T!Next]_(T!vars)
  OBVIOUS
<1> USE DEF threadVars, T!vars
<1>1. CASE NewThread
  BY <1>1 DEF NewThread, T!Next, T!Run
<1>2. CASE InCall
  <2>1. CASE StartThread
    BY <2>1 DEF StartThread, T!Next
  <2>2. CASE Join \/ JoinReturns
    BY <2>2 DEF Join, JoinReturns, T!Next
  <2>3. CASE StartReturns \/ NotifyWriter
    BY <2>3 DEF StartReturns, NotifyWriter
  <2> QED
    BY <1>2, <2>1, <2>2, <2>3 DEF InCall
<1>3. CASE SpuriousWakeup
  BY <1>3 DEF SpuriousWakeup, T!Next
<1>4. CASE Destroy
  BY <1>4 DEF Destroy, T!Next
<1>5. CASE Start \/ Stop \/ UNCHANGED vars
  BY <1>5 DEF Start, Stop, vars
<1>6. CASE Writer /\ ~NewThread
  BY <1>6 DEF Writer, Begin, TestRunning, WaitIfEmpty, Wake, Collect, Swap, Write, Recycle, Flush
<1>7. CASE \E t \in Threads : AppendFits(t) \/ AppendFull(t) \/ Refill(t)
  BY <1>7 DEF AppendFits, AppendFull, Refill
<1> QED
  BY <1>1, <1>2, <1>3, <1>4, <1>5, <1>6, <1>7 DEF Next

(* Thread's specification, and the one its proofs are about, are the same. *)
LEMMA SameStep == [T!Next]_(T!vars) => [Th!Next]_(Th!vars)
<1> SUFFICES ASSUME NEW o \in {thread_},
                    \/ T!Create(o) \/ T!CreateFails(o) \/ T!Await(o) \/ T!SpuriousWakeup(o)
                    \/ T!Join(o) \/ T!JoinReturns(o) \/ T!Destroy(o) \/ T!Run(o)
             PROVE  Th!Next
  BY DEF T!Next, T!vars, Th!vars
<1> USE DEF T!Set, Th!Set, T!UserAt, Th!UserAt, T!ThreadAt, Th!ThreadAt, T!flags, Th!flags
<1>1. T!Create(o) => Th!Create(o)
  BY DEF T!Create, Th!Create, T!FirstStep, Th!FirstStep
<1>2. T!CreateFails(o) => Th!CreateFails(o)
  BY DEF T!CreateFails, Th!CreateFails
<1>3. T!Await(o) => Th!Await(o)
  BY DEF T!Await, Th!Await, T!AwaitSleeps, Th!AwaitSleeps, T!AwaitPasses, Th!AwaitPasses
<1>4. T!SpuriousWakeup(o) => Th!SpuriousWakeup(o)
  BY DEF T!SpuriousWakeup, Th!SpuriousWakeup
<1>5. T!Join(o) => Th!Join(o)
  BY DEF T!Join, Th!Join
<1>6. T!JoinReturns(o) => Th!JoinReturns(o)
  BY DEF T!JoinReturns, Th!JoinReturns, T!Ended, Th!Ended
<1>7. T!Destroy(o) => Th!Destroy(o)
  BY DEF T!Destroy, Th!Destroy
<1>8. T!Run(o) => Th!Run(o)
  <2>1. T!SetTid(o) => Th!SetTid(o)
    BY DEF T!SetTid, Th!SetTid
  <2>2. T!CountDown(o) => Th!CountDown(o)
    BY DEF T!CountDown, Th!CountDown, T!Notify, Th!Notify
  <2>3. T!Func(o) => Th!Func(o)
    BY DEF T!Func, Th!Func
  <2>4. T!Finish(o) => Th!Finish(o)
    BY DEF T!Finish, Th!Finish
  <2> QED
    BY <2>1, <2>2, <2>3, <2>4 DEF T!Run, Th!Run
<1> QED
  BY <1>1, <1>2, <1>3, <1>4, <1>5, <1>6, <1>7, <1>8 DEF Th!Next

(* The logger starts as its Thread does, and so uses it as specified.      *)
LEMMA ThreadInit == Init => Th!Init
  BY DEF Init, T!Init, Th!Init

(* So everything proved of Thread holds of the logger's.                   *)
LEMMA UsesThread == Spec => Th!Spec
  BY ThreadInit, StepOfThread, SameStep, PTL DEF Spec, Th!Spec

(* In particular its inductive invariant.                                  *)
LEMMA ThreadInvariant == Spec => []Th!IInv
  BY UsesThread, Th!Invariant, PTL

-----------------------------------------------------------------------------
(* How far owner, writer and Thread may be from each other: threadFunc()   *)
(* runs between the handshake and the end of the thread, latch_ tells the  *)
(* owner that it has begun, and the owner goes only past a joined thread.  *)
Owner(pc, ofUser, ofThread) ==
  opc \in pc => user[thread_] \in ofUser /\ thread[thread_] \in ofThread
AnyThread == {"none", "tid", "count", "func", "delete", "ended"}
Life ==
  /\ ready = (IF wpc = "begin" THEN 1 ELSE 0)
  /\ wpc # "begin" => thread[thread_] \in {"func", "delete", "ended"}
  /\ thread[thread_] \in {"delete", "ended"} => wpc = "exited"
  /\ Owner({"new"}, {"new"}, {"none"})
  /\ Owner({"starting"}, {"new", "await", "returned"}, AnyThread)
  /\ Owner({"started", "notify"}, {"returned"}, AnyThread)
  /\ Owner({"join"}, {"returned", "joining"}, AnyThread)
  /\ Owner({"stopped"}, {"joined"}, {"ended"})
  /\ Owner({"gone"}, {"gone"}, {"none", "ended"})
  /\ opc \in {"new", "starting", "started", "notify", "join", "stopped", "gone"}
  /\ opc \in {"starting", "started"} => running
  /\ opc \in {"started", "notify", "join", "stopped"} => ready = 0
  /\ wpc \notin {"write", "recycle"} => back = <<>>

(* Owner, writer and Thread agree from the start, and each step keeps it   *)
(* so.                                                                     *)
LEMMA LifeInit == Init => Life
  BY DEF Init, T!Init, Life, Owner

(* Each step keeps them in agreement.                                      *)
LEMMA LifeStep == Th!IInv /\ Life /\ [Next]_vars => Life'
<1> SUFFICES ASSUME Th!IInv, Life, [Next]_vars PROVE Life'
  OBVIOUS
<1> USE DEF Life, Owner, AnyThread, frontVars, writerVars, ownerVars, threadVars,
            WriterAt, OwnerAt, Notified, T!Set, T!UserAt, T!ThreadAt, T!flags,
            Th!IInv, Th!TypeOK, Th!Handshake, Th!ThreadExists, Th!Reported
<1>1. CASE UNCHANGED vars
  BY <1>1 DEF vars
<1>2. ASSUME NEW t \in Threads, AppendFits(t) \/ AppendFull(t) \/ Refill(t) PROVE Life'
  BY <1>2 DEF AppendFits, AppendFull, Refill
<1>3. CASE Writer
  <2>1. CASE NewThread
    BY <2>1 DEF NewThread, T!SetTid, T!CountDown, T!Func, T!Finish
  <2>2. CASE Begin
    BY <2>2 DEF Begin
  <2>3. CASE TestRunning \/ WaitIfEmpty \/ Wake \/ Collect
    BY <2>3 DEF TestRunning, WaitIfEmpty, Wake, Collect
  <2>4. CASE Swap \/ Write \/ Recycle \/ Flush
    BY <2>4 DEF Swap, Write, Recycle, Flush
  <2> QED
    BY <1>3, <2>1, <2>2, <2>3, <2>4 DEF Writer
<1>4. CASE InCall
  <2>1. CASE StartThread
    BY <2>1 DEF StartThread, T!Create, T!FirstStep, T!CreateFails, T!Await, T!AwaitSleeps, T!AwaitPasses
  <2>2. CASE StartReturns \/ NotifyWriter
    BY <2>2 DEF StartReturns, NotifyWriter
  <2>3. CASE Join \/ JoinReturns
    BY <2>3 DEF Join, JoinReturns, T!Join, T!JoinReturns, T!Ended
  <2> QED
    BY <1>4, <2>1, <2>2, <2>3 DEF InCall
<1>5. CASE Start \/ SpuriousWakeup \/ Stop
  BY <1>5 DEF Start, SetRunning, SpuriousWakeup, T!SpuriousWakeup, Stop
<1>6. CASE Destroy
  BY <1>6 DEF Destroy, T!Destroy
<1> QED
  BY <1>1, <1>2, <1>3, <1>4, <1>5, <1>6 DEF Next

(* So they always agree.                                                   *)
LEMMA LifeInvariant == Spec => [](Th!IInv /\ Life)
  BY ThreadInvariant, LifeInit, LifeStep, PTL DEF Spec

(* The assertion at the end of Thread::start() (Thread.cpp:129) never      *)
(* fails for the logger's thread, whatever the logger does.                *)
THEOREM TidIsKnown == Spec => []StartedHasTid
<1>1. Th!IInv => StartedHasTid
  BY DEF Th!IInv, Th!Handshake, Th!ThreadExists, Th!Reported, StartedHasTid, T!StartedHasTid
<1> QED
  BY ThreadInvariant, <1>1, PTL

(* The assertions of threadFunc() (AsyncLogging.cpp:105, 111) never fail.  *)
THEOREM WriterAssertionsHold == Spec => []WriterAsserts
<1>1. Th!IInv /\ Life => WriterAsserts
  BY DEF Life, Owner, WriterAsserts
<1> QED
  BY LifeInvariant, <1>1, PTL

(* Neither the handshake (Thread.cpp:69-72) nor threadFunc()               *)
(* (AsyncLogging.cpp:74-80) uses a logger that has been destroyed.         *)
THEOREM LoggerOutlivesWriter == Spec => []NoWriteAfterDestruction
<1>1. Th!IInv /\ Life => NoWriteAfterDestruction
  BY DEF Life, Owner, Th!IInv, Th!TypeOK, Th!Handshake, Th!ThreadExists, Th!Reported,
         NoWriteAfterDestruction, T!NoWriteAfterDestruction
<1> QED
  BY LifeInvariant, <1>1, PTL

-----------------------------------------------------------------------------
(* Buffers are sequences of lines: what append() puts in place of a buffer *)
(* that is away is one.                                                    *)
Lists == Seq(Threads \X Nat)
Buffers ==
  /\ node \in [Buckets -> Lists \cup {NoBuffer}]
  /\ lock \in [Buckets -> Threads \cup {Free}]
  /\ appended \in [Threads -> Nat]
  /\ BufferInPlace

(* The buckets start with a buffer and a free mutex each.                  *)
LEMMA BuffersInit == Init => Buffers
<1>1. <<>> \in Lists /\ NoBuffer \notin Lists
  BY LoggingAssumption DEF Lists
<1>2. Init => /\ node = [b \in Buckets |-> <<>>]
              /\ lock = [b \in Buckets |-> Free]
              /\ appended = [t \in Threads |-> 0]
  BY DEF Init
<1> QED
  BY <1>1, <1>2 DEF Buffers, BufferInPlace

(* Each step keeps buffer and mutex in agreement.                          *)
LEMMA BuffersStep == Buffers /\ [Next]_vars => Buffers'
<1> SUFFICES ASSUME Buffers, [Next]_vars PROVE Buffers'
  OBVIOUS
<1> USE DEF Buffers, BufferInPlace, frontVars
<1>1. CASE UNCHANGED vars
  BY <1>1 DEF vars
<1>2. ASSUME NEW t \in Threads, AppendFits(t) \/ AppendFull(t) \/ Refill(t) PROVE Buffers'
  <2> DEFINE b == BucketOf[t]
  <2>1. b \in Buckets /\ NoBuffer \notin Lists /\ t # Free
    BY LoggingAssumption DEF Lists
  <2>2. LineOf(t) \in Threads \X Nat
    BY DEF LineOf
  <2>3. <<LineOf(t)>> \in Lists /\ \A s \in Lists : Append(s, LineOf(t)) \in Lists
    BY <2>2 DEF Lists
  <2>4. CASE AppendFits(t)
    <3>1. node[b] \in Lists /\ lock[b] = Free
      BY <2>1, <2>4 DEF AppendFits, MayAppend
    <3>2. node' = [node EXCEPT ![b] = Append(node[b], LineOf(t))]
      BY <2>1, <2>4, <3>1 DEF AppendFits, Appended
    <3>3. lock' = lock /\ appended' \in [Threads -> Nat]
      BY <2>4 DEF AppendFits, Appended
    <3>4. \A s \in Lists : node' = [node EXCEPT ![b] = s] => Buffers'
      BY <2>1, <3>1, <3>3
    <3> QED
      BY <2>3, <3>1, <3>2, <3>4
  <2>5. CASE AppendFull(t)
    BY <2>1, <2>5 DEF AppendFull, MayAppend, Lock
  <2>6. CASE Refill(t)
    <3>1. node[b] = NoBuffer
      BY <2>1, <2>6 DEF Refill
    <3>2. node' = [node EXCEPT ![b] = <<LineOf(t)>>]
      BY <2>1, <2>6, <3>1 DEF Refill, Appended
    <3> QED
      BY <2>1, <2>3, <2>6, <3>1, <3>2 DEF Refill, Appended
  <2> QED
    BY <1>2, <2>4, <2>5, <2>6
<1>3. CASE Collect
  <2>1. <<>> \in Lists /\ NoBuffer \notin Lists
    BY LoggingAssumption DEF Lists
  <2>2. CASE next \in Buckets /\ node[next] # <<>>
    <3>1. node' = [node EXCEPT ![next] = <<>>] /\ lock' = lock /\ appended' = appended
      BY <1>3, <2>2 DEF Collect
    <3>2. node[next] # NoBuffer
      BY <1>3, <2>2 DEF Collect
    <3> QED
      BY <2>1, <3>1, <3>2
  <2>3. CASE next \notin Buckets \/ node[next] = <<>>
    <3>1. node' = node /\ lock' = lock /\ appended' = appended
      BY <1>3, <2>3 DEF Collect
    <3> QED
      BY <3>1
  <2> QED
    BY <2>2, <2>3
<1>4. CASE Writer /\ ~Collect
  BY <1>4 DEF Writer, NewThread, Begin, TestRunning, WaitIfEmpty, Wake, Swap, Write, Recycle, Flush
<1>5. CASE InCall \/ Start \/ SpuriousWakeup \/ Stop \/ Destroy
  BY <1>5 DEF InCall, StartThread, StartReturns, NotifyWriter, Join, JoinReturns,
              Start, SpuriousWakeup, Stop, Destroy
<1> QED
  BY <1>1, <1>2, <1>3, <1>4, <1>5 DEF Next

(* A bucket has no buffer exactly while a thread holds its mutex: nobody   *)
(* else dereferences a null node.buffer_ (AsyncLogging.cpp:82-101).        *)
THEOREM NoNullBuffer == Spec => []BufferInPlace
<1>1. Buffers => BufferInPlace
  BY DEF Buffers
<1> QED
  BY BuffersInit, BuffersStep, <1>1, PTL DEF Spec

-----------------------------------------------------------------------------
(* Types.  What has been appended stays so.                                *)
Typed == Th!IInv /\ Life /\ Buffers /\ TypeOK

(* Lines that exist go on existing.                                        *)
LEMMA LinesStay ==
  ASSUME Buffers, [Next]_vars
  PROVE  /\ Lines \subseteq Lines'
         /\ Seq(Lines) \subseteq Seq(Lines') /\ Seq(Seq(Lines)) \subseteq Seq(Seq(Lines'))
<1>1. \A t \in Threads : appended[t] \in Nat /\ appended'[t] \in Nat /\ appended[t] <= appended'[t]
  <2> USE DEF Buffers, frontVars
  <2>1. CASE \E t \in Threads : AppendFits(t) \/ AppendFull(t) \/ Refill(t)
    BY <2>1 DEF AppendFits, AppendFull, Refill, Appended
  <2>2. CASE Writer
    BY <2>2 DEF Writer, NewThread, Begin, TestRunning, WaitIfEmpty, Wake, Collect, Swap, Write,
                Recycle, Flush
  <2>3. CASE InCall \/ Start \/ SpuriousWakeup \/ Stop \/ Destroy \/ UNCHANGED vars
    BY <2>3 DEF InCall, StartThread, StartReturns, NotifyWriter, Join, JoinReturns,
                Start, SpuriousWakeup, Stop, Destroy, vars
  <2> QED
    BY <2>1, <2>2, <2>3 DEF Next
<1>2. Lines \subseteq Lines'
  BY <1>1 DEF Lines
<1>3. \A X, Y : X \subseteq Y => Seq(X) \subseteq Seq(Y)
  BY SeqMonotonic
<1> QED
  BY <1>2, <1>3

(* The first state has its types.                                          *)
LEMMA TypeInit == Init => TypeOK
<1> SUFFICES ASSUME Init PROVE TypeOK
  OBVIOUS
<1> USE LoggingAssumption DEF Init
<1>1. \A b \in Buckets : /\ node[b] \in Seq(Lines) /\ Len(node[b]) < BufferSize
                         /\ lock[b] \in {Free} \cup {t \in Threads : BucketOf[t] = b}
  OBVIOUS
<1>2. front \in Seq(Seq(Lines)) /\ back \in Seq(Seq(Lines)) /\ file \in Seq(Lines \cup ({"dropped"} \X Nat))
  OBVIOUS
<1>3. T!TypeOK
  BY DEF T!TypeOK, T!Init
<1>4. pool \in 0 .. MaxPool /\ next \in 0 .. NumBuckets
  OBVIOUS
<1> QED
  BY <1>1, <1>2, <1>3, <1>4 DEF TypeOK

(* The variables that steps change, one after the other.                   *)
BucketType(b) ==
  /\ node[b] = NoBuffer \/ (node[b] \in Seq(Lines) /\ Len(node[b]) < BufferSize)
  /\ lock[b] \in {Free} \cup {t \in Threads : BucketOf[t] = b}

(* A bucket that a step leaves alone keeps its type.                       *)
LEMMA BucketsKept ==
  ASSUME Buffers, TypeOK, [Next]_vars, NEW b \in Buckets,
         node'[b] = node[b] /\ lock'[b] = lock[b]
  PROVE  BucketType(b)'
BY LinesStay DEF BucketType, TypeOK

(* append(): the bucket, the front buffers and the pool keep their types   *)
(* (AsyncLogging.cpp:82-101).                                              *)
LEMMA AppendTypes ==
  ASSUME Typed, [Next]_vars, NEW t \in Threads, AppendFits(t) \/ AppendFull(t) \/ Refill(t)
  PROVE  /\ \A b \in Buckets : BucketType(b)'
         /\ front' \in Seq(Seq(Lines')) /\ pool' \in 0 .. MaxPool
         /\ appended' \in [Threads -> Nat]
<1> DEFINE c == BucketOf[t]
<1> USE DEF Typed, Buffers, BufferInPlace
<1>1. c \in Buckets /\ NoBuffer \notin Lists /\ t # Free /\ 1 < BufferSize
  BY LoggingAssumption DEF Lists
<1>2. appended \in [Threads -> Nat] /\ pool \in 0 .. MaxPool /\ front \in Seq(Seq(Lines))
  BY DEF TypeOK
<1>3. front \in Seq(Seq(Lines')) /\ Seq(Lines) \subseteq Seq(Lines') /\ Lines \subseteq Lines'
  BY <1>2, LinesStay
<1>4. \A b \in Buckets \ {c} : node'[b] = node[b] /\ lock'[b] = lock[b]
  BY DEF AppendFits, AppendFull, Refill, Appended, Lock
<1>5. \A b \in Buckets \ {c} : BucketType(b)'
  BY <1>4, BucketsKept
<1>6. node[c] = NoBuffer \/ (node[c] \in Seq(Lines) /\ Len(node[c]) < BufferSize)
  BY <1>1 DEF TypeOK
<1>7. CASE AppendFits(t) \/ Refill(t)
  <2>1. appended' = [appended EXCEPT ![t] = @ + 1]
    BY <1>7 DEF AppendFits, Refill, Appended
  <2>2. LineOf(t) \in Lines'
    BY <1>2, <2>1 DEF LineOf, Lines
  <2>3. node'[c] \in Seq(Lines') /\ Len(node'[c]) < BufferSize
    <3>1. node'[c] = IF node[c] = NoBuffer THEN <<LineOf(t)>> ELSE Append(node[c], LineOf(t))
      BY <1>1, <1>7 DEF AppendFits, Refill, Appended
    <3>2. CASE node[c] = NoBuffer
      BY <1>1, <2>2, <3>1, <3>2
    <3>3. CASE node[c] # NoBuffer
      <4>1. AppendFits(t) /\ Len(node[c]) + 1 < BufferSize
        BY <1>1, <1>7, <3>3 DEF AppendFits, Refill, Fits
      <4>2. node[c] \in Seq(Lines')
        BY <1>3, <1>6, <3>3
      <4> QED
        BY <2>2, <3>1, <3>3, <4>1, <4>2
    <3> QED
      BY <3>2, <3>3
  <2>4. lock'[c] = Free
    BY <1>1, <1>7 DEF AppendFits, MayAppend, Refill
  <2>5. BucketType(c)'
    BY <2>3, <2>4 DEF BucketType
  <2>6. front' = front /\ pool' \in 0 .. MaxPool
    BY <1>2, <1>7, LoggingAssumption DEF AppendFits, Refill, TakeFromPool
  <2> QED
    BY <1>2, <1>3, <1>5, <2>1, <2>5, <2>6
<1>8. CASE AppendFull(t)
  <2>1. node[c] \in Seq(Lines) /\ node'[c] = NoBuffer /\ lock'[c] = t /\ pool' = pool /\ appended' = appended
    BY <1>1, <1>6, <1>8 DEF AppendFull, MayAppend, Lock
  <2>2. front' \in Seq(Seq(Lines'))
    <3>1. front' = Append(front, node[c]) /\ node[c] \in Seq(Lines')
      BY <1>3, <1>8, <2>1 DEF AppendFull, PushFront
    <3> QED
      BY <1>3, <3>1
  <2>3. BucketType(c)'
    BY <2>1 DEF BucketType
  <2> QED
    BY <1>2, <1>5, <2>1, <2>2, <2>3
<1> QED
  BY <1>7, <1>8

-----------------------------------------------------------------------------
(* What TypeOK says of the writer's variables and of the front buffers,   *)
(* which the two lemmas below keep, step by step.                          *)
WriterStates == {"begin", "test", "decide", "asleep", "collect", "write", "recycle", "exited"}
Output == Lines \cup ({"dropped"} \X Nat)
Rounds ==
  /\ front \in Seq(Seq(Lines)) /\ back \in Seq(Seq(Lines)) /\ file \in Seq(Output)
  /\ pool \in 0 .. MaxPool /\ next \in 0 .. NumBuckets /\ wpc \in WriterStates
  /\ appended \in [Threads -> Nat] /\ seen \in [Threads -> Nat]

(* What a step leaves alone keeps its type.                                *)
LEMMA RoundsStay ==
  ASSUME Buffers, Rounds, [Next]_vars
  PROVE  /\ front \in Seq(Seq(Lines')) /\ back \in Seq(Seq(Lines')) /\ file \in Seq(Output')
         /\ Seq(Output) \subseteq Seq(Output') /\ Output \subseteq Output'
<1>1. Output \subseteq Output'
  BY LinesStay DEF Output
<1>2. Seq(Output) \subseteq Seq(Output')
  BY <1>1, SeqMonotonic
<1> QED
  BY <1>1, <1>2, LinesStay DEF Rounds

(* The writer's own variables keep their types through its round.          *)
LEMMA RoundsOfWriter ==
  ASSUME Buffers, TypeOK, Rounds, [Next]_vars, Writer
  PROVE  Rounds'
<1>1. NewThread \/ Begin \/ TestRunning \/ WaitIfEmpty \/ Wake \/ Flush
        => Rounds'
  <2> USE RoundsStay DEF frontVars, writerVars, WriterAt, WriterStates, FirstBucket, Rounds
  <2>1. CASE NewThread
    BY <2>1 DEF NewThread
  <2>2. CASE Begin \/ WaitIfEmpty \/ Wake \/ Flush
    BY <2>2 DEF Begin, WaitIfEmpty, Wake, Flush
  <2>3. CASE TestRunning
    BY <2>3, LoggingAssumption, SMTT(30) DEF TestRunning
  <2> QED
    BY <2>1, <2>2, <2>3
<1>2. CASE Collect
  <2>1. /\ next \in Buckets /\ next' = next + 1
        /\ UNCHANGED <<appended, back, wpc, file, seen>>
    BY <1>2, LoggingAssumption DEF Collect, Rounds, Buckets
  <2>2. next' \in 0 .. NumBuckets
    BY <2>1, LoggingAssumption DEF Buckets
  <2>3. front' \in Seq(Seq(Lines')) /\ pool' \in 0 .. MaxPool
    <3>1. CASE node[next] # <<>>
      <4>1. node[next] \in Seq(Lines)
        BY <1>2, <2>1 DEF Collect, Buffers, BufferInPlace, TypeOK
      <4>2. node[next] \in Seq(Lines') /\ front \in Seq(Seq(Lines'))
        BY <4>1, LinesStay, RoundsStay
      <4>3. front' = Append(front, node[next]) /\ pool' = IF pool > 0 THEN pool - 1 ELSE 0
        BY <1>2, <3>1 DEF Collect, PushFront, TakeFromPool
      <4> QED
        BY <4>2, <4>3, LoggingAssumption DEF Rounds
    <3>2. CASE node[next] = <<>>
      BY <1>2, <3>2, RoundsStay DEF Collect, Rounds
    <3> QED
      BY <3>1, <3>2
  <2> QED
    BY <2>1, <2>2, <2>3, RoundsStay DEF Rounds
<1>3. CASE Swap
  <2>1. /\ wpc' = "write" /\ front' = <<>>
        /\ UNCHANGED <<appended, pool, next, seen>>
    BY <1>3 DEF Swap, WriterAt, frontVars
  <2>2. front' \in Seq(Seq(Lines'))
    BY <2>1
  <2>3. back' \in Seq(Seq(Lines')) /\ file' \in Seq(Output')
    <3>1. Kept \in Nat /\ DropLimit \in Nat /\ Kept <= DropLimit
      BY LoggingAssumption
    <3>2. CASE Len(front) > DropLimit
      <4>1. back' = SubSeq(front, 1, Kept) /\ file' = Append(file, Notice(Excess))
        BY <1>3, <3>2 DEF Swap
      <4>2. front \in Seq(Seq(Lines')) /\ file \in Seq(Output') /\ Len(front) \in Nat
        BY RoundsStay
      <4>3. Notice(Excess) \in Output'
        <5>1. Excess \in Nat
          BY <3>1, <3>2, <4>2 DEF Excess
        <5> QED
          BY <5>1 DEF Output, Notice
      <4>4. back' \in Seq(Seq(Lines'))
        <5> DEFINE X == Seq(Lines')
        <5>1. front \in Seq(X) /\ back' = SubSeq(front, 1, Kept)
          BY <4>1, <4>2
        <5> HIDE DEF X
        <5>2. back' \in Seq(X)
          BY <3>1, <3>2, <5>1
        <5> QED
          BY <5>2 DEF X
      <4> QED
        BY <4>1, <4>2, <4>3, <4>4
    <3>3. CASE ~(Len(front) > DropLimit)
      BY <1>3, <3>3, RoundsStay DEF Swap
    <3> QED
      BY <3>2, <3>3
  <2> QED
    BY <2>1, <2>2, <2>3 DEF Rounds, WriterStates
<1>4. CASE Write
  <2>1. /\ wpc' = "recycle" /\ UNCHANGED <<front, appended, pool, next, seen>>
        /\ file' = file \o FlattenSeq(back) /\ back' = [i \in DOMAIN back |-> <<>>]
    BY <1>4 DEF Write, WriterAt, frontVars
  <2>2. FlattenSeq(back) \in Seq(Lines')
    BY RoundsStay, FlattenType
  <2>3. FlattenSeq(back) \in Seq(Output')
    <3>1. Lines' \subseteq Output'
      BY DEF Output
    <3> QED
      BY <2>2, <3>1, SeqMonotonic
  <2>4. file' \in Seq(Output')
    BY <2>1, <2>3, RoundsStay
  <2>5. back' \in Seq(Seq(Lines'))
    <3>1. <<>> \in Seq(Lines') /\ Len(back) \in Nat /\ DOMAIN back = 1 .. Len(back)
      BY DEF Rounds
    <3> DEFINE X == Seq(Lines')
    <3> HIDE DEF X
    <3>2. back' \in [1 .. Len(back) -> X]
      BY <2>1, <3>1 DEF X
    <3>3. back' \in Seq(X)
      BY <3>1, <3>2
    <3> QED
      BY <3>3 DEF X
  <2> QED
    BY <2>1, <2>4, <2>5, RoundsStay DEF Rounds, WriterStates
<1>5. CASE Recycle
  <2>1. /\ back # <<>> /\ back' = SubSeq(back, 1, Len(back) - 1)
        /\ UNCHANGED <<front, appended, wpc, next, file, seen>>
    BY <1>5 DEF Recycle, frontVars
  <2>2. back' \in Seq(Seq(Lines'))
    <3> DEFINE X == Seq(Lines')
    <3>1. back \in Seq(X)
      BY RoundsStay
    <3> HIDE DEF X
    <3>2. back' \in Seq(X)
      BY <2>1, <3>1
    <3> QED
      BY <3>2 DEF X
  <2>3. pool' \in 0 .. MaxPool
    BY <1>5, LoggingAssumption DEF Recycle, PoolHasRoom, Rounds
  <2> QED
    BY <2>1, <2>2, <2>3, RoundsStay DEF Rounds
<1> QED
  BY <1>1, <1>2, <1>3, <1>4, <1>5 DEF Writer

(* And through what the owner and the Thread do.                           *)
LEMMA RoundsOfOthers ==
  ASSUME Buffers, Rounds, [Next]_vars,
         UNCHANGED vars \/ InCall \/ Start \/ SpuriousWakeup \/ Stop \/ Destroy
  PROVE  Rounds'
<1> USE RoundsStay DEF frontVars, writerVars, WriterStates, Rounds
<1>1. CASE UNCHANGED vars \/ Start \/ SpuriousWakeup \/ Stop \/ Destroy
  BY <1>1 DEF vars, Start, SpuriousWakeup, Stop, Destroy
<1>2. CASE InCall
  BY <1>2 DEF InCall, StartThread, StartReturns, NotifyWriter, Notified, Join, JoinReturns
<1> QED
  BY <1>1, <1>2

(* The buckets keep their types when nobody appends.                       *)
LEMMA BucketsOfOthers ==
  ASSUME Buffers, TypeOK, [Next]_vars, NEW b \in Buckets,
         \/ UNCHANGED vars \/ InCall \/ Start \/ SpuriousWakeup \/ Stop \/ Destroy
         \/ Writer
  PROVE  BucketType(b)'
<1>1. CASE Writer /\ ~Collect
  <2>1. node' = node /\ lock' = lock
    BY <1>1 DEF Writer, NewThread, Begin, TestRunning, WaitIfEmpty, Wake, Swap, Write, Recycle,
                Flush, frontVars
  <2> QED
    BY <2>1, BucketsKept
<1>2. CASE Collect
  <2>1. lock' = lock /\ (node' = node \/ node' = [node EXCEPT ![next] = <<>>])
    BY <1>2 DEF Collect
  <2>2. CASE node'[b] = node[b]
    BY <2>1, <2>2, BucketsKept
  <2>3. CASE node'[b] # node[b]
    <3>1. node'[b] = <<>>
      BY <2>1, <2>3 DEF Buffers
    <3> QED
      BY <2>1, <3>1, LoggingAssumption DEF BucketType, TypeOK
  <2> QED
    BY <2>2, <2>3
<1>3. CASE UNCHANGED vars \/ InCall \/ Start \/ SpuriousWakeup \/ Stop \/ Destroy
  <2>1. node' = node /\ lock' = lock
    BY <1>3 DEF vars, InCall, StartThread, StartReturns, NotifyWriter, Join, JoinReturns,
                Start, SpuriousWakeup, Stop, Destroy, frontVars
  <2> QED
    BY <2>1, BucketsKept
<1> QED
  BY <1>1, <1>2, <1>3

(* running_ stays a Boolean.                                               *)
LEMMA RunningBool == running \in BOOLEAN /\ [Next]_vars => running' \in BOOLEAN
<1> SUFFICES ASSUME running \in BOOLEAN, [Next]_vars PROVE running' \in BOOLEAN
  OBVIOUS
<1> USE DEF ownerVars
<1>1. CASE \E t \in Threads : AppendFits(t) \/ AppendFull(t) \/ Refill(t)
  BY <1>1 DEF AppendFits, AppendFull, Refill
<1>2. CASE Writer
  BY <1>2 DEF Writer, NewThread, Begin, TestRunning, WaitIfEmpty, Wake, Collect, Swap, Write,
              Recycle, Flush
<1>3. CASE UNCHANGED vars \/ InCall \/ Start \/ SpuriousWakeup \/ Stop \/ Destroy
  BY <1>3 DEF InCall, StartThread, StartReturns, NotifyWriter, Join, JoinReturns,
              Start, SetRunning, SpuriousWakeup, Stop, Destroy, vars
<1> QED
  BY <1>1, <1>2, <1>3 DEF Next

(* The type invariant is made of the three parts just shown.               *)
LEMMA TypeIsParts ==
  Th!IInv /\ Life => (TypeOK <=> /\ \A b \in Buckets : BucketType(b)
                                 /\ Rounds /\ running \in BOOLEAN)
<1>1. Th!IInv => T!TypeOK
  BY DEF Th!IInv, Th!TypeOK, T!TypeOK
<1>2. Life => ready \in {0, 1}
               /\ opc \in {"new", "starting", "started", "notify", "join", "stopped", "gone"}
  BY DEF Life
<1> QED
  BY <1>1, <1>2 DEF TypeOK, BucketType, Rounds, Output, WriterStates

(* Each step keeps the types, with the invariant of the Thread.            *)
LEMMA TypeStep == Typed /\ Th!IInv' /\ [Next]_vars => Typed'
<1> SUFFICES ASSUME Typed, Th!IInv', [Next]_vars PROVE Typed'
  OBVIOUS
<1>1. Life' /\ Buffers'
  BY LifeStep, BuffersStep DEF Typed
<1>2. Rounds /\ running \in BOOLEAN /\ TypeOK /\ Buffers
  BY TypeIsParts DEF Typed
<1>3. (\A b \in Buckets : BucketType(b)') /\ Rounds'
  <2>1. ASSUME NEW t \in Threads, AppendFits(t) \/ AppendFull(t) \/ Refill(t)
        PROVE  (\A b \in Buckets : BucketType(b)') /\ Rounds'
    <3>1. UNCHANGED <<back, file, next, seen>> /\ wpc' \in {wpc, "collect"}
      BY <2>1 DEF AppendFits, AppendFull, Refill, writerVars, Notified
    <3> QED
      BY <1>2, <2>1, <3>1, AppendTypes, RoundsStay DEF Rounds, WriterStates
  <2>2. CASE Writer
    BY <1>2, <2>2, RoundsOfWriter, BucketsOfOthers
  <2>3. CASE UNCHANGED vars \/ InCall \/ Start \/ SpuriousWakeup \/ Stop \/ Destroy
    BY <1>2, <2>3, RoundsOfOthers, BucketsOfOthers
  <2> QED
    BY <2>1, <2>2, <2>3 DEF Next
<1>4. (Th!IInv /\ Life => (TypeOK <=> /\ \A b \in Buckets : BucketType(b)
                                      /\ Rounds /\ running \in BOOLEAN))'
  BY TypeIsParts, PTL
<1> QED
  BY <1>1, <1>2, <1>3, <1>4, RunningBool DEF Typed

(* So all the state always has its types.                                  *)
LEMMA TypeInvariant == Spec => []Typed
<1>1. Init /\ Th!IInv => Typed
  BY LifeInit, BuffersInit, TypeInit DEF Typed
<1> QED
  BY <1>1, TypeStep, ThreadInvariant, PTL DEF Spec

(* Types of the logger's variables; whatever is in a buffer or in the file *)
(* has been appended, and the pool never grows beyond maxPoolSize_         *)
(* (AsyncLogging.cpp:143-148).                                             *)
THEOREM TypeCorrect == Spec => []TypeOK
<1>1. Typed => TypeOK
  BY DEF Typed
<1> QED
  BY TypeInvariant, <1>1, PTL

-----------------------------------------------------------------------------
(* The kinds of step there are: a line is added to a bucket, the buffer of *)
(* a bucket moves to the end of front_, or the lines stay where they are.  *)

(* What a bucket holds is a short list of lines.                           *)
LEMMA BucketIsList ==
  ASSUME Typed, NEW b \in Buckets
  PROVE  InBucket(b) \in Seq(Lines) /\ Len(InBucket(b)) < BufferSize
         /\ InBucket(b) \in Lists
<1>1. InBucket(b) \in Seq(Lines) /\ Len(InBucket(b)) < BufferSize
  BY LoggingAssumption DEF Typed, TypeOK, InBucket
<1>2. Lines \subseteq Threads \X Nat
  BY DEF Lines
<1> QED
  BY <1>1, <1>2, SeqMonotonic DEF Lists

(* What a step does to the lines that are on their way: one is added to a  *)
(* bucket, a buffer is moved from a bucket to the front, the writer takes  *)
(* the front buffers, writes them, gives an empty buffer back, or nothing. *)
OthersKept(b) == \A c \in Buckets \ {b} : InBucket(c)' = InBucket(c)
Added(t) ==
  LET b == BucketOf[t] IN
  /\ InBucket(b)' = Append(InBucket(b), LineOf(t))
  /\ OthersKept(b)
  /\ appended' = [appended EXCEPT ![t] = @ + 1]
  /\ UNCHANGED <<front, writerVars>>
Moved(b) ==
  /\ InBucket(b) # <<>> /\ InBucket(b)' = <<>>
  /\ front' = Append(front, InBucket(b))
  /\ OthersKept(b)
  /\ UNCHANGED <<appended, back, file, seen>>
Still ==
  /\ \A b \in Buckets : InBucket(b)' = InBucket(b)
  /\ UNCHANGED <<front, back, file, appended>>

(* append() either adds the caller's line or moves the full buffer of its  *)
(* bucket.                                                                 *)
LEMMA AppendKinds ==
  ASSUME Typed, NEW t \in Threads
  PROVE  /\ AppendFits(t) \/ Refill(t) => Added(t)
         /\ AppendFull(t) => Moved(BucketOf[t])
<1> DEFINE c == BucketOf[t]
<1> USE DEF Typed, Buffers
<1>1. c \in Buckets /\ NoBuffer \notin Lists /\ 1 < BufferSize
  BY LoggingAssumption DEF Lists
<1>2. ASSUME AppendFits(t) \/ Refill(t) PROVE Added(t)
  <2>1. InBucket(c)' = Append(InBucket(c), LineOf(t))
    <3>1. node'[c] = IF node[c] = NoBuffer THEN <<LineOf(t)>> ELSE Append(node[c], LineOf(t))
      BY <1>1, <1>2 DEF AppendFits, Refill, Appended
    <3>2. LineOf(t) \in Threads \X Nat
      BY DEF LineOf
    <3>3. node[c] \in Lists \cup {NoBuffer}
      BY <1>1
    <3>4. <<LineOf(t)>> \in Lists /\ \A s \in Lists : Append(s, LineOf(t)) \in Lists
      BY <3>2 DEF Lists
    <3>5. node'[c] # NoBuffer
      BY <1>1, <3>1, <3>3, <3>4
    <3>6. Append(<<>>, LineOf(t)) = <<LineOf(t)>>
      OBVIOUS
    <3>7. CASE node[c] = NoBuffer
      BY <3>1, <3>5, <3>6, <3>7 DEF InBucket
    <3>8. CASE node[c] # NoBuffer
      BY <3>1, <3>5, <3>8 DEF InBucket
    <3> QED
      BY <3>7, <3>8
  <2>2. OthersKept(c)
    BY <1>2 DEF AppendFits, Refill, Appended, InBucket, OthersKept
  <2>3. appended' = [appended EXCEPT ![t] = @ + 1] /\ UNCHANGED <<front, writerVars>>
    BY <1>2 DEF AppendFits, Refill, Appended
  <2> HIDE DEF c
  <2> QED
    BY <2>1, <2>2, <2>3 DEF Added, c
<1>3. ASSUME AppendFull(t) PROVE Moved(c)
  <2>1. node'[c] = NoBuffer /\ front' = Append(front, node[c]) /\ InBucket(c)' = <<>>
    BY <1>1, <1>3 DEF AppendFull, PushFront, InBucket
  <2>2. node[c] = InBucket(c) /\ ~Fits(node[c]) /\ InBucket(c) \in Lists
    BY <1>1, <1>3, BucketIsList DEF AppendFull, MayAppend, InBucket, BufferInPlace
  <2>3. InBucket(c) # <<>>
    BY <1>1, <2>2, LoggingAssumption DEF Fits
  <2>4. OthersKept(c)
    BY <1>3 DEF AppendFull, InBucket, OthersKept
  <2>5. UNCHANGED <<appended, back, file, seen>>
    BY <1>3 DEF AppendFull
  <2> QED
    BY <2>1, <2>2, <2>3, <2>4, <2>5 DEF Moved
<1> QED
  BY <1>2, <1>3

(* A step of the collecting loop moves the buffer of one bucket, or finds  *)
(* it empty (AsyncLogging.cpp:139-151).                                    *)
LEMMA CollectKinds ==
  ASSUME Typed, Collect
  PROVE  /\ next \in Buckets /\ next' = next + 1 /\ wpc = "collect" /\ wpc' = "collect"
         /\ UNCHANGED <<appended, back, file, seen>>
         /\ \E b \in {next} : /\ InBucket(b)' = <<>> /\ OthersKept(b)
                              /\ Moved(b) \/ Still
<1>1. /\ next \in Buckets /\ next' = next + 1 /\ wpc = "collect" /\ wpc' = "collect"
      /\ UNCHANGED <<appended, back, file, seen>>
  BY LoggingAssumption DEF Collect, Buckets, Typed, TypeOK
<1>2. PICK b \in {next} : TRUE
  OBVIOUS
<1>3. <<>> \in Lists /\ NoBuffer \notin Lists /\ node \in [Buckets -> Lists \cup {NoBuffer}]
  BY LoggingAssumption DEF Lists, Typed, Buffers
<1>4. node[b] # NoBuffer
  BY <1>1, <1>2 DEF Collect, Typed, Buffers, BufferInPlace
<1>5. CASE node[b] = <<>>
  <2>1. UNCHANGED <<node, front>>
    BY <1>2, <1>5 DEF Collect
  <2> QED
    BY <1>1, <1>2, <1>3, <1>5, <2>1 DEF Still, OthersKept, InBucket
<1>6. CASE node[b] # <<>>
  <2>1. front' = Append(front, node[b]) /\ node' = [node EXCEPT ![b] = <<>>]
    BY <1>2, <1>6 DEF Collect, PushFront
  <2>2. InBucket(b) = node[b] /\ InBucket(b)' = <<>> /\ OthersKept(b)
    BY <1>1, <1>2, <1>3, <1>4, <2>1 DEF InBucket, OthersKept
  <2> QED
    BY <1>1, <1>2, <1>6, <2>1, <2>2 DEF Moved
<1> QED
  BY <1>5, <1>6

(* The remaining steps leave every line where it is.                       *)
LEMMA OtherKinds ==
  ASSUME Typed, [Next]_vars, ~Swap, ~Write, ~Recycle, ~Collect,
         \A t \in Threads : ~(AppendFits(t) \/ AppendFull(t) \/ Refill(t))
  PROVE  UNCHANGED <<node, front, back, file, appended>>
<1> USE DEF frontVars, writerVars
<1>1. CASE Writer
  BY <1>1 DEF Writer, NewThread, Begin, TestRunning, WaitIfEmpty, Wake, Flush
<1>2. CASE UNCHANGED vars \/ InCall \/ Start \/ SpuriousWakeup \/ Stop \/ Destroy
  BY <1>2 DEF vars, InCall, StartThread, StartReturns, NotifyWriter, Join, JoinReturns,
              Start, SpuriousWakeup, Stop, Destroy
<1> QED
  BY <1>1, <1>2 DEF Next

-----------------------------------------------------------------------------
(* A round of the writer.  Fresh lines are those behind what the round has *)
(* seen: until the swap the buckets already collected hold no other, and   *)
(* from the swap to the next round nothing older is left in front or in a  *)
(* bucket.                                                                 *)

Fresh(s) == \A i \in DOMAIN s : seen[s[i][1]] < s[i][2]
AllFresh(ss) == \A i \in DOMAIN ss : Fresh(ss[i])
Round ==
  /\ \A t \in Threads : seen[t] <= appended[t]
  /\ wpc = "begin" => \A t \in Threads : seen[t] = 0
  /\ wpc \in {"decide", "asleep"} => next = 0
  /\ wpc = "collect" => \A b \in Buckets : b < next => Fresh(InBucket(b))
  /\ wpc \in {"begin", "test", "write", "recycle", "exited"} =>
       AllFresh(front) /\ \A b \in Buckets : Fresh(InBucket(b))

(* No round has begun.                                                     *)
LEMMA RoundInit == Init => Round
BY LoggingAssumption DEF Init, Round, Fresh, AllFresh, InBucket

(* A line that is appended is a fresh one.                                 *)
LEMMA AppendFresh ==
  ASSUME Typed, Round, NEW t \in Threads, AppendFits(t) \/ AppendFull(t) \/ Refill(t)
  PROVE  /\ \A b \in Buckets : Fresh(InBucket(b)) => Fresh(InBucket(b))'
         /\ AllFresh(front) /\ (\A b \in Buckets : Fresh(InBucket(b))) => AllFresh(front)'
         /\ UNCHANGED <<seen, next>> /\ wpc' \in {wpc, Notified}
         /\ \A u \in Threads : seen'[u] <= appended'[u]
<1>1. UNCHANGED <<seen, next>> /\ wpc' \in {wpc, Notified}
  BY DEF AppendFits, AppendFull, Refill, writerVars
<1>2. PICK c \in Buckets : c = BucketOf[t]
  BY LoggingAssumption
<1>3. InBucket(c) \in Seq(Lines) /\ front \in Seq(Seq(Lines)) /\ seen \in [Threads -> Nat]
      /\ appended \in [Threads -> Nat]
  BY BucketIsList DEF Typed, TypeOK
<1>4. CASE Moved(c)
  <2>1. Fresh(InBucket(c))' /\ UNCHANGED appended
    BY <1>4 DEF Moved, Fresh
  <2>2. \A b \in Buckets \ {c} : Fresh(InBucket(b)) <=> Fresh(InBucket(b))'
    BY <1>1, <1>4 DEF Moved, OthersKept, Fresh
  <2>3. \A i \in DOMAIN front' : front'[i] = IF i \in DOMAIN front THEN front[i] ELSE InBucket(c)
    BY <1>3, <1>4 DEF Moved
  <2>4. AllFresh(front) /\ Fresh(InBucket(c)) => AllFresh(front)'
    BY <1>1, <2>3 DEF AllFresh, Fresh
  <2> QED
    BY <1>1, <2>1, <2>2, <2>4 DEF Round
<1>5. CASE Added(t)
  <2>1. seen[LineOf(t)[1]] < LineOf(t)[2]
    BY <1>3 DEF LineOf, Round
  <2>2. InBucket(c)' = Append(InBucket(c), LineOf(t)) /\ UNCHANGED front
    BY <1>2, <1>5 DEF Added
  <2>3. \A i \in DOMAIN InBucket(c)' :
          InBucket(c)'[i] = IF i \in DOMAIN InBucket(c) THEN InBucket(c)[i] ELSE LineOf(t)
    BY <1>3, <2>2
  <2>4. Fresh(InBucket(c)) => Fresh(InBucket(c))'
    BY <1>1, <2>1, <2>3 DEF Fresh
  <2>5. \A b \in Buckets \ {c} : Fresh(InBucket(b)) <=> Fresh(InBucket(b))'
    BY <1>1, <1>2, <1>5 DEF Added, OthersKept, Fresh
  <2>6. \A u \in Threads : seen'[u] <= appended'[u]
    BY <1>1, <1>3, <1>5 DEF Added, Round
  <2> QED
    BY <1>1, <2>2, <2>4, <2>5, <2>6 DEF AllFresh, Fresh
<1> QED
  BY <1>2, <1>4, <1>5, AppendKinds

(* Each step keeps the round's promise.                                    *)
LEMMA RoundStep == Typed /\ Round /\ [Next]_vars => Round'
<1> SUFFICES ASSUME Typed, Round, [Next]_vars PROVE Round'
  OBVIOUS
<1> USE DEF frontVars, WriterAt
<1>1. ASSUME NEW t \in Threads, AppendFits(t) \/ AppendFull(t) \/ Refill(t) PROVE Round'
  <2>1. /\ \A b \in Buckets : Fresh(InBucket(b)) => Fresh(InBucket(b))'
        /\ AllFresh(front) /\ (\A b \in Buckets : Fresh(InBucket(b))) => AllFresh(front)'
        /\ UNCHANGED <<seen, next>> /\ wpc' \in {wpc, Notified}
        /\ \A u \in Threads : seen'[u] <= appended'[u]
    BY <1>1, AppendFresh
  <2>2. CASE wpc' = wpc
    BY <2>1, <2>2 DEF Round
  <2>3. CASE wpc = "asleep" /\ wpc' = "collect"
    BY <2>1, <2>3 DEF Round, Buckets
  <2> QED
    BY <2>1, <2>2, <2>3 DEF Notified
<1>2. UNCHANGED <<node, front, seen>> => /\ \A b \in Buckets : Fresh(InBucket(b))' <=> Fresh(InBucket(b))
                                         /\ AllFresh(front)' <=> AllFresh(front)
  BY DEF Fresh, InBucket, AllFresh
<1>3. CASE Begin \/ WaitIfEmpty \/ Wake \/ Flush \/ NotifyWriter
  <2>1. UNCHANGED <<node, front, back, next, seen, appended>>
    BY <1>3 DEF Begin, WaitIfEmpty, Wake, Flush, NotifyWriter
  <2>2. \/ wpc' = wpc
        \/ wpc \in {"decide", "asleep"} /\ wpc' \in {"asleep", "collect"}
        \/ wpc \in {"begin", "recycle"} /\ wpc' = "test"
    BY <1>3 DEF Begin, WaitIfEmpty, Wake, Flush, NotifyWriter, Notified
  <2>3. CASE wpc' = wpc
    BY <1>2, <2>1, <2>3 DEF Round
  <2>4. CASE wpc \in {"decide", "asleep"} /\ wpc' \in {"asleep", "collect"}
    BY <1>2, <2>1, <2>4 DEF Round, Buckets
  <2>5. CASE wpc \in {"begin", "recycle"} /\ wpc' = "test"
    BY <1>2, <2>1, <2>5 DEF Round
  <2> QED
    BY <2>2, <2>3, <2>4, <2>5
<1>4. CASE TestRunning
  <2>1. /\ wpc = "test" /\ next' = 0 /\ UNCHANGED <<node, front, back, appended>>
        /\ wpc' \in {"decide", "exited"} /\ seen' \in {seen, appended}
        /\ wpc' = "exited" => seen' = seen
    BY <1>4 DEF TestRunning, FirstBucket
  <2>2. \A t \in Threads : seen'[t] <= appended'[t]
    BY <2>1 DEF Round, Typed, TypeOK
  <2> QED
    BY <1>2, <2>1, <2>2 DEF Round
<1>5. CASE Collect
  <2>1. PICK n \in {next} : InBucket(n)' = <<>> /\ OthersKept(n)
    BY <1>5, CollectKinds
  <2>2. /\ n \in Buckets /\ next' = next + 1 /\ wpc = "collect" /\ wpc' = wpc
        /\ UNCHANGED <<seen, appended>>
    BY <1>5, CollectKinds
  <2>3. \A b \in Buckets : b < next' => b < next \/ b = n
    BY <2>1, <2>2 DEF Buckets
  <2>4. ASSUME NEW b \in Buckets, b < next' PROVE Fresh(InBucket(b))'
    <3>1. CASE b = n
      BY <2>1, <3>1 DEF Fresh
    <3>2. CASE b # n
      BY <2>1, <2>2, <2>3, <2>4, <3>2 DEF Round, Fresh, OthersKept
    <3> QED
      BY <3>1, <3>2
  <2> QED
    BY <2>2, <2>4 DEF Round
<1>6. CASE Swap
  <2>1. /\ wpc = "collect" /\ wpc' = "write" /\ next = NumBuckets /\ front' = <<>>
        /\ UNCHANGED <<node, seen, appended>>
    BY <1>6 DEF Swap
  <2>2. \A b \in Buckets : Fresh(InBucket(b))'
    BY <2>1, LoggingAssumption DEF Round, Buckets, Fresh, InBucket
  <2> QED
    BY <2>1, <2>2 DEF Round, AllFresh
<1>7. CASE Write \/ Recycle
  <2>1. /\ wpc \in {"write", "recycle"} /\ wpc' = "recycle"
        /\ UNCHANGED <<node, front, seen, appended>>
    BY <1>7 DEF Write, Recycle
  <2> QED
    BY <1>2, <2>1 DEF Round
<1>8. CASE UNCHANGED <<frontVars, front, writerVars>>
  BY <1>2, <1>8 DEF Round, writerVars, AllFresh, Fresh
<1>9. CASE UNCHANGED vars \/ NewThread \/ (InCall /\ ~NotifyWriter) \/ Start \/ SpuriousWakeup \/ Stop \/ Destroy
  BY <1>8, <1>9 DEF vars, NewThread, InCall, StartThread, StartReturns, Join, JoinReturns, Start,
     SpuriousWakeup, Stop, Destroy
<1> QED
  BY <1>1, <1>3, <1>4, <1>5, <1>6, <1>7, <1>9 DEF Next, Writer, InCall

(* So the round always keeps it.                                           *)
LEMMA RoundInvariant == Spec => [](Typed /\ Round)
  BY TypeInvariant, RoundInit, RoundStep, PTL DEF Spec

(* A line is settled when no buffer holds it.                              *)
LEMMA PendingLines ==
  ASSUME Typed, NEW t \in Threads
  PROVE  ToSet(Pending(t)) = {l \in UNION ({ToSet(back[i]) : i \in DOMAIN back}
                                          \cup {ToSet(front[i]) : i \in DOMAIN front}
                                          \cup {ToSet(InBucket(BucketOf[t]))}) : l[1] = t}
<1> DEFINE B == FlattenSeq(back)  F == FlattenSeq(front)  N == InBucket(BucketOf[t])
<1>1. back \in Seq(Seq(Lines)) /\ front \in Seq(Seq(Lines)) /\ N \in Seq(Lines)
  BY LoggingAssumption, BucketIsList DEF Typed, TypeOK
<1>2. B \in Seq(Lines) /\ F \in Seq(Lines)
  BY <1>1, FlattenType
<1>3. /\ ToSet(B) = UNION {ToSet(back[i]) : i \in DOMAIN back}
      /\ ToSet(F) = UNION {ToSet(front[i]) : i \in DOMAIN front}
  BY <1>1, FlattenKeeps
<1> HIDE DEF B, F, N
<1>4. B \o F \in Seq(Lines) /\ B \o F \o N \in Seq(Lines)
  BY <1>1, <1>2
<1>5. ToSet(B \o F \o N) = ToSet(B) \cup ToSet(F) \cup ToSet(N)
  <2>1. ToSet(B \o F) = ToSet(B) \cup ToSet(F)
    BY <1>2, RangeOfConcat
  <2>2. ToSet(B \o F \o N) = ToSet(B \o F) \cup ToSet(N)
    BY <1>1, <1>4, RangeOfConcat, ZenonT(30)
  <2> QED
    BY <2>1, <2>2
<1>6. ToSet(Of(t, B \o F \o N)) = {l \in ToSet(B \o F \o N) : l[1] = t}
  <2> DEFINE s == B \o F \o N
  <2>1. s \in Seq(Lines)
    BY <1>4
  <2> HIDE DEF s
  <2>2. ToSet(Of(t, s)) = {l \in ToSet(s) : l[1] = t}
    BY <2>1, OfKeeps
  <2> QED
    BY <2>2 DEF s
<1>7. Pending(t) = Of(t, B \o F \o N)
  BY DEF Pending, B, F, N
<1> QED
  BY <1>3, <1>5, <1>6, <1>7 DEF N

(* The writer exits with nothing that it owes: whatever had been appended  *)
(* when it last found running_ true is written or dropped                  *)
(* (AsyncLogging.cpp:110-153).                                             *)
THEOREM NothingOwed == Spec => []RoundKeepsLines
<1>1. Typed /\ Round => RoundKeepsLines
  <2> SUFFICES ASSUME Typed, Round, wpc = "exited",
                      NEW t \in Threads, NEW k \in 1 .. seen[t], <<t, k>> \in ToSet(Pending(t))
               PROVE  FALSE
    BY DEF RoundKeepsLines, Settled
  <2>1. back = <<>>
    BY DEF Typed, Life
  <2>2. \/ \E i \in DOMAIN front : <<t, k>> \in ToSet(front[i])
        \/ <<t, k>> \in ToSet(InBucket(BucketOf[t]))
    BY <2>1, PendingLines
  <2>3. AllFresh(front) /\ Fresh(InBucket(BucketOf[t]))
    BY LoggingAssumption DEF Round
  <2>4. seen[t] < k
    BY <2>2, <2>3 DEF AllFresh, Fresh, ToSet
  <2> QED
    BY <2>4 DEF Typed, TypeOK
<1> QED
  BY RoundInvariant, <1>1, PTL

-----------------------------------------------------------------------------
(* Where the lines of one thread are: those in front come before those in  *)
(* its bucket, and the front buffers, none of them empty, are in order.    *)
Before(r, s) == \A i \in DOMAIN r, j \in DOMAIN s : r[i][1] = s[j][1] => r[i][2] < s[j][2]
Placed(b) ==
  /\ \A i \in DOMAIN InBucket(b) : BucketOf[InBucket(b)[i][1]] = b
  /\ \A i \in DOMAIN front : Before(front[i], InBucket(b))
Ordered ==
  /\ \A i \in DOMAIN front : front[i] # <<>> /\ Len(front[i]) < BufferSize
  /\ \A i, j \in DOMAIN front : i < j => Before(front[i], front[j])
Queued ==
  /\ Ordered
  /\ \A b \in Buckets : Placed(b)
  /\ wpc = "recycle" => \A i \in DOMAIN back : back[i] = <<>>

(* There is nothing to order at first.                                     *)
LEMMA QueuedInit == Init => Queued
BY LoggingAssumption DEF Init, Queued, Ordered, Placed, Before, InBucket

(* A line added to a bucket is later than all others of its thread.        *)
LEMMA QueuedAdded ==
  ASSUME Typed, Queued, NEW t \in Threads, Added(t)
  PROVE  Ordered' /\ \A b \in Buckets : Placed(b)'
<1>1. PICK c \in Buckets : c = BucketOf[t]
  BY LoggingAssumption
<1>2. /\ front' = front /\ InBucket(c)' = Append(InBucket(c), LineOf(t))
      /\ \A b \in Buckets \ {c} : InBucket(b)' = InBucket(b)
  BY <1>1 DEF Added, OthersKept
<1>3. front \in Seq(Seq(Lines)) /\ InBucket(c) \in Seq(Lines) /\ appended \in [Threads -> Nat]
  BY BucketIsList DEF Typed, TypeOK
<1>4. \A i \in DOMAIN InBucket(c)' :
        InBucket(c)'[i] = IF i \in DOMAIN InBucket(c) THEN InBucket(c)[i] ELSE LineOf(t)
  BY <1>2, <1>3
<1>5. Ordered'
  BY <1>2 DEF Queued, Ordered
<1>6. \A b \in Buckets \ {c} : Placed(b)'
  BY <1>2 DEF Queued, Placed
<1>7. Placed(c)'
  <2>1. \A i \in DOMAIN InBucket(c)' : BucketOf[InBucket(c)'[i][1]] = c
    BY <1>1, <1>4 DEF Queued, Placed, LineOf
  <2>2. ASSUME NEW i \in DOMAIN front PROVE Before(front[i], InBucket(c)')
    <3>1. Before(front[i], InBucket(c))
      BY <2>2 DEF Queued, Placed
    <3>2. \A k \in DOMAIN front[i] : front[i][k] \in Lines
      BY <1>3, <2>2
    <3>3. \A k \in DOMAIN front[i] : front[i][k][1] = t => front[i][k][2] < appended[t] + 1
      BY <1>3, <3>2 DEF Lines
    <3> QED
      BY <1>4, <3>1, <3>3 DEF Before, LineOf
  <2> QED
    BY <1>2, <2>1, <2>2 DEF Placed
<1> QED
  BY <1>5, <1>6, <1>7

(* A buffer that moves to the end of front_ holds later lines than those   *)
(* before it.                                                              *)
LEMMA QueuedMoved ==
  ASSUME Typed, Queued, NEW c \in Buckets, Moved(c)
  PROVE  Ordered' /\ \A b \in Buckets : Placed(b)'
<1>1. /\ InBucket(c) # <<>> /\ InBucket(c)' = <<>> /\ front' = Append(front, InBucket(c))
      /\ \A b \in Buckets \ {c} : InBucket(b)' = InBucket(b)
  BY DEF Moved, OthersKept
<1>2. front \in Seq(Seq(Lines)) /\ InBucket(c) \in Seq(Lines) /\ Len(InBucket(c)) < BufferSize
  BY BucketIsList DEF Typed, TypeOK
<1>3. /\ DOMAIN front' = DOMAIN front \cup {Len(front) + 1} /\ Len(front) + 1 \notin DOMAIN front
      /\ \A i \in DOMAIN front : front'[i] = front[i] /\ i < Len(front) + 1
      /\ front'[Len(front) + 1] = InBucket(c)
  <2> DEFINE X == Seq(Lines)
  <2>1. front \in Seq(X) /\ InBucket(c) \in X
    BY <1>2
  <2> HIDE DEF X
  <2> QED
    BY <1>1, <2>1
<1>4. \A i \in DOMAIN front : Before(front[i], InBucket(c))
  BY DEF Queued, Placed
<1>5. Ordered'
  <2>1. \A i \in DOMAIN front' : front'[i] # <<>> /\ Len(front'[i]) < BufferSize
    BY <1>1, <1>2, <1>3 DEF Queued, Ordered
  <2>2. ASSUME NEW i \in DOMAIN front', NEW j \in DOMAIN front', i < j PROVE Before(front'[i], front'[j])
    <3>1. i \in DOMAIN front
      BY <1>2, <1>3, <2>2
    <3>2. CASE j \in DOMAIN front
      BY <1>3, <2>2, <3>1, <3>2 DEF Queued, Ordered
    <3>3. CASE j = Len(front) + 1
      BY <1>3, <1>4, <3>1, <3>3
    <3> QED
      BY <1>3, <3>2, <3>3
  <2> QED
    BY <2>1, <2>2 DEF Ordered
<1>6. Placed(c)'
  BY <1>1 DEF Placed, Before
<1>7. ASSUME NEW b \in Buckets \ {c} PROVE Placed(b)'
  <2>1. InBucket(b)' = InBucket(b) /\ Placed(b) /\ Placed(c)
    BY <1>1 DEF Queued
  <2>2. Before(InBucket(c), InBucket(b))
    BY <2>1 DEF Placed, Before
  <2> QED
    BY <1>3, <2>1, <2>2 DEF Placed
<1> QED
  BY <1>5, <1>6, <1>7

(* Emptying front_ or leaving all alone disturbs no order.                 *)
LEMMA QueuedStill ==
  ASSUME Queued, front' = front \/ front' = <<>>, \A b \in Buckets : InBucket(b)' = InBucket(b)
  PROVE  Ordered' /\ \A b \in Buckets : Placed(b)'
<1>1. CASE front' = front
  BY <1>1 DEF Queued, Ordered, Placed
<1>2. CASE front' = <<>>
  BY <1>2 DEF Queued, Ordered, Placed
<1> QED
  BY <1>1, <1>2

(* Each step keeps the queue in order.                                     *)
LEMMA QueuedStep == Typed /\ Queued /\ [Next]_vars => Queued'
<1> SUFFICES ASSUME Typed, Queued, [Next]_vars PROVE Queued'
  OBVIOUS
<1>1. Ordered' /\ \A b \in Buckets : Placed(b)'
  <2>1. ASSUME NEW t \in Threads, AppendFits(t) \/ AppendFull(t) \/ Refill(t)
        PROVE  Ordered' /\ \A b \in Buckets : Placed(b)'
    <3>1. BucketOf[t] \in Buckets
      BY LoggingAssumption
    <3> QED
      BY <2>1, <3>1, AppendKinds, QueuedAdded, QueuedMoved
  <2>2. CASE Collect
    <3>1. PICK n \in {next} : n \in Buckets /\ (Moved(n) \/ Still)
      BY <2>2, CollectKinds
    <3> QED
      BY <3>1, QueuedMoved, QueuedStill DEF Still
  <2>3. CASE Swap \/ Write \/ Recycle
    <3>1. (front' = front \/ front' = <<>>) /\ node' = node
      BY <2>3 DEF Swap, Write, Recycle, frontVars
    <3> QED
      BY <3>1, QueuedStill DEF InBucket
  <2>4. CASE UNCHANGED <<node, front, back, file, appended>>
    BY <2>4, QueuedStill DEF InBucket
  <2> QED
    BY <2>1, <2>2, <2>3, <2>4, OtherKinds
<1>2. wpc' = "recycle" => \A i \in DOMAIN back' : back'[i] = <<>>
  <2> SUFFICES ASSUME wpc' = "recycle" PROVE \A i \in DOMAIN back' : back'[i] = <<>>
    OBVIOUS
  <2> USE DEF Queued, frontVars, writerVars, WriterAt
  <2>1. CASE Write
    BY <2>1 DEF Write
  <2>2. CASE Recycle
    <3>1. /\ wpc = "recycle" /\ back' = SubSeq(back, 1, Len(back) - 1) /\ back # <<>>
          /\ back \in Seq(Seq(Lines))
      BY <2>2 DEF Recycle, Typed, TypeOK
    <3>2. \A i \in DOMAIN back' : i \in DOMAIN back /\ back'[i] = back[i]
      BY <3>1
    <3> QED
      BY <3>1, <3>2
  <2>3. CASE wpc = "recycle" /\ back' = back
    BY <2>3
  <2>4. (wpc = "recycle" /\ back' = back) \/ Write \/ Recycle
    <3>1. CASE \E t \in Threads : AppendFits(t) \/ AppendFull(t) \/ Refill(t)
      BY <3>1 DEF AppendFits, AppendFull, Refill, Notified
    <3>2. CASE Writer
      BY <3>2 DEF Writer, NewThread, Begin, TestRunning, WaitIfEmpty, Wake, Collect, Swap, Flush
    <3>3. CASE UNCHANGED vars \/ InCall \/ Start \/ SpuriousWakeup \/ Stop \/ Destroy
      BY <3>3 DEF vars, InCall, StartThread, StartReturns, NotifyWriter, Notified, Join, JoinReturns,
                  Start, SpuriousWakeup, Stop, Destroy
    <3> QED
      BY <3>1, <3>2, <3>3 DEF Next
  <2> QED
    BY <2>1, <2>2, <2>3, <2>4
<1> QED
  BY <1>1, <1>2 DEF Queued

(* So the queue is always in order.                                        *)
LEMMA QueuedInvariant == Spec => [](Typed /\ Queued)
  BY TypeInvariant, QueuedInit, QueuedStep, PTL DEF Spec

-----------------------------------------------------------------------------
(* A sequence and its parts.                                               *)

(* The first part of a concatenation is a prefix of it and the rest is the *)
(* second part.                                                            *)
LEMMA PrefixOfConcat ==
  ASSUME NEW S, NEW r \in Seq(S), NEW s \in Seq(S)
  PROVE  /\ IsPrefix(r, r \o s)
         /\ SubSeq(r \o s, Len(r) + 1, Len(r \o s)) = s
<1>1. Len(r) \in Nat /\ Len(s) \in Nat /\ Len(r \o s) = Len(r) + Len(s) /\ r \o s \in Seq(S)
  OBVIOUS
<1>2. SubSeq(r \o s, 1, Len(r)) = SubSeq(r, 1, Len(r))
  BY <1>1
<1>3. SubSeq(r \o s, Len(r) + 1, Len(r \o s)) = s
  BY <1>1
<1> QED
  BY <1>1, <1>2, <1>3 DEF IsPrefix

(* How many lines there are in a sequence of buffers.                      *)
LEMMA CountLines ==
  ASSUME NEW S, NEW ss \in Seq(Seq(S)), NEW m \in Nat,
         \A i \in DOMAIN ss : ss[i] # <<>> /\ Len(ss[i]) <= m,
         \A i, j \in DOMAIN ss : i # j => ToSet(ss[i]) \cap ToSet(ss[j]) = {}
  PROVE  LET U == UNION {ToSet(ss[i]) : i \in DOMAIN ss} IN
         Cardinality(U) \in Nat /\ Len(ss) <= Cardinality(U) /\ Cardinality(U) <= Len(ss) * m
<1> DEFINE U == UNION {ToSet(ss[i]) : i \in DOMAIN ss}
           n == Len(ss)
           All == (1 .. n) \X (1 .. m)
           D == {p \in All : p[2] \in DOMAIN ss[p[1]]}
           f == [p \in D |-> ss[p[1]][p[2]]]
           g == [i \in 1 .. n |-> ss[i][1]]
<1>1. n \in Nat /\ DOMAIN ss = 1 .. n
  OBVIOUS
<1>2. \A i \in 1 .. n : ss[i] \in Seq(S) /\ Len(ss[i]) \in 1 .. m /\ DOMAIN ss[i] = 1 .. Len(ss[i])
  BY <1>1
<1>3. IsFiniteSet(1 .. n) /\ Cardinality(1 .. n) = n /\ IsFiniteSet(1 .. m) /\ Cardinality(1 .. m) = m
  <2> HIDE DEF n
  <2>1. n \in Int /\ m \in Int /\ 1 \in Int
    BY <1>1
  <2>2. IsFiniteSet(1 .. n) /\ Cardinality(1 .. n) = IF 1 > n THEN 0 ELSE n - 1 + 1
    BY <2>1, FS_Interval
  <2>3. IsFiniteSet(1 .. m) /\ Cardinality(1 .. m) = IF 1 > m THEN 0 ELSE m - 1 + 1
    BY <2>1, FS_Interval
  <2> QED
    BY <1>1, <2>2, <2>3
<1>4. IsFiniteSet(All) /\ Cardinality(All) = n * m
  <2> DEFINE N == 1 .. n  M == 1 .. m
  <2>1. IsFiniteSet(N) /\ Cardinality(N) = n /\ IsFiniteSet(M) /\ Cardinality(M) = m
    BY <1>3
  <2> HIDE DEF N, M
  <2>2. IsFiniteSet(N \X M) /\ Cardinality(N \X M) = n * m
    BY <2>1, FS_Product
  <2> QED
    BY <2>2 DEF N, M
<1>5. IsFiniteSet(D) /\ Cardinality(D) <= n * m
  <2>1. D \in SUBSET All
    OBVIOUS
  <2> HIDE DEF D, All
  <2> QED
    BY <2>1, <1>4, FS_Subset
<1>6. f \in Surjection(D, U)
  <2>1. f \in [D -> U]
    <3>1. ASSUME NEW p \in D PROVE f[p] \in U
      <4>1. p[1] \in 1 .. n /\ p[2] \in DOMAIN ss[p[1]] /\ f[p] = ss[p[1]][p[2]]
        OBVIOUS
      <4>2. f[p] \in ToSet(ss[p[1]])
        BY <4>1 DEF ToSet
      <4> QED
        BY <1>1, <4>1, <4>2
    <3> QED
      BY <3>1
  <2>2. ASSUME NEW u \in U PROVE \E p \in D : f[p] = u
    <3>1. PICK i \in 1 .. n : u \in ToSet(ss[i])
      BY <1>1
    <3>2. PICK k \in DOMAIN ss[i] : u = ss[i][k]
      BY <3>1 DEF ToSet
    <3>3. <<i, k>> \in D
      BY <1>2, <3>1, <3>2
    <3> QED
      BY <3>2, <3>3
  <2> HIDE DEF f, D, U
  <2> QED
    BY <2>1, <2>2 DEF Surjection
<1>7. IsFiniteSet(U) /\ Cardinality(U) <= n * m
  <2> HIDE DEF f, D, U
  <2>1. IsFiniteSet(U) /\ Cardinality(U) <= Cardinality(D)
    BY <1>5, <1>6, FS_Surjection
  <2>2. Cardinality(D) \in Nat /\ Cardinality(U) \in Nat /\ n * m \in Nat
    BY <1>1, <1>5, <2>1, FS_CardinalityType
  <2> QED
    BY <1>5, <2>1, <2>2
<1>8. g \in Injection(1 .. n, U)
  <2>1. ASSUME NEW i \in 1 .. n PROVE g[i] \in ToSet(ss[i])
    BY <1>2 DEF ToSet
  <2>2. g \in [1 .. n -> U]
    BY <1>1, <2>1
  <2>3. \A i, j \in 1 .. n : g[i] = g[j] => i = j
    <3> SUFFICES ASSUME NEW i \in 1 .. n, NEW j \in 1 .. n, g[i] = g[j], i # j PROVE FALSE
      OBVIOUS
    <3>1. g[i] \in ToSet(ss[i]) /\ g[i] \in ToSet(ss[j])
      BY <2>1
    <3>2. ToSet(ss[i]) \cap ToSet(ss[j]) = {}
      BY <1>1
    <3> QED
      BY <3>1, <3>2
  <2> HIDE DEF g, U
  <2> QED
    BY <2>2, <2>3 DEF Injection, IsInjective
<1>9. n <= Cardinality(U) /\ Cardinality(U) \in Nat
  <2> HIDE DEF g, U
  <2> QED
    BY <1>3, <1>7, <1>8, FS_Injection, FS_CardinalityType
<1> QED
  BY <1>7, <1>9

-----------------------------------------------------------------------------
(* What is pending of a thread, part by part, and how the steps change it. *)

(* The buffers hold lists of numbered lines.                               *)
LEMMA Listed ==
  ASSUME Typed
  PROVE  back \in Seq(Lists) /\ front \in Seq(Lists) /\ \A b \in Buckets : InBucket(b) \in Lists
<1>1. Seq(Lines) \subseteq Lists
  BY SeqMonotonic DEF Lines, Lists
<1>2. Seq(Seq(Lines)) \subseteq Seq(Lists)
  BY <1>1, SeqMonotonic
<1> QED
  BY <1>2, BucketIsList DEF Typed, TypeOK

InBack(t) == Of(t, FlattenSeq(back))
InFront(t) == Of(t, FlattenSeq(front))
Own(t) == Of(t, InBucket(BucketOf[t]))

(* The pending lines of a thread are those in back, those in front and     *)
(* those in its own bucket, in this order.                                 *)
LEMMA PendingParts ==
  ASSUME NEW t \in Threads, back \in Seq(Lists), front \in Seq(Lists),
         InBucket(BucketOf[t]) \in Lists
  PROVE  /\ Pending(t) = InBack(t) \o InFront(t) \o Own(t)
         /\ InBack(t) \in Lists /\ InFront(t) \in Lists /\ Own(t) \in Lists
<1> DEFINE L == Threads \X Nat
           B == FlattenSeq(back)  F == FlattenSeq(front)  N == InBucket(BucketOf[t])
<1>1. B \in Seq(L) /\ F \in Seq(L) /\ N \in Seq(L)
  BY FlattenType DEF Lists
<1> HIDE DEF L, B, F, N
<1>2. B \o F \in Seq(L)
  BY <1>1
<1>3. Of(t, B \o F \o N) = Of(t, B \o F) \o Of(t, N)
  <2> DEFINE BF == B \o F
  <2>1. BF \in Seq(L)
    BY <1>2
  <2> HIDE DEF BF
  <2>2. Of(t, BF \o N) = Of(t, BF) \o Of(t, N)
    BY <1>1, <2>1, OfConcat, SMTT(30)
  <2> QED
    BY <2>2 DEF BF
<1>4. Of(t, B \o F) = Of(t, B) \o Of(t, F)
  BY <1>1, OfConcat
<1>5. Of(t, B) \in Seq(L) /\ Of(t, F) \in Seq(L) /\ Of(t, N) \in Seq(L)
  BY <1>1, OfKeeps
<1> QED
  BY <1>3, <1>4, <1>5 DEF Pending, InBack, InFront, Own, B, F, N, L, Lists

(* A line that is added is the last one pending of its thread.             *)
LEMMA PendingAdded ==
  ASSUME Typed, Typed', NEW u \in Threads, Added(u)
  PROVE  \A t \in Threads : Pending(t)' = IF t = u THEN Append(Pending(t), LineOf(u)) ELSE Pending(t)
<1> SUFFICES ASSUME NEW t \in Threads
             PROVE  Pending(t)' = IF t = u THEN Append(Pending(t), LineOf(u)) ELSE Pending(t)
  OBVIOUS
<1>1. PICK c \in Buckets : c = BucketOf[t]
  BY LoggingAssumption
<1>2. InBack(t)' = InBack(t) /\ InFront(t)' = InFront(t)
  BY DEF Added, writerVars, InBack, InFront
<1>3. Own(t)' = IF t = u THEN Append(Own(t), LineOf(u)) ELSE Own(t)
  <2>1. InBucket(c)' = InBucket(c) \/ InBucket(c)' = Append(InBucket(c), LineOf(u))
    BY <1>1 DEF Added, OthersKept
  <2>2. t = u => InBucket(c)' = Append(InBucket(c), LineOf(u))
    BY <1>1 DEF Added
  <2>3. InBucket(c) \in Seq(Threads \X Nat) /\ LineOf(u) \in Threads \X Nat /\ LineOf(u)[1] = u
    <3>1. InBucket(c) \in Seq(Threads \X Nat)
      BY Listed DEF Lists
    <3>2. appended[u] + 1 \in Nat
      BY DEF Typed, Buffers
    <3> QED
      BY <3>1, <3>2 DEF LineOf
  <2>4. Of(t, Append(InBucket(c), LineOf(u)))
          = IF u = t THEN Append(Of(t, InBucket(c)), LineOf(u)) ELSE Of(t, InBucket(c))
    <3> DEFINE L == Threads \X Nat  s == InBucket(c)  x == LineOf(u)
    <3>1. s \in Seq(L) /\ x \in L
      BY <2>3
    <3>2. x[1] = u
      BY <2>3
    <3> HIDE DEF L, s, x
    <3>3. Of(t, Append(s, x)) = IF x[1] = t THEN Append(Of(t, s), x) ELSE Of(t, s)
      BY <3>1, OfAppend
    <3> QED
      BY <3>2, <3>3 DEF s, x
  <2> QED
    BY <1>1, <2>1, <2>2, <2>4 DEF Own
<1>4. /\ Pending(t) = InBack(t) \o InFront(t) \o Own(t)
      /\ InBack(t) \in Lists /\ InFront(t) \in Lists /\ Own(t) \in Lists
  BY <1>1, Listed, PendingParts
<1>5. Pending(t)' = InBack(t)' \o InFront(t)' \o Own(t)'
  <2>1. (/\ back \in Seq(Lists) /\ front \in Seq(Lists) /\ InBucket(BucketOf[t]) \in Lists
         => Pending(t) = InBack(t) \o InFront(t) \o Own(t))'
    BY PendingParts, PTL
  <2>2. (Typed => back \in Seq(Lists) /\ front \in Seq(Lists) /\ \A b \in Buckets : InBucket(b) \in Lists)'
    BY Listed, PTL
  <2> QED
    BY <1>1, <2>1, <2>2
<1>6. LineOf(u) \in Threads \X Nat
  BY DEF LineOf, Typed, Buffers
<1>7. \A r, s \in Lists : r \o Append(s, LineOf(u)) = Append(r \o s, LineOf(u)) /\ r \o s \in Lists
  BY <1>6 DEF Lists
<1>8. InBack(t) \o InFront(t) \in Lists
  BY <1>4, <1>7
<1>9. CASE t = u
  BY <1>2, <1>3, <1>4, <1>5, <1>7, <1>8, <1>9
<1>10. CASE t # u
  BY <1>2, <1>3, <1>4, <1>5, <1>10
<1> QED
  BY <1>9, <1>10

-----------------------------------------------------------------------------
(* A sequence without elements is empty.                                   *)
LEMMA NothingIn == ASSUME NEW S, NEW s \in Seq(S), ToSet(s) = {} PROVE s = <<>>
<1>1. DOMAIN s = 1 .. Len(s) /\ Len(s) \in Nat
  OBVIOUS
<1>2. ~(\E i \in DOMAIN s : TRUE)
  BY DEF ToSet
<1>3. Len(s) = 0
  BY <1>1, <1>2
<1> QED
  BY <1>3

(* The same in the next state.                                             *)
LEMMA PendingPartsNext ==
  ASSUME Typed', NEW t \in Threads
  PROVE  /\ Pending(t)' = InBack(t)' \o InFront(t)' \o Own(t)'
         /\ InBack(t)' \in Lists /\ InFront(t)' \in Lists /\ Own(t)' \in Lists
<1>1. BucketOf[t] \in Buckets
  BY LoggingAssumption
<1>2. (/\ back \in Seq(Lists) /\ front \in Seq(Lists) /\ InBucket(BucketOf[t]) \in Lists
       => /\ Pending(t) = InBack(t) \o InFront(t) \o Own(t)
          /\ InBack(t) \in Lists /\ InFront(t) \in Lists /\ Own(t) \in Lists)'
  BY PendingParts, PTL
<1>3. (Typed => back \in Seq(Lists) /\ front \in Seq(Lists) /\ \A b \in Buckets : InBucket(b) \in Lists)'
  BY Listed, PTL
<1> QED
  BY <1>1, <1>2, <1>3

(* A line that a buffer keeps on its way stays where it is in the order of *)
(* its thread: no other thread of another bucket has lines in the buffer.  *)
LEMMA PendingMoved ==
  ASSUME Typed, Typed', Queued, NEW c \in Buckets, Moved(c)
  PROVE  \A t \in Threads : Pending(t)' = Pending(t)
<1> SUFFICES ASSUME NEW t \in Threads PROVE Pending(t)' = Pending(t)
  OBVIOUS
<1> DEFINE L == Threads \X Nat
<1>1. InBack(t)' = InBack(t)
  BY DEF Moved, InBack
<1>2. /\ front \in Seq(Lists) /\ InBucket(c) \in Lists
      /\ FlattenSeq(front) \in Lists
  BY Listed, FlattenType DEF Lists
<1>3. FlattenSeq(front)' = FlattenSeq(front) \o InBucket(c)
  BY <1>2, FlattenAppend DEF Moved, Lists
<1>4. InFront(t)' = InFront(t) \o Of(t, InBucket(c))
  BY <1>2, <1>3, OfConcat DEF InFront, Lists
<1>5. Of(t, InBucket(c)) \o Own(t)' = Own(t)
  <2>1. CASE BucketOf[t] = c
    <3>1. Own(t)' = <<>>
      BY <2>1, OfEmpty DEF Moved, Own
    <3>2. Of(t, InBucket(c)) \in Lists
      BY <1>2, OfKeeps DEF Lists
    <3>3. Own(t) = Of(t, InBucket(c))
      BY <2>1 DEF Own
    <3>4. \A s \in Lists : s \o <<>> = s
      BY DEF Lists
    <3> QED
      BY <3>1, <3>2, <3>3, <3>4
  <2>2. CASE BucketOf[t] # c
    <3>1. Own(t)' = Own(t)
      <4>1. BucketOf[t] \in Buckets
        BY LoggingAssumption
      <4> QED
        BY <2>2, <4>1 DEF Moved, OthersKept, Own
    <3>2. Of(t, InBucket(c)) = <<>>
      <4>1. \A i \in DOMAIN InBucket(c) : InBucket(c)[i][1] # t
        BY <2>2 DEF Queued, Placed
      <4>2. {x \in ToSet(InBucket(c)) : x[1] = t} = {}
        BY <4>1 DEF ToSet
      <4>3. ToSet(Of(t, InBucket(c))) = {} /\ Of(t, InBucket(c)) \in Lists
        BY <1>2, <4>2, OfKeeps DEF Lists
      <4> QED
        BY <4>3, NothingIn DEF Lists
    <3>3. Own(t) \in Lists
      BY Listed, PendingParts, LoggingAssumption
    <3>4. \A s \in Lists : <<>> \o s = s
      BY DEF Lists
    <3> QED
      BY <3>1, <3>2, <3>3, <3>4
  <2> QED
    BY <2>1, <2>2
<1>6. /\ Pending(t) = InBack(t) \o InFront(t) \o Own(t)
      /\ InBack(t) \in Lists /\ InFront(t) \in Lists /\ Own(t) \in Lists
  BY Listed, PendingParts, LoggingAssumption
<1>7. Pending(t)' = InBack(t)' \o InFront(t)' \o Own(t)' /\ Own(t)' \in Lists
  BY PendingPartsNext
<1>8. Of(t, InBucket(c)) \in Lists
  BY <1>2, OfKeeps DEF Lists
<1>9. InBack(t) \o (InFront(t) \o Of(t, InBucket(c))) \o Own(t)'
        = InBack(t) \o InFront(t) \o (Of(t, InBucket(c)) \o Own(t)')
  <2> DEFINE p == InBack(t)  q == InFront(t)  r == Of(t, InBucket(c))  s == Own(t)'
  <2>1. p \in Seq(L) /\ q \in Seq(L) /\ r \in Seq(L) /\ s \in Seq(L)
    BY <1>6, <1>7, <1>8 DEF Lists
  <2> HIDE DEF L, p, q, r, s
  <2>2. p \o (q \o r) \o s = p \o q \o (r \o s)
    BY <2>1, SMTT(30)
  <2> QED
    BY <2>2 DEF p, q, r, s
<1> QED
  BY <1>1, <1>4, <1>5, <1>6, <1>7, <1>9

(* Nothing is pending anew when the buffers stay as they are.              *)
LEMMA PendingStill ==
  ASSUME NEW t \in Threads, UNCHANGED <<front, back, InBucket(BucketOf[t])>>
  PROVE  Pending(t)' = Pending(t)
BY DEF Pending

(* Giving back a buffer: all of them have been written.                    *)
LEMMA PendingRecycled ==
  ASSUME Typed, Typed', Queued, Queued', Recycle
  PROVE  \A t \in Threads : Pending(t)' = Pending(t)
<1> SUFFICES ASSUME NEW t \in Threads PROVE Pending(t)' = Pending(t)
  OBVIOUS
<1>1. /\ \A i \in DOMAIN back : back[i] = <<>>
      /\ \A i \in DOMAIN back' : back'[i] = <<>>
      /\ UNCHANGED <<front, node>>
  BY DEF Recycle, WriterAt, frontVars, Queued
<1>2. back \in Seq(Lists) /\ back' \in Seq(Lists)
  <2>1. (Typed => back \in Seq(Lists))'
    BY Listed, PTL
  <2> QED
    BY <2>1, Listed
<1>3. FlattenSeq(back) = <<>> /\ FlattenSeq(back') = <<>>
  BY <1>1, <1>2, FlattenEmpties DEF Lists
<1> QED
  BY <1>1, <1>3 DEF Pending, InBucket

-----------------------------------------------------------------------------
(* The steps of Log.                                                       *)

(* append() that adds a line accepts it: it is the last one pending of its *)
(* thread (AsyncLogging.cpp:82-101).                                       *)
LEMMA AcceptStep ==
  ASSUME Typed, Typed', NEW u \in Threads, Added(u)
  PROVE  AbstractLog!Accept(u)
<1>1. \A t \in Threads : Pending(t)' = IF t = u THEN Append(Pending(t), LineOf(u)) ELSE Pending(t)
  BY PendingAdded
<1>2. appended' = [appended EXCEPT ![u] = @ + 1] /\ file' = file /\ appended \in [Threads -> Nat]
  BY DEF Added, writerVars, Typed, Buffers
<1>3. LineOf(u) = <<u, appended'[u]>>
  BY <1>2 DEF LineOf
<1>4. [t \in Threads |-> Pending(t)]'
        = [[t \in Threads |-> Pending(t)] EXCEPT ![u] = Append(Pending(u), <<u, appended'[u]>>)]
  BY <1>1, <1>3
<1> QED
  BY <1>2, <1>4 DEF AbstractLog!Accept

(* Writing the first buffer delivers its lines, the oldest pending ones of *)
(* each thread (AsyncLogging.cpp:168-173).                                 *)
LEMMA DeliverStep ==
  ASSUME Typed, Typed', Queued', Write
  PROVE  AbstractLog!Deliver
<1> DEFINE B == FlattenSeq(back)
<1>1. /\ file' = file \o B /\ back' = [i \in DOMAIN back |-> <<>>]
      /\ UNCHANGED <<node, front, appended>>
  BY DEF Write, frontVars
<1>2. B \in Seq(Lines) /\ B \in Lists /\ file \in Seq(Output)
  <2>1. back \in Seq(Seq(Lines)) /\ back \in Seq(Lists)
    BY Listed DEF Typed, TypeOK
  <2>2. file \in Seq(Output)
    BY DEF Typed, TypeOK, Output
  <2> QED
    BY <2>1, <2>2, FlattenType DEF Lists
<1>3. IsPrefix(file, file') /\ SubSeq(file', Len(file) + 1, Len(file')) = B
  <2>1. B \in Seq(Output)
    BY <1>2, SeqMonotonic DEF Output
  <2> HIDE DEF B
  <2> QED
    BY <1>1, <1>2, <2>1, PrefixOfConcat
<1>4. \A i \in DOMAIN B : B[i][1] \in Threads
  BY <1>2 DEF Lists
<1>5. ASSUME NEW t \in Threads PROVE Of(t, B) \o Pending(t)' = Pending(t)
  <2>1. InBack(t)' = <<>>
    <3>1. \A i \in DOMAIN back' : back'[i] = <<>>
      BY <1>1
    <3>2. (Typed => back \in Seq(Lists))'
      BY Listed, PTL
    <3>3. FlattenSeq(back') = <<>>
      BY <3>1, <3>2, FlattenEmpties DEF Lists
    <3> QED
      BY <3>3, OfEmpty DEF InBack
  <2>2. InFront(t)' = InFront(t) /\ Own(t)' = Own(t)
    BY <1>1 DEF InFront, Own, InBucket
  <2>3. /\ Pending(t) = InBack(t) \o InFront(t) \o Own(t)
        /\ InBack(t) \in Lists /\ InFront(t) \in Lists /\ Own(t) \in Lists
    BY Listed, PendingParts, LoggingAssumption
  <2>4. Pending(t)' = <<>> \o InFront(t) \o Own(t)
    BY <2>1, <2>2, PendingPartsNext
  <2>5. InBack(t) \o (<<>> \o InFront(t) \o Own(t)) = InBack(t) \o InFront(t) \o Own(t)
    <3> DEFINE L == Threads \X Nat  p == InBack(t)  q == InFront(t)  r == Own(t)
    <3>1. p \in Seq(L) /\ q \in Seq(L) /\ r \in Seq(L)
      BY <2>3 DEF Lists
    <3> HIDE DEF L, p, q, r
    <3>2. p \o (<<>> \o q \o r) = p \o q \o r
      BY <3>1
    <3> QED
      BY <3>2 DEF p, q, r
  <2> QED
    BY <2>3, <2>4, <2>5 DEF InBack
<1>6. \A t \in Threads : AbstractLog!Of(t, B) = Of(t, B)
  BY DEF Of, AbstractLog!Of
<1>7. AbstractLog!IsPrefix(file, file')
  BY <1>3 DEF IsPrefix, AbstractLog!IsPrefix
<1> HIDE DEF B
<1> QED
  BY <1>1, <1>3, <1>4, <1>5, <1>6, <1>7 DEF AbstractLog!Deliver

(* With the buffers of front_ split where the swap cuts them, what is      *)
(* pending of each thread before and after.                                *)
LEMMA SwapPending ==
  ASSUME Typed, Typed', Swap, NEW r \in Seq(Lists), NEW s \in Seq(Lists),
         front = r \o s, back' = r, NEW t \in Threads
  PROVE  LET a == Of(t, FlattenSeq(r))  b == Of(t, FlattenSeq(s))  c == Own(t) IN
         /\ a \in Lists /\ b \in Lists /\ c \in Lists
         /\ Pending(t) = a \o b \o c /\ Pending(t)' = a \o c
<1> DEFINE L == Threads \X Nat
           a == Of(t, FlattenSeq(r))  b == Of(t, FlattenSeq(s))  c == Own(t)
<1>1. back = <<>> /\ front' = <<>> /\ node' = node
  BY DEF Swap, WriterAt, frontVars, Typed, Life
<1>2. FlattenSeq(r) \in Seq(L) /\ FlattenSeq(s) \in Seq(L)
  BY FlattenType DEF Lists
<1>3. FlattenSeq(front) = FlattenSeq(r) \o FlattenSeq(s)
  BY FlattenConcat DEF Lists
<1>4. InFront(t) = a \o b
  <2> DEFINE R == FlattenSeq(r)  S == FlattenSeq(s)
  <2>1. R \in Seq(L) /\ S \in Seq(L)
    BY <1>2
  <2> HIDE DEF L, R, S
  <2>2. Of(t, R \o S) = Of(t, R) \o Of(t, S)
    BY <2>1, OfConcat
  <2> QED
    BY <1>3, <2>2 DEF InFront, R, S
<1>5. a \in Lists /\ b \in Lists
  <2> HIDE DEF L
  <2>1. a \in Seq(L) /\ b \in Seq(L)
    BY <1>2, OfKeeps
  <2> QED
    BY <2>1 DEF L, Lists
<1>6. InBack(t) = <<>> /\ InFront(t)' = <<>> /\ InBack(t)' = a /\ Own(t)' = c
  BY <1>1, FlattenEmpty, OfEmpty DEF InBack, InFront, Own, InBucket
<1>7. Pending(t) = <<>> \o (a \o b) \o c /\ c \in Lists
  BY <1>4, <1>6, Listed, PendingParts, LoggingAssumption
<1>8. Pending(t)' = a \o <<>> \o c
  BY <1>6, PendingPartsNext
<1>9. <<>> \o (a \o b) \o c = a \o b \o c /\ a \o <<>> \o c = a \o c
  <2>1. a \in Seq(L) /\ b \in Seq(L) /\ c \in Seq(L)
    BY <1>5, <1>7 DEF Lists
  <2> HIDE DEF L, a, b, c
  <2> QED
    BY <2>1
<1> QED
  BY <1>5, <1>7, <1>8, <1>9

(* Every line names its thread and has a number.                           *)
LEMMA Numbered == \A s \in Lists : \A x \in ToSet(s) : x[1] \in Threads /\ x[2] \in Nat
BY DEF ToSet, Lists

(* Both halves of a sequence, element by element.                          *)
LEMMA SplitAt ==
  ASSUME NEW X, NEW f \in Seq(X), NEW k \in Nat, k <= Len(f),
         NEW r, r = SubSeq(f, 1, k), NEW s, s = SubSeq(f, k + 1, Len(f))
  PROVE  /\ r \in Seq(X) /\ Len(r) = k /\ \A i \in 1 .. k : i \in DOMAIN f /\ r[i] = f[i]
         /\ s \in Seq(X) /\ Len(s) = Len(f) - k
         /\ \A i \in 1 .. Len(f) - k : i + k \in DOMAIN f /\ s[i] = f[i + k]
  OBVIOUS

(* The halves make up the sequence.                                        *)
LEMMA SplitIsAll ==
  ASSUME NEW X, NEW f \in Seq(X), NEW k \in Nat, k <= Len(f)
  PROVE  f = SubSeq(f, 1, k) \o SubSeq(f, k + 1, Len(f))
<1> DEFINE r == SubSeq(f, 1, k)  s == SubSeq(f, k + 1, Len(f))
<1>1. /\ r \in Seq(X) /\ Len(r) = k
      /\ s \in Seq(X) /\ Len(s) = Len(f) - k
  OBVIOUS
<1>2. /\ \A i \in 1 .. k : r[i] = f[i]
      /\ \A i \in 1 .. Len(f) - k : s[i] = f[i + k]
  OBVIOUS
<1> HIDE DEF r, s
<1>3. r \o s \in Seq(X) /\ Len(r \o s) = Len(f)
  <2>1. Len(r \o s) = Len(r) + Len(s)
    BY <1>1
  <2>2. r \o s \in Seq(X)
    BY <1>1
  <2> QED
    BY <1>1, <2>1, <2>2
<1>4. ASSUME NEW i \in 1 .. Len(f) PROVE (r \o s)[i] = f[i]
  <2>0. (r \o s)[i] = IF i <= Len(r) THEN r[i] ELSE s[i - Len(r)]
    BY <1>1
  <2>1. CASE i <= k
    BY <1>1, <1>2, <2>0, <2>1
  <2>2. CASE i > k
    <3>1. i - k \in 1 .. Len(f) - k /\ (i - k) + k = i
      BY <2>2
    <3>2. s[i - k] = f[i]
      BY <1>2, <3>1
    <3> QED
      BY <1>1, <2>0, <2>2, <3>2
  <2>3. i <= k \/ i > k
    OBVIOUS
  <2> QED
    BY <2>1, <2>2, <2>3, Zenon
<1>5. f = r \o s
  <2> DEFINE g == r \o s
  <2>1. g \in Seq(X) /\ Len(g) = Len(f) /\ \A i \in 1 .. Len(f) : g[i] = f[i]
    BY <1>3, <1>4
  <2> HIDE DEF g
  <2>2. f = g
    BY <2>1
  <2> QED
    BY <2>2 DEF g
<1> QED
  BY <1>5 DEF r, s

(* The swap that finds too many buffers discards a contiguous run of       *)
(* pending lines of each thread (AsyncLogging.cpp:153-166).                *)
LEMMA DiscardStep ==
  ASSUME Typed, Typed', Queued, Swap, Len(front) > DropLimit
  PROVE  AbstractLog!Discard
<1> DEFINE r == SubSeq(front, 1, Kept)  s == SubSeq(front, Kept + 1, Len(front))
           U == UNION {ToSet(s[i]) : i \in DOMAIN s}
           lost(t) == ToSet(Pending(t)) \ ToSet(Pending(t)')
<1>1. /\ Kept \in Nat /\ Kept <= DropLimit /\ DropLimit \in Nat /\ BufferSize \in Nat /\ BufferSize > 1
      /\ front \in Seq(Lists) /\ Len(front) \in Nat /\ Kept < Len(front)
  <2>1. front \in Seq(Lists)
    BY Listed
  <2> QED
    BY <2>1, LoggingAssumption
<1>2. /\ r \in Seq(Lists) /\ s \in Seq(Lists) /\ front = r \o s
      /\ Len(s) = Excess /\ Excess \in Nat /\ Excess >= 1
      /\ DOMAIN s = 1 .. Excess /\ DOMAIN r = 1 .. Kept /\ Len(front) = Kept + Excess
      /\ \A i \in DOMAIN s : i + Kept \in DOMAIN front /\ s[i] = front[i + Kept]
      /\ \A i \in DOMAIN r : i \in DOMAIN front /\ r[i] = front[i]
  <2>1. /\ r \in Seq(Lists) /\ Len(r) = Kept /\ \A i \in 1 .. Kept : i \in DOMAIN front /\ r[i] = front[i]
        /\ s \in Seq(Lists) /\ Len(s) = Len(front) - Kept
        /\ \A i \in 1 .. Len(front) - Kept : i + Kept \in DOMAIN front /\ s[i] = front[i + Kept]
    <3>1. r = SubSeq(front, 1, Kept) /\ s = SubSeq(front, Kept + 1, Len(front))
      OBVIOUS
    <3> HIDE DEF r, s
    <3> QED
      BY <1>1, <3>1, SplitAt
  <2> HIDE DEF r, s
  <2>2. DOMAIN s = 1 .. Excess /\ DOMAIN r = 1 .. Kept
    BY <2>1 DEF Excess
  <2>3. front = r \o s
    <3>1. Kept \in Nat /\ Kept <= Len(front) /\ front \in Seq(Lists)
      BY <1>1
    <3>2. front = SubSeq(front, 1, Kept) \o SubSeq(front, Kept + 1, Len(front))
      BY <3>1, SplitIsAll
    <3> QED
      BY <3>2 DEF r, s
  <2> QED
    BY <1>1, <2>1, <2>2, <2>3 DEF Excess
<1>3. back' = r /\ file' = Append(file, <<"dropped", Excess>>) /\ UNCHANGED <<node, appended>>
  BY DEF Swap, Notice, frontVars
<1>4. Ordered /\ \A b \in Buckets : Placed(b)
  BY DEF Queued
<1> HIDE DEF r, s
<1>5. Cardinality(U) \in Nat /\ Excess <= Cardinality(U) /\ Cardinality(U) <= Excess * (BufferSize - 1)
  <2>1. \A i \in DOMAIN s : s[i] # <<>> /\ Len(s[i]) <= BufferSize - 1
    <3>1. \A i \in DOMAIN s : s[i] # <<>> /\ Len(s[i]) < BufferSize /\ Len(s[i]) \in Nat
      <4>1. \A x \in Lists : Len(x) \in Nat
        BY DEF Lists
      <4>2. \A i \in DOMAIN s : s[i] \in Lists
        BY <1>2
      <4> QED
        BY <1>2, <1>4, <4>1, <4>2 DEF Ordered
    <3> QED
      BY <1>1, <3>1
  <2>2. ASSUME NEW i \in DOMAIN s, NEW j \in DOMAIN s, i < j PROVE ToSet(s[i]) \cap ToSet(s[j]) = {}
    <3>1. Before(s[i], s[j])
      <4>1. i \in Nat /\ j \in Nat /\ i + Kept < j + Kept
        BY <1>1, <1>2, <2>2
      <4>2. s[i] = front[i + Kept] /\ s[j] = front[j + Kept]
            /\ i + Kept \in DOMAIN front /\ j + Kept \in DOMAIN front
        BY <1>2
      <4> QED
        BY <1>4, <4>1, <4>2 DEF Ordered
    <3>2. \A x \in ToSet(s[i]) : x[2] \in Nat
      BY <1>2, Numbered
    <3> QED
      BY <3>1, <3>2 DEF Before, ToSet
  <2>3. \A i, j \in DOMAIN s : i # j => ToSet(s[i]) \cap ToSet(s[j]) = {}
    <3> SUFFICES ASSUME NEW i \in DOMAIN s, NEW j \in DOMAIN s, i # j
                 PROVE  ToSet(s[i]) \cap ToSet(s[j]) = {}
      OBVIOUS
    <3>1. i < j \/ j < i
      BY <1>2
    <3> QED
      BY <2>2, <3>1
  <2>4. BufferSize - 1 \in Nat /\ s \in Seq(Seq(Threads \X Nat))
    BY <1>1, <1>2 DEF Lists
  <2> DEFINE m == BufferSize - 1
  <2>5. m \in Nat /\ \A i \in DOMAIN s : s[i] # <<>> /\ Len(s[i]) <= m
    BY <2>1, <2>4
  <2> HIDE DEF m
  <2>6. Cardinality(U) \in Nat /\ Len(s) <= Cardinality(U) /\ Cardinality(U) <= Len(s) * m
    BY <2>3, <2>4, <2>5, CountLines
  <2> QED
    BY <1>2, <2>6 DEF m
<1>6. ASSUME NEW t \in Threads
      PROVE  /\ lost(t) = {l \in U : l[1] = t}
             /\ LET p == Pending(t) IN
                \E i, j \in 0 .. Len(p) :
                  i <= j /\ Pending(t)' = SubSeq(p, 1, i) \o SubSeq(p, j + 1, Len(p))
  <2> DEFINE R == FlattenSeq(r)  S == FlattenSeq(s)  N == InBucket(BucketOf[t])
             a == Of(t, R)  b == Of(t, S)  c == Own(t)
  <2>1. /\ a \in Lists /\ b \in Lists /\ c \in Lists
        /\ Pending(t) = a \o b \o c /\ Pending(t)' = a \o c
    BY <1>2, <1>3, SwapPending
  <2>2. /\ R \in Lists /\ S \in Lists /\ N \in Lists
        /\ ToSet(R) = UNION {ToSet(r[i]) : i \in DOMAIN r} /\ ToSet(S) = U
    BY <1>2, FlattenType, FlattenKeeps, Listed, LoggingAssumption DEF Lists
  <2>3. /\ ToSet(a) = {l \in ToSet(R) : l[1] = t}
        /\ ToSet(b) = {l \in U : l[1] = t}
        /\ ToSet(c) = {l \in ToSet(N) : l[1] = t}
    <3> HIDE DEF R, S, U, N
    <3> QED
      BY <2>2, OfKeeps DEF Own, N, Lists
  <2>4. ToSet(b) \cap (ToSet(a) \cup ToSet(c)) = {}
    <3> SUFFICES ASSUME NEW l \in ToSet(b), l \in ToSet(a) \/ l \in ToSet(c) PROVE FALSE
      OBVIOUS
    <3>1. PICK i \in DOMAIN s : l \in ToSet(s[i])
      BY <2>3
    <3>2. l[2] \in Nat
      BY <1>2, <3>1, Numbered
    <3>3. CASE l \in ToSet(a)
      <4>1. PICK k \in DOMAIN r : l \in ToSet(r[k])
        BY <2>2, <2>3, <3>3
      <4>2. Before(r[k], s[i])
        <5>1. k < i + Kept /\ r[k] = front[k] /\ s[i] = front[i + Kept]
              /\ k \in DOMAIN front /\ i + Kept \in DOMAIN front
          BY <1>1, <1>2
        <5> QED
          BY <1>4, <5>1 DEF Ordered
      <4> QED
        BY <3>1, <3>2, <4>1, <4>2 DEF Before, ToSet
    <3>4. CASE l \in ToSet(c)
      <4>1. l \in ToSet(N)
        BY <2>3, <3>4
      <4>2. Before(s[i], N)
        BY <1>2, <1>4, LoggingAssumption DEF Placed
      <4> QED
        BY <3>1, <3>2, <4>1, <4>2 DEF Before, ToSet
    <3> QED
      BY <3>3, <3>4
  <2>5. /\ ToSet(Pending(t)) = ToSet(a) \cup ToSet(b) \cup ToSet(c)
        /\ ToSet(Pending(t)') = ToSet(a) \cup ToSet(c)
    <3> DEFINE L == Threads \X Nat
    <3>1. a \in Seq(L) /\ b \in Seq(L) /\ c \in Seq(L)
      BY <2>1 DEF Lists
    <3> HIDE DEF L, a, b, c
    <3>2. ToSet(a \o c) = ToSet(a) \cup ToSet(c)
      BY <3>1, RangeOfConcat
    <3>3. a \o b \in Seq(L) /\ ToSet(a \o b) = ToSet(a) \cup ToSet(b)
      BY <3>1, RangeOfConcat
    <3>4. ToSet(a \o b \o c) = ToSet(a \o b) \cup ToSet(c)
      <4> DEFINE ab == a \o b
      <4>1. ab \in Seq(L)
        BY <3>3
      <4> HIDE DEF ab
      <4>2. ToSet(ab \o c) = ToSet(ab) \cup ToSet(c)
        BY <3>1, <4>1, RangeOfConcat
      <4> QED
        BY <4>2 DEF ab
    <3> QED
      BY <2>1, <3>2, <3>3, <3>4
  <2>6. lost(t) = {l \in U : l[1] = t}
    <3> HIDE DEF a, b, c, U
    <3> QED
      BY <2>3, <2>4, <2>5
  <2>7. LET p == Pending(t) IN
        \E i, j \in 0 .. Len(p) :
          i <= j /\ Pending(t)' = SubSeq(p, 1, i) \o SubSeq(p, j + 1, Len(p))
    <3> DEFINE L == Threads \X Nat  p == Pending(t)
    <3>1. a \in Seq(L) /\ b \in Seq(L) /\ c \in Seq(L) /\ p = a \o b \o c
      BY <2>1 DEF Lists
    <3> HIDE DEF L, a, b, c, p
    <3>2. /\ Len(a) \in Nat /\ Len(b) \in Nat /\ Len(c) \in Nat
          /\ Len(p) = Len(a) + Len(b) + Len(c) /\ p \in Seq(L)
      BY <3>1
    <3>3. SubSeq(p, 1, Len(a)) = a
      BY <3>1, <3>2
    <3>4. SubSeq(p, Len(a) + Len(b) + 1, Len(p)) = c
      BY <3>1, <3>2
    <3>5. Len(a) \in 0 .. Len(p) /\ Len(a) + Len(b) \in 0 .. Len(p) /\ Len(a) <= Len(a) + Len(b)
      BY <3>2
    <3>6. Pending(t)' = SubSeq(p, 1, Len(a)) \o SubSeq(p, Len(a) + Len(b) + 1, Len(p))
      BY <2>1, <3>3, <3>4
    <3> QED
      BY <3>5, <3>6 DEF p
  <2> QED
    BY <2>6, <2>7
<1>7. UNION {lost(t) : t \in Threads} = U
  <2>1. \A l \in U : l[1] \in Threads
    <3> SUFFICES ASSUME NEW i \in DOMAIN s, NEW l \in ToSet(s[i]) PROVE l[1] \in Threads
      OBVIOUS
    <3>1. s[i] \in Lists
      BY <1>2
    <3> QED
      BY <3>1, Numbered
  <2> HIDE DEF U, lost
  <2> QED
    BY <1>6, <2>1
<1> HIDE DEF U
<1>8. \E n \in 1 .. Cardinality(U) : Cardinality(U) <= n * (BufferSize - 1)
                                    /\ file' = Append(file, <<"dropped", n>>)
  <2>1. Excess \in 1 .. Cardinality(U)
    BY <1>2, <1>5
  <2> HIDE DEF Excess
  <2> QED
    BY <1>3, <1>5, <2>1
<1> DEFINE pend == [t \in Threads |-> Pending(t)]
           gone(t) == AbstractLog!ToSet(pend[t]) \ AbstractLog!ToSet(pend'[t])
<1>9. \A t \in Threads : pend[t] = Pending(t) /\ pend'[t] = Pending(t)'
  OBVIOUS
<1>10. UNION {gone(t) : t \in Threads} = U
  <2>1. \A t \in Threads : gone(t) = lost(t)
    BY <1>9 DEF ToSet, AbstractLog!ToSet
  <2> HIDE DEF gone, lost, pend
  <2> QED
    BY <1>7, <2>1
<1>11. AbstractLog!Cardinality(UNION {gone(t) : t \in Threads}) = Cardinality(U)
  <2>1. \A X : AbstractLog!Cardinality(X) = Cardinality(X)
    BY DEF Cardinality, AbstractLog!Cardinality
  <2> HIDE DEF gone, pend
  <2> QED
    BY <1>10, <2>1
<1>12. ASSUME NEW t \in Threads
       PROVE  \E i, j \in 0 .. Len(pend[t]) :
                i <= j /\ pend'[t] = SubSeq(pend[t], 1, i) \o SubSeq(pend[t], j + 1, Len(pend[t]))
  BY <1>6, <1>9, ZenonT(30)
<1> QED
  BY <1>3, <1>8, <1>11, <1>12 DEF AbstractLog!Discard

-----------------------------------------------------------------------------
(* The refinement.                                                         *)

(* Nothing is pending and nothing written at first.                        *)
LEMMA LogInit == Init => AbstractLog!Init
<1> SUFFICES ASSUME Init PROVE AbstractLog!Init
  OBVIOUS
<1>1. ASSUME NEW t \in Threads PROVE Pending(t) = <<>>
  <2>1. back = <<>> /\ front = <<>> /\ InBucket(BucketOf[t]) = <<>>
    BY LoggingAssumption DEF Init, InBucket
  <2>2. <<>> \o <<>> \o <<>> = <<>>
    OBVIOUS
  <2> QED
    BY <2>1, <2>2, FlattenEmpty, OfEmpty DEF Pending
<1>2. [t \in Threads |-> Pending(t)] = [t \in Threads |-> <<>>]
  BY <1>1
<1> QED
  BY <1>2 DEF Init, AbstractLog!Init

(* Taking all of the front buffers changes nothing for the log.            *)
LEMMA SwapStill ==
  ASSUME Typed, Typed', Swap, ~(Len(front) > DropLimit)
  PROVE  \A t \in Threads : Pending(t)' = Pending(t)
<1> SUFFICES ASSUME NEW t \in Threads PROVE Pending(t)' = Pending(t)
  OBVIOUS
<1>1. back = <<>> /\ back' = front /\ front' = <<>> /\ node' = node
  BY DEF Swap, WriterAt, frontVars, Typed, Life
<1>2. Own(t)' = Own(t) /\ InBack(t) = <<>> /\ InFront(t)' = <<>> /\ InBack(t)' = InFront(t)
  BY <1>1, FlattenEmpty, OfEmpty DEF InBack, InFront, Own, InBucket
<1>3. /\ Pending(t) = <<>> \o InFront(t) \o Own(t)
      /\ InFront(t) \in Lists /\ Own(t) \in Lists
  BY <1>2, Listed, PendingParts, LoggingAssumption
<1>4. Pending(t)' = InFront(t) \o <<>> \o Own(t)
  BY <1>2, PendingPartsNext
<1>5. <<>> \o InFront(t) \o Own(t) = InFront(t) \o <<>> \o Own(t)
  <2> DEFINE L == Threads \X Nat  p == InFront(t)  q == Own(t)
  <2>1. p \in Seq(L) /\ q \in Seq(L)
    BY <1>3 DEF Lists
  <2> HIDE DEF L, p, q
  <2> QED
    BY <2>1
<1> QED
  BY <1>3, <1>4, <1>5

(* Each step of the logger is one of Log, or leaves the log alone.         *)
LEMMA LogStep ==
  ASSUME Typed, Typed', Queued, Queued', [Next]_vars
  PROVE  [AbstractLog!Next]_(AbstractLog!vars)
<1>1. ASSUME UNCHANGED <<appended, file>>, \A t \in Threads : Pending(t)' = Pending(t)
      PROVE  UNCHANGED AbstractLog!vars
  BY <1>1 DEF AbstractLog!vars
<1>2. ASSUME NEW u \in Threads, AppendFits(u) \/ AppendFull(u) \/ Refill(u)
      PROVE  [AbstractLog!Next]_(AbstractLog!vars)
  <2>1. CASE Added(u)
    BY <2>1, AcceptStep DEF AbstractLog!Next
  <2>2. CASE Moved(BucketOf[u])
    <3>1. BucketOf[u] \in Buckets
      BY LoggingAssumption
    <3>2. \A t \in Threads : Pending(t)' = Pending(t)
      BY <2>2, <3>1, PendingMoved
    <3> QED
      BY <1>1, <2>2, <3>2 DEF Moved
  <2> QED
    BY <1>2, <2>1, <2>2, AppendKinds
<1>3. CASE Collect
  <2>1. UNCHANGED <<appended, file>>
    BY <1>3, CollectKinds
  <2>2. PICK n \in {next} : n \in Buckets /\ (Moved(n) \/ Still)
    BY <1>3, CollectKinds
  <2>3. \A t \in Threads : Pending(t)' = Pending(t)
    BY <2>2, PendingMoved, PendingStill, LoggingAssumption DEF Still
  <2> QED
    BY <1>1, <2>1, <2>3
<1>4. CASE Swap
  <2>1. CASE Len(front) > DropLimit
    BY <1>4, <2>1, DiscardStep DEF AbstractLog!Next
  <2>2. CASE ~(Len(front) > DropLimit)
    <3>1. UNCHANGED <<appended, file>>
      BY <1>4, <2>2 DEF Swap, frontVars
    <3> QED
      BY <1>1, <1>4, <2>2, <3>1, SwapStill
  <2> QED
    BY <2>1, <2>2
<1>5. CASE Write
  BY <1>5, DeliverStep DEF AbstractLog!Next
<1>6. CASE Recycle
  <2>1. UNCHANGED <<appended, file>>
    BY <1>6 DEF Recycle, frontVars
  <2> QED
    BY <1>1, <1>6, <2>1, PendingRecycled
<1>7. CASE UNCHANGED <<node, front, back, file, appended>>
  <2>1. \A t \in Threads : Pending(t)' = Pending(t)
    BY <1>7 DEF Pending, InBucket
  <2> QED
    BY <1>1, <1>7, <2>1
<1> QED
  BY <1>2, <1>3, <1>4, <1>5, <1>6, <1>7, OtherKinds

(* The logger implements Log, whatever the number of its threads and the   *)
(* sizes of its buffers: every line that append() accepts is in one place, *)
(* in the order of its thread, until it is written once, or dropped        *)
(* together with a notice (AsyncLogging.cpp:82-152).                       *)
THEOREM LoggerImplementsLog == Spec => ImplementsLog
<1>1. Spec => AbstractLog!Init
  BY LogInit DEF Spec
<1>2. Typed /\ Typed' /\ Queued /\ Queued' /\ [Next]_vars => [AbstractLog!Next]_(AbstractLog!vars)
  BY LogStep
<1> QED
  BY <1>1, <1>2, QueuedInvariant, PTL DEF Spec, ImplementsLog, AbstractLog!Spec

-----------------------------------------------------------------------------
(* The logger uses the latch of its Thread as CountDownLatch specifies     *)
(* (Thread.cpp:69-72, 110-115).                                            *)
THEOREM LatchIsUsedAsSpecified == Spec => HandshakeUsesLatch
<1> DEFINE Step == \A o \in {thread_} : T!Latch(o)!Next \/ UNCHANGED T!Latch(o)!vars
           ThStep == \A o \in {thread_} : Th!Latch(o)!Next \/ UNCHANGED Th!Latch(o)!vars
<1>1. (\A o \in {thread_} : Th!Latch(o)!Init) => \A o \in {thread_} : T!Latch(o)!Init
  BY DEF T!Latch!Init, Th!Latch!Init
<1>2. [ThStep]_(Th!vars) => [Step]_(T!vars)
  <2>1. T!vars = Th!vars /\ \A o \in {thread_} : T!Latch(o)!vars = Th!Latch(o)!vars
    BY DEF T!vars, Th!vars, T!Latch!vars, Th!Latch!vars
  <2>2. ASSUME NEW o \in {thread_}, NEW t \in {"user", "thread"}
        PROVE  /\ Th!Latch(o)!CountDown(t) => T!Latch(o)!CountDown(t)
               /\ Th!Latch(o)!BeginWait(t) => T!Latch(o)!BeginWait(t)
               /\ Th!Latch(o)!Wait(t) => T!Latch(o)!Wait(t)
               /\ Th!Latch(o)!SpuriousWakeup(t) => T!Latch(o)!SpuriousWakeup(t)
    BY DEF T!Latch!CountDown, Th!Latch!CountDown, T!Latch!Opens, Th!Latch!Opens,
           T!Latch!BeginWait, Th!Latch!BeginWait, T!Latch!Wait, Th!Latch!Wait, T!Latch!Sleep, Th!Latch!Sleep,
           T!Latch!Pass, Th!Latch!Pass, T!Latch!Closed, Th!Latch!Closed,
           T!Latch!SpuriousWakeup, Th!Latch!SpuriousWakeup
  <2>3. ASSUME NEW o \in {thread_}, Th!Latch(o)!Next PROVE T!Latch(o)!Next
    BY <2>2, <2>3 DEF T!Latch!Next, Th!Latch!Next
  <2>4. ASSUME NEW o \in {thread_}, UNCHANGED Th!Latch(o)!vars PROVE UNCHANGED T!Latch(o)!vars
    BY <2>4 DEF T!Latch!vars, Th!Latch!vars
  <2>5. ThStep => Step
    BY <2>3, <2>4
  <2> QED
    BY <2>5 DEF T!vars, Th!vars
<1>3. Th!HandshakeUsesLatch => (\A o \in {thread_} : Th!Latch(o)!Init) /\ [][ThStep]_(Th!vars)
  BY DEF Th!HandshakeUsesLatch
<1>4. (\A o \in {thread_} : T!Latch(o)!Init) /\ [][Step]_(T!vars) => HandshakeUsesLatch
  BY DEF HandshakeUsesLatch, T!HandshakeUsesLatch
<1> HIDE DEF Step, ThStep
<1>5. [][ThStep]_(Th!vars) => [][Step]_(T!vars)
  BY <1>2, PTL
<1> QED
  BY UsesThread, Th!LatchIsUsedAsSpecified, <1>1, <1>3, <1>4, <1>5
=============================================================================
