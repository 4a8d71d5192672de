-------------------------- MODULE TranscriptProofs --------------------------
(***************************************************************************)
(* What Handle's session and the pruning of the context promise, for any   *)
(* tools, replies, cap and thresholds.                                     *)
(*                                                                         *)
(* The first half is about the operators of Context: what applyCompression *)
(* leaves of a session and where (Places), what mergeOverlappingRanges     *)
(* makes of ranges (MergedIs), what execCompress makes of its arguments    *)
(* (CompressIs), what the list for the model holds (BuiltIs).  They are    *)
(* folds and concatenations; Induction stands for the induction over their *)
(* turns, stated of a set of numbers.                                      *)
(*                                                                         *)
(* The second half is the invariant, IInv.  Results follow their calls     *)
(* (ResultsFollow); while calls are executed, the session ends with theirs *)
(* (Working); the age of a failure is witnessed by messages of the user's  *)
(* (Aging); a recorded signature is that of a call that was executed       *)
(* (Recorded); and the request misses no result of a tool (NoneMissed).    *)
(***************************************************************************)
EXTENDS Transcript, TLAPS, SequenceTheorems, FiniteSetTheorems, WellFoundedInduction

---------------------------------------------------------------------------
(* Numbers.                                                                *)

\* A set of numbers that is not empty has a least one, which is Min.
LEMMA MinOf ==
    ASSUME NEW S \in SUBSET Nat, S # {}
    PROVE  Min(S) \in S /\ \A y \in S : Min(S) <= y
  <1> DEFINE R == {p \in Nat \X Nat : p[1] < p[2]}
  <1>1. IsWellFoundedOn(R, Nat)
        BY NatLessThanWellFounded DEF OpToRel
  <1>2. \A x, y \in Nat : ~(<<x, y>> \in R) => y <= x
        OBVIOUS
  <1> HIDE DEF R
  <1>3. PICK x \in S : \A y \in S : ~(<<y, x>> \in R)
        BY <1>1, WFMin
  <1>4. ASSUME NEW y \in S PROVE x <= y
    <2>1. ~(<<y, x>> \in R)
          BY <1>3, Zenon
    <2>2. x \in Nat /\ y \in Nat
          OBVIOUS
    <2> QED BY <1>2, <2>1, <2>2
  <1> QED BY <1>4 DEF Min

\* A set that holds 0 and with each number the next one holds them all.
LEMMA Induction ==
    ASSUME NEW S, 0 \in S, \A n \in Nat : n \in S => n + 1 \in S
    PROVE  Nat \subseteq S
  <1> SUFFICES ASSUME Nat \ S # {} PROVE FALSE
      OBVIOUS
  <1> DEFINE m == Min(Nat \ S)
  <1>1. m \in Nat \ S /\ \A y \in Nat \ S : m <= y
        BY MinOf
  <1> HIDE DEF m
  <1>2. m # 0 /\ m \in Nat
        BY <1>1
  <1>3. m - 1 \in Nat /\ ~(m <= m - 1)
        BY <1>2
  <1>4. m - 1 \in S
        BY <1>1, <1>3
  <1>5. m - 1 + 1 = m
        BY <1>2
  <1> QED BY <1>1, <1>3, <1>4, <1>5

\* A bounded one has a greatest, which is Max.
LEMMA MaxOf ==
    ASSUME NEW n \in Nat, NEW S \in SUBSET (0..n), S # {}
    PROVE  Max(S) \in S /\ \A y \in S : Max(S) >= y
  <1> DEFINE T == {n - x : x \in S}
  <1>0. \A x \in S : n - x \in Nat
        OBVIOUS
  <1>1. T \in SUBSET Nat /\ T # {}
        BY <1>0
  <1>2. Min(T) \in T /\ \A y \in T : Min(T) <= y
        BY <1>1, MinOf
  <1>3. PICK x \in S : Min(T) = n - x
        BY <1>2
  <1>4. ASSUME NEW y \in S PROVE x >= y
    <2>1. n - x <= n - y
          BY <1>2, <1>3
    <2> QED BY <2>1
  <1> QED BY <1>4 DEF Max

\* How to recognise the least one.
LEMMA MinIs ==
    ASSUME NEW S \in SUBSET Nat, NEW x \in S, \A y \in S : x <= y
    PROVE  Min(S) = x
  <1> DEFINE m == Min(S)
  <1>1. m \in S /\ \A y \in S : m <= y
        BY MinOf
  <1> HIDE DEF m
  <1>2. m <= x /\ m >= x
        BY <1>1
  <1>3. m \in Nat /\ x \in Nat
        BY <1>1
  <1>4. m = x
        BY <1>2, <1>3
  <1> QED BY <1>4 DEF m

\* The same of the greatest.
LEMMA MaxIs ==
    ASSUME NEW n \in Nat, NEW S \in SUBSET (0..n), NEW x \in S, \A y \in S : y <= x
    PROVE  Max(S) = x
  <1> DEFINE m == Max(S)
  <1>1. m \in S /\ \A y \in S : m >= y
        BY MaxOf
  <1> HIDE DEF m
  <1>2. m >= x /\ m <= x
        BY <1>1
  <1>3. m \in 0..n /\ x \in 0..n
        BY <1>1
  <1>4. m = x
        BY <1>2, <1>3
  <1> QED BY <1>4 DEF m

---------------------------------------------------------------------------
(* Sequences.                                                              *)

\* The running concatenation that FlattenSeq computes exists.
LEMMA FlattenDef ==
    ASSUME NEW ss
    PROVE  \A n \in Nat : \E g : g = [i \in 1..n |-> IF i = 1 THEN ss[i] ELSE g[i - 1] \o ss[i]]
  <1> DEFINE S == {n \in Nat : \E g : g = [i \in 1..n |-> IF i = 1 THEN ss[i] ELSE g[i - 1] \o ss[i]]}
  <1>1. 0 \in S
    <2> DEFINE g == [i \in 1..0 |-> <<>>]
    <2>1. g = [i \in 1..0 |-> IF i = 1 THEN ss[i] ELSE g[i - 1] \o ss[i]]
          OBVIOUS
    <2> HIDE DEF g
    <2> QED BY <2>1
  <1>2. ASSUME NEW n \in Nat, n \in S PROVE n + 1 \in S
    <2>1. PICK g : g = [i \in 1..n |-> IF i = 1 THEN ss[i] ELSE g[i - 1] \o ss[i]]
          BY <1>2
    <2> DEFINE h == [i \in 1..n + 1 |-> IF i = n + 1
                                        THEN IF i = 1 THEN ss[i] ELSE g[i - 1] \o ss[i]
                                        ELSE g[i]]
    <2>2. ASSUME NEW i \in 1..n + 1
          PROVE  h[i] = IF i = 1 THEN ss[i] ELSE h[i - 1] \o ss[i]
      <3>1. CASE i = n + 1 /\ i = 1
            BY <3>1
      <3>2. CASE i = n + 1 /\ i # 1
        <4>1. i - 1 \in 1..n + 1 /\ i - 1 # n + 1
              BY <3>2
        <4>2. h[i - 1] = g[i - 1]
              BY <4>1
        <4> QED BY <3>2, <4>2
      <3>3. CASE i # n + 1
        <4>1. i \in 1..n
              BY <3>3
        <4>2. h[i] = g[i] /\ g[i] = IF i = 1 THEN ss[i] ELSE g[i - 1] \o ss[i]
              BY <2>1, <3>3, <4>1
        <4>3. CASE i = 1
              BY <4>2, <4>3
        <4>4. CASE i # 1
          <5>1. i - 1 \in 1..n + 1 /\ i - 1 # n + 1
                BY <4>1, <4>4
          <5>2. h[i - 1] = g[i - 1]
                BY <5>1
          <5> QED BY <4>2, <4>4, <5>2
        <4> QED BY <4>3, <4>4
      <3> QED BY <3>1, <3>2, <3>3
    <2>3. h = [i \in 1..n + 1 |-> h[i]]
          OBVIOUS
    <2> HIDE DEF h
    <2>4. h = [i \in 1..n + 1 |-> IF i = 1 THEN ss[i] ELSE h[i - 1] \o ss[i]]
          BY <2>2, <2>3
    <2>5. \E k : k = [i \in 1..n + 1 |-> IF i = 1 THEN ss[i] ELSE k[i - 1] \o ss[i]]
          BY <2>4, Zenon
    <2>6. n + 1 \in Nat
          OBVIOUS
    <2> QED BY <2>5, <2>6, Zenon
  <1> HIDE DEF S
  <1>3. Nat \subseteq S
        BY <1>1, <1>2, Induction
  <1> QED BY <1>3 DEF S

\* FlattenSeq is the last link of a chain of concatenations ...
LEMMA FlattenIs ==
    ASSUME NEW ss, Len(ss) \in Nat \ {0}
    PROVE  \E g : /\ g = [i \in 1..Len(ss) |-> IF i = 1 THEN ss[i] ELSE g[i - 1] \o ss[i]]
                  /\ FlattenSeq(ss) = g[Len(ss)]
  <1> DEFINE P(g) == g = [i \in 1..Len(ss) |-> IF i = 1 THEN ss[i] ELSE g[i - 1] \o ss[i]]
             c == CHOOSE g : P(g)
  <1>1. \E g : P(g)
        BY FlattenDef
  <1>2. P(c)
        BY <1>1
  <1>3. FlattenSeq(ss) = c[Len(ss)]
        BY DEF FlattenSeq
  <1> QED BY <1>2, <1>3

\* Each g[i] goes on where g[i - 1] ends.
Chain(g, ss, n) == g[0] = <<>> /\ \A i \in 1..n : g[i] = g[i - 1] \o ss[i]

\* ... of which every link is a sequence over the same set.
LEMMA FlattenChain ==
    ASSUME NEW A, NEW ss \in Seq(Seq(A))
    PROVE  \E g : Chain(g, ss, Len(ss)) /\ FlattenSeq(ss) = g[Len(ss)]
  <1> DEFINE n == Len(ss)
  <1>1. n \in Nat
        BY LenProperties
  <1>2. CASE n = 0
    <2> DEFINE g == [i \in 0..n |-> <<>>]
    <2>1. ss = <<>>
          BY <1>2, EmptySeq
    <2>2. Chain(g, ss, n)
          BY <1>2 DEF Chain
    <2>3. FlattenSeq(ss) = g[n]
          BY <1>2, <2>1 DEF FlattenSeq
    <2> HIDE DEF g
    <2> QED BY <2>2, <2>3
  <1>3. CASE n # 0
    <2>1. PICK f : /\ f = [i \in 1..n |-> IF i = 1 THEN ss[i] ELSE f[i - 1] \o ss[i]]
                   /\ FlattenSeq(ss) = f[n]
      <3>1. n \in Nat \ {0}
            BY <1>1, <1>3
      <3> QED BY <3>1, FlattenIs, Zenon
    <2> DEFINE g == [i \in 0..n |-> IF i = 0 THEN <<>> ELSE f[i]]
    <2>2. ASSUME NEW i \in 1..n PROVE g[i] = g[i - 1] \o ss[i]
      <3>1. i \in 0..n /\ i # 0 /\ i - 1 \in 0..n
            BY <1>1
      <3>2. g[i] = f[i] /\ f[i] = IF i = 1 THEN ss[i] ELSE f[i - 1] \o ss[i]
            BY <2>1, <3>1
      <3>3. CASE i = 1
        <4>1. ss[1] \in Seq(A)
              BY <3>3, ElementOfSeq
        <4>2. <<>> \o ss[1] = ss[1]
              BY <4>1, ConcatEmptySeq
        <4>3. g[0] = <<>>
              BY <1>1
        <4>4. i - 1 = 0
              BY <3>3
        <4> HIDE DEF g
        <4> QED BY <3>2, <3>3, <4>2, <4>3, <4>4
      <3>4. CASE i # 1
        <4>1. i - 1 # 0
              BY <3>1, <3>4
        <4>2. g[i - 1] = f[i - 1]
              BY <3>1, <4>1
        <4> QED BY <3>2, <3>4, <4>2
      <3> QED BY <3>3, <3>4
    <2>3. g[n] = f[n] /\ g[0] = <<>>
          BY <1>1, <1>3
    <2> HIDE DEF g
    <2>4. Chain(g, ss, n)
          BY <2>2, <2>3 DEF Chain
    <2> QED BY <2>1, <2>3, <2>4
  <1> QED BY <1>2, <1>3

\* Where the pieces lie in a chain.
Parts(A, g, ss, m) ==
    /\ g[m] \in Seq(A)
    /\ \A i \in 1..m :
          /\ g[i - 1] \in Seq(A)
          /\ Len(g[i]) = Len(g[i - 1]) + Len(ss[i]) /\ Len(g[i]) <= Len(g[m])
          /\ \A k \in 1..Len(ss[i]) : g[m][Len(g[i - 1]) + k] = ss[i][k]
    /\ \A p \in 1..Len(g[m]) : \E i \in 1..m : \E k \in 1..Len(ss[i]) : p = Len(g[i - 1]) + k

\* One more part.
LEMMA PartsStep ==
    ASSUME NEW A, NEW g, NEW ss, NEW m \in Nat, Parts(A, g, ss, m),
           ss[m + 1] \in Seq(A), g[m + 1] = g[m] \o ss[m + 1],
           \A i \in 1..m : Len(ss[i]) \in Nat
    PROVE  Parts(A, g, ss, m + 1)
  <1> DEFINE a == Len(g[m])
             b == Len(ss[m + 1])
  <1>1. g[m] \in Seq(A) /\ a \in Nat /\ b \in Nat
        BY LenProperties DEF Parts
  <1>2. /\ g[m + 1] \in Seq(A) /\ Len(g[m + 1]) = a + b
        /\ \A i \in 1..a + b : g[m + 1][i] = IF i <= a THEN g[m][i] ELSE ss[m + 1][i - a]
    <2>1. /\ g[m] \o ss[m + 1] \in Seq(A)
          /\ Len(g[m] \o ss[m + 1]) = Len(g[m]) + Len(ss[m + 1])
          /\ \A i \in 1..Len(g[m]) + Len(ss[m + 1]) :
                (g[m] \o ss[m + 1])[i] = IF i <= Len(g[m]) THEN g[m][i] ELSE ss[m + 1][i - Len(g[m])]
          BY <1>1, ConcatProperties, Zenon
    <2> QED BY <2>1, Zenon
  <1>3. a = Len(g[m]) /\ b = Len(ss[m + 1]) /\ m + 1 - 1 = m
        OBVIOUS
  <1> HIDE DEF a, b
  <1>4. ASSUME NEW i \in 1..m + 1
        PROVE  /\ g[i - 1] \in Seq(A)
               /\ Len(g[i]) = Len(g[i - 1]) + Len(ss[i]) /\ Len(g[i]) <= Len(g[m + 1])
               /\ \A k \in 1..Len(ss[i]) : g[m + 1][Len(g[i - 1]) + k] = ss[i][k]
    <2>1. CASE i = m + 1
      <3>1. ASSUME NEW k \in 1..b PROVE g[m + 1][a + k] = ss[m + 1][k]
        <4> DEFINE j == a + k
        <4>1. j \in 1..a + b /\ ~(j <= a) /\ j - a = k
              BY <1>1
        <4> HIDE DEF j
        <4>2. g[m + 1][j] = ss[m + 1][j - a]
              BY <1>2, <4>1, Zenon
        <4> QED BY <4>1, <4>2 DEF j
      <3>2. Len(g[m + 1]) = Len(g[m]) + Len(ss[m + 1])
            BY <1>2, <1>3
      <3>3. \A k \in 1..Len(ss[m + 1]) : g[m + 1][Len(g[m]) + k] = ss[m + 1][k]
            BY <1>3, <3>1
      <3>4. Len(g[m + 1]) <= Len(g[m + 1])
            BY <1>1, <1>2
      <3>5. i - 1 = m
            BY <2>1
      <3> QED BY <1>1, <2>1, <3>2, <3>3, <3>4, <3>5
    <2>2. CASE i # m + 1
      <3>1. i \in 1..m
            BY <2>2
      <3>2. /\ g[i - 1] \in Seq(A)
            /\ Len(g[i]) = Len(g[i - 1]) + Len(ss[i]) /\ Len(g[i]) <= a
            /\ \A k \in 1..Len(ss[i]) : g[m][Len(g[i - 1]) + k] = ss[i][k]
            BY <1>3, <3>1 DEF Parts
      <3> DEFINE c == Len(g[i - 1])
                 d == Len(ss[i])
      <3>3. c \in Nat /\ d \in Nat /\ Len(g[i]) = c + d
            BY <3>1, <3>2, LenProperties
      <3>4. c = Len(g[i - 1]) /\ d = Len(ss[i])
            OBVIOUS
      <3> HIDE DEF c, d
      <3>5. c + d <= a /\ c + d <= a + b
        <4>1. c + d <= a
              BY <3>2, <3>3, Zenon
        <4> QED BY <1>1, <3>3, <4>1
      <3>6. ASSUME NEW k \in 1..d PROVE g[m + 1][c + k] = ss[i][k]
        <4>1. c + k \in 1..a + b /\ c + k <= a
              BY <1>1, <3>3, <3>5
        <4>2. g[m][c + k] = ss[i][k]
              BY <3>2, <3>4
        <4> QED BY <1>2, <4>1, <4>2
      <3>7. Len(g[i]) <= Len(g[m + 1])
            BY <1>2, <3>3, <3>5
      <3> QED BY <3>2, <3>4, <3>6, <3>7
    <2> QED BY <2>1, <2>2
  <1>5. ASSUME NEW p \in 1..Len(g[m + 1])
        PROVE  \E i \in 1..m + 1 : \E k \in 1..Len(ss[i]) : p = Len(g[i - 1]) + k
    <2>1. CASE p <= a
      <3>1. p \in 1..Len(g[m])
            BY <1>1, <1>2, <1>3, <2>1
      <3>2. PICK i \in 1..m : \E k \in 1..Len(ss[i]) : p = Len(g[i - 1]) + k
            BY <3>1 DEF Parts
      <3>3. i \in 1..m + 1
            OBVIOUS
      <3> QED BY <3>2, <3>3
    <2>2. CASE ~(p <= a)
      <3>1. p - a \in 1..b /\ p = a + (p - a)
            BY <1>1, <1>2, <2>2
      <3>3. \E k \in 1..Len(ss[m + 1]) : p = Len(g[m + 1 - 1]) + k
            BY <1>3, <3>1
      <3>4. WITNESS m + 1 \in 1..m + 1
      <3> QED BY <3>3
    <2> QED BY <2>1, <2>2
  <1> QED BY <1>2, <1>4, <1>5 DEF Parts

\* Every element of every part is in the result, at its place.
LEMMA ChainParts ==
    ASSUME NEW A, NEW ss \in Seq(Seq(A)), NEW g, Chain(g, ss, Len(ss))
    PROVE  \A m \in 0..Len(ss) : Parts(A, g, ss, m)
  <1> DEFINE n == Len(ss)
             S == {m \in Nat : m <= n => Parts(A, g, ss, m)}
  <1>1. n \in Nat /\ \A i \in 1..n : ss[i] \in Seq(A) /\ Len(ss[i]) \in Nat
        BY LenProperties, ElementOfSeq
  <1>2. 0 \in S
    <2>1. g[0] = <<>> /\ Len(g[0]) = 0 /\ g[0] \in Seq(A)
          BY EmptySeq DEF Chain
    <2>2. Parts(A, g, ss, 0)
      <3>1. 1..0 = {} /\ 1..Len(g[0]) = {}
            BY <2>1
      <3> QED BY <2>1, <3>1 DEF Parts
    <2> QED BY <2>2
  <1>3. ASSUME NEW m \in Nat, m \in S PROVE m + 1 \in S
    <2>1. CASE m + 1 <= n
      <3>1. m <= n /\ m + 1 \in 1..n /\ m + 1 - 1 = m /\ \A i \in 1..m : i \in 1..n
            BY <1>1, <2>1
      <3>2. Parts(A, g, ss, m)
            BY <1>3, <3>1
      <3>3. g[m + 1] = g[m] \o ss[m + 1]
        <4> DEFINE j == m + 1
        <4>1. j \in 1..n /\ j - 1 = m
              BY <3>1
        <4> HIDE DEF j
        <4>2. g[j] = g[j - 1] \o ss[j]
              BY <4>1 DEF Chain
        <4>3. g[j] = g[m] \o ss[j]
              BY <4>1, <4>2
        <4> QED BY <4>3 DEF j
      <3>4. Parts(A, g, ss, m + 1)
        <4>1. ss[m + 1] \in Seq(A) /\ \A i \in 1..m : Len(ss[i]) \in Nat
              BY <1>1, <3>1
        <4> HIDE DEF S
        <4> QED BY <3>2, <3>3, <4>1, PartsStep
      <3> QED BY <3>4
    <2>2. CASE ~(m + 1 <= n)
          BY <2>2
    <2> QED BY <2>1, <2>2
  <1> HIDE DEF S
  <1>4. Nat \subseteq S
        BY <1>2, <1>3, Induction
  <1>5. ASSUME NEW m \in 0..Len(ss) PROVE Parts(A, g, ss, m)
    <2>1. m \in S /\ m <= n
          BY <1>1, <1>4
    <2> QED BY <2>1 DEF S
  <1> QED BY <1>5

\* InsertAt puts one element in and moves the later ones up.
LEMMA InsertAtIs ==
    ASSUME NEW A, NEW s \in Seq(A), NEW e \in A, NEW i \in 1..Len(s) + 1,
           NEW new, new = InsertAt(s, i, e)
    PROVE  /\ new \in Seq(A) /\ Len(new) = Len(s) + 1
           /\ \A j \in 1..i - 1 : new[j] = s[j]
           /\ new[i] = e
           /\ \A j \in i..Len(s) : new[j + 1] = s[j]
  <1> DEFINE n == Len(s)
             u == SubSeq(s, 1, i - 1)
             m == <<e>>
             v == SubSeq(s, i, n)
             w == u \o m
  <1>1. n \in Nat /\ i \in Nat /\ i <= n + 1 /\ 1 <= i /\ \A j \in 1..n : s[j] \in A
        BY LenProperties, ElementOfSeq
  <1>2. u \in Seq(A) /\ Len(u) = i - 1 /\ \A j \in 1..i - 1 : u[j] = s[j]
    <2>1. \A j \in 1..i - 1 : s[j] \in A
          BY <1>1
    <2>2. /\ u \in Seq(A) /\ Len(u) = IF 1 <= i - 1 THEN i - 1 - 1 + 1 ELSE 0
          /\ \A j \in 1..i - 1 - 1 + 1 : u[j] = s[1 + j - 1]
          BY <1>1, <2>1, SubSeqProperties
    <2> HIDE DEF u
    <2> QED BY <1>1, <2>2
  <1>3. /\ v \in Seq(A) /\ Len(v) = n - i + 1
        /\ \A j \in 1..n - i + 1 : v[j] = s[i + j - 1]
    <2>1. \A j \in i..n : s[j] \in A
          BY <1>1
    <2>2. /\ v \in Seq(A) /\ Len(v) = IF i <= n THEN n - i + 1 ELSE 0
          /\ \A j \in 1..n - i + 1 : v[j] = s[i + j - 1]
          BY <1>1, <2>1, SubSeqProperties
    <2> HIDE DEF v
    <2> QED BY <1>1, <2>2
  <1>4. m \in Seq(A) /\ Len(m) = 1 /\ m[1] = e
        OBVIOUS
  <1>5. new = w \o v /\ n = Len(s)
        BY DEF InsertAt
  <1> HIDE DEF u, v, m, n
  <1>6. /\ w \in Seq(A) /\ Len(w) = Len(u) + Len(m)
        /\ \A j \in 1..Len(u) + Len(m) : w[j] = IF j <= Len(u) THEN u[j] ELSE m[j - Len(u)]
        BY <1>2, <1>4, ConcatProperties, Zenon
  <1> HIDE DEF w
  <1>7. /\ new \in Seq(A) /\ Len(new) = Len(w) + Len(v)
        /\ \A j \in 1..Len(w) + Len(v) : new[j] = IF j <= Len(w) THEN w[j] ELSE v[j - Len(w)]
    <2>1. /\ w \o v \in Seq(A) /\ Len(w \o v) = Len(w) + Len(v)
          /\ \A j \in 1..Len(w) + Len(v) : (w \o v)[j] = IF j <= Len(w) THEN w[j] ELSE v[j - Len(w)]
      <3>1. w \in Seq(A) /\ v \in Seq(A)
            BY <1>3, <1>6
      <3> QED BY <3>1, ConcatProperties, Zenon
    <2> QED BY <1>5, <2>1, Zenon
  <1>8. Len(u) = i - 1 /\ Len(m) = 1 /\ Len(w) = i /\ Len(v) = n - i + 1 /\ Len(new) = n + 1
        BY <1>1, <1>2, <1>3, <1>4, <1>6, <1>7
  <1>9. ASSUME NEW j \in 1..i - 1 PROVE new[j] = s[j]
    <2>1. j \in 1..Len(u) + Len(m) /\ j \in 1..Len(w) + Len(v) /\ j <= Len(u) /\ j <= Len(w)
          BY <1>1, <1>8
    <2>2. new[j] = w[j] /\ w[j] = u[j]
          BY <1>6, <1>7, <2>1
    <2> QED BY <1>2, <2>2
  <1>10. new[i] = e
    <2>1. /\ i \in 1..Len(u) + Len(m) /\ i \in 1..Len(w) + Len(v) /\ ~(i <= Len(u)) /\ i <= Len(w)
          /\ i - Len(u) = 1
          BY <1>1, <1>8
    <2>2. new[i] = w[i] /\ w[i] = m[i - Len(u)]
          BY <1>6, <1>7, <2>1
    <2> QED BY <1>4, <2>1, <2>2
  <1>11. ASSUME NEW j \in i..n PROVE new[j + 1] = s[j]
    <2> DEFINE k == j + 1
               l == k - Len(w)
    <2>1. k \in 1..Len(w) + Len(v) /\ ~(k <= Len(w)) /\ k = j + 1
          BY <1>1, <1>8
    <2>2. l \in 1..n - i + 1 /\ i + l - 1 = j /\ l = k - Len(w)
          BY <1>1, <1>8
    <2> HIDE DEF k, l
    <2>3. new[k] = v[l] /\ v[l] = s[i + l - 1]
          BY <1>3, <1>7, <2>1, <2>2
    <2>4. new[k] = s[j]
          BY <2>2, <2>3
    <2> QED BY <2>1, <2>4
  <1>12. \A j \in i..Len(s) : new[j + 1] = s[j]
        BY <1>5, <1>11
  <1> QED BY <1>5, <1>7, <1>8, <1>9, <1>10, <1>12

---------------------------------------------------------------------------
(* The list that applyCompression makes.                                   *)

\* Ranges of a session of n messages, no two of which begin at one place;
\* the summaries they put into the list, and what each message leaves there.
RangesIn(n) == {r \in [from : 1..n, to : 1..n, told : SUBSET (1..n)] : r.from <= r.to}
Apart(rs) == \A k, l \in DOMAIN rs : rs[k].from = rs[l].from => k = l
Marks(rs) == {SummaryOf(rs[k]) : k \in DOMAIN rs}
Summaries(rs, i) == [k \in DOMAIN rs |-> IF rs[k].from = i THEN <<SummaryOf(rs[k])>> ELSE <<>>]
Own(rs, i) == IF i \in removeSet(rs) THEN <<>> ELSE <<Shown(i)>>

\* The summaries that stand before message i.
LEMMA SummariesAre ==
    ASSUME NEW R, NEW rs \in Seq(R), NEW i, NEW s, s = FlattenSeq(Summaries(rs, i))
    PROVE  /\ s \in Seq(Marks(rs))
           /\ \A k \in DOMAIN rs : rs[k].from = i => \E p \in 1..Len(s) : s[p] = SummaryOf(rs[k])
           /\ (\A k \in DOMAIN rs : rs[k].from # i) => Len(s) = 0
           /\ Apart(rs) => Len(s) <= 1
  <1> DEFINE A == Marks(rs)
             T == Summaries(rs, i)
             n == Len(rs)
  <1>1. n \in Nat /\ DOMAIN rs = 1..n
        BY LenProperties
  <1>2. \A k \in 1..n : /\ T[k] = IF rs[k].from = i THEN <<SummaryOf(rs[k])>> ELSE <<>>
                        /\ SummaryOf(rs[k]) \in A
        BY <1>1 DEF Summaries, Marks
  <1>3. \A k \in 1..n : /\ T[k] \in Seq(A)
                        /\ rs[k].from = i => Len(T[k]) = 1 /\ T[k][1] = SummaryOf(rs[k])
                        /\ rs[k].from # i => Len(T[k]) = 0
    <2> HIDE DEF A, T
    <2> SUFFICES ASSUME NEW k \in 1..n
                 PROVE  /\ T[k] \in Seq(A)
                        /\ rs[k].from = i => Len(T[k]) = 1 /\ T[k][1] = SummaryOf(rs[k])
                        /\ rs[k].from # i => Len(T[k]) = 0
        OBVIOUS
    <2> DEFINE e == SummaryOf(rs[k])
    <2>1. e \in A
          BY <1>2
    <2>2. e = SummaryOf(rs[k])
          OBVIOUS
    <2> HIDE DEF e
    <2>3. <<e>> \in Seq(A) /\ Len(<<e>>) = 1 /\ <<e>>[1] = e /\ <<>> \in Seq(A)
          BY <2>1
    <2>4. CASE rs[k].from = i
      <3>1. T[k] = <<e>>
            BY <1>2, <2>2, <2>4
      <3> QED BY <2>2, <2>3, <2>4, <3>1
    <2>5. CASE rs[k].from # i
      <3>1. T[k] = <<>>
            BY <1>2, <2>5
      <3> QED BY <2>3, <2>5, <3>1
    <2> QED BY <2>4, <2>5
  <1>4. T \in Seq(Seq(A)) /\ Len(T) = n
    <2>1. T \in [1..n -> Seq(A)]
      <3>1. DOMAIN T = 1..n /\ T = [k \in 1..n |-> T[k]]
            BY <1>1 DEF Summaries
      <3> HIDE DEF T, A
      <3> QED BY <1>3, <3>1
    <2> HIDE DEF T, A
    <2> QED BY <1>1, <2>1, SeqDef, LenProperties
  <1> HIDE DEF T, A
  <1>5. PICK g : Chain(g, T, n) /\ FlattenSeq(T) = g[n]
        BY <1>4, FlattenChain
  <1>6. Parts(A, g, T, n)
    <2>1. n \in 0..n
          BY <1>1
    <2> QED BY <1>4, <1>5, <2>1, ChainParts
  <1>7. s = g[n]
        BY <1>5 DEF T
  <1>8. ASSUME NEW k \in 1..n, rs[k].from = i
        PROVE  \E p \in 1..Len(s) : s[p] = SummaryOf(rs[k])
    <2> DEFINE p == Len(g[k - 1]) + 1
    <2>1. /\ g[k - 1] \in Seq(A) /\ Len(g[k]) = Len(g[k - 1]) + 1 /\ Len(g[k]) <= Len(g[n])
          /\ g[n][p] = T[k][1]
      <3>1. Len(T[k]) = 1 /\ 1 \in 1..Len(T[k])
            BY <1>3, <1>8
      <3>2. /\ g[k - 1] \in Seq(A)
            /\ Len(g[k]) = Len(g[k - 1]) + Len(T[k]) /\ Len(g[k]) <= Len(g[n])
            /\ \A j \in 1..Len(T[k]) : g[n][Len(g[k - 1]) + j] = T[k][j]
            BY <1>6 DEF Parts
      <3> QED BY <3>1, <3>2
    <2>2. Len(g[k - 1]) \in Nat
          BY <2>1, LenProperties
    <2>3. p \in 1..Len(g[n])
          BY <1>1, <2>1, <2>2, LenProperties, <1>6 DEF Parts
    <2>4. g[n][p] = SummaryOf(rs[k])
          BY <1>3, <1>8, <2>1
    <2> HIDE DEF p
    <2> QED BY <1>7, <2>3, <2>4
  <1>9. ASSUME NEW p \in 1..Len(s)
        PROVE  \E k \in 1..n : rs[k].from = i /\ p = Len(g[k - 1]) + 1
    <2>1. PICK k \in 1..n : \E j \in 1..Len(T[k]) : p = Len(g[k - 1]) + j
          BY <1>6, <1>7 DEF Parts
    <2>2. PICK j \in 1..Len(T[k]) : p = Len(g[k - 1]) + j
          BY <2>1
    <2>3. rs[k].from = i /\ Len(T[k]) = 1
          BY <1>3, <2>2
    <2>4. j = 1
          BY <2>2, <2>3
    <2> QED BY <2>2, <2>3, <2>4
  <1>10. s \in Seq(Marks(rs)) /\ Len(s) \in Nat
        BY <1>6, <1>7, LenProperties DEF Parts, A
  <1>11. ASSUME \A k \in DOMAIN rs : rs[k].from # i PROVE Len(s) = 0
    <2> SUFFICES ASSUME Len(s) # 0 PROVE FALSE
        OBVIOUS
    <2>1. 1 \in 1..Len(s)
          BY <1>10
    <2>2. PICK k \in 1..n : rs[k].from = i
          BY <1>9, <2>1
    <2> QED BY <1>1, <1>11, <2>2
  <1>12. ASSUME Apart(rs) PROVE Len(s) <= 1
    <2> SUFFICES ASSUME ~(Len(s) <= 1) PROVE FALSE
        OBVIOUS
    <2>1. 1 \in 1..Len(s) /\ 2 \in 1..Len(s)
          BY <1>10
    <2>2. PICK k \in 1..n : rs[k].from = i /\ 1 = Len(g[k - 1]) + 1
          BY <1>9, <2>1
    <2>3. PICK l \in 1..n : rs[l].from = i /\ 2 = Len(g[l - 1]) + 1
          BY <1>9, <2>1
    <2>4. k = l
          BY <1>1, <1>12, <2>2, <2>3 DEF Apart
    <2> QED BY <2>2, <2>3, <2>4
  <1> QED BY <1>1, <1>8, <1>10, <1>11, <1>12

Items(n, rs) == {Shown(i) : i \in 1..n} \union Marks(rs)

\* What message i becomes: itself, or the summary of the range it begins.
LEMMA PieceIs ==
    ASSUME NEW n \in Nat, NEW rs \in Seq(RangesIn(n)), NEW i \in 1..n
    PROVE  /\ i \notin removeSet(rs) =>
                FlattenSeq(Summaries(rs, i)) \o Own(rs, i) = <<Shown(i)>>
           /\ i \in removeSet(rs) =>
                FlattenSeq(Summaries(rs, i)) \o Own(rs, i) = FlattenSeq(Summaries(rs, i))
  <1> DEFINE s == FlattenSeq(Summaries(rs, i))
  <1>1. s \in Seq(Marks(rs)) /\ ((\A k \in DOMAIN rs : rs[k].from # i) => Len(s) = 0)
        BY SummariesAre
  <1>2. \A k \in DOMAIN rs : rs[k] \in RangesIn(n)
        BY ElementOfSeq, LenProperties
  <1> HIDE DEF s
  <1>3. ASSUME i \notin removeSet(rs) PROVE s \o Own(rs, i) = <<Shown(i)>>
    <2>1. ASSUME NEW k \in DOMAIN rs PROVE rs[k].from # i
      <3>1. rs[k].from \in rs[k].from .. rs[k].to
            BY <1>2 DEF RangesIn
      <3>2. i \notin rs[k].from .. rs[k].to
            BY <1>3 DEF removeSet
      <3> QED BY <3>1, <3>2
    <2>2. s = <<>>
          BY <1>1, <2>1, EmptySeq
    <2>3. Own(rs, i) = <<Shown(i)>>
          BY <1>3 DEF Own
    <2>4. <<Shown(i)>> \in Seq({Shown(i)})
      <3> DEFINE e == Shown(i)
      <3> HIDE DEF e
      <3>1. <<e>> \in Seq({e})
            OBVIOUS
      <3> QED BY <3>1 DEF e
    <2> QED BY <2>2, <2>3, <2>4, ConcatEmptySeq
  <1>4. ASSUME i \in removeSet(rs) PROVE s \o Own(rs, i) = s
    <2>1. Own(rs, i) = <<>>
          BY <1>4 DEF Own
    <2> QED BY <1>1, <2>1, ConcatEmptySeq
  <1> QED BY <1>3, <1>4 DEF s

\* at[i] is the length of the list behind what message i comes to.
Places(list, n, rs, at) ==
    /\ list \in Seq(Items(n, rs))
    /\ at \in [0..n -> Nat] /\ at[0] = 0
    /\ \A i \in 1..n : at[i - 1] <= at[i]
    /\ \A i \in (1..n) \ removeSet(rs) :
          at[i] = at[i - 1] + 1 /\ at[i] \in 1..Len(list) /\ list[at[i]] = Shown(i)
    /\ \A p \in 1..Len(list) : \/ \E i \in (1..n) \ removeSet(rs) : p = at[i]
                               \/ list[p] \in Marks(rs)
    /\ \A k \in DOMAIN rs : \E p \in 1..Len(list) : list[p] = SummaryOf(rs[k])
    /\ Apart(rs) => \A i \in 0..n : at[i] <= i

\* applyCompression keeps the messages outside the ranges, each once and in order.
THEOREM ShortenedPlaces ==
    ASSUME NEW M, NEW ms \in Seq(M), NEW rs \in Seq(RangesIn(Len(ms)))
    PROVE  \E at : Places(applyCompression(ms, rs), Len(ms), rs, at)
  <1> DEFINE n == Len(ms)
             A == Items(n, rs)
             T == [i \in DOMAIN ms |-> FlattenSeq(Summaries(rs, i)) \o Own(rs, i)]
             list == applyCompression(ms, rs)
  <1>1. n \in Nat /\ DOMAIN ms = 1..n
        BY LenProperties
  <1>2. list = FlattenSeq(T)
        BY DEF applyCompression, Summaries, Own
  <1>3. \A k \in DOMAIN rs : rs[k] \in RangesIn(n)
        BY ElementOfSeq, LenProperties
  <1>4. ASSUME NEW i \in 1..n
        PROVE  /\ T[i] \in Seq(A)
               /\ i \notin removeSet(rs) => Len(T[i]) = 1 /\ T[i][1] = Shown(i)
               /\ i \in removeSet(rs) => T[i] = FlattenSeq(Summaries(rs, i))
    <2>1. T[i] = FlattenSeq(Summaries(rs, i)) \o Own(rs, i)
          BY <1>1
    <2> HIDE DEF T
    <2>2. CASE i \notin removeSet(rs)
      <3>1. T[i] = <<Shown(i)>> /\ Shown(i) \in A
            BY <1>1, <2>1, <2>2, PieceIs DEF Items
      <3> DEFINE e == Shown(i)
      <3> HIDE DEF e, A
      <3>2. T[i] = <<e>> /\ e \in A
            BY <3>1 DEF e
      <3>3. <<e>> \in Seq(A) /\ Len(<<e>>) = 1 /\ <<e>>[1] = e
            BY <3>2
      <3>4. T[i] \in Seq(A) /\ Len(T[i]) = 1 /\ T[i][1] = Shown(i)
            BY <3>2, <3>3 DEF e
      <3> QED BY <2>2, <3>4
    <2>3. CASE i \in removeSet(rs)
      <3>1. T[i] = FlattenSeq(Summaries(rs, i))
            BY <1>1, <2>1, <2>3, PieceIs
      <3>2. T[i] \in Seq(Marks(rs)) /\ Marks(rs) \subseteq A
            BY <3>1, SummariesAre DEF Items
      <3> HIDE DEF A
      <3>3. T[i] \in Seq(A)
            BY <3>2
      <3> QED BY <2>3, <3>1, <3>3
    <2> QED BY <2>2, <2>3
  <1>5. T \in Seq(Seq(A)) /\ Len(T) = n
    <2>1. T = [i \in 1..n |-> T[i]]
          BY <1>1
    <2> HIDE DEF T, A, n
    <2>2. T \in [1..n -> Seq(A)]
          BY <1>4, <2>1
    <2> QED BY <1>1, <2>2, SeqDef, LenProperties
  <1> HIDE DEF T, A, list
  <1>6. PICK g : Chain(g, T, n) /\ list = g[n]
    <2>1. PICK g : Chain(g, T, Len(T)) /\ FlattenSeq(T) = g[Len(T)]
          BY <1>5, FlattenChain
    <2> QED BY <1>2, <1>5, <2>1
  <1>7. \A m \in 0..n : Parts(A, g, T, m)
        BY <1>5, <1>6, ChainParts
  <1> DEFINE at == [i \in 0..n |-> Len(g[i])]
  <1>8. \A i \in 0..n : at[i] = Len(g[i]) /\ at[i] \in Nat
        BY <1>7, LenProperties DEF Parts
  <1>9. list \in Seq(A) /\ at[n] = Len(list) /\ at \in [0..n -> Nat]
    <2>1. n \in 0..n
          BY <1>1
    <2> QED BY <1>6, <1>7, <1>8, <2>1 DEF Parts
  <1>10. at[0] = 0
        BY <1>1, <1>6, <1>8, EmptySeq DEF Chain
  <1> HIDE DEF at
  <1>11. ASSUME NEW i \in 1..n
         PROVE  /\ at[i] = at[i - 1] + Len(T[i]) /\ at[i] <= at[n]
                /\ Len(T[i]) \in Nat /\ at[i - 1] \in Nat /\ at[i] \in Nat
                /\ \A k \in 1..Len(T[i]) : list[at[i - 1] + k] = T[i][k]
    <2>1. n \in 0..n /\ i - 1 \in 0..n /\ i \in 0..n
          BY <1>1
    <2>2. /\ Len(g[i]) = Len(g[i - 1]) + Len(T[i]) /\ Len(g[i]) <= Len(g[n])
          /\ \A k \in 1..Len(T[i]) : g[n][Len(g[i - 1]) + k] = T[i][k]
          BY <1>7, <2>1 DEF Parts
    <2>3. at[n] = Len(g[n]) /\ at[i - 1] = Len(g[i - 1]) /\ at[i] = Len(g[i])
          BY <1>8, <2>1
    <2>4. Len(T[i]) \in Nat /\ at[i - 1] \in Nat /\ at[i] \in Nat
          BY <1>4, <1>8, <2>1, LenProperties
    <2> QED BY <1>6, <2>2, <2>3, <2>4
  <1>12. ASSUME NEW i \in (1..n) \ removeSet(rs)
         PROVE  at[i] = at[i - 1] + 1 /\ at[i] \in 1..Len(list) /\ list[at[i]] = Shown(i)
    <2>1. Len(T[i]) = 1 /\ T[i][1] = Shown(i) /\ 1 \in 1..Len(T[i])
          BY <1>4
    <2>2. at[i] = at[i - 1] + 1 /\ list[at[i - 1] + 1] = Shown(i)
          BY <1>11, <2>1
    <2> QED BY <1>9, <1>11, <2>2
  <1>13. ASSUME NEW p \in 1..Len(list)
         PROVE  (\E i \in (1..n) \ removeSet(rs) : p = at[i]) \/ list[p] \in Marks(rs)
    <2>1. n \in 0..n
          BY <1>1
    <2>2. PICK i \in 1..n : \E k \in 1..Len(T[i]) : p = Len(g[i - 1]) + k
          BY <1>6, <1>7, <2>1 DEF Parts
    <2>3. PICK k \in 1..Len(T[i]) : p = Len(g[i - 1]) + k
          BY <2>2
    <2>4. p = at[i - 1] + k
      <3>1. i - 1 \in 0..n
            BY <1>1
      <3> QED BY <1>8, <2>3, <3>1
    <2>5. list[p] = T[i][k]
          BY <1>11, <2>4
    <2>6. CASE i \notin removeSet(rs)
      <3>1. Len(T[i]) = 1
            BY <1>4, <2>6
      <3>2. k = 1
            BY <2>3, <3>1
      <3>3. p = at[i]
            BY <1>11, <2>4, <3>1, <3>2
      <3> QED BY <2>6, <3>3
    <2>7. CASE i \in removeSet(rs)
      <3>1. T[i] \in Seq(Marks(rs))
            BY <1>4, <2>7, SummariesAre
      <3>2. T[i][k] \in Marks(rs)
            BY <3>1, ElementOfSeq
      <3> QED BY <2>5, <3>2
    <2> QED BY <2>6, <2>7
  <1>14. ASSUME NEW k \in DOMAIN rs
         PROVE  \E p \in 1..Len(list) : list[p] = SummaryOf(rs[k])
    <2> DEFINE i == rs[k].from
    <2>1. i \in 1..n /\ i \in removeSet(rs)
      <3>1. i \in 1..n /\ i \in rs[k].from .. rs[k].to
            BY <1>1, <1>3 DEF RangesIn
      <3> QED BY <3>1 DEF removeSet
    <2>2. i = rs[k].from
          OBVIOUS
    <2> HIDE DEF i
    <2>3. T[i] = FlattenSeq(Summaries(rs, i))
          BY <1>4, <2>1
    <2>4. PICK j \in 1..Len(T[i]) : T[i][j] = SummaryOf(rs[k])
          BY <2>2, <2>3, SummariesAre
    <2> DEFINE p == at[i - 1] + j
    <2>5. p \in 1..Len(list)
      <3>1. at[n] = Len(list)
            BY <1>9
      <3>2. /\ at[i] = at[i - 1] + Len(T[i]) /\ at[i] <= at[n]
            /\ Len(T[i]) \in Nat /\ at[i - 1] \in Nat /\ at[i] \in Nat
            BY <1>11, <2>1
      <3> QED BY <2>4, <3>1, <3>2
    <2>6. list[p] = SummaryOf(rs[k])
          BY <1>11, <2>1, <2>4
    <2> HIDE DEF p
    <2> QED BY <2>5, <2>6
  <1>15. ASSUME Apart(rs) PROVE \A i \in 0..n : at[i] <= i
    <2> DEFINE S == {i \in Nat : i <= n => at[i] <= i}
    <2>1. 0 \in S
          BY <1>10
    <2>2. ASSUME NEW i \in Nat, i \in S PROVE i + 1 \in S
      <3>1. CASE i + 1 <= n
        <4> DEFINE j == i + 1
        <4>1. j \in 1..n /\ j - 1 = i /\ at[i] <= i
              BY <1>1, <2>2, <3>1
        <4> HIDE DEF j
        <4>2. Len(T[j]) <= 1
          <5>1. CASE j \in removeSet(rs)
            <6>1. T[j] = FlattenSeq(Summaries(rs, j))
                  BY <1>4, <4>1, <5>1
            <6> QED BY <1>15, <6>1, SummariesAre
          <5>2. CASE j \notin removeSet(rs)
            <6>1. Len(T[j]) = 1
                  BY <1>4, <4>1, <5>2
            <6> QED BY <6>1
          <5> QED BY <5>1, <5>2
        <4>3. at[j] = at[i] + Len(T[j]) /\ at[i] \in Nat /\ Len(T[j]) \in Nat
              BY <1>11, <4>1
        <4>4. at[j] <= i + 1
              BY <4>1, <4>2, <4>3
        <4> QED BY <4>4 DEF j
      <3>2. CASE ~(i + 1 <= n)
            BY <3>2
      <3> QED BY <3>1, <3>2
    <2> HIDE DEF S
    <2>3. Nat \subseteq S
          BY <2>1, <2>2, Induction
    <2>4. ASSUME NEW i \in 0..n PROVE at[i] <= i
      <3>1. i \in S /\ i <= n
            BY <1>1, <2>3
      <3> QED BY <3>1 DEF S
    <2> QED BY <2>4
  <1>16. \A i \in 1..n : at[i - 1] <= at[i]
        BY <1>11
  <1>17. Places(list, n, rs, at)
        BY <1>9, <1>10, <1>12, <1>13, <1>14, <1>15, <1>16 DEF Places, A
  <1> QED BY <1>17 DEF list

---------------------------------------------------------------------------
(* The folds of mergeOverlappingRanges.                                    *)

\* One turn of the loop that sorts, or of the one that merges.
Turn(b, acc, x) == IF b = "sort" THEN InsertByStart(acc, x) ELSE Absorb(acc, x)

IsFold(g, b, xs, n) ==
    g = [s \in SUBSET (1..n) |-> IF s = {} THEN <<>> ELSE Turn(b, g[s \ {Max(s)}], xs[Max(s)])]

\* The function that a fold computes over the subsets of the indices exists.
LEMMA FoldDef ==
    ASSUME NEW b, NEW xs
    PROVE  \A n \in Nat : \E g : IsFold(g, b, xs, n)
  <1> DEFINE V(g, s) == IF s = {} THEN <<>> ELSE Turn(b, g[s \ {Max(s)}], xs[Max(s)])
             S == {n \in Nat : \E g : g = [s \in SUBSET (1..n) |-> V(g, s)]}
  <1>1. 0 \in S
    <2> DEFINE g == [s \in SUBSET (1..0) |-> <<>>]
    <2>1. \A s \in SUBSET (1..0) : s = {}
          OBVIOUS
    <2>2. \A s \in SUBSET (1..0) : V(g, s) = <<>>
          BY <2>1
    <2>3. g = [s \in SUBSET (1..0) |-> V(g, s)]
          BY <2>2
    <2> HIDE DEF g, V
    <2> QED BY <2>3
  <1>2. ASSUME NEW n \in Nat, n \in S PROVE n + 1 \in S
    <2>1. PICK g : g = [s \in SUBSET (1..n) |-> V(g, s)]
          BY <1>2
    <2> DEFINE h == [s \in SUBSET (1..n + 1) |->
                        IF n + 1 \in s THEN Turn(b, g[s \ {n + 1}], xs[n + 1]) ELSE g[s]]
    <2>2. ASSUME NEW s \in SUBSET (1..n + 1) PROVE h[s] = V(h, s)
      <3>0. s \in SUBSET (0..n + 1) /\ n + 1 \in Nat
            OBVIOUS
      <3>1. CASE n + 1 \in s
        <4>1. Max(s) \in s /\ Max(s) >= n + 1
              BY <3>0, <3>1, MaxOf
        <4>2. Max(s) = n + 1 /\ s # {}
          <5>1. Max(s) \in 1..n + 1 /\ s # {}
                BY <3>1, <4>1
          <5> QED BY <4>1, <5>1
        <4>3. h[s \ {n + 1}] = g[s \ {n + 1}]
          <5>1. s \ {n + 1} \in SUBSET (1..n + 1) /\ n + 1 \notin s \ {n + 1}
                OBVIOUS
          <5> QED BY <5>1
        <4>4. h[s] = Turn(b, g[s \ {n + 1}], xs[n + 1])
              BY <3>1
        <4> HIDE DEF h
        <4> QED BY <4>2, <4>3, <4>4
      <3>2. CASE n + 1 \notin s
        <4>1. s \in SUBSET (1..n)
              BY <3>2
        <4>2. h[s] = g[s] /\ g[s] = V(g, s)
          <5>1. h[s] = g[s]
                BY <3>2
          <5> HIDE DEF V, h
          <5>2. g[s] = V(g, s)
                BY <2>1, <4>1
          <5> QED BY <5>1, <5>2
        <4>3. CASE s = {}
          <5> HIDE DEF h
          <5> QED BY <4>2, <4>3
        <4>4. CASE s # {}
          <5>1. s \ {Max(s)} \in SUBSET (1..n + 1) /\ n + 1 \notin s \ {Max(s)}
                BY <3>2
          <5>2. h[s \ {Max(s)}] = g[s \ {Max(s)}]
                BY <5>1
          <5> HIDE DEF h
          <5> QED BY <4>2, <4>4, <5>2
        <4> QED BY <4>3, <4>4
      <3> QED BY <3>1, <3>2
    <2>3. h = [s \in SUBSET (1..n + 1) |-> h[s]]
          OBVIOUS
    <2> HIDE DEF h, V
    <2>4. h = [s \in SUBSET (1..n + 1) |-> V(h, s)]
          BY <2>2, <2>3
    <2>5. n + 1 \in Nat
          OBVIOUS
    <2> QED BY <2>4, <2>5
  <1> HIDE DEF S
  <1>3. Nat \subseteq S
        BY <1>1, <1>2, Induction
  <1> QED BY <1>3 DEF S, IsFold

\* What such a function is on 1..0, 1..1, and so on.
LEMMA FoldSteps ==
    ASSUME NEW b, NEW xs, NEW n \in Nat, NEW g, IsFold(g, b, xs, n)
    PROVE  g[1..0] = <<>> /\ \A i \in 1..n : g[1..i] = Turn(b, g[1..i - 1], xs[i])
  <1> DEFINE V(s) == IF s = {} THEN <<>> ELSE Turn(b, g[s \ {Max(s)}], xs[Max(s)])
  <1>1. \A s \in SUBSET (1..n) : g[s] = V(s)
        BY DEF IsFold
  <1>2. g[1..0] = <<>>
    <2>1. 1..0 \in SUBSET (1..n) /\ 1..0 = {}
          OBVIOUS
    <2> QED BY <1>1, <2>1
  <1>3. ASSUME NEW i \in 1..n PROVE g[1..i] = Turn(b, g[1..i - 1], xs[i])
    <2> DEFINE s == 1..i
    <2>1. s \in SUBSET (1..n) /\ s # {} /\ i \in s /\ s \in SUBSET (0..n)
      <3>1. \A j \in 1..i : j \in 1..n /\ j \in 0..n
            OBVIOUS
      <3>2. i \in 1..i
            OBVIOUS
      <3> QED BY <3>1, <3>2
    <2>2. Max(s) \in s /\ Max(s) >= i
          BY <2>1, MaxOf
    <2>3. Max(s) = i /\ s \ {i} = 1..i - 1
          BY <2>2
    <2>4. g[s] = V(s)
          BY <1>1, <2>1
    <2> HIDE DEF s
    <2>5. g[s] = Turn(b, g[1..i - 1], xs[i])
          BY <2>1, <2>3, <2>4
    <2> QED BY <2>5 DEF s
  <1> QED BY <1>2, <1>3

\* h[i] is what the first i turns make.
Fold(b, xs, n, h) == h[0] = <<>> /\ \A i \in 1..n : h[i] = Turn(b, h[i - 1], xs[i])

\* Both loops as functions of the number of turns.
LEMMA SortFold ==
    ASSUME NEW xs, NEW n \in Nat, DOMAIN xs = 1..n
    PROVE  \E h : Fold("sort", xs, n, h) /\ FoldLeft(InsertByStart, <<>>, xs) = h[n]
  <1> DEFINE P(g) == g = [s \in SUBSET (1..n) |->
                            IF s = {} THEN <<>> ELSE InsertByStart(g[s \ {Max(s)}], xs[Max(s)])]
             c == CHOOSE g : P(g)
  <1>1. \E g : P(g)
    <2>1. PICK g : IsFold(g, "sort", xs, n)
          BY FoldDef
    <2>2. P(g)
          BY <2>1 DEF Turn, IsFold
    <2> QED BY <2>2
  <1>2. P(c)
        BY <1>1
  <1>3. FoldLeft(InsertByStart, <<>>, xs) = c[1..n]
        BY DEF FoldLeft, MapThenFoldSet
  <1> HIDE DEF c
  <1>4. IsFold(c, "sort", xs, n)
        BY <1>2 DEF Turn, IsFold
  <1>5. c[1..0] = <<>> /\ \A i \in 1..n : c[1..i] = Turn("sort", c[1..i - 1], xs[i])
        BY <1>4, FoldSteps
  <1> DEFINE h == [i \in 0..n |-> c[1..i]]
  <1>6. h[0] = <<>> /\ h[n] = c[1..n]
        BY <1>5
  <1>7. \A i \in 1..n : h[i] = Turn("sort", h[i - 1], xs[i])
    <2>1. \A i \in 1..n : i \in 0..n /\ i - 1 \in 0..n
          OBVIOUS
    <2> QED BY <1>5, <2>1
  <1> HIDE DEF h
  <1> QED BY <1>3, <1>6, <1>7 DEF Fold

\* The loop that merges, in the same way.
LEMMA AbsorbFold ==
    ASSUME NEW xs, NEW n \in Nat, DOMAIN xs = 1..n
    PROVE  \E h : Fold("merge", xs, n, h) /\ FoldLeft(Absorb, <<>>, xs) = h[n]
  <1> DEFINE P(g) == g = [s \in SUBSET (1..n) |->
                            IF s = {} THEN <<>> ELSE Absorb(g[s \ {Max(s)}], xs[Max(s)])]
             c == CHOOSE g : P(g)
  <1>1. \E g : P(g)
    <2>1. PICK g : IsFold(g, "merge", xs, n)
          BY FoldDef
    <2>2. P(g)
          BY <2>1 DEF Turn, IsFold
    <2> QED BY <2>2
  <1>2. P(c)
        BY <1>1
  <1>3. FoldLeft(Absorb, <<>>, xs) = c[1..n]
        BY DEF FoldLeft, MapThenFoldSet
  <1> HIDE DEF c
  <1>4. IsFold(c, "merge", xs, n)
        BY <1>2 DEF Turn, IsFold
  <1>5. c[1..0] = <<>> /\ \A i \in 1..n : c[1..i] = Turn("merge", c[1..i - 1], xs[i])
        BY <1>4, FoldSteps
  <1> DEFINE h == [i \in 0..n |-> c[1..i]]
  <1>6. h[0] = <<>> /\ h[n] = c[1..n]
        BY <1>5
  <1>7. \A i \in 1..n : h[i] = Turn("merge", h[i - 1], xs[i])
    <2>1. \A i \in 1..n : i \in 0..n /\ i - 1 \in 0..n
          OBVIOUS
    <2> QED BY <1>5, <2>1
  <1> HIDE DEF h
  <1> QED BY <1>3, <1>6, <1>7 DEF Fold

---------------------------------------------------------------------------
(* Sorting and merging.                                                    *)

\* Ranges in order of their beginnings; with a gap between them.
Sorted(rs) == \A i, j \in 1..Len(rs) : i <= j => rs[i].from <= rs[j].from
Separated(rs) == \A i \in 1..Len(rs) - 1 : rs[i].to + 1 < rs[i + 1].from

\* A set of indices that has all indices below its own is an initial segment.
LEMMA Segment ==
    ASSUME NEW n \in Nat, NEW I \in SUBSET (1..n), \A i \in I, j \in 1..n : j <= i => j \in I
    PROVE  Cardinality(I) \in 0..n /\ I = 1..Cardinality(I)
  <1>1. CASE I = {}
    <2>1. Cardinality(I) = 0
          BY <1>1, FS_EmptySet
    <2>2. I = 1..0
          BY <1>1
    <2> QED BY <2>1, <2>2
  <1>2. CASE I # {}
    <2>1. I \in SUBSET (0..n)
          OBVIOUS
    <2>2. Max(I) \in I /\ \A y \in I : Max(I) >= y
          BY <1>2, <2>1, MaxOf
    <2> DEFINE m == Max(I)
    <2>3. m \in I /\ \A y \in I : m >= y
          BY <2>2
    <2> HIDE DEF m
    <2>4. m \in 1..n
          BY <2>3
    <2>5. I = 1..m
      <3>1. ASSUME NEW x \in I PROVE x \in 1..m
            BY <2>3, <2>4
      <3>2. ASSUME NEW x \in 1..m PROVE x \in I
        <4>1. x \in 1..n /\ x <= m
              BY <2>4
        <4> QED BY <2>3, <4>1
      <3> QED BY <3>1, <3>2
    <2>6. Cardinality(1..m) = m
      <3>1. m \in Int /\ ~(1 > m) /\ m - 1 + 1 = m
            BY <2>4
      <3>2. Cardinality(1..m) = IF 1 > m THEN 0 ELSE m - 1 + 1
            BY <3>1, FS_Interval
      <3> QED BY <3>1, <3>2
    <2> QED BY <2>4, <2>5, <2>6
  <1> QED BY <1>1, <1>2

\* new has the elements of rs, and r.
Grown(rs, r, new) ==
    /\ \A i \in 1..Len(new) : new[i] = r \/ \E j \in 1..Len(rs) : new[i] = rs[j]
    /\ \E i \in 1..Len(new) : new[i] = r
    /\ \A j \in 1..Len(rs) : \E i \in 1..Len(new) : new[i] = rs[j]

\* A turn of the sort keeps the order and puts one range in.
LEMMA SortStep ==
    ASSUME NEW n \in Nat, NEW rs \in Seq(RangesIn(n)), Sorted(rs), NEW r \in RangesIn(n),
           NEW new, new = InsertByStart(rs, r)
    PROVE  new \in Seq(RangesIn(n)) /\ Sorted(new) /\ Grown(rs, r, new)
  <1> DEFINE L == Len(rs)
             I == {i \in 1..L : rs[i].from <= r.from}
             c == Cardinality(I)
             p == 1 + c
  <1>1. L \in Nat /\ DOMAIN rs = 1..L /\ \A i \in 1..L : rs[i] \in RangesIn(n)
        BY LenProperties, ElementOfSeq
  <1>2. r.from \in Nat /\ \A i \in 1..L : rs[i].from \in Nat
        BY <1>1 DEF RangesIn
  <1>3. c \in 0..L /\ I = 1..c
    <2>1. ASSUME NEW i \in I, NEW j \in 1..L, j <= i PROVE j \in I
      <3>1. rs[j].from <= rs[i].from
            BY <2>1 DEF Sorted
      <3> QED BY <1>2, <3>1
    <2> HIDE DEF I
    <2>2. I \in SUBSET (1..L)
          BY DEF I
    <2> QED BY <1>1, <2>1, <2>2, Segment
  <1>4. new = InsertAt(rs, p, r)
        BY <1>1 DEF InsertByStart
  <1>5. \A i \in 1..L : i <= c <=> rs[i].from <= r.from
    <2>1. \A i \in 1..L : i \in I <=> rs[i].from <= r.from
          OBVIOUS
    <2> HIDE DEF I
    <2>2. \A i \in 1..L : i <= c <=> i \in I
      <3> HIDE DEF c
      <3> QED BY <1>1, <1>3
    <2> QED BY <2>1, <2>2
  <1> HIDE DEF I, c, L
  <1>6. p \in 1..L + 1 /\ p \in 1..Len(rs) + 1
        BY <1>1, <1>3 DEF L
  <1>7. /\ new \in Seq(RangesIn(n)) /\ Len(new) = L + 1
        /\ \A j \in 1..p - 1 : new[j] = rs[j]
        /\ new[p] = r
        /\ \A j \in p..L : new[j + 1] = rs[j]
        BY <1>4, <1>6, InsertAtIs DEF L
  <1>8. \A j \in 1..L : \/ j \in 1..p - 1
                        \/ j \in p..L /\ j + 1 \in 1..L + 1
        BY <1>1, <1>3
  <1>9. ASSUME NEW i \in 1..L + 1
        PROVE  \/ i \in 1..L /\ i <= c /\ new[i] = rs[i]
               \/ i = p /\ new[i] = r
               \/ i - 1 \in 1..L /\ ~(i - 1 <= c) /\ new[i] = rs[i - 1]
    <2>1. CASE i <= c
      <3>1. i \in 1..p - 1 /\ i \in 1..L
            BY <1>1, <1>3, <2>1
      <3> QED BY <1>7, <2>1, <3>1
    <2>2. CASE i = p
          BY <1>7, <2>2
    <2>3. CASE i > p
      <3> DEFINE j == i - 1
      <3>1. j \in p..L /\ j \in 1..L /\ ~(j <= c) /\ j + 1 = i /\ j = i - 1
            BY <1>1, <1>3, <2>3
      <3> HIDE DEF j
      <3>2. new[i] = rs[j]
            BY <1>7, <3>1
      <3> QED BY <3>1, <3>2
    <2>4. i <= c \/ i = p \/ i > p
          BY <1>3
    <2> QED BY <2>1, <2>2, <2>3, <2>4
  <1> HIDE DEF p
  <1>10. \A i \in 1..L + 1 : new[i] = r \/ \E j \in 1..L : new[i] = rs[j]
        BY <1>9
  <1>11. \E i \in 1..L + 1 : new[i] = r
        BY <1>6, <1>7
  <1>12. \A j \in 1..L : \E i \in 1..L + 1 : new[i] = rs[j]
    <2> SUFFICES ASSUME NEW j \in 1..L PROVE \E i \in 1..L + 1 : new[i] = rs[j]
        OBVIOUS
    <2>1. CASE j \in 1..p - 1
      <3>1. j \in 1..L + 1
            BY <1>1
      <3> QED BY <1>7, <2>1, <3>1
    <2>2. CASE j \in p..L /\ j + 1 \in 1..L + 1
          BY <1>7, <2>2
    <2> QED BY <1>8, <2>1, <2>2
  <1>13. Sorted(new)
    <2> SUFFICES ASSUME NEW i \in 1..L + 1, NEW j \in 1..L + 1, i <= j
                 PROVE  new[i].from <= new[j].from
        BY <1>7 DEF Sorted
    <2>1. CASE i = j
      <3>1. new[i].from \in Nat
            BY <1>2, <1>10
      <3> QED BY <2>1, <3>1
    <2>2. CASE i # j
      <3>1. i < j
            BY <2>2
      <3>2. \A k, l \in 1..L : k <= l => rs[k].from <= rs[l].from
            BY DEF Sorted, L
      <3>3. CASE i \in 1..L /\ i <= c /\ new[i] = rs[i]
        <4>1. CASE j \in 1..L /\ new[j] = rs[j]
              BY <3>1, <3>2, <3>3, <4>1
        <4>2. CASE j = p /\ new[j] = r
              BY <1>5, <3>3, <4>2
        <4>3. CASE j - 1 \in 1..L /\ new[j] = rs[j - 1]
          <5>1. i <= j - 1
                BY <3>1
          <5> QED BY <3>2, <3>3, <4>3, <5>1
        <4> QED BY <1>9, <4>1, <4>2, <4>3
      <3>4. CASE i = p /\ new[i] = r
        <4>1. j - 1 \in 1..L /\ ~(j - 1 <= c) /\ new[j] = rs[j - 1]
          <5>1. ~(j <= c) /\ j # p
                BY <1>3, <3>1, <3>4 DEF p
          <5> QED BY <1>9, <5>1
        <4>2. ~(rs[j - 1].from <= r.from) /\ rs[j - 1].from \in Nat
              BY <1>2, <1>5, <4>1
        <4> QED BY <1>2, <3>4, <4>1, <4>2
      <3>5. CASE i - 1 \in 1..L /\ ~(i - 1 <= c) /\ new[i] = rs[i - 1]
        <4>1. j - 1 \in 1..L /\ new[j] = rs[j - 1]
          <5>1. ~(j <= c) /\ j # p
                BY <1>3, <3>1, <3>5 DEF p
          <5> QED BY <1>9, <5>1
        <4>2. i - 1 <= j - 1
              BY <3>1
        <4> QED BY <3>2, <3>5, <4>1, <4>2
      <3> QED BY <1>9, <3>3, <3>4, <3>5
    <2> QED BY <2>1, <2>2
  <1> QED BY <1>7, <1>10, <1>11, <1>12, <1>13 DEF L, Grown

\* A turn of the merge keeps the gaps, hides what the range hid and tells no
\* more than both told.
LEMMA AbsorbStep ==
    ASSUME NEW n \in Nat, NEW rs \in Seq(RangesIn(n)), Separated(rs), NEW r \in RangesIn(n),
           rs # <<>> => rs[Len(rs)].from <= r.from,
           NEW new, new = Absorb(rs, r)
    PROVE  /\ new \in Seq(RangesIn(n)) /\ new # <<>> /\ Separated(new)
           /\ new[Len(new)].from <= r.from
           /\ removeSet(new) = removeSet(rs) \union (r.from .. r.to)
           /\ Whole(rs) /\ r.told = r.from .. r.to => Whole(new)
           /\ Told(new) \subseteq Told(rs) \union r.told
  <1> DEFINE L == Len(rs)
  <1>1. L \in Nat /\ DOMAIN rs = 1..L /\ \A i \in 1..L : rs[i] \in RangesIn(n)
        BY LenProperties, ElementOfSeq
  <1>2. /\ r.from \in 1..n /\ r.to \in 1..n /\ r.told \subseteq 1..n /\ r.from <= r.to
        /\ \A i \in 1..L : /\ rs[i].from \in 1..n /\ rs[i].to \in 1..n /\ rs[i].from <= rs[i].to
                           /\ rs[i].told \subseteq 1..n
        BY <1>1 DEF RangesIn
  <1>3. \A x : x \in removeSet(rs) <=> \E i \in 1..L : x \in rs[i].from .. rs[i].to
        BY <1>1 DEF removeSet
  <1>4. CASE rs = <<>> \/ r.from > rs[L].to + 1
    <2>1. new = Append(rs, r)
          BY <1>4 DEF Absorb, Last
    <2>2. /\ new \in Seq(RangesIn(n)) /\ Len(new) = L + 1 /\ new[L + 1] = r
          /\ \A i \in 1..L : new[i] = rs[i]
          BY <2>1, AppendProperties
    <2>0. L = Len(rs)
          OBVIOUS
    <2> HIDE DEF L
    <2>3. DOMAIN new = 1..L + 1
          BY <2>2, LenProperties
    <2>4. Separated(new)
      <3> SUFFICES ASSUME NEW i \in 1..L PROVE new[i].to + 1 < new[i + 1].from
          BY <1>1, <2>2 DEF Separated
      <3>1. CASE i = L
        <4>1. rs # <<>>
              BY <3>1 DEF L
        <4>2. r.from > rs[L].to + 1
              BY <1>4, <4>1 DEF L
        <4> QED BY <1>2, <2>2, <3>1, <4>2
      <3>2. CASE i # L
        <4>0. i \in 1..L - 1 /\ i + 1 \in 1..L
              BY <1>1, <3>2
        <4>1. i \in 1..Len(rs) - 1 /\ i + 1 \in 1..L
              BY <2>0, <4>0
        <4>2. rs[i].to + 1 < rs[i + 1].from
              BY <4>1 DEF Separated
        <4> QED BY <2>2, <4>1, <4>2
      <3> QED BY <3>1, <3>2
    <2>5. removeSet(new) = removeSet(rs) \union (r.from .. r.to)
      <3>1. \A x : x \in removeSet(new) <=> \E i \in 1..L + 1 : x \in new[i].from .. new[i].to
            BY <2>3 DEF removeSet
      <3>2. \A i \in 1..L + 1 : i \in 1..L \/ i = L + 1
            BY <1>1
      <3>3. \A i \in 1..L : i \in 1..L + 1
            BY <1>1
      <3>4. L + 1 \in 1..L + 1
            BY <1>1
      <3>5. ASSUME NEW x \in removeSet(new) PROVE x \in removeSet(rs) \union (r.from .. r.to)
            BY <1>3, <2>2, <3>1, <3>2, <3>5
      <3>6. ASSUME NEW x \in removeSet(rs) PROVE x \in removeSet(new)
            BY <1>3, <2>2, <3>1, <3>3, <3>6
      <3>7. ASSUME NEW x \in r.from .. r.to PROVE x \in removeSet(new)
            BY <2>2, <3>1, <3>4, <3>7
      <3> QED BY <3>5, <3>6, <3>7
    <2>6. ASSUME Whole(rs), r.told = r.from .. r.to PROVE Whole(new)
      <3> SUFFICES ASSUME NEW i \in 1..L + 1 PROVE new[i].told = new[i].from .. new[i].to
          BY <2>3 DEF Whole
      <3>1. CASE i \in 1..L
            BY <1>1, <2>2, <2>6, <3>1 DEF Whole
      <3>2. CASE i = L + 1
            BY <2>2, <2>6, <3>2
      <3>3. i \in 1..L \/ i = L + 1
            BY <1>1
      <3> QED BY <3>1, <3>2, <3>3
    <2>7. Told(new) \subseteq Told(rs) \union r.told
      <3> SUFFICES ASSUME NEW x \in Told(new) PROVE x \in Told(rs) \union r.told
          OBVIOUS
      <3>1. PICK i \in 1..L + 1 : x \in new[i].told
            BY <2>3 DEF Told
      <3>2. i \in 1..L \/ i = L + 1
            BY <1>1
      <3> QED BY <1>1, <2>2, <3>1, <3>2 DEF Told
    <2>8. new # <<>> /\ new[Len(new)].from <= r.from
      <3>1. L + 1 # 0 /\ r.from <= r.from
            BY <1>1, <1>2
      <3> QED BY <2>2, <3>1
    <2> QED BY <2>2, <2>4, <2>5, <2>6, <2>7, <2>8
  <1>5. CASE rs # <<>> /\ ~(r.from > rs[L].to + 1)
    <2>1. L \in 1..L /\ L # 0
          BY <1>1, <1>5, EmptySeq
    <2>2. /\ rs[L].from \in 1..n /\ rs[L].to \in 1..n /\ rs[L].from <= rs[L].to
          /\ rs[L].told \subseteq 1..n /\ rs[L].from <= r.from /\ r.from <= rs[L].to + 1
          BY <1>2, <1>5, <2>1
    <2>3. CASE ~(r.to > rs[L].to)
      <3>1. new = rs
            BY <1>5, <2>3 DEF Absorb, Last
      <3>2. r.from .. r.to \subseteq rs[L].from .. rs[L].to
            BY <1>2, <2>2, <2>3
      <3>3. rs[L].from .. rs[L].to \subseteq removeSet(rs)
            BY <1>3, <2>1
      <3>4. removeSet(new) = removeSet(rs) \union (r.from .. r.to)
            BY <3>1, <3>2, <3>3
      <3> QED BY <1>5, <2>2, <3>1, <3>4
    <2>4. CASE r.to > rs[L].to
      <3> DEFINE e == [rs[L] EXCEPT !.to = r.to, !.told = @ \union r.told]
      <3>1. /\ e.from = rs[L].from /\ e.to = r.to /\ e.told = rs[L].told \union r.told
            /\ e \in RangesIn(n)
        <4>1. rs[L] \in RangesIn(n)
              BY <1>1, <2>1
        <4>2. rs[L] = [from |-> rs[L].from, to |-> rs[L].to, told |-> rs[L].told]
              BY <4>1 DEF RangesIn
        <4>3. e = [from |-> rs[L].from, to |-> r.to, told |-> rs[L].told \union r.told]
          <5>1. ASSUME NEW f, NEW a, NEW b, NEW c, NEW t,
                       f = [from |-> a, to |-> b, told |-> c]
                PROVE  [f EXCEPT !.to = t] = [from |-> a, to |-> t, told |-> c]
                BY <5>1
          <5>2. ASSUME NEW f, NEW a, NEW b, NEW c, NEW t,
                       f = [from |-> a, to |-> b, told |-> c]
                PROVE  [f EXCEPT !.told = t] = [from |-> a, to |-> b, told |-> t]
                BY <5>2
          <5> DEFINE f == [rs[L] EXCEPT !.to = r.to]
          <5>3. f = [from |-> rs[L].from, to |-> r.to, told |-> rs[L].told]
                BY <4>2, <5>1
          <5>4. e = [f EXCEPT !.told = f.told \union r.told]
                OBVIOUS
          <5> HIDE DEF f, e
          <5>5. f.told = rs[L].told
                BY <5>3
          <5> QED BY <5>2, <5>3, <5>4, <5>5
        <4>4. rs[L].told \union r.told \in SUBSET (1..n) /\ rs[L].from <= r.to
              BY <1>2, <2>2, <2>4
        <4> HIDE DEF e
        <4> QED BY <1>2, <2>2, <4>3, <4>4 DEF RangesIn
      <3>2. new = [rs EXCEPT ![L] = e]
        <4>1. new = [rs EXCEPT ![Len(rs)].to = r.to, ![Len(rs)].told = @ \union r.told]
              BY <1>5, <2>4 DEF Absorb, Last
        <4> QED BY <1>1, <2>1, <4>1
      <3> HIDE DEF e
      <3>3. /\ new \in Seq(RangesIn(n)) /\ Len(new) = L /\ DOMAIN new = 1..L
            /\ new[L] = e /\ \A i \in 1..L - 1 : new[i] = rs[i] /\ i \in 1..L
        <4> HIDE DEF L
        <4>1. new \in [1..L -> RangesIn(n)]
              BY <1>1, <3>1, <3>2 DEF L
        <4>2. new[L] = e
              BY <1>1, <2>1, <3>2
        <4>3. \A i \in 1..L - 1 : i \in 1..L /\ i # L
              BY <1>1
        <4>4. \A i \in 1..L - 1 : new[i] = rs[i]
              BY <1>1, <3>2, <4>3
        <4> QED BY <1>1, <4>1, <4>2, <4>3, <4>4, SeqDef, LenProperties
      <3>0. L = Len(rs)
            OBVIOUS
      <3> HIDE DEF L
      <3>4. Separated(new)
        <4> SUFFICES ASSUME NEW i \in 1..L - 1 PROVE new[i].to + 1 < new[i + 1].from
            BY <3>3 DEF Separated
        <4>1. rs[i].to + 1 < rs[i + 1].from
              BY <3>0 DEF Separated
        <4>2. new[i] = rs[i]
              BY <3>3
        <4>3. new[i + 1].from = rs[i + 1].from
          <5>1. CASE i + 1 = L
                BY <3>1, <3>3, <5>1
          <5>2. CASE i + 1 # L
            <6>1. i + 1 \in 1..L - 1
                  BY <1>1, <5>2
            <6> QED BY <3>3, <6>1
          <5> QED BY <5>1, <5>2
        <4> QED BY <4>1, <4>2, <4>3
      <3>5. \A i \in 1..L : i \in 1..L - 1 \/ i = L
            BY <1>1
      <3>6. e.from .. e.to = (rs[L].from .. rs[L].to) \union (r.from .. r.to)
            BY <1>2, <2>2, <2>4, <3>1
      <3>7. removeSet(new) = removeSet(rs) \union (r.from .. r.to)
        <4>1. \A x : x \in removeSet(new) <=> \E i \in 1..L : x \in new[i].from .. new[i].to
              BY <3>3 DEF removeSet
        <4>2. ASSUME NEW x \in removeSet(new) PROVE x \in removeSet(rs) \union (r.from .. r.to)
          <5>1. PICK i \in 1..L : x \in new[i].from .. new[i].to
                BY <4>1
          <5>2. CASE i \in 1..L - 1
                BY <1>3, <3>3, <5>1, <5>2
          <5>3. CASE i = L
                BY <1>3, <2>1, <3>3, <3>6, <5>1, <5>3
          <5> QED BY <3>5, <5>2, <5>3
        <4>3. ASSUME NEW x \in removeSet(rs) PROVE x \in removeSet(new)
          <5>1. PICK i \in 1..L : x \in rs[i].from .. rs[i].to
                BY <1>3
          <5>2. CASE i \in 1..L - 1
                BY <3>3, <4>1, <5>1, <5>2
          <5>3. CASE i = L
                BY <2>1, <3>3, <3>6, <4>1, <5>1, <5>3
          <5> QED BY <3>5, <5>2, <5>3
        <4>4. ASSUME NEW x \in r.from .. r.to PROVE x \in removeSet(new)
              BY <2>1, <3>3, <3>6, <4>1, <4>4
        <4> QED BY <4>2, <4>3, <4>4
      <3>8. ASSUME Whole(rs), r.told = r.from .. r.to PROVE Whole(new)
        <4> SUFFICES ASSUME NEW i \in 1..L PROVE new[i].told = new[i].from .. new[i].to
            BY <3>3 DEF Whole
        <4>1. CASE i \in 1..L - 1
              BY <1>1, <3>3, <3>8, <4>1 DEF Whole
        <4>2. CASE i = L
          <5>1. rs[L].told = rs[L].from .. rs[L].to
                BY <1>1, <2>1, <3>8 DEF Whole
          <5> QED BY <3>1, <3>3, <3>6, <3>8, <4>2, <5>1
        <4> QED BY <3>5, <4>1, <4>2
      <3>9. Told(new) \subseteq Told(rs) \union r.told
        <4> SUFFICES ASSUME NEW x \in Told(new) PROVE x \in Told(rs) \union r.told
            OBVIOUS
        <4>1. PICK i \in 1..L : x \in new[i].told
              BY <3>3 DEF Told
        <4>2. CASE i \in 1..L - 1
              BY <1>1, <3>3, <4>1, <4>2 DEF Told
        <4>3. CASE i = L
              BY <1>1, <2>1, <3>1, <3>3, <4>1, <4>3 DEF Told
        <4> QED BY <3>5, <4>2, <4>3
      <3>10. new # <<>> /\ new[Len(new)].from <= r.from
        <4>1. Len(new) # 0
              BY <2>1, <3>3
        <4>2. new # <<>>
              BY <4>1
        <4>3. new[Len(new)].from <= r.from
              BY <2>2, <3>1, <3>3
        <4> QED BY <4>2, <4>3
      <3> QED BY <3>3, <3>4, <3>7, <3>8, <3>9, <3>10
    <2> QED BY <2>3, <2>4
  <1> QED BY <1>4, <1>5

\* The same ranges, perhaps in another order.
Same(rs, xs) ==
    /\ \A i \in 1..Len(xs) : \E k \in 1..Len(rs) : xs[i] = rs[k]
    /\ \A k \in 1..Len(rs) : \E i \in 1..Len(xs) : xs[i] = rs[k]

\* The sort loses no range and makes none up.
LEMMA SortedIs ==
    ASSUME NEW n \in Nat, NEW rs \in Seq(RangesIn(n)),
           NEW xs, xs = FoldLeft(InsertByStart, <<>>, rs)
    PROVE  xs \in Seq(RangesIn(n)) /\ Sorted(xs) /\ Same(rs, xs)
  <1> DEFINE L == Len(rs)
             R == RangesIn(n)
  <1>1. L \in Nat /\ DOMAIN rs = 1..L /\ \A i \in 1..L : rs[i] \in R
        BY LenProperties, ElementOfSeq
  <1>2. PICK h : Fold("sort", rs, L, h) /\ xs = h[L]
        BY <1>1, SortFold
  <1>3. h[0] = <<>> /\ \A i \in 1..L : h[i] = InsertByStart(h[i - 1], rs[i])
        BY <1>2 DEF Fold, Turn
  <1> HIDE DEF R, L
  <1> DEFINE Inv(i) ==
                /\ h[i] \in Seq(R) /\ Sorted(h[i])
                /\ \A j \in 1..Len(h[i]) : \E k \in 1..i : h[i][j] = rs[k]
                /\ \A k \in 1..i : \E j \in 1..Len(h[i]) : h[i][j] = rs[k]
             S == {i \in Nat : i <= L => Inv(i)}
  <1>4. 0 \in S
    <2>1. h[0] \in Seq(R) /\ Len(h[0]) = 0
          BY <1>3, EmptySeq
    <2>2. 1..Len(h[0]) = {} /\ 1..0 = {}
          BY <2>1
    <2>3. Inv(0)
          BY <2>1, <2>2 DEF Sorted
    <2> HIDE DEF Inv
    <2> QED BY <2>3
  <1>5. ASSUME NEW i \in Nat, i \in S PROVE i + 1 \in S
    <2>1. CASE i + 1 <= L
      <3> DEFINE j == i + 1
      <3>1. j \in 1..L /\ j - 1 = i /\ i <= L /\ j \in 1..j /\ \A k \in 1..j : k \in 1..i \/ k = j
            BY <1>1, <2>1
      <3>2. \A k \in 1..i : k \in 1..j
            OBVIOUS
      <3> HIDE DEF j
      <3>3. Inv(i)
            BY <1>5, <3>1
      <3>4. rs[j] \in R /\ h[j] = InsertByStart(h[i], rs[j])
            BY <1>1, <1>3, <3>1
      <3>5. h[j] \in Seq(R) /\ Sorted(h[j]) /\ Grown(h[i], rs[j], h[j])
        <4>1. h[i] \in Seq(R) /\ Sorted(h[i])
              BY <3>3
        <4> HIDE DEF Inv, S
        <4> QED BY <3>4, <4>1, SortStep DEF R
      <3>6. ASSUME NEW m \in 1..Len(h[j]) PROVE \E k \in 1..j : h[j][m] = rs[k]
            BY <3>1, <3>2, <3>3, <3>5 DEF Grown
      <3>7. ASSUME NEW k \in 1..j PROVE \E m \in 1..Len(h[j]) : h[j][m] = rs[k]
        <4>1. CASE k = j
              BY <3>5, <4>1 DEF Grown
        <4>2. CASE k \in 1..i
          <5>1. PICK l \in 1..Len(h[i]) : h[i][l] = rs[k]
                BY <3>3, <4>2
          <5> QED BY <3>5, <5>1 DEF Grown
        <4> QED BY <3>1, <4>1, <4>2
      <3>8. Inv(j)
            BY <3>5, <3>6, <3>7
      <3> HIDE DEF Inv
      <3> QED BY <3>8 DEF j
    <2>2. CASE ~(i + 1 <= L)
          BY <2>2
    <2> QED BY <2>1, <2>2
  <1> HIDE DEF S
  <1>6. Nat \subseteq S
        BY <1>4, <1>5, Induction
  <1>7. Inv(L)
    <2>1. L \in S /\ L <= L
          BY <1>1, <1>6
    <2> QED BY <2>1 DEF S
  <1> QED BY <1>2, <1>7 DEF Same, L, R

\* mergeOverlappingRanges hides exactly what the ranges hid, and leaves gaps.
THEOREM MergedIs ==
    ASSUME NEW n \in Nat, NEW rs \in Seq(RangesIn(n)), NEW new, new = mergeOverlappingRanges(rs)
    PROVE  /\ new \in Seq(RangesIn(n)) /\ Separated(new) /\ removeSet(new) = removeSet(rs)
           /\ rs # <<>> => new # <<>>
           /\ Whole(rs) => Whole(new)
           /\ Told(new) \subseteq Told(rs)
  <1> DEFINE xs == FoldLeft(InsertByStart, <<>>, rs)
             L == Len(xs)
             R == RangesIn(n)
  <1>1. xs \in Seq(R) /\ Sorted(xs) /\ Same(rs, xs)
        BY SortedIs
  <1>2. new = FoldLeft(Absorb, <<>>, xs)
        BY DEF mergeOverlappingRanges
  <1> HIDE DEF xs
  <1>3. L \in Nat /\ DOMAIN xs = 1..L /\ \A i \in 1..L : xs[i] \in R
        BY <1>1, LenProperties, ElementOfSeq
  <1>4. PICK h : Fold("merge", xs, L, h) /\ new = h[L]
        BY <1>2, <1>3, AbsorbFold
  <1>5. h[0] = <<>> /\ \A i \in 1..L : h[i] = Absorb(h[i - 1], xs[i])
        BY <1>4 DEF Fold, Turn
  <1> HIDE DEF R, L
  <1> DEFINE Inv(i) ==
                /\ h[i] \in Seq(R) /\ Separated(h[i])
                /\ h[i] = <<>> => i = 0
                /\ i # 0 => h[i][Len(h[i])].from <= xs[i].from
                /\ \A x : x \in removeSet(h[i]) <=> \E k \in 1..i : x \in xs[k].from .. xs[k].to
                /\ Whole(xs) => Whole(h[i])
                /\ \A x \in Told(h[i]) : \E k \in 1..i : x \in xs[k].told
             S == {i \in Nat : i <= L => Inv(i)}
  <1>6. 0 \in S
    <2>1. h[0] \in Seq(R) /\ Len(h[0]) = 0 /\ DOMAIN h[0] = {}
          BY <1>5, EmptySeq
    <2>2. 1..Len(h[0]) = {} /\ 1..0 = {} /\ 1..Len(h[0]) - 1 = {}
          BY <2>1
    <2>3. removeSet(h[0]) = {} /\ Told(h[0]) = {} /\ Whole(h[0])
          BY <2>1 DEF removeSet, Told, Whole
    <2>4. Inv(0)
          BY <2>1, <2>2, <2>3 DEF Separated
    <2> HIDE DEF Inv
    <2> QED BY <2>4
  <1>7. ASSUME NEW i \in Nat, i \in S PROVE i + 1 \in S
    <2>1. CASE i + 1 <= L
      <3> DEFINE j == i + 1
      <3>1. /\ j \in 1..L /\ j - 1 = i /\ i <= L /\ j \in 1..j /\ \A k \in 1..j : k \in 1..i \/ k = j
            /\ j # 0 /\ (i # 0 => i \in 1..L /\ i <= j)
            BY <1>3, <2>1
      <3>2. \A k \in 1..i : k \in 1..j
            OBVIOUS
      <3> HIDE DEF j
      <3>3. Inv(i)
            BY <1>7, <3>1
      <3>4. xs[j] \in R /\ h[j] = Absorb(h[i], xs[j])
            BY <1>3, <1>5, <3>1
      <3>5. h[i] # <<>> => h[i][Len(h[i])].from <= xs[j].from
        <4> SUFFICES ASSUME h[i] # <<>> PROVE h[i][Len(h[i])].from <= xs[j].from
            OBVIOUS
        <4>1. i # 0
              BY <1>5
        <4>2. h[i][Len(h[i])].from <= xs[i].from
              BY <3>3, <4>1
        <4>3. xs[i].from <= xs[j].from
              BY <1>1, <3>1, <4>1 DEF Sorted, L
        <4>4. xs[i].from \in Nat /\ xs[j].from \in Nat
              BY <1>3, <3>1, <4>1 DEF R, RangesIn
        <4>5. h[i][Len(h[i])].from \in Nat
          <5>1. Len(h[i]) \in 1..Len(h[i])
            <6>1. h[i] \in Seq(R)
                  BY <3>3
            <6>2. Len(h[i]) \in Nat /\ Len(h[i]) # 0
                  BY <6>1, EmptySeq, LenProperties
            <6> QED BY <6>2
          <5>2. h[i][Len(h[i])] \in R
            <6>1. h[i] \in Seq(R)
                  BY <3>3
            <6> QED BY <5>1, <6>1, ElementOfSeq
          <5> QED BY <5>2 DEF R, RangesIn
        <4> QED BY <4>2, <4>3, <4>4, <4>5
      <3>6. /\ h[j] \in Seq(R) /\ h[j] # <<>> /\ Separated(h[j])
            /\ h[j][Len(h[j])].from <= xs[j].from
            /\ removeSet(h[j]) = removeSet(h[i]) \union (xs[j].from .. xs[j].to)
            /\ Whole(h[i]) /\ xs[j].told = xs[j].from .. xs[j].to => Whole(h[j])
            /\ Told(h[j]) \subseteq Told(h[i]) \union xs[j].told
        <4>1. h[i] \in Seq(R) /\ Separated(h[i])
              BY <3>3
        <4> QED BY <3>4, <3>5, <4>1, AbsorbStep DEF R
      <3>7. ASSUME NEW x
            PROVE  x \in removeSet(h[j]) <=> \E k \in 1..j : x \in xs[k].from .. xs[k].to
            BY <3>1, <3>2, <3>3, <3>6
      <3>8. Whole(xs) => Whole(h[j])
        <4> SUFFICES ASSUME Whole(xs) PROVE Whole(h[j])
            OBVIOUS
        <4>1. xs[j].told = xs[j].from .. xs[j].to
              BY <1>3, <3>1 DEF Whole
        <4> QED BY <3>3, <3>6, <4>1
      <3>9. ASSUME NEW x \in Told(h[j]) PROVE \E k \in 1..j : x \in xs[k].told
            BY <3>1, <3>2, <3>3, <3>6
      <3>10. Inv(j)
            BY <3>1, <3>6, <3>7, <3>8, <3>9
      <3> HIDE DEF Inv
      <3> QED BY <3>10 DEF j
    <2>2. CASE ~(i + 1 <= L)
          BY <2>2
    <2> QED BY <2>1, <2>2
  <1> HIDE DEF S
  <1>8. Nat \subseteq S
        BY <1>6, <1>7, Induction
  <1>9. Inv(L)
    <2>1. L \in S /\ L <= L
          BY <1>3, <1>8
    <2> QED BY <2>1 DEF S
  <1>10. DOMAIN rs = 1..Len(rs) /\ Len(rs) \in Nat
        BY LenProperties
  <1>11. \A x : x \in removeSet(rs) <=> \E k \in 1..Len(rs) : x \in rs[k].from .. rs[k].to
        BY <1>10 DEF removeSet
  <1>12. removeSet(new) = removeSet(rs)
    <2>1. \A x : x \in removeSet(new) <=> \E k \in 1..L : x \in xs[k].from .. xs[k].to
          BY <1>4, <1>9
    <2>2. ASSUME NEW x PROVE x \in removeSet(new) <=> x \in removeSet(rs)
          BY <1>1, <1>11, <2>1 DEF Same, L
    <2> QED BY <2>2
  <1>13. rs # <<>> => new # <<>>
    <2> SUFFICES ASSUME new = <<>> PROVE rs = <<>>
        OBVIOUS
    <2>1. L = 0
          BY <1>4, <1>9
    <2>2. Len(rs) = 0
      <3>1. 1..Len(rs) = {}
        <4>1. 1..Len(xs) = {}
              BY <2>1 DEF L
        <4> QED BY <1>1, <4>1 DEF Same
      <3> QED BY <1>10, <3>1
    <2> QED BY <2>2, EmptySeq
  <1>14. Whole(rs) => Whole(new)
    <2>1. Whole(rs) => Whole(xs)
          BY <1>1, <1>3, <1>10 DEF Same, Whole, L
    <2> QED BY <1>4, <1>9, <2>1
  <1>15. Told(new) \subseteq Told(rs)
    <2> SUFFICES ASSUME NEW x \in Told(new) PROVE x \in Told(rs)
        OBVIOUS
    <2>1. PICK k \in 1..L : x \in xs[k].told
          BY <1>4, <1>9
    <2>2. PICK m \in 1..Len(rs) : xs[k] = rs[m]
          BY <1>1, <2>1 DEF Same, L
    <2> QED BY <1>10, <2>1, <2>2 DEF Told
  <1> QED BY <1>4, <1>9, <1>12, <1>13, <1>14, <1>15 DEF R

\* Ranges with gaps come one after the other,
LEMMA SeparatedOrder ==
    ASSUME NEW n \in Nat, NEW rs \in Seq(RangesIn(n)), Separated(rs)
    PROVE  \A i, j \in 1..Len(rs) : i < j => rs[i].to + 1 < rs[j].from
  <1> DEFINE L == Len(rs)
             S == {j \in Nat : j <= L => \A i \in 1..j - 1 : rs[i].to + 1 < rs[j].from}
  <1>1. L \in Nat /\ \A i \in 1..L : /\ rs[i].from \in Nat /\ rs[i].to \in Nat
                                     /\ rs[i].from <= rs[i].to
    <2>1. L \in Nat /\ \A i \in 1..L : rs[i] \in RangesIn(n)
          BY LenProperties, ElementOfSeq
    <2> QED BY <2>1 DEF RangesIn
  <1>2. \A i \in 1..L - 1 : rs[i].to + 1 < rs[i + 1].from
        BY DEF Separated
  <1> HIDE DEF L
  <1>3. 0 \in S
        OBVIOUS
  <1>4. ASSUME NEW j \in Nat, j \in S PROVE j + 1 \in S
    <2> DEFINE k == j + 1
    <2>1. k \in Nat /\ k = j + 1 /\ k - 1 = j
          OBVIOUS
    <2> HIDE DEF k
    <2>2. ASSUME k <= L, NEW i \in 1..j PROVE rs[i].to + 1 < rs[k].from
      <3>1. j \in 1..L - 1 /\ j \in 1..L /\ k \in 1..L /\ i \in 1..L /\ (i = j \/ i \in 1..j - 1)
            BY <1>1, <2>1, <2>2
      <3>2. rs[j].to + 1 < rs[k].from
            BY <1>2, <2>1, <3>1
      <3>3. CASE i = j
            BY <3>2, <3>3
      <3>4. CASE i \in 1..j - 1
        <4>1. rs[i].to + 1 < rs[j].from
              BY <1>4, <3>1, <3>4
        <4>2. /\ rs[i].to \in Nat /\ rs[j].from \in Nat /\ rs[j].to \in Nat /\ rs[k].from \in Nat
              /\ rs[j].from <= rs[j].to
              BY <1>1, <3>1
        <4>3. \A a, b, c, d \in Nat : a + 1 < b /\ b <= c /\ c + 1 < d => a + 1 < d
              OBVIOUS
        <4> QED BY <3>2, <4>1, <4>2, <4>3
      <3> QED BY <3>1, <3>3, <3>4
    <2>3. k \in S
          BY <2>1, <2>2
    <2> HIDE DEF S
    <2> QED BY <2>3 DEF k
  <1> HIDE DEF S
  <1>5. Nat \subseteq S
        BY <1>3, <1>4, Induction
  <1>6. ASSUME NEW i \in 1..L, NEW j \in 1..L, i < j PROVE rs[i].to + 1 < rs[j].from
    <2>1. j \in S /\ j <= L /\ i \in 1..j - 1
          BY <1>1, <1>5, <1>6
    <2> QED BY <2>1 DEF S
  <1> QED BY <1>6 DEF L

\* so no two begin at one place.
LEMMA SeparatedApart ==
    ASSUME NEW n \in Nat, NEW rs \in Seq(RangesIn(n)), Separated(rs)
    PROVE  Apart(rs)
  <1>1. Len(rs) \in Nat /\ DOMAIN rs = 1..Len(rs) /\ \A i \in 1..Len(rs) : rs[i] \in RangesIn(n)
        BY LenProperties, ElementOfSeq
  <1>2. \A i, j \in 1..Len(rs) : i < j => rs[i].to + 1 < rs[j].from
        BY SeparatedOrder
  <1>3. ASSUME NEW i \in DOMAIN rs, NEW j \in DOMAIN rs, i < j PROVE rs[i].from # rs[j].from
    <2>1. /\ rs[i].to + 1 < rs[j].from /\ rs[i].from <= rs[i].to
          /\ rs[i].from \in Nat /\ rs[i].to \in Nat /\ rs[j].from \in Nat
          BY <1>1, <1>2, <1>3 DEF RangesIn
    <2> QED BY <2>1
  <1>4. \A i, j \in DOMAIN rs : i = j \/ i < j \/ j < i
        BY <1>1
  <1> QED BY <1>3, <1>4 DEF Apart

\* Separate ranges are the maximal runs of what they hide.
LEMMA RunsAre ==
    ASSUME NEW n \in Nat, NEW rs \in Seq(RangesIn(n)), Separated(rs)
    PROVE  Cardinality({x \in removeSet(rs) : x + 1 \notin removeSet(rs)}) = Len(rs)
  <1> DEFINE L == Len(rs)
             D == removeSet(rs)
             runs == {x \in D : x + 1 \notin D}
             f == [i \in 1..L |-> rs[i].to]
  <1>1. L \in Nat /\ DOMAIN rs = 1..L
        BY LenProperties
  <1>2. \A i \in 1..L : rs[i].from \in Nat /\ rs[i].to \in Nat /\ rs[i].from <= rs[i].to
    <2>1. \A i \in 1..L : rs[i] \in RangesIn(n)
          BY ElementOfSeq
    <2> QED BY <2>1 DEF RangesIn
  <1>3. \A i, j \in 1..L : i < j => rs[i].to + 1 < rs[j].from
        BY SeparatedOrder
  <1>4. \A x : x \in D <=> \E i \in 1..L : x \in rs[i].from .. rs[i].to
        BY <1>1 DEF removeSet
  <1> HIDE DEF L, D
  <1>5. ASSUME NEW i \in 1..L PROVE f[i] \in runs
    <2>1. rs[i].to \in rs[i].from .. rs[i].to
          BY <1>2
    <2>2. ASSUME NEW j \in 1..L PROVE ~(rs[i].to + 1 \in rs[j].from .. rs[j].to)
      <3>1. i < j \/ i = j \/ j < i
            BY <1>1
      <3>2. CASE i < j
            BY <1>2, <1>3, <3>2
      <3>3. CASE i = j
            BY <1>2, <3>3
      <3>4. CASE j < i
        <4>1. rs[j].to + 1 < rs[i].from
              BY <1>3, <3>4
        <4>2. /\ rs[i].from \in Nat /\ rs[i].to \in Nat /\ rs[j].to \in Nat
              /\ rs[i].from <= rs[i].to
              BY <1>2
        <4>3. \A a, b, c \in Nat : a + 1 < b /\ b <= c => ~(c + 1 <= a)
              OBVIOUS
        <4>4. ~(rs[i].to + 1 <= rs[j].to)
              BY <4>1, <4>2, <4>3
        <4> QED BY <4>2, <4>4
      <3> QED BY <3>1, <3>2, <3>3, <3>4
    <2> QED BY <1>4, <2>1, <2>2
  <1>6. ASSUME NEW i \in 1..L, NEW j \in 1..L, i # j PROVE f[i] # f[j]
    <2>1. i < j \/ j < i
          BY <1>1, <1>6
    <2>2. /\ rs[i].to \in Nat /\ rs[j].from \in Nat /\ rs[j].to \in Nat /\ rs[i].from \in Nat
          /\ rs[i].from <= rs[i].to /\ rs[j].from <= rs[j].to
          BY <1>2
    <2>3. \A a, b, c \in Nat : a + 1 < b /\ b <= c => a # c
          OBVIOUS
    <2>4. rs[i].to + 1 < rs[j].from \/ rs[j].to + 1 < rs[i].from
          BY <1>3, <2>1
    <2> QED BY <2>2, <2>3, <2>4
  <1>7. ASSUME NEW x \in runs PROVE \E i \in 1..L : f[i] = x
    <2>1. PICK i \in 1..L : x \in rs[i].from .. rs[i].to
          BY <1>4
    <2>2. x + 1 \notin rs[i].from .. rs[i].to
          BY <1>4
    <2>3. x = rs[i].to
          BY <1>2, <2>1, <2>2
    <2> QED BY <2>3
  <1>8. f \in Bijection(1..L, runs)
    <2>1. f \in [1..L -> runs]
          BY <1>5
    <2> HIDE DEF f, runs
    <2> QED BY <1>6, <1>7, <2>1 DEF Bijection, Injection, Surjection, IsInjective
  <1> HIDE DEF f, runs
  <1>9. IsFiniteSet(1..L) /\ Cardinality(1..L) = L
    <2>1. 1 \in Int /\ L \in Int /\ (IF 1 > L THEN 0 ELSE L - 1 + 1) = L
          BY <1>1
    <2> QED BY <2>1, FS_Interval
  <1>10. Cardinality(runs) = L
    <2>1. ExistsBijection(1..L, runs)
          BY <1>8 DEF ExistsBijection
    <2> QED BY <1>9, <2>1, FS_Bijection
  <1> QED BY <1>10 DEF runs, D, L

\* What execCompress has come to when it has accepted all ranges.
Compressed(n, rs, new) ==
    \E merged \in Seq(RangesIn(n)) :
       /\ merged # <<>> /\ Separated(merged)
       /\ Whole(rs) => Whole(merged)
       /\ removeSet(rs) \subseteq removeSet(merged)
       /\ new = IF Len(merged) > Cap THEN metaSummarize(merged) ELSE merged

\* metaSummarize makes one range, from the first to the last of them.
LEMMA MetaIs ==
    ASSUME NEW n \in Nat, NEW rs \in Seq(RangesIn(n)), rs # <<>>
    PROVE  LET from == Min({rs[i].from : i \in DOMAIN rs})
               to   == Max({rs[i].to : i \in DOMAIN rs})
           IN  /\ metaSummarize(rs) = << [from |-> from, to |-> to, told |-> Told(rs)] >>
               /\ [from |-> from, to |-> to, told |-> Told(rs)] \in RangesIn(n)
               /\ (\E i \in DOMAIN rs : from = rs[i].from) /\ (\A i \in DOMAIN rs : from <= rs[i].from)
               /\ (\E i \in DOMAIN rs : to = rs[i].to) /\ (\A i \in DOMAIN rs : rs[i].to <= to)
  <1> DEFINE D == DOMAIN rs
             F == {rs[i].from : i \in D}
             T == {rs[i].to : i \in D}
             from == Min(F)
             to == Max(T)
  <1>1. D # {} /\ \A i \in D : rs[i] \in RangesIn(n)
    <2>1. Len(rs) \in Nat /\ D = 1..Len(rs) /\ \A i \in D : rs[i] \in RangesIn(n)
          BY LenProperties, ElementOfSeq
    <2>2. Len(rs) # 0
          BY EmptySeq
    <2>3. 1 \in D
          BY <2>1, <2>2
    <2> QED BY <2>1, <2>3
  <1>2. \A i \in D : /\ rs[i].from \in 1..n /\ rs[i].to \in 1..n /\ rs[i].from <= rs[i].to
                     /\ rs[i].told \subseteq 1..n
        BY <1>1 DEF RangesIn
  <1> HIDE DEF D
  <1>3. F \in SUBSET Nat /\ F # {} /\ T \in SUBSET (0..n) /\ T # {}
        BY <1>1, <1>2
  <1>4. from \in F /\ \A y \in F : from <= y
        BY <1>3, MinOf
  <1>5. to \in T /\ \A y \in T : to >= y
        BY <1>3, MaxOf
  <1> HIDE DEF from, to
  <1>6. PICK i \in D : from = rs[i].from
        BY <1>4
  <1>7. PICK j \in D : to = rs[j].to
        BY <1>5
  <1>8. \A k \in D : from <= rs[k].from /\ rs[k].to <= to
        BY <1>2, <1>4, <1>5, <1>7
  <1>9. from \in 1..n /\ to \in 1..n /\ from <= to
        BY <1>2, <1>6, <1>7, <1>8
  <1>10. Told(rs) \in SUBSET (1..n)
        BY <1>2 DEF Told, D
  <1>11. [from |-> from, to |-> to, told |-> Told(rs)] \in RangesIn(n)
        BY <1>9, <1>10 DEF RangesIn
  <1>12. metaSummarize(rs) = << [from |-> from, to |-> to, told |-> Told(rs)] >>
        BY DEF metaSummarize, from, to, D
  <1> QED BY <1>6, <1>7, <1>8, <1>11, <1>12 DEF from, to, D

\* An execCompress that succeeds adds ranges of messages there are, merged or
\* summarised.
THEOREM CompressIs ==
    ASSUME NEW n \in Nat, NEW rs \in Seq(RangesIn(n)), NEW args \in Seq(Nat \X Nat)
    PROVE  LET done == execCompress(rs, args, n)
           IN  /\ done.ranges \in Seq(RangesIn(n))
               /\ done.ok => Compressed(n, rs, done.ranges)
  <1> DEFINE Valid(i) == 1 <= args[i][1] /\ args[i][1] <= args[i][2] /\ args[i][2] <= n
             refused  == {i \in DOMAIN args : ~Valid(i)}
             accepted == IF refused = {} THEN Len(args) ELSE Min(refused) - 1
             extra == [i \in 1..accepted |->
                        [from |-> args[i][1], to |-> args[i][2], told |-> args[i][1] .. args[i][2]]]
             added == rs \o extra
             merged == mergeOverlappingRanges(added)
             done == execCompress(rs, args, n)
  <1>1. done = IF args = <<>> \/ refused # {}
               THEN [ok |-> FALSE, ranges |-> added]
               ELSE [ok |-> TRUE, ranges |-> IF Len(merged) > Cap THEN metaSummarize(merged) ELSE merged]
        BY DEF execCompress
  <1> HIDE DEF done
  <1>2. Len(args) \in Nat /\ DOMAIN args = 1..Len(args) /\ \A i \in 1..Len(args) : args[i] \in Nat \X Nat
        BY LenProperties, ElementOfSeq
  <1>3. accepted \in Nat /\ \A i \in 1..accepted : i \in 1..Len(args) /\ Valid(i)
    <2>1. refused \in SUBSET Nat /\ \A i \in refused : i \in 1..Len(args)
          BY <1>2
    <2>2. \A i \in 1..Len(args) : i \notin refused => Valid(i)
          BY <1>2
    <2> HIDE DEF refused
    <2>3. CASE refused = {}
      <3>1. accepted = Len(args)
            BY <2>3
      <3> HIDE DEF Valid, accepted
      <3> QED BY <1>2, <2>2, <2>3, <3>1
    <2>4. CASE refused # {}
      <3> DEFINE m == Min(refused)
      <3>1. m \in refused /\ \A y \in refused : m <= y
            BY <2>1, <2>4, MinOf
      <3>2. accepted = m - 1
            BY <2>4
      <3> HIDE DEF Valid, accepted, m
      <3>3. m \in 1..Len(args)
            BY <2>1, <3>1
      <3>4. \A i \in 1..m - 1 : i \in 1..Len(args) /\ ~(m <= i)
            BY <1>2, <3>3
      <3>5. m - 1 \in Nat
            BY <3>3
      <3> QED BY <2>2, <3>1, <3>2, <3>4, <3>5
    <2> QED BY <2>3, <2>4
  <1> HIDE DEF accepted
  <1>4. ASSUME NEW i \in 1..accepted
        PROVE  extra[i] \in RangesIn(n) /\ extra[i].told = extra[i].from .. extra[i].to
    <2>1. /\ 1 <= args[i][1] /\ args[i][1] <= args[i][2] /\ args[i][2] <= n
          /\ args[i][1] \in Nat /\ args[i][2] \in Nat
          BY <1>2, <1>3
    <2> DEFINE a == args[i][1]
               b == args[i][2]
    <2>2. extra[i] = [from |-> a, to |-> b, told |-> a .. b]
          OBVIOUS
    <2>3. a \in 1..n /\ b \in 1..n /\ a <= b /\ a .. b \in SUBSET (1..n)
          BY <2>1
    <2> HIDE DEF a, b, extra
    <2> QED BY <2>2, <2>3 DEF RangesIn
  <1>5. extra \in Seq(RangesIn(n)) /\ Len(extra) = accepted
    <2>1. extra \in [1..accepted -> RangesIn(n)]
          BY <1>4
    <2> HIDE DEF extra
    <2> QED BY <1>3, <2>1, SeqDef, LenProperties
  <1> HIDE DEF extra
  <1>6. /\ added \in Seq(RangesIn(n)) /\ Len(added) = Len(rs) + Len(extra)
        /\ \A i \in 1..Len(rs) + Len(extra) :
              added[i] = IF i <= Len(rs) THEN rs[i] ELSE extra[i - Len(rs)]
        BY <1>5, ConcatProperties, Zenon
  <1> HIDE DEF added
  <1>7. Len(rs) \in Nat /\ DOMAIN rs = 1..Len(rs) /\ DOMAIN added = 1..Len(rs) + accepted
        BY <1>5, <1>6, LenProperties
  <1>8. CASE args = <<>> \/ refused # {}
    <2>1. done.ranges = added /\ done.ok = FALSE
          BY <1>1, <1>8
    <2> QED BY <1>6, <2>1 DEF done
  <1>9. CASE args # <<>> /\ refused = {}
    <2>1. done.ranges = IF Len(merged) > Cap THEN metaSummarize(merged) ELSE merged
          BY <1>1, <1>9
    <2>2. /\ merged \in Seq(RangesIn(n)) /\ Separated(merged) /\ removeSet(merged) = removeSet(added)
          /\ added # <<>> => merged # <<>>
          /\ Whole(added) => Whole(merged)
          BY <1>6, MergedIs
    <2>3. added # <<>>
      <3>1. Len(args) # 0 /\ accepted = Len(args)
            BY <1>9, EmptySeq DEF accepted
      <3>2. Len(added) # 0
            BY <1>2, <1>5, <1>6, <1>7, <3>1
      <3> QED BY <3>2
    <2>4. removeSet(rs) \subseteq removeSet(added)
      <3>1. \A i \in 1..Len(rs) : i \in 1..Len(rs) + accepted /\ added[i] = rs[i]
            BY <1>3, <1>5, <1>6, <1>7
      <3> QED BY <1>7, <3>1 DEF removeSet
    <2>5. Whole(rs) => Whole(added)
      <3> SUFFICES ASSUME Whole(rs), NEW i \in 1..Len(rs) + accepted
                   PROVE  added[i].told = added[i].from .. added[i].to
          BY <1>7 DEF Whole
      <3>1. CASE i <= Len(rs)
        <4>1. i \in 1..Len(rs) /\ added[i] = rs[i]
              BY <1>5, <1>6, <1>7, <3>1
        <4> QED BY <1>7, <4>1 DEF Whole
      <3>2. CASE ~(i <= Len(rs))
        <4>1. i - Len(rs) \in 1..accepted /\ added[i] = extra[i - Len(rs)]
              BY <1>3, <1>5, <1>6, <1>7, <3>2
        <4> QED BY <1>4, <4>1
      <3> QED BY <3>1, <3>2
    <2> HIDE DEF merged
    <2>6. done.ranges \in Seq(RangesIn(n))
      <3>1. CASE Len(merged) > Cap
        <4> DEFINE from == Min({merged[i].from : i \in DOMAIN merged})
                   to   == Max({merged[i].to : i \in DOMAIN merged})
                   e == [from |-> from, to |-> to, told |-> Told(merged)]
        <4>1. metaSummarize(merged) = <<e>> /\ e \in RangesIn(n)
              BY <2>2, <2>3, MetaIs
        <4> HIDE DEF e
        <4>2. <<e>> \in Seq(RangesIn(n))
              BY <4>1
        <4> QED BY <2>1, <3>1, <4>1, <4>2
      <3>2. CASE ~(Len(merged) > Cap)
            BY <2>1, <2>2, <3>2
      <3> QED BY <3>1, <3>2
    <2>7. Compressed(n, rs, done.ranges)
          BY <2>1, <2>2, <2>3, <2>4, <2>5 DEF Compressed
    <2> QED BY <2>6, <2>7 DEF done
  <1> QED BY <1>8, <1>9

---------------------------------------------------------------------------
(* Messages, and where Handle stands among them.                           *)

\* A message is a user's, a result or asks for calls: one of them.
LEMMA MessageKinds ==
    ASSUME NEW m \in Message
    PROVE  /\ IsTool(m) => m.of \in Calls /\ ~HasCalls(m) /\ m # User
           /\ HasCalls(m) => /\ m.calls \in Replies /\ Len(m.calls) \in Nat \ {0}
                             /\ DOMAIN m.calls = 1..Len(m.calls)
           /\ m.role = "user" => m = User
  <1>1. CASE m = User
        BY <1>1 DEF User, IsTool, HasCalls
  <1>2. CASE m = System
        BY <1>2 DEF System, IsTool, HasCalls
  <1>3. ASSUME NEW cs \in Replies \union {<<>>}, m = Says(cs)
        PROVE  /\ ~IsTool(m) /\ m.role # "user"
               /\ HasCalls(m) => /\ m.calls \in Replies /\ Len(m.calls) \in Nat \ {0}
                                 /\ DOMAIN m.calls = 1..Len(m.calls)
    <2>1. m.role = "assistant" /\ m.calls = cs
          BY <1>3 DEF Says
    <2>2. CASE cs = <<>>
          BY <2>1, <2>2 DEF IsTool, HasCalls
    <2>3. CASE cs # <<>>
      <3>1. cs \in Seq(Tools \union {"compress", "malformed"})
            BY <2>3, RepliesAssumption
      <3>2. Len(cs) \in Nat /\ Len(cs) # 0 /\ DOMAIN cs = 1..Len(cs)
            BY <2>3, <3>1, EmptySeq, LenProperties
      <3> QED BY <1>3, <2>1, <2>3, <3>2 DEF IsTool, HasCalls
    <2> QED BY <2>2, <2>3
  <1>4. ASSUME NEW c \in Calls, NEW o \in {"ok", "error", "denied"}, m = Answer(c, o)
        PROVE  m.of \in Calls /\ ~HasCalls(m) /\ m.role # "user"
        BY <1>4 DEF Answer, HasCalls
  <1>5. m.role = "user" <=> m = User
        BY <1>1, <1>2, <1>3, <1>4 DEF Message, User, System
  <1>6. m = User => ~IsTool(m)
        BY <1>1 DEF User, IsTool
  <1> QED BY <1>1, <1>2, <1>3, <1>4, <1>5, <1>6 DEF Message

\* The messages that Handle appends.
LEMMA NewMessages ==
    /\ User \in Message /\ ~IsTool(User) /\ ~HasCalls(User)
    /\ System \in Message /\ ~IsTool(System) /\ ~HasCalls(System) /\ System # User
    /\ Says(<<>>) \in Message /\ ~IsTool(Says(<<>>)) /\ ~HasCalls(Says(<<>>))
    /\ \A cs \in Replies : /\ Says(cs) \in Message /\ ~IsTool(Says(cs)) /\ HasCalls(Says(cs))
                           /\ Says(cs).calls = cs
    /\ \A c \in Calls, o \in {"ok", "error", "denied"} :
          /\ Answer(c, o) \in Message /\ IsTool(Answer(c, o)) /\ ~HasCalls(Answer(c, o))
          /\ Answer(c, o).of = c /\ Answer(c, o).outcome = o
  <1>1. User \in Message /\ ~IsTool(User) /\ ~HasCalls(User)
        BY DEF User, Message, IsTool, HasCalls
  <1>2. System \in Message /\ ~IsTool(System) /\ ~HasCalls(System) /\ System # User
    <2>1. System.role = "system" /\ User.role = "user"
          BY DEF System, User
    <2> QED BY <2>1 DEF Message, IsTool, HasCalls
  <1>3. Says(<<>>) \in Message /\ ~IsTool(Says(<<>>)) /\ ~HasCalls(Says(<<>>))
    <2>1. Says(<<>>) \in Message
          BY DEF Message
    <2> QED BY <2>1 DEF Says, IsTool, HasCalls
  <1>4. ASSUME NEW cs \in Replies
        PROVE  /\ Says(cs) \in Message /\ ~IsTool(Says(cs)) /\ HasCalls(Says(cs))
               /\ Says(cs).calls = cs
    <2>1. Says(cs) \in Message
          BY DEF Message
    <2>2. cs # <<>>
          BY RepliesAssumption
    <2>3. Says(cs).role = "assistant" /\ Says(cs).calls = cs
          BY DEF Says
    <2> HIDE DEF Says
    <2> QED BY <2>1, <2>2, <2>3 DEF IsTool, HasCalls
  <1>5. ASSUME NEW c \in Calls, NEW o \in {"ok", "error", "denied"}
        PROVE  /\ Answer(c, o) \in Message /\ IsTool(Answer(c, o)) /\ ~HasCalls(Answer(c, o))
               /\ Answer(c, o).of = c /\ Answer(c, o).outcome = o
    <2>1. Answer(c, o) \in Message
          BY DEF Message
    <2> QED BY <2>1 DEF Answer, IsTool, HasCalls
  <1> QED BY <1>1, <1>2, <1>3, <1>4, <1>5

\* The assistant message whose calls run.
LastCall(ms) == SelectLastInSeq(ms, HasCalls)

\* It is the last that has calls, if there is one.
LEMMA LastCallIs ==
    ASSUME NEW ms \in Seq(Message)
    PROVE  /\ LastCall(ms) \in 0..Len(ms)
           /\ LastCall(ms) # 0 => HasCalls(ms[LastCall(ms)])
           /\ \A i \in 1..Len(ms) : HasCalls(ms[i]) => i <= LastCall(ms)
  <1> DEFINE I == {i \in 1..Len(ms) : HasCalls(ms[i])}
             c == LastCall(ms)
  <1>1. c = IF I # {} THEN Max(I) ELSE 0
        BY DEF LastCall, SelectLastInSeq
  <1>2. Len(ms) \in Nat /\ I \in SUBSET (0..Len(ms))
        BY LenProperties
  <1> HIDE DEF c
  <1>3. CASE I = {}
        BY <1>1, <1>2, <1>3 DEF c
  <1>4. CASE I # {}
    <2>1. Max(I) \in I /\ \A y \in I : Max(I) >= y
          BY <1>2, <1>4, MaxOf
    <2>2. c \in I /\ \A y \in I : c >= y
          BY <1>1, <1>4, <2>1
    <2>3. c \in 1..Len(ms) /\ HasCalls(ms[c])
          BY <2>2
    <2>4. \A i \in 1..Len(ms) : HasCalls(ms[i]) => i <= c
          BY <1>2, <2>2, <2>3
    <2> QED BY <1>2, <2>3, <2>4 DEF c
  <1> QED BY <1>3, <1>4

\* An index is that of the last call if it holds one and none is behind it.
LEMMA LastCallUnique ==
    ASSUME NEW ms \in Seq(Message), NEW c \in 0..Len(ms), c # 0 => HasCalls(ms[c]),
           \A i \in 1..Len(ms) : HasCalls(ms[i]) => i <= c
    PROVE  LastCall(ms) = c
  <1> DEFINE d == LastCall(ms)
  <1>1. /\ d \in 0..Len(ms) /\ (d # 0 => HasCalls(ms[d]))
        /\ \A i \in 1..Len(ms) : HasCalls(ms[i]) => i <= d
        BY LastCallIs
  <1> HIDE DEF d
  <1>2. Len(ms) \in Nat
        BY LenProperties
  <1>3. d <= c
    <2>1. CASE d = 0
          BY <2>1
    <2>2. CASE d # 0
          BY <1>1, <1>2, <2>2
    <2> QED BY <2>1, <2>2
  <1>4. c <= d
    <2>1. CASE c = 0
          BY <1>1, <1>2, <2>1
    <2>2. CASE c # 0
          BY <1>1, <1>2, <2>2
    <2> QED BY <2>1, <2>2
  <1>5. d = c
        BY <1>1, <1>2, <1>3, <1>4
  <1> QED BY <1>5 DEF d

\* Messages without calls behind the others do not change it.
LEMMA LastCallStays ==
    ASSUME NEW ms \in Seq(Message), NEW new \in Seq(Message), Len(ms) <= Len(new),
           \A i \in 1..Len(ms) : new[i] = ms[i],
           \A i \in Len(ms) + 1 .. Len(new) : ~HasCalls(new[i])
    PROVE  LastCall(new) = LastCall(ms)
  <1> DEFINE c == LastCall(ms)
  <1>1. /\ c \in 0..Len(ms) /\ (c # 0 => HasCalls(ms[c]))
        /\ \A i \in 1..Len(ms) : HasCalls(ms[i]) => i <= c
        BY LastCallIs
  <1> HIDE DEF c
  <1>2. Len(ms) \in Nat /\ Len(new) \in Nat
        BY LenProperties
  <1>3. c \in 0..Len(new)
        BY <1>1, <1>2
  <1>4. c # 0 => HasCalls(new[c])
        BY <1>1, <1>2
  <1>5. ASSUME NEW i \in 1..Len(new), HasCalls(new[i]) PROVE i <= c
    <2>1. i \in 1..Len(ms) \/ i \in Len(ms) + 1 .. Len(new)
          BY <1>2
    <2> QED BY <1>1, <1>5, <2>1
  <1>6. LastCall(new) = c
        BY <1>3, <1>4, <1>5, LastCallUnique
  <1> QED BY <1>6 DEF c

---------------------------------------------------------------------------
(* The list for the model.                                                 *)

\* Entries of a list for the model, and the state of the pruning, when the
\* session has n messages.
Entry(n) == [src : 0..n, shows : {"own", "summary", "nudge", "note", "duplicate", "purged"},
             told : SUBSET (1..n)]

DcpOf(n) ==
    [ranges : Seq(RangesIn(n)), seen : [Tools -> 0..MaxMsgs],
     errors : SUBSET [call : Calls, idx : 1..MaxMsgs, turn : 1..MaxMsgs],
     turn : 0..n, tokens : {"low", "mid", "high"}, lastNudge : 0..MaxSteps]

\* Own messages, summaries, the nudge and the note are entries.
LEMMA EntriesAre ==
    ASSUME NEW n \in Nat
    PROVE  /\ \A i \in 1..n : /\ Shown(i) \in Entry(n) /\ Shown(i).src = i
                              /\ Shown(i).shows = "own" /\ Shown(i).told = {i}
           /\ \A r \in RangesIn(n) : /\ SummaryOf(r) \in Entry(n) /\ SummaryOf(r).src = 0
                                     /\ SummaryOf(r).shows = "summary"
                                     /\ SummaryOf(r).told = r.told
           /\ Nudge \in Entry(n) /\ Nudge.src = 0 /\ Nudge.told = {} /\ Nudge.shows = "nudge"
           /\ Note \in Entry(n) /\ Note.src = 0 /\ Note.told = {} /\ Note.shows = "note"
  <1>1. ASSUME NEW i \in 1..n
        PROVE  /\ Shown(i) \in Entry(n) /\ Shown(i).src = i
               /\ Shown(i).shows = "own" /\ Shown(i).told = {i}
    <2>1. {i} \in SUBSET (1..n) /\ i \in 0..n
          OBVIOUS
    <2> QED BY <2>1 DEF Shown, Entry
  <1>2. ASSUME NEW r \in RangesIn(n)
        PROVE  /\ SummaryOf(r) \in Entry(n) /\ SummaryOf(r).src = 0
               /\ SummaryOf(r).shows = "summary" /\ SummaryOf(r).told = r.told
    <2>1. r.told \in SUBSET (1..n) /\ 0 \in 0..n
          BY DEF RangesIn
    <2> QED BY <2>1 DEF SummaryOf, Entry
  <1>3. Nudge \in Entry(n) /\ Nudge.src = 0 /\ Nudge.told = {} /\ Nudge.shows = "nudge"
        BY DEF Nudge, Entry
  <1>4. Note \in Entry(n) /\ Note.src = 0 /\ Note.told = {} /\ Note.shows = "note"
        BY DEF Note, Entry
  <1> QED BY <1>1, <1>2, <1>3, <1>4

\* So is all that applyCompression puts into its list.
LEMMA ItemsAreEntries ==
    ASSUME NEW n \in Nat, NEW rs \in Seq(RangesIn(n)), NEW e \in Items(n, rs)
    PROVE  /\ e \in Entry(n)
           /\ e.src # 0 => e = Shown(e.src)
           /\ e.src = 0 => \E k \in DOMAIN rs : e = SummaryOf(rs[k])
  <1>1. \A k \in DOMAIN rs : rs[k] \in RangesIn(n)
        BY ElementOfSeq, LenProperties
  <1>2. CASE \E i \in 1..n : e = Shown(i)
    <2>1. PICK i \in 1..n : e = Shown(i)
          BY <1>2
    <2>2. Shown(i) \in Entry(n) /\ Shown(i).src = i /\ i # 0
          BY EntriesAre
    <2> QED BY <2>1, <2>2
  <1>3. CASE e \in Marks(rs)
    <2>1. PICK k \in DOMAIN rs : e = SummaryOf(rs[k])
          BY <1>3 DEF Marks
    <2>2. SummaryOf(rs[k]) \in Entry(n) /\ SummaryOf(rs[k]).src = 0
          BY <1>1, EntriesAre
    <2> QED BY <2>1, <2>2
  <1> QED BY <1>2, <1>3 DEF Items

\* Entries that are shown another way keep what they stand for.
LEMMA RedoneIs ==
    ASSUME NEW n \in Nat, NEW old \in Seq(Entry(n)), NEW W,
           NEW how \in {"duplicate", "purged"}, NEW new,
           new = [i \in DOMAIN old |-> IF i \in W THEN [old[i] EXCEPT !.shows = how] ELSE old[i]]
    PROVE  /\ new \in Seq(Entry(n)) /\ Len(new) = Len(old)
           /\ \A i \in 1..Len(old) : /\ new[i].src = old[i].src /\ new[i].told = old[i].told
                                     /\ new[i].shows = IF i \in W THEN how ELSE old[i].shows
  <1>1. Len(old) \in Nat /\ DOMAIN old = 1..Len(old) /\ \A i \in 1..Len(old) : old[i] \in Entry(n)
        BY LenProperties, ElementOfSeq
  <1>2. ASSUME NEW e \in Entry(n), NEW f, f = [e EXCEPT !.shows = how]
        PROVE  f \in Entry(n) /\ f.src = e.src /\ f.told = e.told /\ f.shows = how
        BY <1>2 DEF Entry
  <1>3. ASSUME NEW i \in 1..Len(old)
        PROVE  /\ new[i] \in Entry(n) /\ new[i].src = old[i].src /\ new[i].told = old[i].told
               /\ new[i].shows = IF i \in W THEN how ELSE old[i].shows
    <2>1. CASE i \in W
      <3>1. new[i] = [old[i] EXCEPT !.shows = how]
            BY <1>1, <2>1
      <3> DEFINE e == old[i]
                 f == new[i]
      <3>2. e \in Entry(n) /\ f = [e EXCEPT !.shows = how]
            BY <1>1, <3>1
      <3> HIDE DEF e, f
      <3>3. f \in Entry(n) /\ f.src = e.src /\ f.told = e.told /\ f.shows = how
            BY <1>2, <3>2
      <3> QED BY <2>1, <3>3 DEF e, f
    <2>2. CASE i \notin W
          BY <1>1, <2>2
    <2> QED BY <2>1, <2>2
  <1>4. new \in [1..Len(old) -> Entry(n)]
        BY <1>1, <1>3
  <1>5. new \in Seq(Entry(n)) /\ Len(new) = Len(old)
        BY <1>1, <1>4
  <1> QED BY <1>3, <1>5

\* What deduplicateToolCalls and purgeErrorInputs look for.
RepeatedAt(view, ms, seen, j) ==
    /\ view[j].src # 0 /\ HasCalls(ms[view[j].src])
    /\ \A k \in DOMAIN ms[view[j].src].calls : IsDuplicate(seen, ms[view[j].src].calls[k], j)
AssistantsTo(view, ms, i) == {j \in 1..i : RoleOf(view[j], ms) = "assistant"}
ReplacedAt(view, ms, seen) ==
    {i \in DOMAIN view :
        \/ RepeatedAt(view, ms, seen, i)
        \/ /\ RoleOf(view[i], ms) = "tool"
           /\ AssistantsTo(view, ms, i) # {}
           /\ RepeatedAt(view, ms, seen, Max(AssistantsTo(view, ms, i)))}
PurgedAt(view, ms, errors, turn) ==
    {i \in DOMAIN view :
        /\ RoleOf(view[i], ms) = "tool" /\ view[i].shows = "own" /\ Failed(ms[view[i].src])
        /\ \E e \in errors : /\ turn - e.turn >= PurgeTurns
                             /\ e.idx = i /\ e.call = ms[view[i].src].of}

\* deduplicateToolCalls replaces contents and moves nothing.
LEMMA DedupedIs ==
    ASSUME NEW n \in Nat, NEW view \in Seq(Entry(n)), NEW ms, NEW seen, NEW new,
           new = deduplicateToolCalls(view, ms, seen)
    PROVE  /\ new \in Seq(Entry(n)) /\ Len(new) = Len(view)
           /\ \A i \in 1..Len(view) :
                 /\ new[i].src = view[i].src /\ new[i].told = view[i].told
                 /\ new[i].shows = IF i \in ReplacedAt(view, ms, seen) THEN "duplicate" ELSE view[i].shows
  <1> DEFINE W == ReplacedAt(view, ms, seen)
  <1>1. new = [i \in DOMAIN view |-> IF i \in W THEN [view[i] EXCEPT !.shows = "duplicate"] ELSE view[i]]
        BY DEF deduplicateToolCalls, ReplacedAt, RepeatedAt, AssistantsTo
  <1> DEFINE how == "duplicate"
  <1>2. how \in {"duplicate", "purged"}
        OBVIOUS
  <1>3. new = [i \in DOMAIN view |-> IF i \in W THEN [view[i] EXCEPT !.shows = how] ELSE view[i]]
        BY <1>1
  <1> HIDE DEF W, how
  <1>4. /\ new \in Seq(Entry(n)) /\ Len(new) = Len(view)
        /\ \A i \in 1..Len(view) :
              /\ new[i].src = view[i].src /\ new[i].told = view[i].told
              /\ new[i].shows = IF i \in W THEN how ELSE view[i].shows
        BY <1>2, <1>3, RedoneIs
  <1> QED BY <1>4 DEF W, how

\* Neither does purgeErrorInputs.
LEMMA PurgedIs ==
    ASSUME NEW n \in Nat, NEW view \in Seq(Entry(n)), NEW ms, NEW errors, NEW turn, NEW new,
           new = purgeErrorInputs(view, ms, errors, turn)
    PROVE  /\ new \in Seq(Entry(n)) /\ Len(new) = Len(view)
           /\ \A i \in 1..Len(view) :
                 /\ new[i].src = view[i].src /\ new[i].told = view[i].told
                 /\ new[i].shows = IF i \in PurgedAt(view, ms, errors, turn) THEN "purged"
                                   ELSE view[i].shows
  <1> DEFINE W == PurgedAt(view, ms, errors, turn)
  <1>1. new = [i \in DOMAIN view |-> IF i \in W THEN [view[i] EXCEPT !.shows = "purged"] ELSE view[i]]
        BY DEF purgeErrorInputs, PurgedAt
  <1>0. "purged" \in {"duplicate", "purged"}
        OBVIOUS
  <1> HIDE DEF W
  <1>2. /\ new \in Seq(Entry(n)) /\ Len(new) = Len(view)
        /\ \A i \in 1..Len(view) :
              /\ new[i].src = view[i].src /\ new[i].told = view[i].told
              /\ new[i].shows = IF i \in W THEN "purged" ELSE view[i].shows
        BY <1>1, <1>0, RedoneIs
  <1> QED BY <1>2 DEF W

\* The pruned list: the shortened one, with the ways of showing it.
LEMMA PrunedIs ==
    ASSUME NEW M, NEW ms \in Seq(M), NEW d \in DcpOf(Len(ms)), NEW short, NEW list,
           short = applyCompression(ms, d.ranges), list = Pruned(ms, d)
    PROVE  /\ short \in Seq(Entry(Len(ms))) /\ list \in Seq(Entry(Len(ms)))
           /\ Len(list) = Len(short)
           /\ \E at : Places(short, Len(ms), d.ranges, at)
           /\ \A i \in 1..Len(list) :
                 /\ list[i].src = short[i].src /\ list[i].told = short[i].told
                 /\ list[i].shows = "duplicate" => i \in ReplacedAt(short, ms, d.seen)
                 /\ list[i].shows = "purged" =>
                       /\ RoleOf(list[i], ms) = "tool" /\ Failed(ms[list[i].src])
                       /\ \E e \in d.errors : /\ d.turn - e.turn >= PurgeTurns
                                              /\ e.call = ms[list[i].src].of
  <1> DEFINE n == Len(ms)
             rs == d.ranges
             deduped == deduplicateToolCalls(short, ms, d.seen)
  <1>1. n \in Nat /\ rs \in Seq(RangesIn(n))
        BY LenProperties DEF DcpOf
  <1>2. PICK at : Places(short, n, rs, at)
        BY <1>1, ShortenedPlaces
  <1>3. short \in Seq(Items(n, rs))
        BY <1>2 DEF Places
  <1>4. /\ Len(short) \in Nat /\ \A i \in 1..Len(short) : short[i] \in Entry(n) /\ short[i].shows \in {"own", "summary"}
    <2>1. Len(short) \in Nat /\ \A i \in 1..Len(short) : short[i] \in Items(n, rs)
          BY <1>3, LenProperties, ElementOfSeq
    <2>2. ASSUME NEW e \in Items(n, rs) PROVE e \in Entry(n) /\ e.shows \in {"own", "summary"}
      <3>1. /\ e \in Entry(n) /\ (e.src # 0 => e = Shown(e.src))
            /\ e.src = 0 => \E k \in DOMAIN rs : e = SummaryOf(rs[k])
            BY <1>1, ItemsAreEntries
      <3>2. CASE e.src = 0
        <4>1. PICK k \in DOMAIN rs : e = SummaryOf(rs[k])
              BY <3>1, <3>2
        <4> QED BY <3>1, <4>1 DEF SummaryOf
      <3>3. CASE e.src # 0
            BY <3>1, <3>3 DEF Shown
      <3> QED BY <3>2, <3>3
    <2> QED BY <2>1, <2>2
  <1>5. short \in Seq(Entry(n))
    <2>1. \A e \in Items(n, rs) : e \in Entry(n)
          BY <1>1, ItemsAreEntries
    <2> QED BY <1>3, <2>1
  <1>6. /\ deduped \in Seq(Entry(n)) /\ Len(deduped) = Len(short)
        /\ \A i \in 1..Len(short) :
              /\ deduped[i].src = short[i].src /\ deduped[i].told = short[i].told
              /\ deduped[i].shows = IF i \in ReplacedAt(short, ms, d.seen) THEN "duplicate" ELSE short[i].shows
        BY <1>1, <1>5, DedupedIs
  <1>7. list = purgeErrorInputs(deduped, ms, d.errors, d.turn)
        BY DEF Pruned
  <1> HIDE DEF deduped
  <1>8. /\ list \in Seq(Entry(n)) /\ Len(list) = Len(deduped)
        /\ \A i \in 1..Len(deduped) :
              /\ list[i].src = deduped[i].src /\ list[i].told = deduped[i].told
              /\ list[i].shows = IF i \in PurgedAt(deduped, ms, d.errors, d.turn) THEN "purged"
                                 ELSE deduped[i].shows
        BY <1>1, <1>6, <1>7, PurgedIs
  <1>9. ASSUME NEW i \in 1..Len(list)
        PROVE  /\ list[i].src = short[i].src /\ list[i].told = short[i].told
               /\ list[i].shows = "duplicate" => i \in ReplacedAt(short, ms, d.seen)
               /\ list[i].shows = "purged" => i \in PurgedAt(deduped, ms, d.errors, d.turn)
        BY <1>4, <1>6, <1>8
  <1>10. ASSUME NEW i \in 1..Len(list), list[i].shows = "purged"
         PROVE  /\ RoleOf(list[i], ms) = "tool" /\ Failed(ms[list[i].src])
                /\ \E e \in d.errors : /\ d.turn - e.turn >= PurgeTurns
                                       /\ e.call = ms[list[i].src].of
    <2>1. i \in PurgedAt(deduped, ms, d.errors, d.turn) /\ list[i].src = deduped[i].src
          BY <1>8, <1>9, <1>10
    <2>2. /\ RoleOf(deduped[i], ms) = "tool" /\ Failed(ms[deduped[i].src])
          /\ \E e \in d.errors : /\ d.turn - e.turn >= PurgeTurns
                                 /\ e.call = ms[deduped[i].src].of
          BY <2>1 DEF PurgedAt
    <2>3. RoleOf(list[i], ms) = RoleOf(deduped[i], ms)
          BY <2>1 DEF RoleOf
    <2> QED BY <2>1, <2>2, <2>3
  <1> QED BY <1>2, <1>5, <1>6, <1>8, <1>9, <1>10

\* list is what pruned comes to with or without a reminder in it.
Reminded(list, pruned, ms) ==
    \/ list = pruned
    \/ \E p \in 1..Len(pruned) + 1 :
          /\ list = InsertAt(pruned, p, Nudge)
          /\ p \in 1..Len(pruned) => RoleOf(pruned[p], ms) = "user"

\* buildDCPMessages is these three and a reminder.
LEMMA BuiltIs ==
    ASSUME NEW M, NEW ms \in Seq(M), NEW d \in DcpOf(Len(ms)), NEW s
    PROVE  /\ Reminded(buildDCPMessages(ms, d, s), Pruned(ms, d), ms)
           /\ buildDCPMessages(ms, d, s) \in Seq(Entry(Len(ms)))
  <1> DEFINE n == Len(ms)
             list == Pruned(ms, d)
             users == {i \in DOMAIN list : RoleOf(list[i], ms) = "user"}
             p == IF users = {} THEN Len(list) + 1 ELSE Max(users)
             short == applyCompression(ms, d.ranges)
  <1>1. n \in Nat /\ list \in Seq(Entry(n))
    <2>1. short = applyCompression(ms, d.ranges) /\ list = Pruned(ms, d)
          OBVIOUS
    <2> HIDE DEF short, list
    <2>2. list \in Seq(Entry(Len(ms)))
          BY <2>1, PrunedIs
    <2> QED BY <2>2, LenProperties
  <1>2. buildDCPMessages(ms, d, s) = list \/ buildDCPMessages(ms, d, s) = InsertAt(list, p, Nudge)
        BY DEF buildDCPMessages, injectNudge
  <1> HIDE DEF list
  <1>3. Len(list) \in Nat /\ DOMAIN list = 1..Len(list)
        BY <1>1, LenProperties
  <1>4. p \in 1..Len(list) + 1 /\ (p \in 1..Len(list) => RoleOf(list[p], ms) = "user")
    <2>1. CASE users = {}
          BY <1>3, <2>1
    <2>2. CASE users # {}
      <3>1. users \in SUBSET (0..Len(list))
            BY <1>3
      <3>2. Max(users) \in users
            BY <1>3, <2>2, <3>1, MaxOf
      <3> QED BY <1>3, <2>2, <3>2
    <2> QED BY <2>1, <2>2
  <1> HIDE DEF p
  <1>5. Nudge \in Entry(n)
        BY <1>1, EntriesAre
  <1>6. InsertAt(list, p, Nudge) \in Seq(Entry(n))
        BY <1>1, <1>4, <1>5, InsertAtIs
  <1>7. Reminded(buildDCPMessages(ms, d, s), list, ms)
        BY <1>2, <1>4 DEF Reminded
  <1> QED BY <1>1, <1>2, <1>6, <1>7 DEF list

---------------------------------------------------------------------------
(* The inductive invariant.                                                *)

\* The types, tighter than TypeOK: no range, index or turn is beyond the
\* session, and no two of its ranges overlap.
Typed ==
    /\ msgs \in Seq(Message) /\ Len(msgs) <= MaxMsgs
    /\ dcp \in DcpOf(Len(msgs))
    /\ enabled \in BOOLEAN /\ toggles \in 0..DcpToggles
    /\ pc \in {"idle", "llm", "tools", "running", "summary", "dead"}
    /\ step \in 0..MaxSteps /\ empties \in 0..2 /\ call \in 0..MaxMsgs
    /\ compressed \in BOOLEAN
    /\ request \in Seq(Entry(Len(msgs)))
    /\ upTo \in 0..Len(msgs)
    /\ pc # "idle" => dcp.turn >= 1
    /\ pc \in {"llm", "tools", "running"} => step < MaxSteps

\* The results of a call follow it at once and in order.
ResultsFollow(ms) ==
    \A j \in 1..Len(ms) : IsTool(ms[j]) =>
        LET i == ms[j].of[1]
            k == ms[j].of[2]
        IN  /\ i \in 1..j - 1 /\ k \in Nat /\ j = i + k
            /\ HasCalls(ms[i]) /\ k \in 1..Len(ms[i].calls)
            /\ \A l \in 1..k - 1 : IsTool(ms[i + l]) /\ ms[i + l].of = <<i, l>>

\* Calls of the last assistant message are executed.
Busy == pc \in {"tools", "running"}

\* While calls are executed, the last ones of the session are theirs.
Working ==
    Busy =>
        /\ Current \in 1..Len(msgs) /\ HasCalls(msgs[Current])
        /\ call \in 1..Len(msgs[Current].calls)
        /\ Len(msgs) = Current + call - 1
        /\ Current + Len(msgs[Current].calls) <= MaxMsgs
        /\ \A l \in 1..call - 1 : /\ IsTool(msgs[Current + l])
                                  /\ msgs[Current + l].of = <<Current, l>>
        /\ pc = "running" => TheCall \in Tools

\* The user's messages from p on.
Users(ms, p) == {q \in p..Len(ms) : ms[q] = User}

\* A task has begun behind a failed result for each turn that has passed since.
Aging ==
    \A e \in dcp.errors :
        LET p == e.call[1] + e.call[2]
        IN  /\ p \in 1..Len(msgs) /\ e.turn <= dcp.turn
            /\ Cardinality(Users(msgs, p)) >= dcp.turn - e.turn

\* What is recorded of a call is the place of the first one that was executed.
FirstIs(ms, t, idx, i, k) ==
    /\ i \in 1..Len(ms) /\ HasCalls(ms[i]) /\ k \in 1..Len(ms[i].calls)
    /\ ms[i].calls[k] = t /\ idx = i + k - 1

\* That call has run, or is running.
Recorded ==
    \A t \in Tools : dcp.seen[t] # 0 =>
        \E i, k \in Nat :
            /\ FirstIs(msgs, t, dcp.seen[t], i, k)
            /\ Busy /\ i = Current => k < call \/ (k = call /\ pc = "running")

\* Results of tools that the request does not have.
Missed(ms, list, n) ==
    {i \in n + 1 .. Len(ms) : /\ IsTool(ms[i])
                              /\ ms[ms[i].of[1]].calls[ms[i].of[2]] \in Tools
                              /\ \A k \in 1..Len(list) : list[k].src # i}

\* There are none.
NoneMissed == Missed(msgs, request, upTo) = {}

\* The result of the k-th call of message i.
HasResult(ms, i, k) == i + k \in 1..Len(ms) /\ IsTool(ms[i + k]) /\ ms[i + k].of = <<i, k>>

\* No result behind n belongs to a message before it.
NoneLate(ms, n) == \A j \in n + 1 .. Len(ms) : IsTool(ms[j]) => ms[j].of[1] > n

\* In a list that was built of n messages, the results and the calls of those
\* messages stand together; younger messages were added in pairs of a message
\* with calls and one of its results.
ShapeAt(list, ms, n, i) ==
    LET s == list[i].src
        m == ms[s]
    IN  /\ s <= n /\ IsTool(m) =>
              i > m.of[2] /\ \A l \in 1..m.of[2] : list[i - l].src = s - l
        /\ s <= n /\ HasCalls(m) /\ NoneLate(ms, n) =>
              \A k \in 1..Len(m.calls) : HasResult(ms, s, k) =>
                  i + k \in 1..Len(list) /\ list[i + k].src = s + k
        /\ s > n => \/ IsTool(m) /\ i > 1 /\ list[i - 1].src = m.of[1]
                    \/ /\ HasCalls(m) /\ i < Len(list) /\ list[i + 1].src # 0
                       /\ IsTool(ms[list[i + 1].src]) /\ ms[list[i + 1].src].of[1] = s
Shape(list, ms, n) == \A i \in 1..Len(list) : list[i].src # 0 => ShapeAt(list, ms, n, i)

\* Cut of a session and its ranges.
CutIn(ms, rs) == \E i \in DOMAIN ms :
    LET block == i .. i + Len(ms[i].calls)
    IN  HasCalls(ms[i]) /\ block \intersect removeSet(rs) \notin {{}, block}

\* No range cuts a call from its results, and no call behind n asks for another.
Guarded(ms, rs, n) ==
    /\ ~CutIn(ms, rs)
    /\ \A j \in n + 1 .. Len(ms) : IsTool(ms[j]) => ms[ms[j].of[1]].calls[ms[j].of[2]] # "compress"

\* The request has the shape that Handle gives it.
Shaped == Guarded(msgs, dcp.ranges, upTo) => Shape(request, msgs, upTo)

\* The inductive invariant.
IInv == /\ Typed /\ ResultsFollow(msgs) /\ Working /\ Aging /\ Recorded /\ NoneMissed
        /\ Shaped

---------------------------------------------------------------------------
(* What a step appends to the session.                                     *)

\* A longer session, and one that is longer by no calls and no results.
Longer(ms, new) ==
    /\ new \in Seq(Message) /\ Len(ms) <= Len(new) /\ Len(new) <= MaxMsgs
    /\ \A i \in 1..Len(ms) : new[i] = ms[i]
Quiet(ms, new) ==
    /\ Longer(ms, new)
    /\ \A i \in Len(ms) + 1 .. Len(new) : ~IsTool(new[i]) /\ ~HasCalls(new[i])

\* The session stays, and so does the work on it, or it ends.
Waits ==
    /\ msgs' = msgs
    /\ Busy' => /\ Busy /\ call' = call
                /\ pc = "running" => pc' = "running"
                /\ pc' = "running" => pc = "running" \/ TheCall \in Tools

\* Texts are appended outside of the work on calls.
Talks == Quiet(msgs, msgs') /\ ~Busy /\ ~Busy'

\* The answer has calls: the work on them begins.
Asks ==
    /\ ~Busy /\ pc' = "tools" /\ call' = 1
    /\ Longer(msgs, msgs') /\ Len(msgs') = Len(msgs) + 1
    /\ \E cs \in Replies : /\ msgs'[Len(msgs')] = Says(cs)
                           /\ Len(msgs) + 1 + Len(cs) <= MaxMsgs

\* The result of a call.
Answers ==
    /\ Busy /\ Longer(msgs, msgs') /\ Len(msgs') = Len(msgs) + 1
    /\ \E o \in {"ok", "error", "denied"} : msgs'[Len(msgs')] = Answer(<<Current, call>>, o)
    /\ pc' # "running"
    /\ pc' = "tools" => call < Len(msgs[Current].calls) /\ call' = call + 1

\* Appending one message makes it longer;
LEMMA OneMore ==
    ASSUME NEW ms \in Seq(Message), NEW m \in Message, Len(ms) + 1 <= MaxMsgs,
           NEW new, new = Append(ms, m)
    PROVE  Longer(ms, new) /\ Len(new) = Len(ms) + 1 /\ new[Len(new)] = m
  <1>1. /\ new \in Seq(Message) /\ Len(new) = Len(ms) + 1
        /\ \A i \in 1..Len(ms) : new[i] = ms[i]
        /\ new[Len(ms) + 1] = m
        BY AppendProperties
  <1>2. Len(ms) \in Nat
        BY LenProperties
  <1> QED BY <1>1, <1>2 DEF Longer

\* quietly, when it is neither a call nor a result;
LEMMA OneMoreQuiet ==
    ASSUME NEW ms \in Seq(Message), NEW m \in Message, Len(ms) + 1 <= MaxMsgs,
           ~IsTool(m), ~HasCalls(m), NEW new, new = Append(ms, m)
    PROVE  Quiet(ms, new)
  <1>1. Longer(ms, new) /\ Len(new) = Len(ms) + 1 /\ new[Len(new)] = m
        BY OneMore
  <1>2. Len(ms) \in Nat
        BY LenProperties
  <1>3. ASSUME NEW i \in Len(ms) + 1 .. Len(new) PROVE ~IsTool(new[i]) /\ ~HasCalls(new[i])
    <2>1. i = Len(new)
          BY <1>1, <1>2
    <2> QED BY <1>1, <2>1
  <1> QED BY <1>1, <1>3 DEF Quiet

\* Two quiet steps are one.
LEMMA QuietTwice ==
    ASSUME NEW ms \in Seq(Message), NEW mid, NEW new, Quiet(ms, mid), Quiet(mid, new)
    PROVE  Quiet(ms, new)
  <1>1. Len(ms) \in Nat /\ Len(mid) \in Nat /\ Len(new) \in Nat
        BY LenProperties DEF Quiet, Longer
  <1>2. ASSUME NEW i \in 1..Len(ms) PROVE new[i] = ms[i]
    <2>1. i \in 1..Len(mid)
          BY <1>1 DEF Quiet, Longer
    <2> QED BY <2>1 DEF Quiet, Longer
  <1>3. ASSUME NEW i \in Len(ms) + 1 .. Len(new) PROVE ~IsTool(new[i]) /\ ~HasCalls(new[i])
    <2>1. CASE i <= Len(mid)
      <3>1. i \in Len(ms) + 1 .. Len(mid) /\ i \in 1..Len(mid)
            BY <1>1, <2>1
      <3>2. new[i] = mid[i]
            BY <3>1 DEF Quiet, Longer
      <3> QED BY <3>1, <3>2 DEF Quiet
    <2>2. CASE i > Len(mid)
      <3>1. i \in Len(mid) + 1 .. Len(new)
            BY <1>1, <2>2
      <3> QED BY <3>1 DEF Quiet
    <2> QED BY <1>1, <2>1, <2>2
  <1>4. Len(ms) <= Len(new) /\ Len(new) <= MaxMsgs /\ new \in Seq(Message)
        BY <1>1 DEF Quiet, Longer
  <1> QED BY <1>2, <1>3, <1>4 DEF Quiet, Longer

\* and appending none is quiet, too.
LEMMA StaysQuiet ==
    ASSUME NEW ms \in Seq(Message), Len(ms) <= MaxMsgs
    PROVE  Quiet(ms, ms)
  <1>1. Len(ms) \in Nat
        BY LenProperties
  <1> QED BY <1>1 DEF Quiet, Longer

\* Result leaves no call running, and the next one only if there is one.
LEMMA ResultIs ==
    ASSUME Typed, Working, Busy, NEW o \in {"ok", "error", "denied"}, Result(o)
    PROVE  /\ Answers /\ msgs' = Append(msgs, Answer(<<Current, call>>, o))
           /\ <<Current, call>> \in Calls /\ Current + call = Len(msgs')
           /\ pc' \in {"tools", "llm", "summary"} /\ call' \in 0..MaxMsgs
           /\ step' \in 0..MaxSteps /\ (pc' \in {"tools", "llm"} => step' < MaxSteps)
  <1> DEFINE c == Current
             L == Len(msgs[c].calls)
             n == Len(msgs)
             m == Answer(<<c, call>>, o)
  <1>1. n \in Nat /\ MaxMsgs \in Nat /\ MaxSteps \in Nat /\ step \in 0..MaxSteps /\ step < MaxSteps
        BY LenProperties, BoundsAssumption DEF Typed, Busy
  <1>2. c \in 1..n /\ HasCalls(msgs[c]) /\ call \in 1..L /\ n = c + call - 1 /\ c + L <= MaxMsgs
        BY DEF Working
  <1>3. msgs[c] \in Message
        BY <1>2, ElementOfSeq DEF Typed
  <1>4. L \in Nat
        BY <1>2, <1>3, MessageKinds
  <1> HIDE DEF c, L
  <1>5. /\ <<c, call>> \in Calls /\ n + 1 <= MaxMsgs /\ c + call = n + 1
        /\ call \in 0..MaxMsgs /\ (call < L => call + 1 \in 0..MaxMsgs)
        BY <1>1, <1>2, <1>4 DEF Calls
  <1>6. m \in Message
        BY <1>5, NewMessages
  <1>7. /\ msgs' = Append(msgs, m)
        /\ IF call < L THEN call' = call + 1 /\ pc' = "tools" /\ step' = step
           ELSE call' = 0 /\ pc' = NextStep /\ step' = step + 1
        BY DEF Result, m, c, L
  <1> HIDE DEF m
  <1>8. Longer(msgs, msgs') /\ Len(msgs') = n + 1 /\ msgs'[Len(msgs')] = m
        BY <1>5, <1>6, <1>7, OneMore DEF Typed
  <1>9. /\ NextStep \in {"llm", "summary"} /\ (NextStep = "llm" => step + 1 < MaxSteps)
        BY DEF NextStep
  <1>10. /\ pc' # "running" /\ (pc' = "tools" => call < L /\ call' = call + 1)
         /\ pc' \in {"tools", "llm", "summary"} /\ call' \in 0..MaxMsgs
         BY <1>1, <1>5, <1>7, <1>9
  <1>11. step' \in 0..MaxSteps /\ (pc' \in {"tools", "llm"} => step' < MaxSteps)
    <2>1. CASE call < L
          BY <1>1, <1>7, <2>1
    <2>2. CASE ~(call < L)
          BY <1>1, <1>7, <1>9, <2>2
    <2> QED BY <2>1, <2>2
  <1>12. Answers
         BY <1>8, <1>10 DEF Answers, m, c, L
  <1>13. c + call = Len(msgs')
         BY <1>5, <1>8
  <1> QED BY <1>5, <1>7, <1>10, <1>11, <1>12, <1>13 DEF m, c

\* What a step does to the session is one of four things.
LEMMA MsgsStep ==
    ASSUME Typed, Working, [Next]_vars
    PROVE  Waits \/ Talks \/ Asks \/ Answers
  <1>1. Len(msgs) \in Nat /\ msgs \in Seq(Message) /\ Len(msgs) <= MaxMsgs
        BY LenProperties DEF Typed
  <1>2. ASSUME NEW m \in {User, System, Says(<<>>)}
        PROVE  m \in Message /\ ~IsTool(m) /\ ~HasCalls(m)
        BY NewMessages
  <1>3. Quiet(msgs, msgs)
        BY <1>1, StaysQuiet
  <1>4. ASSUME msgs' = msgs, call' = call, pc' = pc PROVE Waits
        BY <1>4 DEF Waits, Busy
  <1>5. ASSUME msgs' = msgs, pc' \in {"idle", "llm", "summary", "dead"} PROVE Waits
        BY <1>5 DEF Waits, Busy
  <1>6. CASE StartTask
    <2>1. PICK queued \in {<<>>, <<User>>} : msgs' = Append(msgs, User) \o queued
          BY <1>6 DEF StartTask
    <2>2. pc = "idle" /\ pc' = "llm" /\ Len(msgs) + 2 <= MaxMsgs
          BY <1>6 DEF StartTask, Room
    <2> DEFINE ms == Append(msgs, User)
    <2>3. Quiet(msgs, ms) /\ ms \in Seq(Message) /\ Len(ms) = Len(msgs) + 1
      <3>1. User \in Message /\ ~IsTool(User) /\ ~HasCalls(User) /\ Len(msgs) + 1 <= MaxMsgs
            BY <1>1, <1>2, <2>2, BoundsAssumption
      <3>2. Quiet(msgs, ms)
            BY <1>1, <3>1, OneMoreQuiet
      <3> QED BY <1>1, <3>1, <3>2, AppendProperties
    <2> HIDE DEF ms
    <2>4. Quiet(ms, ms \o queued)
      <3>1. CASE queued = <<>>
        <4>1. ms \o queued = ms
              BY <2>3, <3>1, ConcatEmptySeq
        <4>2. Len(ms) <= MaxMsgs
              BY <1>1, <2>2, <2>3, BoundsAssumption
        <4> QED BY <2>3, <4>1, <4>2, StaysQuiet
      <3>2. CASE queued = <<User>>
        <4>1. ms \o queued = Append(ms, User)
              BY <2>3, <3>2, AppendIsConcat, NewMessages
        <4>2. Len(ms) + 1 <= MaxMsgs
              BY <1>1, <2>2, <2>3, BoundsAssumption
        <4> QED BY <1>2, <2>3, <4>1, <4>2, OneMoreQuiet
      <3> QED BY <3>1, <3>2
    <2>5. Quiet(msgs, msgs')
      <3>1. msgs' = ms \o queued
            BY <2>1 DEF ms
      <3> QED BY <1>1, <2>3, <2>4, <3>1, QuietTwice
    <2> QED BY <2>2, <2>5 DEF Talks, Busy
  <1>7. CASE ReplyText \/ Summarise
    <2>1. /\ pc \in {"llm", "summary"} /\ pc' = "idle" /\ Len(msgs) + 1 <= MaxMsgs
          /\ msgs' = Append(msgs, Says(<<>>))
          BY <1>7 DEF ReplyText, Summarise, Room
    <2>2. Quiet(msgs, msgs')
          BY <1>1, <1>2, <2>1, OneMoreQuiet
    <2> QED BY <2>1, <2>2 DEF Talks, Busy
  <1>8. CASE ReplyEmpty
    <2>1. CASE msgs' = msgs /\ pc' = "idle"
          BY <1>5, <2>1
    <2>2. CASE /\ Room(2) /\ msgs' = msgs \o <<Says(<<>>), System>> /\ pc' = NextStep
      <3>1. pc = "llm" /\ pc' \in {"llm", "summary"} /\ Len(msgs) + 2 <= MaxMsgs
            BY <1>8, <2>2 DEF ReplyEmpty, NextStep, Room
      <3> DEFINE ms == Append(msgs, Says(<<>>))
                 a == Says(<<>>)
      <3>2. Len(msgs) + 1 <= MaxMsgs
            BY <1>1, <3>1, BoundsAssumption
      <3>3. Quiet(msgs, ms)
            BY <1>1, <1>2, <3>2, OneMoreQuiet
      <3>4. ms \in Seq(Message) /\ Len(ms) = Len(msgs) + 1
            BY <1>1, <1>2, AppendProperties
      <3>5. msgs' = Append(ms, System)
        <4>1. a \in Message /\ System \in Message
              BY <1>2
        <4> HIDE DEF a
        <4>2. msgs \o <<a, System>> = Append(Append(msgs, a), System)
              BY <1>1, <4>1
        <4> QED BY <2>2, <4>2 DEF a
      <3> HIDE DEF ms
      <3>6. Len(ms) + 1 <= MaxMsgs
            BY <1>1, <3>1, <3>4, BoundsAssumption
      <3>7. Quiet(ms, msgs')
            BY <1>2, <3>4, <3>5, <3>6, OneMoreQuiet
      <3>8. Quiet(msgs, msgs')
            BY <1>1, <3>3, <3>7, QuietTwice
      <3> QED BY <3>1, <3>8 DEF Talks, Busy
    <2> QED BY <1>8, <2>1, <2>2 DEF ReplyEmpty
  <1>9. CASE ReplyCalls
    <2>1. PICK cs \in Replies : Room(1 + Len(cs)) /\ msgs' = Append(msgs, Says(cs))
          BY <1>9 DEF ReplyCalls
    <2>2. pc = "llm" /\ pc' = "tools" /\ call' = 1
          BY <1>9 DEF ReplyCalls
    <2>3. Len(cs) \in Nat /\ Len(msgs) + (1 + Len(cs)) <= MaxMsgs
          BY <2>1, RepliesAssumption, LenProperties DEF Room
    <2>4. Says(cs) \in Message /\ Len(msgs) + 1 <= MaxMsgs /\ Len(msgs) + 1 + Len(cs) <= MaxMsgs
          BY <1>1, <2>3, NewMessages, BoundsAssumption
    <2>5. Longer(msgs, msgs') /\ Len(msgs') = Len(msgs) + 1 /\ msgs'[Len(msgs')] = Says(cs)
          BY <1>1, <2>1, <2>4, OneMore
    <2> QED BY <2>2, <2>4, <2>5 DEF Asks, Busy
  <1>10. CASE TaskEnds \/ CompressPanics \/ ToolCancelled
         BY <1>5, <1>10 DEF TaskEnds, CompressPanics, ToolCancelled
  <1>11. ASSUME NEW o \in {"ok", "error", "denied"}, Result(o), Busy PROVE Answers
         BY <1>11, ResultIs
  <1>12. CASE CompressDenied \/ Rejected
         BY <1>11, <1>12 DEF CompressDenied, Rejected, Intercepted, Busy
  <1>13. CASE Compress
         BY <1>11, <1>13 DEF Compress, Intercepted, Busy
  <1>14. CASE RunTool
         BY <1>14 DEF RunTool, Waits, Busy
  <1>15. CASE ToolReturns
         BY <1>11, <1>15 DEF ToolReturns, Busy
  <1>16. CASE ToggleDcp
         BY <1>4, <1>16 DEF ToggleDcp
  <1>17. CASE UNCHANGED vars
         BY <1>4, <1>17 DEF vars
  <1> QED BY <1>6, <1>7, <1>8, <1>9, <1>10, <1>12, <1>13, <1>14, <1>15, <1>16, <1>17 DEF Next, Handle

\* Without new calls the current message stays the current one.
LEMMA CurrentStays ==
    ASSUME Typed, Longer(msgs, msgs'), \A i \in Len(msgs) + 1 .. Len(msgs') : ~HasCalls(msgs'[i])
    PROVE  Current' = Current
  <1>1. msgs \in Seq(Message) /\ msgs' \in Seq(Message) /\ Len(msgs) <= Len(msgs')
        /\ \A i \in 1..Len(msgs) : msgs'[i] = msgs[i]
        BY DEF Typed, Longer
  <1>2. LastCall(msgs') = LastCall(msgs)
        BY <1>1, LastCallStays
  <1> QED BY <1>2 DEF LastCall, Current

\* While a call is answered the current message stays.
LEMMA AnswersKeep ==
    ASSUME Typed, Working, Answers
    PROVE  /\ Current' = Current /\ msgs'[Current] = msgs[Current]
           /\ IsTool(msgs'[Len(msgs')]) /\ msgs'[Len(msgs')].of = <<Current, call>>
           /\ <<Current, call>> \in Calls
  <1>1. PICK o \in {"ok", "error", "denied"} : msgs'[Len(msgs')] = Answer(<<Current, call>>, o)
        BY DEF Answers
  <1> DEFINE c == Current
             m == msgs'[Len(msgs')]
  <1>2. Len(msgs) \in Nat /\ MaxMsgs \in Nat
        BY LenProperties, BoundsAssumption DEF Typed
  <1>3. c \in 1..Len(msgs) /\ call \in 1..Len(msgs[c].calls) /\ c + Len(msgs[c].calls) <= MaxMsgs
        /\ HasCalls(msgs[c])
        BY DEF Answers, Working
  <1>4. msgs[c] \in Message
        BY <1>3, ElementOfSeq DEF Typed
  <1>5. Len(msgs[c].calls) \in Nat
        BY <1>3, <1>4, MessageKinds
  <1>6. <<c, call>> \in Calls
        BY <1>2, <1>3, <1>5 DEF Calls
  <1>7. IsTool(m) /\ ~HasCalls(m) /\ m.of = <<c, call>>
        BY <1>1, <1>6, NewMessages
  <1>8. Longer(msgs, msgs') /\ Len(msgs') = Len(msgs) + 1
        BY DEF Answers
  <1>9. ASSUME NEW i \in Len(msgs) + 1 .. Len(msgs') PROVE ~HasCalls(msgs'[i])
    <2>1. i = Len(msgs')
          BY <1>2, <1>8
    <2> QED BY <1>7, <2>1
  <1>10. Current' = Current
         BY <1>8, <1>9, CurrentStays
  <1>11. msgs'[c] = msgs[c]
         BY <1>3, <1>8 DEF Longer
  <1> QED BY <1>6, <1>7, <1>10, <1>11

\* An answer with calls is the current message.
LEMMA AsksMake ==
    ASSUME Typed, Asks
    PROVE  /\ Current' = Len(msgs') /\ HasCalls(msgs'[Len(msgs')]) /\ ~IsTool(msgs'[Len(msgs')])
           /\ msgs'[Len(msgs')].calls \in Replies
           /\ Len(msgs'[Len(msgs')].calls) \in Nat \ {0}
           /\ Len(msgs') + Len(msgs'[Len(msgs')].calls) <= MaxMsgs
  <1>1. PICK cs \in Replies : msgs'[Len(msgs')] = Says(cs) /\ Len(msgs) + 1 + Len(cs) <= MaxMsgs
        BY DEF Asks
  <1>2. msgs' \in Seq(Message) /\ Len(msgs) \in Nat /\ Len(msgs') = Len(msgs) + 1
        BY LenProperties DEF Typed, Asks, Longer
  <1> DEFINE c == Len(msgs')
             m == msgs'[c]
  <1>3. HasCalls(m) /\ ~IsTool(m) /\ m.calls = cs
        BY <1>1, NewMessages
  <1>4. m \in Message
    <2>1. c \in 1..Len(msgs')
          BY <1>2
    <2> QED BY <1>2, <2>1, ElementOfSeq
  <1>5. Len(cs) \in Nat \ {0}
        BY <1>3, <1>4, MessageKinds
  <1>6. LastCall(msgs') = c
    <2>1. c \in 0..Len(msgs') /\ \A i \in 1..Len(msgs') : i <= c
          BY <1>2
    <2>2. c # 0 => HasCalls(msgs'[c])
          BY <1>3
    <2> HIDE DEF c
    <2> QED BY <1>2, <2>1, <2>2, LastCallUnique
  <1>7. Current' = c
        BY <1>6 DEF LastCall, Current
  <1> QED BY <1>1, <1>2, <1>3, <1>5, <1>7

\* Results keep following their calls ...
LEMMA ResultsStep ==
    ASSUME Typed, ResultsFollow(msgs), Working, [Next]_vars
    PROVE  ResultsFollow(msgs')
  <1>1. Len(msgs) \in Nat /\ msgs \in Seq(Message) /\ Len(msgs) <= MaxMsgs
        BY LenProperties DEF Typed
  <1>2. Waits \/ Talks \/ Asks \/ Answers
        BY MsgsStep
  <1>3. CASE msgs' = msgs
        BY <1>3
  <1>4. ASSUME Longer(msgs, msgs'), NEW j \in 1..Len(msgs), IsTool(msgs'[j])
        PROVE  LET i == msgs'[j].of[1]
                   k == msgs'[j].of[2]
               IN  /\ i \in 1..j - 1 /\ k \in Nat /\ j = i + k
                   /\ HasCalls(msgs'[i]) /\ k \in 1..Len(msgs'[i].calls)
                   /\ \A l \in 1..k - 1 : IsTool(msgs'[i + l]) /\ msgs'[i + l].of = <<i, l>>
    <2> DEFINE i == msgs[j].of[1]
               k == msgs[j].of[2]
    <2>1. msgs'[j] = msgs[j] /\ \A p \in 1..Len(msgs) : msgs'[p] = msgs[p]
          BY <1>4 DEF Longer
    <2>2. /\ i \in 1..j - 1 /\ k \in Nat /\ j = i + k
          /\ HasCalls(msgs[i]) /\ k \in 1..Len(msgs[i].calls)
          /\ \A l \in 1..k - 1 : IsTool(msgs[i + l]) /\ msgs[i + l].of = <<i, l>>
          BY <1>4, <2>1 DEF ResultsFollow
    <2> HIDE DEF i, k
    <2>3. i \in 1..Len(msgs) /\ \A l \in 1..k - 1 : i + l \in 1..Len(msgs)
          BY <1>1, <2>2
    <2>4. msgs'[i] = msgs[i]
          BY <2>1, <2>3
    <2>5. \A l \in 1..k - 1 : IsTool(msgs'[i + l]) /\ msgs'[i + l].of = <<i, l>>
      <3>1. ASSUME NEW l \in 1..k - 1 PROVE IsTool(msgs'[i + l]) /\ msgs'[i + l].of = <<i, l>>
        <4>1. msgs'[i + l] = msgs[i + l]
              BY <2>1, <2>3
        <4> QED BY <2>2, <4>1
      <3> QED BY <3>1
    <2> QED BY <2>1, <2>2, <2>4, <2>5 DEF i, k
  <1>5. ASSUME Quiet(msgs, msgs') PROVE ResultsFollow(msgs')
    <2>1. ASSUME NEW j \in 1..Len(msgs'), IsTool(msgs'[j]) PROVE j \in 1..Len(msgs)
      <3>1. j \in 1..Len(msgs) \/ j \in Len(msgs) + 1 .. Len(msgs')
            BY <1>1, <1>5 DEF Quiet, Longer
      <3> QED BY <1>5, <2>1, <3>1 DEF Quiet
    <2> QED BY <1>4, <1>5, <2>1 DEF ResultsFollow, Quiet
  <1>6. CASE Asks
    <2>1. ~IsTool(msgs'[Len(msgs')])
          BY <1>6, AsksMake
    <2>2. Longer(msgs, msgs') /\ Len(msgs') = Len(msgs) + 1
          BY <1>6 DEF Asks
    <2>3. ASSUME NEW j \in 1..Len(msgs'), IsTool(msgs'[j]) PROVE j \in 1..Len(msgs)
      <3>1. j \in 1..Len(msgs) \/ j = Len(msgs')
            BY <1>1, <2>2
      <3> QED BY <2>1, <2>3, <3>1
    <2> QED BY <1>4, <2>2, <2>3 DEF ResultsFollow
  <1>7. CASE Answers
    <2> DEFINE c == Current
               k == call
               n == Len(msgs')
    <2>1. Longer(msgs, msgs') /\ n = Len(msgs) + 1
          BY <1>7 DEF Answers
    <2>2. msgs'[n].of = <<c, k>> /\ msgs'[c] = msgs[c]
          BY <1>7, AnswersKeep
    <2>3. /\ c \in 1..Len(msgs) /\ HasCalls(msgs[c]) /\ k \in 1..Len(msgs[c].calls)
          /\ Len(msgs) = c + k - 1
          /\ \A l \in 1..k - 1 : IsTool(msgs[c + l]) /\ msgs[c + l].of = <<c, l>>
          BY <1>7 DEF Working, Answers
    <2> HIDE DEF c, k, n
    <2>4. k \in Nat /\ c \in 1..n - 1 /\ n = c + k /\ \A l \in 1..k - 1 : c + l \in 1..Len(msgs)
          BY <1>1, <2>1, <2>3
    <2>5. ASSUME NEW l \in 1..k - 1 PROVE IsTool(msgs'[c + l]) /\ msgs'[c + l].of = <<c, l>>
      <3>1. msgs'[c + l] = msgs[c + l]
            BY <2>1, <2>4 DEF Longer
      <3> QED BY <2>3, <3>1
    <2> DEFINE i == msgs'[n].of[1]
               q == msgs'[n].of[2]
    <2>8. i = c /\ q = k
          BY <2>2
    <2> HIDE DEF i, q
    <2>6.     /\ i \in 1..n - 1 /\ q \in Nat /\ n = i + q
              /\ HasCalls(msgs'[i]) /\ q \in 1..Len(msgs'[i].calls)
              /\ \A l \in 1..q - 1 : IsTool(msgs'[i + l]) /\ msgs'[i + l].of = <<i, l>>
          BY <2>2, <2>3, <2>4, <2>5, <2>8
    <2>7. \A j \in 1..n : j \in 1..Len(msgs) \/ j = n
          BY <1>1, <2>1
    <2> QED BY <1>4, <2>1, <2>6, <2>7 DEF ResultsFollow, n, i, q
  <1> QED BY <1>2, <1>3, <1>5, <1>6, <1>7 DEF Waits, Talks

\* ... and the loop over the calls keeps answering them one by one.
LEMMA WorkingStep ==
    ASSUME Typed, Working, [Next]_vars
    PROVE  Working'
  <1>1. Len(msgs) \in Nat /\ msgs \in Seq(Message) /\ Len(msgs) <= MaxMsgs
        BY LenProperties DEF Typed
  <1>2. Waits \/ Talks \/ Asks \/ Answers
        BY MsgsStep
  <1>3. CASE Waits /\ Busy'
    <2>1. /\ msgs' = msgs /\ call' = call /\ Busy
          /\ pc' = "running" => pc = "running" \/ TheCall \in Tools
          BY <1>3 DEF Waits
    <2>2. Current' = Current
          BY <2>1 DEF Current
    <2>3. TheCall' = TheCall
          BY <2>1, <2>2 DEF TheCall
    <2> QED BY <2>1, <2>2, <2>3 DEF Working
  <1>4. CASE ~Busy'
        BY <1>4 DEF Working
  <1>5. CASE Asks
    <2> DEFINE n == Len(msgs')
               L == Len(msgs'[n].calls)
    <2>1. Current' = n /\ HasCalls(msgs'[n]) /\ L \in Nat \ {0} /\ n + L <= MaxMsgs
          BY <1>5, AsksMake
    <2>2. n = Len(msgs) + 1 /\ pc' = "tools" /\ call' = 1
          BY <1>5 DEF Asks
    <2> HIDE DEF n, L
    <2>3. n \in 1..n /\ call' \in 1..L /\ n = n + call' - 1 /\ 1..call' - 1 = {}
          BY <1>1, <2>1, <2>2
    <2>4. /\ Current' \in 1..n /\ HasCalls(msgs'[Current']) /\ call' \in 1..Len(msgs'[Current'].calls)
          /\ n = Current' + call' - 1 /\ Current' + Len(msgs'[Current'].calls) <= MaxMsgs
          /\ 1..call' - 1 = {} /\ pc' # "running"
          BY <2>1, <2>2, <2>3 DEF L
    <2> QED BY <2>4 DEF Working, n
  <1>6. CASE Answers /\ Busy'
    <2> DEFINE n == Len(msgs')
               c == Current
               k == call
               L == Len(msgs[c].calls)
    <2>1. Longer(msgs, msgs') /\ n = Len(msgs) + 1 /\ pc' # "running" /\ k < L /\ call' = k + 1
          BY <1>6 DEF Answers, Busy
    <2>2. Current' = c /\ IsTool(msgs'[n]) /\ msgs'[n].of = <<c, k>> /\ msgs'[c] = msgs[c]
          BY <1>6, AnswersKeep
    <2>3. /\ c \in 1..Len(msgs) /\ HasCalls(msgs[c]) /\ k \in 1..L /\ c + L <= MaxMsgs
          /\ Len(msgs) = c + k - 1
          /\ \A l \in 1..k - 1 : IsTool(msgs[c + l]) /\ msgs[c + l].of = <<c, l>>
          BY <1>6 DEF Working, Answers
    <2>4. L \in Nat
      <3>1. msgs[c] \in Message
            BY <1>1, <2>3, ElementOfSeq
      <3> QED BY <2>3, <3>1, MessageKinds
    <2> DEFINE kk == call'
    <2>5. kk = k + 1
          BY <2>1
    <2> HIDE DEF n, c, k, L, kk
    <2>6. /\ c \in 1..n /\ kk \in 1..L /\ n = c + kk - 1
          /\ \A l \in 1..kk - 1 : l = k \/ l \in 1..k - 1
          /\ n = c + k /\ \A l \in 1..k - 1 : c + l \in 1..Len(msgs)
          BY <1>1, <2>1, <2>3, <2>4, <2>5
    <2>7. ASSUME NEW l \in 1..kk - 1 PROVE IsTool(msgs'[c + l]) /\ msgs'[c + l].of = <<c, l>>
      <3>1. CASE l = k
            BY <2>2, <2>6, <3>1
      <3>2. CASE l \in 1..k - 1
        <4>1. msgs'[c + l] = msgs[c + l]
              BY <2>1, <2>6, <3>2 DEF Longer
        <4> QED BY <2>3, <3>2, <4>1
      <3> QED BY <2>6, <3>1, <3>2
    <2> QED BY <2>1, <2>2, <2>3, <2>6, <2>7 DEF Working, n, L, kk
  <1>7. CASE Talks
        BY <1>4, <1>7 DEF Talks
  <1> QED BY <1>2, <1>3, <1>4, <1>5, <1>6, <1>7

\* The state of the pruning is one of a longer session, too.
LEMMA DcpGrows ==
    ASSUME NEW n \in Nat, NEW m \in Nat, n <= m, NEW d \in DcpOf(n)
    PROVE  d \in DcpOf(m)
  <1>1. RangesIn(n) \subseteq RangesIn(m)
        BY DEF RangesIn
  <1>2. \A rs \in Seq(RangesIn(n)) : rs \in Seq(RangesIn(m))
        BY <1>1
  <1>3. d.ranges \in Seq(RangesIn(m)) /\ d.turn \in 0..m
        BY <1>2 DEF DcpOf
  <1>4. \A rs, t : rs \in Seq(RangesIn(m)) /\ t \in 0..m /\ d.ranges = rs /\ d.turn = t => d \in DcpOf(m)
        BY DEF DcpOf
  <1> QED BY <1>3, <1>4

\* The assignments to the state of the pruning, each of which keeps its type.
LEMMA DcpTokens ==
    ASSUME NEW n \in Nat, NEW d \in DcpOf(n), NEW t \in {"low", "mid", "high"},
           NEW f, f = [d EXCEPT !.tokens = t]
    PROVE  /\ f \in DcpOf(n) /\ f.ranges = d.ranges /\ f.seen = d.seen
           /\ f.errors = d.errors /\ f.turn = d.turn
  BY DEF DcpOf

\* A new turn.
LEMMA DcpTurn ==
    ASSUME NEW n \in Nat, NEW d \in DcpOf(n), NEW t \in {"low", "mid", "high"}, NEW f,
           f = [ranges |-> d.ranges, seen |-> d.seen, errors |-> d.errors, turn |-> d.turn + 1,
                tokens |-> t, lastNudge |-> d.lastNudge]
    PROVE  /\ f \in DcpOf(n + 1) /\ f.ranges = d.ranges /\ f.seen = d.seen
           /\ f.errors = d.errors /\ f.turn = d.turn + 1
  <1>1. d \in DcpOf(n + 1)
        BY DcpGrows
  <1>2. d.ranges \in Seq(RangesIn(n + 1))
        BY <1>1 DEF DcpOf
  <1>3. d.turn + 1 \in 0..n + 1
        BY DEF DcpOf
  <1>4. f \in DcpOf(n + 1)
        BY <1>2, <1>3 DEF DcpOf
  <1> QED BY <1>4

\* The step of the last nudge.
LEMMA DcpNudged ==
    ASSUME NEW n \in Nat, NEW d \in DcpOf(n), NEW l \in 0..MaxSteps,
           NEW f, f = [d EXCEPT !.lastNudge = l]
    PROVE  /\ f \in DcpOf(n) /\ f.ranges = d.ranges /\ f.seen = d.seen
           /\ f.errors = d.errors /\ f.turn = d.turn
  BY DEF DcpOf

\* The ranges.
LEMMA DcpRanges ==
    ASSUME NEW n \in Nat, NEW d \in DcpOf(n), NEW rs \in Seq(RangesIn(n)),
           NEW f, f = [d EXCEPT !.ranges = rs]
    PROVE  /\ f \in DcpOf(n) /\ f.ranges = rs /\ f.seen = d.seen
           /\ f.errors = d.errors /\ f.turn = d.turn
  BY DEF DcpOf

\* A failed call.
LEMMA DcpErrors ==
    ASSUME NEW n \in Nat, NEW d \in DcpOf(n),
           NEW q \in SUBSET [call : Calls, idx : 1..MaxMsgs, turn : 1..MaxMsgs],
           NEW f, f = [d EXCEPT !.errors = @ \union q]
    PROVE  /\ f \in DcpOf(n) /\ f.ranges = d.ranges /\ f.seen = d.seen
           /\ f.errors = d.errors \union q /\ f.turn = d.turn
  <1> DEFINE E == [call : Calls, idx : 1..MaxMsgs, turn : 1..MaxMsgs]
  <1>1. d.errors \in SUBSET E
        BY DEF DcpOf
  <1>2. d.errors \union q \in SUBSET E
        BY <1>1
  <1> QED BY <1>2 DEF DcpOf

\* What the assembling of the request leaves in the state.
LEMMA RebuildIs ==
    ASSUME NEW ms \in Seq(Message), NEW d \in DcpOf(Len(ms)), NEW s \in 0..MaxSteps,
           Rebuild(ms, d, s)
    PROVE  /\ request' = buildDCPMessages(ms, d, s) /\ request' \in Seq(Entry(Len(ms)))
           /\ upTo' = Len(ms) /\ dcp' \in DcpOf(Len(ms))
           /\ dcp'.ranges = d.ranges /\ dcp'.seen = d.seen /\ dcp'.errors = d.errors
           /\ dcp'.turn = d.turn
  <1>1. Len(ms) \in Nat
        BY LenProperties
  <1>2. request' = buildDCPMessages(ms, d, s) /\ upTo' = Len(ms)
        BY DEF Rebuild
  <1>3. request' \in Seq(Entry(Len(ms)))
        BY <1>2, BuiltIs
  <1>4. dcp' = [d EXCEPT !.lastNudge = s] \/ dcp' = d
        BY DEF Rebuild, NudgeNoted
  <1>5. CASE dcp' = [d EXCEPT !.lastNudge = s]
        BY <1>1, <1>2, <1>3, <1>5, DcpNudged
  <1>6. CASE dcp' = d
        BY <1>2, <1>3, <1>6
  <1> QED BY <1>4, <1>5, <1>6

\* No step shortens the session or changes what is in it.
LEMMA AlwaysLonger ==
    ASSUME Typed, Working, [Next]_vars
    PROVE  Longer(msgs, msgs')
  <1>1. msgs \in Seq(Message) /\ Len(msgs) <= MaxMsgs
        BY DEF Typed
  <1>2. Quiet(msgs, msgs)
        BY <1>1, StaysQuiet
  <1>3. Waits \/ Talks \/ Asks \/ Answers
        BY MsgsStep
  <1>4. CASE Waits
        BY <1>2, <1>4 DEF Waits, Quiet
  <1> QED BY <1>3, <1>4 DEF Talks, Quiet, Asks, Answers

---------------------------------------------------------------------------
(* Types, and what a step does to the state of the pruning.                *)

\* What a step does to the failures, signatures and turns: nothing, or it begins
\* a turn, runs a call, or records a failure.
Kept == dcp'.seen = dcp.seen /\ dcp'.errors = dcp.errors /\ dcp'.turn = dcp.turn
Begins ==
    /\ ~Busy' /\ Len(msgs) < Len(msgs') /\ msgs'[Len(msgs) + 1] = User
    /\ dcp'.seen = dcp.seen /\ dcp'.errors = dcp.errors /\ dcp'.turn = dcp.turn + 1
Runs ==
    /\ pc = "tools" /\ pc' = "running" /\ msgs' = msgs /\ call' = call /\ TheCall \in Tools
    /\ dcp'.errors = dcp.errors /\ dcp'.turn = dcp.turn
    /\ \A t \in Tools : \/ dcp'.seen[t] = dcp.seen[t]
                        \/ t = TheCall /\ dcp'.seen[t] = Len(msgs)
Fails ==
    /\ Answers
    /\ dcp'.errors = dcp.errors \union
          {[call |-> <<Current, call>>, idx |-> Len(msgs), turn |-> dcp.turn]}
    /\ dcp'.seen = dcp.seen /\ dcp'.turn = dcp.turn

\* What has its type without a look at the step.
LEMMA TypesStay ==
    ASSUME Typed, Working, [Next]_vars
    PROVE  /\ Len(msgs) \in Nat /\ Len(msgs') \in Nat /\ Len(msgs) <= Len(msgs')
           /\ msgs' \in Seq(Message) /\ Len(msgs') <= MaxMsgs
           /\ dcp \in DcpOf(Len(msgs)) /\ dcp \in DcpOf(Len(msgs'))
           /\ request \in Seq(Entry(Len(msgs')))
           /\ upTo \in 0..Len(msgs')
           /\ dcp.turn \in Nat
  <1>1. Longer(msgs, msgs')
        BY AlwaysLonger
  <1>2. /\ Len(msgs) \in Nat /\ Len(msgs') \in Nat /\ Len(msgs) <= Len(msgs')
        /\ msgs' \in Seq(Message) /\ Len(msgs') <= MaxMsgs
        BY <1>1, LenProperties DEF Typed, Longer
  <1>3. dcp \in DcpOf(Len(msgs)) /\ request \in Seq(Entry(Len(msgs))) /\ upTo \in 0..Len(msgs)
        BY DEF Typed
  <1>4. dcp \in DcpOf(Len(msgs')) /\ dcp.turn \in Nat
    <2>1. dcp \in DcpOf(Len(msgs'))
          BY <1>2, <1>3, DcpGrows
    <2> QED BY <1>3, <2>1 DEF DcpOf
  <1>5. Entry(Len(msgs)) \subseteq Entry(Len(msgs'))
        BY <1>2 DEF Entry
  <1>6. request \in Seq(Entry(Len(msgs')))
        BY <1>3, <1>5
  <1>7. upTo \in 0..Len(msgs')
        BY <1>2, <1>3
  <1> QED BY <1>2, <1>3, <1>4, <1>6, <1>7

\* Steps that leave the pruning alone.
LEMMA PlainTypes ==
    ASSUME Typed, Working, [Next]_vars,
           dcp' = dcp \/ (\E t \in {"low", "mid", "high"} : dcp' = [dcp EXCEPT !.tokens = t]),
           UNCHANGED upTo, enabled' \in BOOLEAN, toggles' \in 0..DcpToggles,
           pc' \in {"idle", "llm", "tools", "running", "summary", "dead"},
           step' \in 0..MaxSteps, empties' \in 0..2, call' \in 0..MaxMsgs, compressed' \in BOOLEAN,
           request' \in Seq(Entry(Len(msgs'))),
           pc' # "idle" => pc # "idle",
           pc' \in {"llm", "tools", "running"} => step' < MaxSteps
    PROVE  Typed' /\ Kept
  <1>1. /\ Len(msgs) \in Nat /\ Len(msgs') \in Nat /\ Len(msgs) <= Len(msgs')
        /\ msgs' \in Seq(Message) /\ Len(msgs') <= MaxMsgs
        /\ dcp \in DcpOf(Len(msgs)) /\ dcp \in DcpOf(Len(msgs'))
        /\ upTo \in 0..Len(msgs')
        BY TypesStay
  <1>2. dcp' \in DcpOf(Len(msgs')) /\ Kept
    <2>1. CASE dcp' = dcp
          BY <1>1, <2>1 DEF Kept
    <2>2. ASSUME NEW t \in {"low", "mid", "high"}, dcp' = [dcp EXCEPT !.tokens = t]
          PROVE  dcp' \in DcpOf(Len(msgs')) /\ Kept
          BY <1>1, <2>2, DcpTokens DEF Kept
    <2> QED BY <2>1, <2>2
  <1>3. pc' # "idle" => dcp'.turn >= 1
        BY <1>2 DEF Kept, Typed
  <1> QED BY <1>1, <1>2, <1>3 DEF Typed

\* Types stay, and every step is one of these.
LEMMA TypedStep ==
    ASSUME Typed, Working, [Next]_vars
    PROVE  Typed' /\ (Kept \/ Begins \/ Runs \/ Fails)
  <1> DEFINE n == Len(msgs)
  <1>1. /\ n \in Nat /\ Len(msgs') \in Nat /\ n <= Len(msgs')
        /\ msgs' \in Seq(Message) /\ Len(msgs') <= MaxMsgs
        /\ dcp \in DcpOf(n) /\ dcp \in DcpOf(Len(msgs'))
        /\ request \in Seq(Entry(Len(msgs')))
        /\ upTo \in 0..Len(msgs') /\ dcp.turn \in Nat
        BY TypesStay
  <1>2. /\ MaxSteps \in Nat \ {0} /\ MaxMsgs \in Nat /\ DcpToggles \in Nat
        /\ Usages \subseteq {"low", "mid", "high"}
        BY BoundsAssumption, RepliesAssumption
  <1>3. /\ enabled \in BOOLEAN /\ toggles \in 0..DcpToggles
        /\ pc \in {"idle", "llm", "tools", "running", "summary", "dead"}
        /\ step \in 0..MaxSteps /\ empties \in 0..2 /\ call \in 0..MaxMsgs
        /\ compressed \in BOOLEAN
        /\ (pc # "idle" => dcp.turn >= 1)
        /\ (pc \in {"llm", "tools", "running"} => step < MaxSteps)
        /\ msgs \in Seq(Message) /\ n <= MaxMsgs
        BY DEF Typed
  <1>4. dcp.tokens \in {"low", "mid", "high"}
        BY <1>1 DEF DcpOf
  <1>5. ASSUME Answered PROVE \E t \in {"low", "mid", "high"} : dcp' = [dcp EXCEPT !.tokens = t]
        BY <1>2, <1>4, <1>5 DEF Answered
  <1>6. NextStep \in {"llm", "summary"} /\ (NextStep = "llm" => step + 1 < MaxSteps)
        BY DEF NextStep
  <1>7. CASE ReplyText
    <2>1. /\ UNCHANGED <<upTo, enabled, toggles, step, call, compressed, request>>
          /\ pc = "llm" /\ pc' = "idle" /\ empties' = 0 /\ Answered
          BY <1>7 DEF ReplyText
    <2> QED BY <1>1, <1>2, <1>3, <1>5, <2>1, PlainTypes
  <1>8. CASE ReplyEmpty
    <2>1. /\ UNCHANGED <<upTo, enabled, toggles, call, compressed, request>>
          /\ pc = "llm" /\ Answered
          /\ \/ pc' = "idle" /\ empties' = empties /\ step' = step
             \/ empties < 2 /\ pc' = NextStep /\ step' = step + 1 /\ empties' = empties + 1
          BY <1>8 DEF ReplyEmpty
    <2>2. /\ empties' \in 0..2 /\ step' \in 0..MaxSteps /\ pc' \in {"idle", "llm", "summary"}
          /\ (pc' = "llm" => step' < MaxSteps)
      <3>1. CASE pc' = "idle" /\ empties' = empties /\ step' = step
            BY <1>3, <3>1
      <3>2. CASE empties < 2 /\ pc' = NextStep /\ step' = step + 1 /\ empties' = empties + 1
            BY <1>2, <1>3, <1>6, <2>1, <3>2
      <3> QED BY <2>1, <3>1, <3>2
    <2> QED BY <1>1, <1>2, <1>3, <1>5, <2>1, <2>2, PlainTypes
  <1>9. CASE ReplyCalls
    <2>1. /\ UNCHANGED <<upTo, enabled, toggles, step, request>>
          /\ pc = "llm" /\ Answered /\ pc' = "tools" /\ call' = 1 /\ compressed' = FALSE /\ empties' = 0
          BY <1>9 DEF ReplyCalls
    <2>2. call' \in 0..MaxMsgs
      <3>1. PICK cs \in Replies : Room(1 + Len(cs))
            BY <1>9 DEF ReplyCalls
      <3>2. Len(cs) \in Nat
            BY RepliesAssumption, LenProperties
      <3> QED BY <1>1, <1>2, <2>1, <3>1, <3>2 DEF Room
    <2>3. /\ enabled' \in BOOLEAN /\ toggles' \in 0..DcpToggles
          /\ pc' \in {"idle", "llm", "tools", "running", "summary", "dead"}
          /\ step' \in 0..MaxSteps /\ empties' \in 0..2 /\ compressed' \in BOOLEAN
          /\ request' \in Seq(Entry(Len(msgs'))) /\ upTo' = upTo
          /\ pc # "idle" /\ step' < MaxSteps
      <3>1. empties' = 0 /\ 0 \in 0..2 /\ compressed' = FALSE /\ pc' = "tools" /\ pc = "llm"
            BY <2>1
      <3>2. /\ enabled' = enabled /\ toggles' = toggles /\ step' = step /\ request' = request
            /\ upTo' = upTo
            BY <2>1
      <3>3. request' \in Seq(Entry(Len(msgs')))
            BY <1>1, <3>2
      <3>4. step' \in 0..MaxSteps /\ step' < MaxSteps
            BY <1>3, <3>1, <3>2
      <3> QED BY <1>3, <3>1, <3>2, <3>3, <3>4
    <2>4. \E t \in {"low", "mid", "high"} : dcp' = [dcp EXCEPT !.tokens = t]
          BY <1>5, <2>1
    <2> QED BY <2>2, <2>3, <2>4, PlainTypes
  <1>10. CASE TaskEnds \/ ToolCancelled \/ CompressPanics
    <2>1. /\ UNCHANGED <<upTo, enabled, toggles, step, request, call, empties, compressed, dcp>>
          /\ pc \in {"llm", "summary", "running", "tools"} /\ pc' \in {"idle", "dead"}
          BY <1>10 DEF TaskEnds, ToolCancelled, CompressPanics
    <2> QED BY <1>1, <1>2, <1>3, <2>1, PlainTypes
  <1>11. CASE Summarise
    <2>1. /\ UNCHANGED <<upTo, enabled, toggles, step, call, empties, compressed, dcp>>
          /\ pc = "summary" /\ pc' = "idle" /\ request' = Append(request, Note)
          BY <1>11 DEF Summarise
    <2>2. request' \in Seq(Entry(Len(msgs')))
          BY <1>1, <2>1, EntriesAre, AppendProperties
    <2> QED BY <1>1, <1>2, <1>3, <2>1, <2>2, PlainTypes
  <1>12. CASE ToggleDcp
    <2>1. /\ UNCHANGED <<upTo, pc, request, step, call, empties, compressed>>
          /\ toggles < DcpToggles /\ enabled' = ~enabled /\ toggles' = toggles + 1
          /\ (dcp' = dcp \/ dcp' = [dcp EXCEPT !.tokens = "low"])
          BY <1>12 DEF ToggleDcp
    <2>2. enabled' \in BOOLEAN /\ toggles' \in 0..DcpToggles
          BY <1>2, <1>3, <2>1
    <2> QED BY <1>1, <1>2, <1>3, <2>1, <2>2, PlainTypes
  <1>13. CASE UNCHANGED vars
    <2>1. UNCHANGED vars
          BY <1>13
    <2> QED BY <1>1, <1>2, <1>3, <2>1, PlainTypes DEF vars
  <1>14. ASSUME NEW o \in {"ok", "error", "denied"}, Result(o), Busy
         PROVE  /\ Answers /\ Len(msgs') = n + 1 /\ <<Current, call>> \in Calls
                /\ pc' \in {"tools", "llm", "summary"} /\ call' \in 0..MaxMsgs
                /\ step' \in 0..MaxSteps /\ (pc' \in {"llm", "tools"} => step' < MaxSteps)
                /\ step + 1 \in 0..MaxSteps /\ pc # "idle"
                /\ UNCHANGED <<enabled, toggles, empties>>
    <2>1. /\ Answers /\ <<Current, call>> \in Calls
          /\ pc' \in {"tools", "llm", "summary"} /\ call' \in 0..MaxMsgs
          /\ step' \in 0..MaxSteps /\ (pc' \in {"tools", "llm"} => step' < MaxSteps)
          BY <1>14, ResultIs
    <2>2. Len(msgs') = n + 1
          BY <2>1 DEF Answers
    <2>3. step + 1 \in 0..MaxSteps /\ pc # "idle"
          BY <1>2, <1>3, <1>14 DEF Busy
    <2> QED BY <1>14, <2>1, <2>2, <2>3 DEF Result
  <1>15. CASE CompressDenied \/ Rejected
    <2>1. PICK o \in {"error", "denied"} :
             Busy /\ Result(o) /\ UNCHANGED <<dcp, compressed, request, upTo>>
          BY <1>15 DEF CompressDenied, Rejected, Intercepted, Busy
    <2>2. /\ pc' \in {"tools", "llm", "summary"} /\ call' \in 0..MaxMsgs
          /\ step' \in 0..MaxSteps /\ (pc' \in {"llm", "tools"} => step' < MaxSteps)
          /\ pc # "idle"
          /\ UNCHANGED <<enabled, toggles, empties>>
          BY <1>14, <2>1
    <2> QED BY <1>1, <1>2, <1>3, <2>1, <2>2, PlainTypes
  <1>16. ASSUME NEW d \in DcpOf(Len(msgs')), Rebuild(msgs', d, step + 1), step + 1 \in 0..MaxSteps
         PROVE  /\ request' \in Seq(Entry(Len(msgs'))) /\ upTo' \in 0..Len(msgs')
                /\ dcp' \in DcpOf(Len(msgs')) /\ dcp'.seen = d.seen
                /\ dcp'.errors = d.errors /\ dcp'.turn = d.turn
    <2>1. /\ request' \in Seq(Entry(Len(msgs'))) /\ upTo' = Len(msgs')
          /\ dcp' \in DcpOf(Len(msgs')) /\ dcp'.seen = d.seen
          /\ dcp'.errors = d.errors /\ dcp'.turn = d.turn
          BY <1>1, <1>16, RebuildIs
    <2> QED BY <1>1, <2>1
  <1>17. CASE Compress
    <2> DEFINE Outcome(args) == execCompress(dcp.ranges, args, n)
               After(args) == [dcp EXCEPT !.ranges = Outcome(args).ranges]
    <2>1. PICK args \in CompressArgs :
             \/ Result("ok") /\ compressed' = TRUE /\ Rebuild(msgs', After(args), step + 1)
             \/ Result("error") /\ dcp' = After(args) /\ UNCHANGED <<compressed, request, upTo>>
          BY <1>17 DEF Compress
    <2> DEFINE d == After(args)
    <2>2. Busy /\ (Result("ok") \/ Result("error"))
          BY <1>17, <2>1 DEF Compress, Intercepted, Busy
    <2>3. Outcome(args).ranges \in Seq(RangesIn(n))
      <3>1. args \in Seq(Nat \X Nat) /\ dcp.ranges \in Seq(RangesIn(n))
            BY <1>1, RepliesAssumption DEF DcpOf
      <3> QED BY <1>1, <3>1, CompressIs
    <2>4. d \in DcpOf(Len(msgs')) /\ d.seen = dcp.seen /\ d.errors = dcp.errors /\ d.turn = dcp.turn
      <3>1. d = [dcp EXCEPT !.ranges = Outcome(args).ranges]
            OBVIOUS
      <3> HIDE DEF d, Outcome
      <3>2. d \in DcpOf(n) /\ d.seen = dcp.seen /\ d.errors = dcp.errors /\ d.turn = dcp.turn
            BY <1>1, <2>3, <3>1, DcpRanges
      <3> QED BY <1>1, <3>2, DcpGrows
    <2>5. /\ Answers /\ pc' \in {"tools", "llm", "summary"} /\ call' \in 0..MaxMsgs
          /\ step' \in 0..MaxSteps /\ (pc' \in {"llm", "tools"} => step' < MaxSteps)
          /\ step + 1 \in 0..MaxSteps /\ pc # "idle"
          /\ UNCHANGED <<enabled, toggles, empties>>
          BY <1>14, <2>2
    <2> HIDE DEF d
    <2>6. \/ compressed' = TRUE /\ Rebuild(msgs', d, step + 1)
          \/ dcp' = d /\ UNCHANGED <<compressed, request, upTo>>
          BY <2>1 DEF d
    <2>7. /\ request' \in Seq(Entry(Len(msgs'))) /\ upTo' \in 0..Len(msgs')
          /\ dcp' \in DcpOf(Len(msgs')) /\ dcp'.seen = d.seen
          /\ dcp'.errors = d.errors /\ dcp'.turn = d.turn
          /\ compressed' \in BOOLEAN
      <3>1. CASE compressed' = TRUE /\ Rebuild(msgs', d, step + 1)
            BY <1>16, <2>4, <2>5, <3>1
      <3>2. CASE dcp' = d /\ UNCHANGED <<compressed, request, upTo>>
            BY <1>1, <1>3, <2>4, <3>2
      <3> QED BY <2>6, <3>1, <3>2
    <2>8. Kept
          BY <2>4, <2>7 DEF Kept
    <2>9. dcp'.turn >= 1
          BY <1>3, <2>4, <2>5, <2>7
    <2> QED BY <1>1, <1>3, <2>5, <2>7, <2>8, <2>9 DEF Typed
  <1>18. CASE RunTool
    <2>1. /\ pc = "tools" /\ pc' = "running" /\ TheCall \in Tools
          /\ UNCHANGED <<msgs, enabled, toggles, step, empties, call, compressed, request, upTo>>
          /\ (dcp' = dcp \/ dcp' = [dcp EXCEPT !.seen[TheCall] = n])
          BY <1>18 DEF RunTool, RecordToolCall
    <2>2. n \in 0..MaxMsgs
          BY <1>1, <1>2, <1>3
    <2>3. dcp' \in DcpOf(n) /\ dcp'.turn = dcp.turn /\ dcp'.errors = dcp.errors
          /\ \A t \in Tools : \/ dcp'.seen[t] = dcp.seen[t]
                              \/ t = TheCall /\ dcp'.seen[t] = n
      <3>1. CASE dcp' = dcp
            BY <1>1, <3>1
      <3>2. CASE dcp' = [dcp EXCEPT !.seen[TheCall] = n]
        <4> DEFINE t == TheCall
                   f == dcp'
        <4>1. t \in Tools /\ f = [dcp EXCEPT !.seen[t] = n]
              BY <2>1, <3>2
        <4> HIDE DEF t, f
        <4>2. /\ f \in DcpOf(n) /\ f.ranges = dcp.ranges
              /\ \A u \in Tools : f.seen[u] = IF u = t THEN n ELSE dcp.seen[u]
              /\ f.errors = dcp.errors /\ f.turn = dcp.turn
              BY <1>1, <2>2, <4>1 DEF DcpOf
        <4> QED BY <4>2 DEF t, f
      <3> QED BY <2>1, <3>1, <3>2
    <2>4. Runs
          BY <2>1, <2>3 DEF Runs
    <2>5. Len(msgs') = n
          BY <2>1
    <2>6. dcp'.turn >= 1 /\ step' < MaxSteps /\ dcp' \in DcpOf(Len(msgs'))
          BY <1>3, <2>1, <2>3, <2>5
    <2> QED BY <1>1, <1>3, <2>1, <2>4, <2>6 DEF Typed
  <1>19. CASE ToolReturns
    <2> DEFINE e == [call |-> <<Current, call>>, idx |-> n, turn |-> dcp.turn]
               Noted(o) == IF o = "error" /\ enabled THEN RecordErrorToolCall(dcp) ELSE dcp
    <2>1. PICK o \in {"ok", "error"} :
             /\ Result(o)
             /\ IF enabled THEN Rebuild(msgs', Noted(o), step + 1)
                ELSE /\ request' = request \o <<Shown(Current), Shown(n + 1)>>
                     /\ UNCHANGED <<dcp, upTo>>
          BY <1>19 DEF ToolReturns
    <2>2. pc = "running" /\ compressed' = compressed /\ Busy
          BY <1>19 DEF ToolReturns, Busy
    <2>3. /\ Answers /\ pc' \in {"tools", "llm", "summary"} /\ call' \in 0..MaxMsgs
          /\ step' \in 0..MaxSteps /\ (pc' \in {"llm", "tools"} => step' < MaxSteps)
          /\ step + 1 \in 0..MaxSteps /\ pc # "idle" /\ Len(msgs') = n + 1
          /\ <<Current, call>> \in Calls
          /\ UNCHANGED <<enabled, toggles, empties>>
          BY <1>14, <2>1, <2>2
    <2>4. Current \in 1..n
          BY <2>2 DEF Working
    <2> DEFINE d == Noted(o)
    <2>5. /\ d \in DcpOf(n) /\ d.seen = dcp.seen /\ d.turn = dcp.turn
          /\ (d.errors = dcp.errors \/ d.errors = dcp.errors \union {e})
      <3>1. e \in [call : Calls, idx : 1..MaxMsgs, turn : 1..MaxMsgs]
        <4>1. n \in 1..MaxMsgs
              BY <1>1, <1>2, <1>3, <2>4
        <4>2. dcp.turn \in 0..n
              BY <1>1 DEF DcpOf
        <4>3. dcp.turn \in 1..MaxMsgs
              BY <1>1, <1>2, <1>3, <2>3, <4>2
        <4> QED BY <2>3, <4>1, <4>3
      <3>2. d = dcp \/ d = [dcp EXCEPT !.errors = @ \union {e}]
            BY DEF RecordErrorToolCall
      <3>3. {e} \in SUBSET [call : Calls, idx : 1..MaxMsgs, turn : 1..MaxMsgs]
            BY <3>1
      <3> HIDE DEF d, e
      <3>4. CASE d = [dcp EXCEPT !.errors = @ \union {e}]
        <4> DEFINE q == {e}
        <4>1. d = [dcp EXCEPT !.errors = @ \union q]
              BY <3>4
        <4>2. q \in SUBSET [call : Calls, idx : 1..MaxMsgs, turn : 1..MaxMsgs]
              BY <3>3
        <4> HIDE DEF q
        <4>3. /\ d \in DcpOf(n) /\ d.ranges = dcp.ranges /\ d.seen = dcp.seen
              /\ d.errors = dcp.errors \union q /\ d.turn = dcp.turn
              BY <1>1, <4>1, <4>2, DcpErrors
        <4> QED BY <4>3 DEF q
      <3> QED BY <1>1, <3>2, <3>4
    <2>6. d \in DcpOf(Len(msgs'))
          BY <1>1, <2>5, DcpGrows
    <2>7. \/ Rebuild(msgs', d, step + 1)
          \/ /\ request' = request \o <<Shown(Current), Shown(n + 1)>>
             /\ UNCHANGED <<dcp, upTo>>
          BY <2>1
    <2> HIDE DEF d, e
    <2>8. CASE Rebuild(msgs', d, step + 1)
      <3>1. /\ request' \in Seq(Entry(Len(msgs'))) /\ upTo' \in 0..Len(msgs')
            /\ dcp' \in DcpOf(Len(msgs')) /\ dcp'.seen = d.seen
            /\ dcp'.errors = d.errors /\ dcp'.turn = d.turn
            BY <1>16, <2>3, <2>6, <2>8
      <3>2. Kept \/ Fails
            BY <2>3, <2>5, <3>1 DEF Kept, Fails, e
      <3>3. dcp'.turn >= 1
            BY <1>3, <2>3, <2>5, <3>1
      <3> QED BY <1>1, <1>3, <2>2, <2>3, <3>1, <3>2, <3>3 DEF Typed
    <2>9. CASE /\ request' = request \o <<Shown(Current), Shown(n + 1)>>
               /\ UNCHANGED <<dcp, upTo>>
      <3>1. request' \in Seq(Entry(Len(msgs')))
        <4> DEFINE E == Entry(Len(msgs'))
                   a == Shown(Current)
                   b == Shown(n + 1)
        <4>1. a \in E /\ b \in E
          <5>1. Current \in 1..Len(msgs') /\ n + 1 \in 1..Len(msgs')
                BY <1>1, <2>3, <2>4
          <5> QED BY <1>1, <5>1, EntriesAre
        <4>2. request \in Seq(E) /\ request' = request \o <<a, b>>
              BY <1>1, <2>9
        <4> HIDE DEF E, a, b
        <4>3. <<a, b>> \in Seq(E)
              BY <4>1
        <4>4. request \o <<a, b>> \in Seq(E)
              BY <4>2, <4>3, ConcatProperties
        <4> QED BY <4>2, <4>4 DEF E
      <3>2. dcp' = dcp /\ upTo' = upTo /\ dcp' \in DcpOf(Len(msgs'))
            BY <1>1, <2>9
      <3>3. Kept /\ dcp'.turn >= 1
            BY <1>3, <2>3, <3>2 DEF Kept
      <3> QED BY <1>1, <1>3, <2>2, <2>3, <3>1, <3>2, <3>3 DEF Typed
    <2> QED BY <2>7, <2>8, <2>9
  <1>20. CASE StartTask
    <2> DEFINE d == [dcp EXCEPT !.turn = @ + 1, !.tokens = IF WindowKnown THEN "low" ELSE @]
               ms == Append(msgs, User)
    <2>1. /\ pc = "idle" /\ pc' = "llm" /\ step' = 0 /\ empties' = 0 /\ call' = 0
          /\ UNCHANGED <<enabled, toggles, compressed>>
          /\ \/ Rebuild(ms, d, 0)
             \/ dcp' = d /\ request' = Plain(ms) /\ upTo' = Len(ms)
          BY <1>20 DEF StartTask
    <2>2. PICK queued \in {<<>>, <<User>>} : msgs' = ms \o queued
          BY <1>20 DEF StartTask
    <2>3. /\ ms \in Seq(Message) /\ Len(ms) = n + 1 /\ ms[n + 1] = User
          /\ \A i \in 1..n + 1 : ms[i] \in Message
      <3>1. User \in Message
            BY NewMessages
      <3>2. ms \in Seq(Message) /\ Len(ms) = n + 1 /\ ms[n + 1] = User
            BY <1>3, <3>1, AppendProperties
      <3> QED BY <3>2, ElementOfSeq
    <2>4. d \in DcpOf(n + 1) /\ d.seen = dcp.seen /\ d.errors = dcp.errors /\ d.turn = dcp.turn + 1
      <3> DEFINE t == IF WindowKnown THEN "low" ELSE dcp.tokens
                 x == dcp.turn + 1
      <3>1. t \in {"low", "mid", "high"} /\ d = [dcp EXCEPT !.turn = x, !.tokens = t]
            BY <1>4
      <3> HIDE DEF t, x, d
      <3>2. d = [ranges |-> dcp.ranges, seen |-> dcp.seen, errors |-> dcp.errors, turn |-> x,
                 tokens |-> t, lastNudge |-> dcp.lastNudge]
            BY <1>1, <3>1 DEF DcpOf
      <3>3. d = [ranges |-> dcp.ranges, seen |-> dcp.seen, errors |-> dcp.errors, turn |-> dcp.turn + 1,
                 tokens |-> t, lastNudge |-> dcp.lastNudge]
            BY <3>2 DEF x
      <3>4. t \in {"low", "mid", "high"}
            BY <3>1
      <3>5. n \in Nat /\ dcp \in DcpOf(n)
            BY <1>1
      <3>6. d \in DcpOf(n + 1)
            BY <3>3, <3>4, <3>5, DcpTurn
      <3>7. d.ranges = dcp.ranges /\ d.seen = dcp.seen /\ d.errors = dcp.errors /\ d.turn = dcp.turn + 1
            BY <3>3
      <3> QED BY <3>6, <3>7
    <2> HIDE DEF d, ms
    <2>5. Len(msgs') >= n + 1 /\ msgs'[n + 1] = User
      <3>1. queued \in Seq(Message)
        <4> DEFINE u == User
        <4>1. u \in Message /\ (queued = <<>> \/ queued = <<u>>)
              BY <2>2, NewMessages
        <4> HIDE DEF u
        <4>2. <<>> \in Seq(Message) /\ <<u>> \in Seq(Message)
              BY <4>1
        <4> QED BY <4>1, <4>2
      <3>2. Len(msgs') = Len(ms) + Len(queued) /\ \A i \in 1..Len(ms) : msgs'[i] = ms[i]
        <4>1. msgs' = ms \o queued /\ ms \in Seq(Message)
              BY <2>2, <2>3
        <4>2. /\ Len(ms \o queued) = Len(ms) + Len(queued)
              /\ \A i \in 1..Len(ms) + Len(queued) :
                    (ms \o queued)[i] = IF i <= Len(ms) THEN ms[i] ELSE queued[i - Len(ms)]
              BY <3>1, <4>1, ConcatProperties, Zenon
        <4>3. Len(ms) \in Nat /\ Len(queued) \in Nat
              BY <3>1, <4>1, LenProperties
        <4> QED BY <4>1, <4>2, <4>3
      <3>3. Len(queued) \in Nat /\ n + 1 \in 1..Len(ms)
            BY <1>1, <2>3, <3>1, LenProperties
      <3> QED BY <1>1, <2>3, <3>2, <3>3
    <2>6. /\ request' \in Seq(Entry(n + 1)) /\ upTo' = n + 1 /\ dcp' \in DcpOf(n + 1)
          /\ dcp'.seen = dcp.seen /\ dcp'.errors = dcp.errors /\ dcp'.turn = dcp.turn + 1
      <3>1. CASE Rebuild(ms, d, 0)
        <4>1. d \in DcpOf(Len(ms)) /\ 0 \in 0..MaxSteps
              BY <1>2, <2>3, <2>4
        <4>2. /\ request' \in Seq(Entry(Len(ms))) /\ upTo' = Len(ms) /\ dcp' \in DcpOf(Len(ms))
              /\ dcp'.seen = d.seen /\ dcp'.errors = d.errors /\ dcp'.turn = d.turn
              BY <2>3, <3>1, <4>1, RebuildIs
        <4> QED BY <2>3, <2>4, <4>2
      <3>2. CASE dcp' = d /\ request' = Plain(ms) /\ upTo' = Len(ms)
        <4>1. DOMAIN ms = 1..n + 1
              BY <2>3, LenProperties
        <4>2. \A i \in 1..n + 1 : Shown(i) \in Entry(n + 1)
              BY <1>1, EntriesAre
        <4>3. request' = [i \in 1..n + 1 |-> Shown(i)]
              BY <3>2, <4>1 DEF Plain
        <4>4. request' \in Seq(Entry(n + 1))
              BY <1>1, <4>2, <4>3
        <4> QED BY <2>3, <2>4, <3>2, <4>4
      <3> QED BY <2>1, <3>1, <3>2
    <2>7. Entry(n + 1) \subseteq Entry(Len(msgs'))
          BY <1>1, <2>5 DEF Entry
    <2>8. request' \in Seq(Entry(Len(msgs')))
          BY <2>6, <2>7
    <2>9. dcp' \in DcpOf(Len(msgs'))
      <3>1. n + 1 \in Nat /\ n + 1 <= Len(msgs')
            BY <1>1, <2>5
      <3> QED BY <1>1, <2>6, <3>1, DcpGrows
    <2>10. Begins
      <3>1. n < Len(msgs')
            BY <1>1, <2>5
      <3> QED BY <2>1, <2>5, <2>6, <3>1 DEF Begins, Busy
    <2>11. /\ upTo' \in 0..Len(msgs') /\ dcp'.turn >= 1
           /\ step' \in 0..MaxSteps /\ step' < MaxSteps /\ empties' \in 0..2 /\ call' \in 0..MaxMsgs
           BY <1>1, <1>2, <2>1, <2>5, <2>6
    <2> QED BY <1>1, <1>3, <2>1, <2>8, <2>9, <2>10, <2>11 DEF Typed
  <1> QED BY <1>7, <1>8, <1>9, <1>10, <1>11, <1>12, <1>13, <1>15, <1>17, <1>18, <1>19, <1>20
          DEF Next, Handle

---------------------------------------------------------------------------
(* Failed results, recorded calls.                                         *)

\* A longer session has no fewer messages of the user's.
LEMMA UsersGrow ==
    ASSUME NEW ms \in Seq(Message), NEW new, Longer(ms, new), NEW p \in Nat \ {0}
    PROVE  /\ Cardinality(Users(ms, p)) \in Nat /\ Cardinality(Users(new, p)) \in Nat
           /\ Cardinality(Users(ms, p)) <= Cardinality(Users(new, p))
           /\ Len(ms) < Len(new) /\ new[Len(ms) + 1] = User /\ p <= Len(ms) + 1 =>
                 Cardinality(Users(ms, p)) + 1 <= Cardinality(Users(new, p))
  <1> DEFINE A == Users(ms, p)
             B == Users(new, p)
             q == Len(ms) + 1
  <1>1. Len(ms) \in Nat /\ Len(new) \in Nat /\ Len(ms) <= Len(new)
        BY LenProperties DEF Longer
  <1>2. IsFiniteSet(A) /\ IsFiniteSet(B)
    <2>1. IsFiniteSet(p..Len(ms)) /\ IsFiniteSet(p..Len(new))
      <3>1. p \in Int /\ Len(ms) \in Int /\ Len(new) \in Int
            BY <1>1
      <3> QED BY <3>1, FS_Interval
    <2>2. A \subseteq p..Len(ms) /\ B \subseteq p..Len(new)
          BY DEF Users
    <2> QED BY <2>1, <2>2, FS_Subset
  <1>3. ASSUME NEW x \in A PROVE x \in B
    <2>1. x \in p..Len(ms) /\ ms[x] = User
          BY <1>3 DEF Users
    <2>2. x \in 1..Len(ms) /\ x \in p..Len(new)
          BY <1>1, <2>1
    <2>3. new[x] = User
          BY <2>1, <2>2 DEF Longer
    <2> QED BY <2>2, <2>3 DEF Users
  <1>4. q \notin A
        BY <1>1 DEF Users
  <1>5. ASSUME Len(ms) < Len(new), new[q] = User, p <= q PROVE q \in B
        BY <1>1, <1>5 DEF Users
  <1> HIDE DEF A, B, q
  <1>6. Cardinality(A) \in Nat /\ Cardinality(B) \in Nat /\ Cardinality(A) <= Cardinality(B)
    <2>1. A \subseteq B
          BY <1>3
    <2> QED BY <1>2, <2>1, FS_Subset, FS_CardinalityType
  <1>7. ASSUME Len(ms) < Len(new), new[q] = User, p <= q
        PROVE  Cardinality(A) + 1 <= Cardinality(B)
    <2>1. Cardinality(A \union {q}) = Cardinality(A) + 1 /\ IsFiniteSet(A \union {q})
          BY <1>2, <1>4, FS_AddElement
    <2>2. A \union {q} \subseteq B
          BY <1>3, <1>5, <1>7
    <2>3. Cardinality(A \union {q}) <= Cardinality(B)
          BY <1>2, <2>1, <2>2, FS_Subset
    <2> QED BY <2>1, <2>3
  <1> QED BY <1>6, <1>7 DEF A, B, q

\* A failure's age is no more than the user's messages that came after it.
LEMMA AgingStep ==
    ASSUME Typed, Working, Aging, [Next]_vars
    PROVE  Aging'
  <1>1. Longer(msgs, msgs') /\ msgs \in Seq(Message) /\ Typed'
        BY AlwaysLonger, TypedStep DEF Typed
  <1>2. Len(msgs) \in Nat /\ Len(msgs') \in Nat /\ Len(msgs) <= Len(msgs')
        BY <1>1, LenProperties DEF Longer
  <1>3. dcp.turn \in Nat
        BY <1>2 DEF Typed, DcpOf
  <1>4. \A e \in dcp.errors : e.turn \in Nat
        BY BoundsAssumption DEF Typed, DcpOf
  <1> DEFINE Old(e, ms, turn) ==
                 LET p == e.call[1] + e.call[2]
                 IN  /\ p \in 1..Len(ms) /\ e.turn <= turn
                     /\ Cardinality(Users(ms, p)) >= turn - e.turn
  <1>5. ASSUME NEW e \in dcp.errors PROVE Old(e, msgs, dcp.turn)
        BY DEF Aging
  <1>6. ASSUME NEW e \in dcp.errors, dcp'.turn = dcp.turn PROVE Old(e, msgs', dcp'.turn)
    <2> DEFINE p == e.call[1] + e.call[2]
    <2>1. p \in 1..Len(msgs) /\ e.turn <= dcp.turn /\ Cardinality(Users(msgs, p)) >= dcp.turn - e.turn
          BY <1>5
    <2> HIDE DEF p
    <2>2. p \in Nat \ {0} /\ p \in 1..Len(msgs')
          BY <1>2, <2>1
    <2>3. /\ Cardinality(Users(msgs, p)) \in Nat /\ Cardinality(Users(msgs', p)) \in Nat
          /\ Cardinality(Users(msgs, p)) <= Cardinality(Users(msgs', p))
          BY <1>1, <2>2, UsersGrow
    <2>4. Cardinality(Users(msgs', p)) >= dcp.turn - e.turn
          BY <1>3, <1>4, <2>1, <2>3
    <2> QED BY <1>6, <2>1, <2>2, <2>4 DEF p
  <1>7. Kept \/ Begins \/ Runs \/ Fails
        BY TypedStep
  <1>8. CASE Kept \/ Runs
    <2>1. dcp'.errors = dcp.errors /\ dcp'.turn = dcp.turn
          BY <1>8 DEF Kept, Runs
    <2> QED BY <1>6, <2>1 DEF Aging
  <1>9. CASE Begins
    <2>1. /\ dcp'.errors = dcp.errors /\ dcp'.turn = dcp.turn + 1
          /\ Len(msgs) < Len(msgs') /\ msgs'[Len(msgs) + 1] = User
          BY <1>9 DEF Begins
    <2>2. ASSUME NEW e \in dcp.errors PROVE Old(e, msgs', dcp'.turn)
      <3> DEFINE p == e.call[1] + e.call[2]
      <3>1. p \in 1..Len(msgs) /\ e.turn <= dcp.turn /\ Cardinality(Users(msgs, p)) >= dcp.turn - e.turn
            BY <1>5
      <3> HIDE DEF p
      <3>2. p \in Nat \ {0} /\ p \in 1..Len(msgs') /\ p <= Len(msgs) + 1
            BY <1>2, <3>1
      <3>3. /\ Cardinality(Users(msgs, p)) \in Nat /\ Cardinality(Users(msgs', p)) \in Nat
            /\ Cardinality(Users(msgs, p)) + 1 <= Cardinality(Users(msgs', p))
            BY <1>1, <2>1, <3>2, UsersGrow
      <3>4. Cardinality(Users(msgs', p)) >= dcp'.turn - e.turn /\ e.turn <= dcp'.turn
            BY <1>3, <1>4, <2>1, <3>1, <3>3
      <3> QED BY <3>2, <3>4 DEF p
    <2> QED BY <2>1, <2>2 DEF Aging
  <1>10. CASE Fails
    <2> DEFINE e == [call |-> <<Current, call>>, idx |-> Len(msgs), turn |-> dcp.turn]
    <2>1. /\ dcp'.errors = dcp.errors \union {e} /\ dcp'.turn = dcp.turn
          /\ Len(msgs') = Len(msgs) + 1 /\ Busy
          BY <1>10 DEF Fails, Answers
    <2>2. Current \in 1..Len(msgs) /\ Len(msgs) = Current + call - 1 /\ call \in 0..MaxMsgs
          BY <2>1 DEF Working, Typed
    <2>3. Current + call = Len(msgs')
          BY <1>2, <2>1, <2>2, BoundsAssumption
    <2>4. Old(e, msgs', dcp'.turn)
      <3> DEFINE p == e.call[1] + e.call[2]
      <3>1. p = Len(msgs') /\ e.turn = dcp.turn
            BY <2>3
      <3>2. p \in Nat \ {0} /\ p \in 1..Len(msgs')
            BY <1>2, <2>1, <3>1
      <3> HIDE DEF p
      <3>3. Cardinality(Users(msgs', p)) \in Nat
            BY <1>1, <3>2, UsersGrow
      <3>4. Cardinality(Users(msgs', p)) >= dcp'.turn - e.turn
            BY <1>3, <2>1, <3>1, <3>3
      <3>5. e.turn <= dcp'.turn
            BY <1>3, <2>1, <3>1
      <3> QED BY <3>2, <3>4, <3>5 DEF p
    <2> HIDE DEF e
    <2>5. ASSUME NEW x \in dcp'.errors PROVE Old(x, msgs', dcp'.turn)
      <3>1. x \in dcp.errors \/ x = e
            BY <2>1
      <3>2. CASE x \in dcp.errors
            BY <1>6, <2>1, <3>2
      <3> QED BY <2>4, <3>1, <3>2
    <2> QED BY <2>5 DEF Aging
  <1> QED BY <1>7, <1>8, <1>9, <1>10

\* What was recorded stays the first call.
LEMMA RecordedStep ==
    ASSUME Typed, Working, Recorded, [Next]_vars
    PROVE  Recorded'
  <1>1. Longer(msgs, msgs') /\ msgs \in Seq(Message) /\ Typed'
        BY AlwaysLonger, TypedStep DEF Typed
  <1>2. Len(msgs) \in Nat /\ Len(msgs') \in Nat /\ Len(msgs) <= Len(msgs')
        BY <1>1, LenProperties DEF Longer
  <1>3. call \in Nat
        BY BoundsAssumption DEF Typed
  \* What was recorded keeps its witness.
  <1>4. ASSUME NEW t \in Tools, dcp'.seen[t] = dcp.seen[t], dcp'.seen[t] # 0
        PROVE  \E i, k \in Nat : /\ FirstIs(msgs', t, dcp'.seen[t], i, k)
                                 /\ Busy' /\ i = Current' => k < call' \/ (k = call' /\ pc' = "running")
    <2>1. PICK i \in Nat, k \in Nat :
             /\ FirstIs(msgs, t, dcp.seen[t], i, k)
             /\ Busy /\ i = Current => k < call \/ (k = call /\ pc = "running")
          BY <1>4 DEF Recorded
    <2>2. FirstIs(msgs', t, dcp'.seen[t], i, k)
      <3>1. i \in 1..Len(msgs) /\ i \in 1..Len(msgs')
            BY <1>2, <2>1 DEF FirstIs
      <3>2. msgs'[i] = msgs[i]
            BY <1>1, <3>1 DEF Longer
      <3> QED BY <1>4, <2>1, <3>1, <3>2 DEF FirstIs
    <2>3. ASSUME Busy', i = Current' PROVE k < call' \/ (k = call' /\ pc' = "running")
      <3>1. Waits \/ Talks \/ Asks \/ Answers
            BY MsgsStep
      <3>2. CASE Waits
        <4>1. /\ msgs' = msgs /\ Busy /\ call' = call
              /\ pc = "running" => pc' = "running"
              BY <2>3, <3>2 DEF Waits
        <4>2. Current' = Current
              BY <4>1 DEF Current
        <4> QED BY <2>1, <2>3, <4>1, <4>2
      <3>3. CASE Talks
            BY <2>3, <3>3 DEF Talks
      <3>4. CASE Asks
        <4>1. Current' = Len(msgs') /\ Len(msgs') = Len(msgs) + 1
              BY <3>4, AsksMake DEF Asks
        <4>2. i \in 1..Len(msgs)
              BY <2>1 DEF FirstIs
        <4> QED BY <1>2, <2>3, <4>1, <4>2
      <3>5. CASE Answers
        <4>1. Current' = Current
              BY <3>5, AnswersKeep
        <4>2. Busy /\ call' = call + 1
              BY <2>3, <3>5 DEF Answers, Busy
        <4>3. k < call \/ k = call
              BY <2>1, <2>3, <4>1, <4>2
        <4> QED BY <1>3, <4>2, <4>3
      <3> QED BY <3>1, <3>2, <3>3, <3>4, <3>5
    <2> QED BY <2>2, <2>3
  <1>5. ASSUME NEW t \in Tools, Runs, t = TheCall, dcp'.seen[t] = Len(msgs)
        PROVE  \E i, k \in Nat : /\ FirstIs(msgs', t, dcp'.seen[t], i, k)
                                 /\ Busy' /\ i = Current' => k < call' \/ (k = call' /\ pc' = "running")
    <2> DEFINE i == Current
               k == call
    <2>1. pc = "tools" /\ pc' = "running" /\ msgs' = msgs /\ call' = call
          BY <1>5 DEF Runs
    <2>2. /\ i \in 1..Len(msgs) /\ HasCalls(msgs[i]) /\ k \in 1..Len(msgs[i].calls)
          /\ Len(msgs) = i + k - 1 /\ msgs[i].calls[k] = t
          BY <1>5, <2>1 DEF Working, Busy, TheCall
    <2>3. FirstIs(msgs', t, dcp'.seen[t], i, k)
          BY <1>5, <2>1, <2>2 DEF FirstIs
    <2>4. i \in Nat /\ k \in Nat
          BY <1>2, <1>3, <2>2
    <2>5. k = call' /\ pc' = "running"
          BY <2>1
    <2> HIDE DEF i, k
    <2> QED BY <2>3, <2>4, <2>5
  <1>6. ASSUME NEW t \in Tools
        PROVE  dcp'.seen[t] = dcp.seen[t] \/ (Runs /\ t = TheCall /\ dcp'.seen[t] = Len(msgs))
    <2>1. Kept \/ Begins \/ Runs \/ Fails
          BY TypedStep
    <2> QED BY <2>1 DEF Kept, Begins, Runs, Fails
  <1> QED BY <1>4, <1>5, <1>6 DEF Recorded

---------------------------------------------------------------------------
(* What the request misses.                                                *)

\* A step that leaves the request alone, or adds only a summary's text to it.
Keeps ==
    /\ upTo' = upTo
    /\ \A k \in 1..Len(request) : \E l \in 1..Len(request') : request'[l].src = request[k].src
    /\ Answers => \/ TheCall \notin Tools
                  \/ \E l \in 1..Len(request') : request'[l].src = Len(msgs')

\* A step leaves the request alone or builds it of all there is.
LEMMA RequestStep ==
    ASSUME Typed, Working, [Next]_vars
    PROVE  Keeps \/ upTo' = Len(msgs') \/ (upTo' = Len(msgs) + 1 /\ Talks)
  <1>1. /\ Len(msgs) \in Nat /\ Len(msgs') \in Nat /\ Len(msgs) <= Len(msgs')
        /\ msgs' \in Seq(Message) /\ request \in Seq(Entry(Len(msgs')))
        /\ msgs \in Seq(Message)
        BY TypesStay DEF Typed
  <1>2. Len(request) \in Nat
        BY <1>1, LenProperties
  <1>3. ASSUME request' = request, upTo' = upTo, Answers => TheCall \notin Tools PROVE Keeps
    <2>1. \A k \in 1..Len(request) : \E l \in 1..Len(request') : request'[l].src = request[k].src
          BY <1>3
    <2> QED BY <1>3, <2>1 DEF Keeps
  <1>4. ~Busy => ~Answers
        BY DEF Answers
  <1>5. msgs' = msgs => ~Answers
        BY <1>1 DEF Answers
  <1>6. CASE ReplyText \/ ReplyEmpty \/ ReplyCalls \/ TaskEnds
    <2>1. UNCHANGED <<request, upTo>> /\ ~Busy
          BY <1>6 DEF ReplyText, ReplyEmpty, ReplyCalls, TaskEnds, Busy
    <2> QED BY <1>3, <1>4, <2>1
  <1>7. CASE CompressPanics \/ RunTool \/ ToolCancelled \/ ToggleDcp \/ UNCHANGED vars
    <2>1. UNCHANGED <<request, upTo>> /\ msgs' = msgs
          BY <1>7 DEF CompressPanics, RunTool, ToolCancelled, ToggleDcp, vars
    <2> QED BY <1>3, <1>5, <2>1
  <1>8. CASE Summarise
    <2>1. request' = Append(request, Note) /\ upTo' = upTo /\ ~Busy
          BY <1>8 DEF Summarise, Busy
    <2> DEFINE E == Entry(Len(msgs'))
    <2>2. Note \in E /\ request \in Seq(E)
          BY <1>1, EntriesAre
    <2> HIDE DEF E
    <2>3. Len(request') = Len(request) + 1 /\ \A k \in 1..Len(request) : request'[k] = request[k]
          BY <2>1, <2>2, AppendProperties
    <2>4. ASSUME NEW k \in 1..Len(request)
          PROVE  \E l \in 1..Len(request') : request'[l].src = request[k].src
      <3>1. k \in 1..Len(request')
            BY <1>2, <2>3
      <3> QED BY <2>3, <3>1
    <2> QED BY <1>4, <2>1, <2>4 DEF Keeps
  <1>9. CASE CompressDenied \/ Rejected
    <2>1. UNCHANGED <<request, upTo>> /\ TheCall \in {"compress", "malformed"}
          BY <1>9 DEF CompressDenied, Rejected, Intercepted
    <2> QED BY <1>3, <2>1, ToolsAssumption
  <1>10. CASE Compress
    <2>1. TheCall = "compress"
          BY <1>10 DEF Compress, Intercepted
    <2>2. upTo' = Len(msgs') \/ UNCHANGED <<request, upTo>>
          BY <1>10 DEF Compress, Rebuild
    <2> QED BY <1>3, <2>1, <2>2, ToolsAssumption
  <1>11. CASE ToolReturns
    <2> DEFINE a == Shown(Current)
               b == Shown(Len(msgs) + 1)
               E == Entry(Len(msgs'))
    <2>1. \/ upTo' = Len(msgs')
          \/ request' = request \o <<a, b>> /\ upTo' = upTo
          BY <1>11 DEF ToolReturns, Rebuild
    <2>2. CASE request' = request \o <<a, b>> /\ upTo' = upTo
      <3>1. pc = "running" /\ \E o \in {"ok", "error", "denied"} : Result(o)
            BY <1>11 DEF ToolReturns
      <3>2. Busy /\ Answers
            BY <3>1, ResultIs DEF Busy
      <3>3. Current \in 1..Len(msgs) /\ Len(msgs') = Len(msgs) + 1
            BY <3>2 DEF Working, Answers
      <3>4. /\ Current \in 1..Len(msgs') /\ Len(msgs) + 1 \in 1..Len(msgs')
            BY <1>1, <3>3
      <3>5. a \in E /\ b \in E /\ b.src = Len(msgs')
            BY <1>1, <3>3, <3>4, EntriesAre
      <3>6. request \in Seq(E)
            BY <1>1
      <3> HIDE DEF a, b, E
      <3> DEFINE s == <<a, b>>
      <3>7. s \in Seq(E) /\ Len(s) = 2 /\ s[2] = b
            BY <3>5
      <3> HIDE DEF s
      <3>8. /\ Len(request \o s) = Len(request) + Len(s)
            /\ \A k \in 1..Len(request) + Len(s) :
                  (request \o s)[k] = IF k <= Len(request) THEN request[k] ELSE s[k - Len(request)]
            BY <3>6, <3>7, ConcatProperties, Zenon
      <3>9. request' = request \o s
            BY <2>2 DEF s
      <3>10. Len(request') = Len(request) + 2 /\ request'[Len(request) + 2] = b
             /\ \A k \in 1..Len(request) : request'[k] = request[k]
        <4>1. Len(request') = Len(request) + 2 /\ \A k \in 1..Len(request) : request'[k] = request[k]
              BY <1>2, <3>7, <3>8, <3>9
        <4> DEFINE k == Len(request) + 2
        <4>2. k \in 1..Len(request) + 2 /\ ~(k <= Len(request)) /\ k - Len(request) = 2
              BY <1>2
        <4> HIDE DEF k
        <4>3. request'[k] = b
              BY <3>7, <3>8, <3>9, <4>2
        <4> QED BY <4>1, <4>3 DEF k
      <3>11. ASSUME NEW k \in 1..Len(request)
             PROVE  \E l \in 1..Len(request') : request'[l].src = request[k].src
        <4>1. k \in 1..Len(request')
              BY <1>2, <3>10
        <4> QED BY <3>10, <4>1
      <3>12. \E l \in 1..Len(request') : request'[l].src = Len(msgs')
        <4>1. Len(request) + 2 \in 1..Len(request')
              BY <1>2, <3>10
        <4> QED BY <3>5, <3>10, <4>1
      <3> QED BY <2>2, <3>11, <3>12 DEF Keeps
    <2> QED BY <2>1, <2>2
  <1>12. CASE StartTask
    <2> DEFINE ms == Append(msgs, User)
    <2>1. pc = "idle" /\ pc' = "llm" /\ upTo' = Len(ms)
          BY <1>12 DEF StartTask, Rebuild
    <2>2. User \in Message
          BY NewMessages
    <2>3. Len(ms) = Len(msgs) + 1
          BY <1>1, <2>2, AppendProperties
    <2>4. ~Busy /\ ~Busy'
          BY <2>1 DEF Busy
    <2>5. Waits \/ Talks \/ Asks \/ Answers
          BY MsgsStep
    <2>6. Talks \/ msgs' = msgs
      <3>1. ~Asks
            BY <2>1 DEF Asks
      <3> QED BY <2>4, <2>5, <3>1 DEF Waits, Answers
    <2>7. msgs' # msgs
      <3>1. Kept \/ Begins \/ Runs \/ Fails
            BY TypedStep
      <3>2. \E queued \in {<<>>, <<User>>} : msgs' = ms \o queued
            BY <1>12 DEF StartTask
      <3>3. ms \in Seq(Message)
            BY <1>1, <2>2, AppendProperties
      <3> DEFINE u == User
      <3>4. PICK queued : msgs' = ms \o queued /\ (queued = <<>> \/ queued = <<u>>)
            BY <3>2
      <3> HIDE DEF u, ms
      <3>5. queued \in Seq(Message) /\ Len(queued) \in Nat
        <4>1. u \in Message
              BY <2>2 DEF u
        <4>2. <<>> \in Seq(Message) /\ <<u>> \in Seq(Message)
              BY <4>1
        <4> QED BY <3>4, <4>2, LenProperties
      <3>6. Len(ms \o queued) = Len(ms) + Len(queued)
            BY <3>3, <3>5, ConcatProperties, Zenon
      <3> QED BY <1>1, <2>3, <3>4, <3>5, <3>6
    <2> QED BY <2>1, <2>3, <2>6, <2>7
  <1> QED BY <1>6, <1>7, <1>8, <1>9, <1>10, <1>11, <1>12 DEF Next, Handle

\* No request misses a message.
LEMMA NoneMissedStep ==
    ASSUME Typed, ResultsFollow(msgs), Working, NoneMissed, [Next]_vars
    PROVE  NoneMissed'
  <1>1. Longer(msgs, msgs') /\ Len(msgs) \in Nat /\ Len(msgs') \in Nat /\ upTo \in 0..Len(msgs)
        BY AlwaysLonger, TypesStay DEF Typed
  <1>2. SUFFICES ASSUME NEW i \in Missed(msgs', request', upTo') PROVE FALSE
        BY DEF NoneMissed
  <1>3. /\ i \in upTo' + 1 .. Len(msgs') /\ IsTool(msgs'[i])
        /\ msgs'[msgs'[i].of[1]].calls[msgs'[i].of[2]] \in Tools
        /\ \A k \in 1..Len(request') : request'[k].src # i
        BY <1>2 DEF Missed
  <1>4. Keeps \/ upTo' = Len(msgs') \/ (upTo' = Len(msgs) + 1 /\ Talks)
        BY RequestStep
  <1>5. CASE upTo' = Len(msgs')
        BY <1>1, <1>3, <1>5
  <1>6. CASE upTo' = Len(msgs) + 1 /\ Talks
    <2>1. i \in Len(msgs) + 1 .. Len(msgs')
          BY <1>1, <1>3, <1>6
    <2> QED BY <1>3, <1>6, <2>1 DEF Talks, Quiet
  <1>7. CASE Keeps
    <2>1. upTo' = upTo
          BY <1>7 DEF Keeps
    <2>2. CASE i <= Len(msgs)
      <3>1. i \in upTo + 1 .. Len(msgs) /\ i \in 1..Len(msgs)
            BY <1>1, <1>3, <2>1, <2>2
      <3>2. msgs'[i] = msgs[i]
            BY <1>1, <3>1 DEF Longer
      <3> DEFINE c == msgs[i].of[1]
      <3>3. c \in 1..i - 1
            BY <1>3, <3>1, <3>2 DEF ResultsFollow
      <3>4. c \in 1..Len(msgs)
            BY <1>1, <3>1, <3>3
      <3>5. msgs'[c] = msgs[c]
            BY <1>1, <3>4 DEF Longer
      <3>6. IsTool(msgs[i]) /\ msgs[c].calls[msgs[i].of[2]] \in Tools
            BY <1>3, <3>2, <3>5
      <3>7. ~(\A k \in 1..Len(request) : request[k].src # i)
            BY <3>1, <3>6 DEF NoneMissed, Missed
      <3>8. PICK k \in 1..Len(request) : request[k].src = i
            BY <3>7
      <3>9. \E l \in 1..Len(request') : request'[l].src = i
            BY <1>7, <3>8 DEF Keeps
      <3> QED BY <1>3, <3>9
    <2>3. CASE i > Len(msgs)
      <3>1. i \in Len(msgs) + 1 .. Len(msgs')
            BY <1>1, <1>3, <2>3
      <3>2. Waits \/ Talks \/ Asks \/ Answers
            BY MsgsStep
      <3>3. CASE Waits
            BY <1>1, <3>1, <3>3 DEF Waits
      <3>4. CASE Talks
            BY <1>3, <3>1, <3>4 DEF Talks, Quiet
      <3>5. CASE Asks
        <4>1. i = Len(msgs')
              BY <1>1, <3>1, <3>5 DEF Asks
        <4> QED BY <1>3, <3>5, <4>1, AsksMake
      <3>6. CASE Answers
        <4>1. i = Len(msgs')
              BY <1>1, <3>1, <3>6 DEF Answers
        <4>2. msgs'[i].of = <<Current, call>> /\ msgs'[Current] = msgs[Current]
              BY <3>6, <4>1, AnswersKeep
        <4>3. msgs[Current].calls[call] \in Tools
              BY <1>3, <4>2
        <4>4. \E l \in 1..Len(request') : request'[l].src = i
              BY <1>7, <3>6, <4>1, <4>3 DEF Keeps, TheCall
        <4> QED BY <1>3, <4>4
      <3> QED BY <3>2, <3>3, <3>4, <3>5, <3>6
    <2> QED BY <1>1, <1>3, <2>2, <2>3
  <1> QED BY <1>4, <1>5, <1>6, <1>7

---------------------------------------------------------------------------
(* Calls and their results in the list.                                    *)

\* A list in which a call and the results it has so far stand as in the session.
Built(list, ms) ==
    \A i \in 1..Len(list) : list[i].src # 0 =>
        LET s == list[i].src
            m == ms[s]
        IN  /\ IsTool(m) => i > m.of[2] /\ \A l \in 1..m.of[2] : list[i - l].src = s - l
            /\ HasCalls(m) => \A k \in 1..Len(m.calls) : HasResult(ms, s, k) =>
                                  i + k \in 1..Len(list) /\ list[i + k].src = s + k

\* No range takes a part of a call and its results.
Uncut(ms, rs) ==
    \A i \in 1..Len(ms) : HasCalls(ms[i]) =>
        \/ \A j \in i .. i + Len(ms[i].calls) : j \notin removeSet(rs)
        \/ \A j \in i .. i + Len(ms[i].calls) : j \in removeSet(rs)

\* Where a shown message stands.
LEMMA PlaceOf ==
    ASSUME NEW n \in Nat, NEW rs \in Seq(RangesIn(n)), NEW short, NEW at, Places(short, n, rs, at)
    PROVE  /\ Len(short) \in Nat
           /\ \A p \in 1..Len(short) : short[p].src # 0 =>
                 /\ short[p].src \in 1..n /\ short[p].src \notin removeSet(rs)
                 /\ p = at[short[p].src]
           /\ \A i \in 1..n : i \notin removeSet(rs) => at[i] \in 1..Len(short) /\ short[at[i]].src = i
  <1>1. Len(short) \in Nat
        BY LenProperties DEF Places
  <1>2. ASSUME NEW i \in 1..n, i \notin removeSet(rs)
        PROVE  at[i] \in 1..Len(short) /\ short[at[i]].src = i
        BY <1>2, EntriesAre DEF Places
  <1>3. ASSUME NEW p \in 1..Len(short), short[p].src # 0
        PROVE  /\ short[p].src \in 1..n /\ short[p].src \notin removeSet(rs)
               /\ p = at[short[p].src]
    <2>1. (\E i \in (1..n) \ removeSet(rs) : p = at[i]) \/ short[p] \in Marks(rs)
          BY DEF Places
    <2>2. CASE \E i \in (1..n) \ removeSet(rs) : p = at[i]
      <3>1. PICK i \in (1..n) \ removeSet(rs) : p = at[i]
            BY <2>2
      <3> QED BY <1>2, <3>1
    <2>3. CASE short[p] \in Marks(rs)
      <3>1. PICK k \in DOMAIN rs : short[p] = SummaryOf(rs[k])
            BY <2>3 DEF Marks
      <3> QED BY <1>3, <3>1 DEF SummaryOf
    <2> QED BY <2>1, <2>2, <2>3
  <1> QED BY <1>1, <1>2, <1>3

\* Messages that are shown side by side stand side by side.
AllShown(rs, i, L) == \A j \in i .. i + L : j \notin removeSet(rs)

\* A message with its results, none of which is hidden, stays in one piece.
InARow(at, i, L) == \A k \in 0..L : at[i + k] = at[i] + k

\* It does so in what applyCompression leaves.
LEMMA BlockShown ==
    ASSUME NEW n \in Nat, NEW rs, NEW short, NEW at, Places(short, n, rs, at),
           NEW i \in 1..n, NEW L \in Nat, i + L <= n, AllShown(rs, i, L)
    PROVE  InARow(at, i, L)
  <1> DEFINE S == {k \in Nat : k <= L => at[i + k] = at[i] + k}
  <1>1. at[i] \in Nat
        BY DEF Places
  <1>2. 0 \in S
        BY <1>1
  <1>3. ASSUME NEW k \in Nat, k \in S PROVE k + 1 \in S
    <2> DEFINE j == i + (k + 1)
    <2>1. ASSUME k + 1 <= L PROVE at[j] = at[i] + (k + 1)
      <3>1. j \in 1..n /\ j \in i .. i + L /\ j - 1 = i + k /\ k <= L
            BY <2>1
      <3>2. at[i + k] = at[i] + k
            BY <1>3, <3>1
      <3> HIDE DEF j
      <3>3. j \in (1..n) \ removeSet(rs)
            BY <3>1 DEF AllShown
      <3>4. at[j] = at[j - 1] + 1
            BY <3>3 DEF Places
      <3> QED BY <1>1, <3>1, <3>2, <3>4
    <2> QED BY <2>1
  <1> HIDE DEF S
  <1>4. Nat \subseteq S
        BY <1>2, <1>3, Induction
  <1>5. ASSUME NEW k \in 0..L PROVE at[i + k] = at[i] + k
    <2>1. k \in Nat /\ k \in S /\ k <= L
          BY <1>4
    <2> QED BY <2>1 DEF S
  <1> QED BY <1>5 DEF InARow

\* A message with calls has a first one.
LEMMA CallsOf ==
    ASSUME NEW ms \in Seq(Message), NEW i \in 1..Len(ms), HasCalls(ms[i])
    PROVE  Len(ms[i].calls) \in Nat \ {0} /\ DOMAIN ms[i].calls = 1..Len(ms[i].calls)
  <1>1. ms[i] \in Message
        BY ElementOfSeq
  <1> QED BY <1>1, MessageKinds

\* A result stands behind a message with that call, and behind the results before it.
LEMMA ResultStands ==
    ASSUME NEW ms \in Seq(Message), ResultsFollow(ms), NEW s \in 1..Len(ms), IsTool(ms[s]),
           NEW i, i = ms[s].of[1], NEW k, k = ms[s].of[2]
    PROVE  /\ i \in 1..Len(ms) /\ i < s /\ k \in Nat \ {0} /\ s = i + k /\ ms[s].of = <<i, k>>
           /\ HasCalls(ms[i]) /\ k \in 1..Len(ms[i].calls) /\ Len(ms[i].calls) \in Nat
           /\ \A l \in 1..k : HasResult(ms, i, l) /\ IsTool(ms[i + l])
  <1> DEFINE a == ms[s].of[1]
             b == ms[s].of[2]
             n == Len(ms)
  <1>1. n \in Nat /\ s \in 1..n
        BY LenProperties
  <1>2. /\ a \in 1..s - 1 /\ b \in Nat /\ s = a + b
        /\ HasCalls(ms[a]) /\ b \in 1..Len(ms[a].calls)
        /\ \A l \in 1..b - 1 : IsTool(ms[a + l]) /\ ms[a + l].of = <<a, l>>
        BY DEF ResultsFollow
  <1>3. ms[s].of = <<a, b>>
    <2>1. ms[s] \in Message
          BY ElementOfSeq
    <2>2. ms[s].of \in Calls
          BY <2>1, MessageKinds
    <2> QED BY <2>2 DEF Calls
  <1>4. i = a /\ k = b
        OBVIOUS
  <1> HIDE DEF a, b, n
  <1>5. a \in 1..n /\ a < s
        BY <1>1, <1>2
  <1>6. Len(ms[a].calls) \in Nat
        BY <1>2, <1>5, CallsOf DEF n
  <1>7. b \in Nat \ {0}
        BY <1>2, <1>6
  <1>8. ASSUME NEW l \in 1..b PROVE HasResult(ms, a, l) /\ IsTool(ms[a + l])
    <2>1. a + l \in 1..n
          BY <1>1, <1>2, <1>5, <1>7
    <2>2. IsTool(ms[a + l]) /\ ms[a + l].of = <<a, l>>
      <3>1. CASE l = b
            BY <1>2, <1>3, <3>1
      <3>2. CASE l # b
        <4>1. l \in 1..b - 1
              BY <1>7, <3>2
        <4> QED BY <1>2, <4>1
      <3> QED BY <3>1, <3>2
    <2> QED BY <2>1, <2>2 DEF HasResult, n
  <1>9. a \in 1..Len(ms)
        BY <1>5 DEF n
  <1>10. \A l \in 1..b : HasResult(ms, a, l) /\ IsTool(ms[a + l])
         BY <1>8
  <1> QED BY <1>2, <1>3, <1>4, <1>5, <1>6, <1>7, <1>9, <1>10

\* With no call cut off, calls and results stand in the list as in the session.
LEMMA ViewBuilt ==
    ASSUME NEW ms \in Seq(Message), ResultsFollow(ms),
           NEW rs \in Seq(RangesIn(Len(ms))), Uncut(ms, rs),
           NEW short, NEW at, Places(short, Len(ms), rs, at),
           NEW list, list \in Seq(Entry(Len(ms))), Len(list) = Len(short),
           \A p \in 1..Len(list) : list[p].src = short[p].src
    PROVE  Built(list, ms)
  <1> DEFINE n == Len(ms)
  <1>1. /\ n \in Nat /\ Len(short) \in Nat
        /\ \A p \in 1..Len(short) : short[p].src # 0 =>
              /\ short[p].src \in 1..n /\ short[p].src \notin removeSet(rs)
              /\ p = at[short[p].src]
        /\ \A i \in 1..n : i \notin removeSet(rs) => at[i] \in 1..Len(short) /\ short[at[i]].src = i
    <2>1. n \in Nat
          BY LenProperties
    <2> HIDE DEF n
    <2>2. Places(short, n, rs, at) /\ rs \in Seq(RangesIn(n))
          BY DEF n
    <2> QED BY <2>1, <2>2, PlaceOf
  \* A call and its results so far, of which one is shown, stand in one piece.
  <1>2. ASSUME NEW i \in 1..n, HasCalls(ms[i]), NEW L \in 1..Len(ms[i].calls), HasResult(ms, i, L),
               NEW x \in i .. i + L, x \notin removeSet(rs), NEW k \in 0..L
        PROVE  /\ at[i + k] = at[i] + k /\ at[i] + k \in 1..Len(list) /\ at[i] \in 1..Len(list)
               /\ list[at[i] + k].src = i + k
    <2>1. Len(ms[i].calls) \in Nat /\ L \in Nat
          BY <1>2, CallsOf
    <2>2. i + L <= n
          BY <1>1, <1>2 DEF HasResult
    <2>3. x \in i .. i + Len(ms[i].calls) /\ \A j \in i .. i + L : j \in i .. i + Len(ms[i].calls)
          BY <1>1, <1>2, <2>1
    <2>4. AllShown(rs, i, L)
          BY <1>2, <2>3 DEF Uncut, AllShown
    <2> HIDE DEF n
    <2>5. InARow(at, i, L)
      <3>1. n \in Nat /\ Places(short, n, rs, at) /\ i + L <= n /\ L \in Nat
            BY <1>1, <2>1, <2>2 DEF n
      <3> QED BY <2>4, <3>1, BlockShown
    <2>6. at[i + k] = at[i] + k
          BY <2>5 DEF InARow
    <2>7. i \in i .. i + L /\ i + k \in i .. i + L /\ i + k \in 1..n
          BY <1>1, <2>1, <2>2
    <2>8. at[i + k] \in 1..Len(short) /\ short[at[i + k]].src = i + k /\ at[i] \in 1..Len(short)
          BY <1>1, <2>4, <2>7 DEF AllShown
    <2> QED BY <2>6, <2>8
  <1>3. SUFFICES ASSUME NEW p \in 1..Len(list), list[p].src # 0
                 PROVE  LET s == list[p].src
                            m == ms[s]
                        IN  /\ IsTool(m) => p > m.of[2] /\ \A l \in 1..m.of[2] : list[p - l].src = s - l
                            /\ HasCalls(m) => \A k \in 1..Len(m.calls) : HasResult(ms, s, k) =>
                                                  p + k \in 1..Len(list) /\ list[p + k].src = s + k
        BY DEF Built
  <1> DEFINE s == list[p].src
  <1>4. s \in 1..n /\ s \notin removeSet(rs) /\ p = at[s]
        BY <1>1, <1>3
  <1> HIDE DEF s
  <1>5. ASSUME IsTool(ms[s])
        PROVE  p > ms[s].of[2] /\ \A l \in 1..ms[s].of[2] : list[p - l].src = s - l
    <2> DEFINE i == ms[s].of[1]
               k == ms[s].of[2]
    <2>1. /\ i \in 1..n /\ i < s /\ k \in Nat \ {0} /\ s = i + k /\ HasCalls(ms[i])
          /\ k \in 1..Len(ms[i].calls) /\ \A l \in 1..k : HasResult(ms, i, l)
      <3> HIDE DEF i, k
      <3>1. i = ms[s].of[1] /\ k = ms[s].of[2] /\ s \in 1..Len(ms)
            BY <1>4 DEF i, k, n
      <3> QED BY <1>5, <3>1, ResultStands DEF n
    <2> HIDE DEF i, k
    <2>2. s \in i .. i + k /\ k \in 1..k
          BY <1>1, <1>4, <2>1
    <2>3. HasResult(ms, i, k)
          BY <2>1, <2>2
    <2>4. ASSUME NEW h \in 0..k
          PROVE  /\ at[i + h] = at[i] + h /\ at[i] + h \in 1..Len(list) /\ at[i] \in 1..Len(list)
                 /\ list[at[i] + h].src = i + h
          BY <1>2, <1>4, <2>1, <2>2, <2>3, <2>4
    <2>5. at[i] \in Nat \ {0} /\ p = at[i] + k
      <3>1. k \in 0..k
            BY <2>1
      <3>2. at[i + k] = at[i] + k /\ at[i] \in 1..Len(list)
            BY <2>4, <3>1
      <3> QED BY <1>1, <1>4, <2>1, <3>2
    <2>6. ASSUME NEW l \in 1..k PROVE list[p - l].src = s - l
      <3>1. k - l \in 0..k /\ p - l = at[i] + (k - l) /\ s - l = i + (k - l)
            BY <1>4, <2>1, <2>5
      <3> QED BY <2>4, <3>1
    <2>7. p > k
          BY <2>1, <2>5
    <2> QED BY <2>6, <2>7 DEF k
  <1>6. ASSUME HasCalls(ms[s]), NEW k \in 1..Len(ms[s].calls), HasResult(ms, s, k)
        PROVE  p + k \in 1..Len(list) /\ list[p + k].src = s + k
    <2>1. s \in s .. s + k /\ k \in 0..k
          BY <1>1, <1>4, CallsOf, <1>6
    <2> QED BY <1>2, <1>4, <1>6, <2>1
  <1> QED BY <1>5, <1>6 DEF s

\* Where the entries of a list are after a reminder was put into it.
Moved(old, p, list) ==
    /\ Len(list) = Len(old) + 1 /\ list[p] = Nudge
    /\ \A j \in 1..Len(old) : j < p => list[j] = old[j]
    /\ \A j \in 1..Len(old) : j >= p => list[j + 1] = old[j]
    /\ \A q \in 1..Len(list) : q # p =>
          \E j \in 1..Len(old) : (j < p /\ q = j) \/ (j >= p /\ q = j + 1)

\* A reminder moves the later entries by one.
LEMMA ReminderMoves ==
    ASSUME NEW n \in Nat, NEW old \in Seq(Entry(n)), NEW p \in 1..Len(old) + 1,
           NEW list, list = InsertAt(old, p, Nudge)
    PROVE  list \in Seq(Entry(n)) /\ Moved(old, p, list)
  <1>1. Len(old) \in Nat /\ Nudge \in Entry(n)
        BY LenProperties, EntriesAre
  <1>2. /\ list \in Seq(Entry(n)) /\ Len(list) = Len(old) + 1
        /\ \A j \in 1..p - 1 : list[j] = old[j]
        /\ list[p] = Nudge
        /\ \A j \in p..Len(old) : list[j + 1] = old[j]
        BY <1>1, InsertAtIs
  <1>3. ASSUME NEW j \in 1..Len(old)
        PROVE  (j < p => list[j] = old[j]) /\ (j >= p => list[j + 1] = old[j])
    <2>1. j < p => j \in 1..p - 1
          BY <1>1
    <2>2. j >= p => j \in p..Len(old)
          BY <1>1
    <2> QED BY <1>2, <2>1, <2>2
  <1>4. ASSUME NEW q \in 1..Len(list), q # p
        PROVE  \E j \in 1..Len(old) : (j < p /\ q = j) \/ (j >= p /\ q = j + 1)
    <2>1. CASE q < p
      <3>1. q \in 1..Len(old)
            BY <1>1, <1>2, <2>1
      <3> QED BY <2>1, <3>1
    <2>2. CASE q > p
      <3>1. q - 1 \in 1..Len(old) /\ q - 1 >= p /\ q = (q - 1) + 1
            BY <1>1, <1>2, <2>2
      <3> QED BY <3>1
    <2> QED BY <1>1, <1>2, <1>4, <2>1, <2>2
  <1> QED BY <1>1, <1>2, <1>3, <1>4 DEF Moved

\* A reminder before a user message comes between no call and its results.
LEMMA ReminderBuilt ==
    ASSUME NEW ms \in Seq(Message), ResultsFollow(ms),
           NEW old \in Seq(Entry(Len(ms))), Built(old, ms),
           NEW p \in 1..Len(old) + 1, p \in 1..Len(old) => RoleOf(old[p], ms) = "user",
           NEW list, list = InsertAt(old, p, Nudge)
    PROVE  Built(list, ms)
  <1> DEFINE n == Len(ms)
             N == Len(old)
  <1>1. n \in Nat /\ N \in Nat /\ p \in 1..N + 1
        BY LenProperties
  <1>2. /\ Len(list) = N + 1 /\ list[p] = Nudge
        /\ \A j \in 1..N : j < p => list[j] = old[j]
        /\ \A j \in 1..N : j >= p => list[j + 1] = old[j]
        /\ \A q \in 1..Len(list) : q # p =>
              \E j \in 1..N : (j < p /\ q = j) \/ (j >= p /\ q = j + 1)
    <2>1. list \in Seq(Entry(n)) /\ Moved(old, p, list)
          BY <1>1, ReminderMoves
    <2> QED BY <2>1 DEF Moved
  <1>3. \A j \in 1..N : old[j].src \in 0..n
    <2>1. \A j \in 1..N : old[j] \in Entry(n)
          BY ElementOfSeq
    <2> QED BY <2>1 DEF Entry
  <1>4. ASSUME NEW h \in 1..N, old[h].src # 0, IsTool(ms[old[h].src]) PROVE h # p
    <2>1. RoleOf(old[h], ms) = "tool"
          BY <1>4 DEF RoleOf, IsTool
    <2> QED BY <2>1
  <1> HIDE DEF N, n
  <1>5. SUFFICES ASSUME NEW q \in 1..Len(list), list[q].src # 0
                 PROVE  LET s == list[q].src
                            m == ms[s]
                        IN  /\ IsTool(m) => q > m.of[2] /\ \A l \in 1..m.of[2] : list[q - l].src = s - l
                            /\ HasCalls(m) => \A k \in 1..Len(m.calls) : HasResult(ms, s, k) =>
                                                  q + k \in 1..Len(list) /\ list[q + k].src = s + k
        BY DEF Built
  <1>6. q # p
        BY <1>5, <1>2 DEF Nudge
  <1>7. PICK j \in 1..N : (j < p /\ q = j) \/ (j >= p /\ q = j + 1)
        BY <1>2, <1>6
  <1> DEFINE s == list[q].src
  <1>8. s = old[j].src /\ s \in 1..n /\ s # 0
    <2>1. s = old[j].src
          BY <1>2, <1>7
    <2>2. old[j].src \in 0..n
          BY <1>3, <1>7
    <2>3. s # 0
          BY <1>5
    <2>4. s \in 0..n
          BY <2>1, <2>2
    <2> HIDE DEF s
    <2>5. s \in 1..n
          BY <1>1, <2>3, <2>4
    <2> QED BY <2>1, <2>3, <2>5
  <1> HIDE DEF s
  <1>9. /\ IsTool(ms[s]) => j > ms[s].of[2] /\ \A l \in 1..ms[s].of[2] : old[j - l].src = s - l
        /\ HasCalls(ms[s]) => \A k \in 1..Len(ms[s].calls) : HasResult(ms, s, k) =>
                                  j + k \in 1..N /\ old[j + k].src = s + k
        BY <1>8 DEF Built, N
  <1>10. ASSUME IsTool(ms[s])
         PROVE  q > ms[s].of[2] /\ \A l \in 1..ms[s].of[2] : list[q - l].src = s - l
    <2> DEFINE i == ms[s].of[1]
               k == ms[s].of[2]
    <2>1. /\ i \in 1..n /\ i < s /\ k \in Nat \ {0} /\ s = i + k
          /\ \A l \in 1..k : IsTool(ms[i + l])
      <3> HIDE DEF i, k
      <3>1. i = ms[s].of[1] /\ k = ms[s].of[2] /\ s \in 1..Len(ms)
            BY <1>8 DEF i, k, n
      <3> QED BY <1>10, <3>1, ResultStands DEF n
    <2>2. j > k /\ \A l \in 1..k : old[j - l].src = s - l
          BY <1>9, <1>10
    <2> HIDE DEF i, k
    <2>3. ASSUME NEW l \in 0..k - 1 PROVE j - l # p
      <3>1. j - l \in 1..N /\ s - l = i + (k - l) /\ k - l \in 1..k /\ s - l # 0
            BY <1>1, <1>7, <1>8, <2>1, <2>2
      <3>2. IsTool(ms[s - l])
            BY <2>1, <3>1
      <3>3. old[j - l].src = s - l
        <4>1. CASE l = 0
              BY <1>8, <4>1, <1>1, <1>7
        <4>2. CASE l # 0
          <5>1. l \in 1..k
                BY <2>1, <4>2
          <5> QED BY <2>2, <5>1
        <4> QED BY <4>1, <4>2
      <3> QED BY <1>4, <3>1, <3>2, <3>3
    <2>4. CASE j < p
      <3>1. q = j
            BY <1>7, <2>4, <1>1
      <3>2. ASSUME NEW l \in 1..k PROVE list[q - l].src = s - l
        <4>1. j - l \in 1..N /\ j - l < p
              BY <1>1, <1>7, <2>1, <2>2, <2>4
        <4> QED BY <1>2, <2>2, <3>1, <4>1
      <3> QED BY <2>2, <3>1, <3>2 DEF k
    <2>5. CASE j >= p
      <3>1. q = j + 1
            BY <1>7, <2>5, <1>1
      <3>2. j - k >= p
        <4>1. ASSUME j - k < p PROVE FALSE
          <5>1. j - p \in 0..k - 1 /\ j - (j - p) = p
                BY <1>1, <1>7, <2>1, <2>2, <2>5, <4>1
          <5> QED BY <2>3, <5>1
        <4> QED BY <1>1, <1>7, <2>1, <4>1
      <3>3. ASSUME NEW l \in 1..k PROVE list[q - l].src = s - l
        <4>1. j - l \in 1..N /\ j - l >= p /\ q - l = (j - l) + 1
              BY <1>1, <1>7, <2>1, <2>2, <3>1, <3>2
        <4>2. list[(j - l) + 1] = old[j - l]
              BY <1>2, <4>1
        <4> QED BY <2>2, <4>1, <4>2
      <3>4. q > k
            BY <1>7, <2>1, <2>2, <3>1
      <3> QED BY <3>3, <3>4 DEF k
    <2> QED BY <1>1, <1>7, <2>4, <2>5
  <1>11. ASSUME HasCalls(ms[s]), NEW k \in 1..Len(ms[s].calls), HasResult(ms, s, k)
         PROVE  q + k \in 1..Len(list) /\ list[q + k].src = s + k
    <2>1. Len(ms[s].calls) \in Nat /\ k \in Nat \ {0}
          BY <1>8, <1>11, CallsOf DEF n
    <2>2. j + k \in 1..N /\ old[j + k].src = s + k
          BY <1>9, <1>11
    <2>3. ASSUME NEW l \in 1..k PROVE j + l # p
      <3>1. s + k \in 1..Len(ms) /\ IsTool(ms[s + k]) /\ ms[s + k].of = <<s, k>>
            BY <1>11 DEF HasResult
      <3>2. ms[s + k].of[1] = s /\ ms[s + k].of[2] = k
            BY <3>1
      <3>3. HasResult(ms, s, l)
            BY <3>1, <3>2, ResultStands
      <3>4. l \in 1..Len(ms[s].calls)
            BY <2>1
      <3>5. j + l \in 1..N /\ old[j + l].src = s + l
            BY <1>9, <1>11, <3>3, <3>4
      <3>6. s + l # 0 /\ IsTool(ms[s + l])
        <4>1. s \in Nat \ {0} /\ l \in Nat
              BY <1>1, <1>8, <2>1
        <4>a. s + l # 0
              BY <4>1
        <4>2. IsTool(ms[s + l])
              BY <3>3 DEF HasResult
        <4> QED BY <4>a, <4>2
      <3> QED BY <1>4, <3>5, <3>6
    <2>4. CASE j < p
      <3>1. j + k < p
        <4>1. ASSUME j + k >= p PROVE FALSE
          <5>1. p - j \in 1..k /\ j + (p - j) = p
                BY <1>1, <1>7, <2>1, <2>4, <4>1
          <5> QED BY <2>3, <5>1
        <4> QED BY <1>1, <1>7, <2>1, <4>1
      <3>2. q = j
            BY <1>7, <2>4, <1>1
      <3> QED BY <1>1, <1>2, <1>7, <2>1, <2>2, <3>1, <3>2
    <2>5. CASE j >= p
      <3>1. q = j + 1
            BY <1>7, <2>5, <1>1
      <3>2. j + k >= p /\ q + k = (j + k) + 1 /\ q + k \in 1..N + 1
            BY <1>1, <1>7, <2>1, <2>2, <2>5, <3>1
      <3>3. list[(j + k) + 1] = old[j + k]
            BY <1>2, <2>2, <3>2
      <3> QED BY <1>2, <2>2, <3>2, <3>3
    <2> QED BY <1>1, <1>7, <2>4, <2>5
  <1> QED BY <1>10, <1>11 DEF s

\* A list made of a session, and of ranges that cut no call from its result.
LEMMA BuiltIsBuilt ==
    ASSUME NEW ms \in Seq(Message), ResultsFollow(ms),
           NEW d \in DcpOf(Len(ms)), Uncut(ms, d.ranges), NEW s
    PROVE  Built(buildDCPMessages(ms, d, s), ms)
  <1> DEFINE short == applyCompression(ms, d.ranges)
             list == Pruned(ms, d)
             view == buildDCPMessages(ms, d, s)
  <1>1. short = applyCompression(ms, d.ranges) /\ list = Pruned(ms, d)
        OBVIOUS
  <1>2. Reminded(view, list, ms)
        BY BuiltIs
  <1>3. d.ranges \in Seq(RangesIn(Len(ms)))
        BY DEF DcpOf
  <1> HIDE DEF short, list, view
  <1>4. /\ list \in Seq(Entry(Len(ms))) /\ Len(list) = Len(short)
        /\ \E at : Places(short, Len(ms), d.ranges, at)
        /\ \A i \in 1..Len(list) : list[i].src = short[i].src
        BY <1>1, PrunedIs
  <1>5. PICK at : Places(short, Len(ms), d.ranges, at)
        BY <1>4
  <1>6. Built(list, ms)
        BY <1>3, <1>4, <1>5, ViewBuilt
  <1>7. CASE view = list
        BY <1>6, <1>7 DEF view
  <1>8. ASSUME NEW p \in 1..Len(list) + 1, view = InsertAt(list, p, Nudge),
               p \in 1..Len(list) => RoleOf(list[p], ms) = "user"
        PROVE  Built(view, ms)
        BY <1>4, <1>6, <1>8, ReminderBuilt
  <1> QED BY <1>2, <1>7, <1>8 DEF Reminded, view

\* Without pruning each message is shown at its own place.
LEMMA PlainBuilt ==
    ASSUME NEW ms \in Seq(Message), ResultsFollow(ms)
    PROVE  Built(Plain(ms), ms)
  <1> DEFINE n == Len(ms)
             list == Plain(ms)
  <1>1. n \in Nat /\ Len(list) = n /\ \A i \in 1..n : list[i].src = i
    <2>1. n \in Nat /\ DOMAIN ms = 1..n
          BY LenProperties
    <2>2. list = [i \in 1..n |-> Shown(i)] /\ \A i \in 1..n : Shown(i).src = i
          BY <2>1 DEF Plain, Shown
    <2> HIDE DEF n, list
    <2>3. Len(list) = n
          BY <2>1, <2>2
    <2> QED BY <2>1, <2>2, <2>3
  <1> HIDE DEF list
  <1>2. ASSUME NEW s \in 1..n, IsTool(ms[s])
        PROVE  s > ms[s].of[2] /\ \A l \in 1..ms[s].of[2] : list[s - l].src = s - l
    <2> DEFINE i == ms[s].of[1]
               k == ms[s].of[2]
    <2>1. i \in 1..n /\ k \in Nat \ {0} /\ s = i + k
      <3> HIDE DEF i, k
      <3>1. i = ms[s].of[1] /\ k = ms[s].of[2]
            BY DEF i, k
      <3> QED BY <1>2, <3>1, ResultStands
    <2> HIDE DEF i, k
    <2>2. s > k /\ \A l \in 1..k : s - l \in 1..n
          BY <1>1, <2>1
    <2> QED BY <1>1, <2>2 DEF k
  <1>3. ASSUME NEW s \in 1..n, NEW k, HasResult(ms, s, k)
        PROVE  s + k \in 1..n /\ list[s + k].src = s + k
        BY <1>1, <1>3 DEF HasResult
  <1>4. \A i \in 1..Len(list) : i \in 1..n /\ list[i].src = i
        BY <1>1
  <1>5. Built(list, ms)
    <2> SUFFICES ASSUME NEW p \in 1..Len(list), list[p].src # 0
                 PROVE  LET s == list[p].src
                            m == ms[s]
                        IN  /\ IsTool(m) => p > m.of[2] /\ \A l \in 1..m.of[2] : list[p - l].src = s - l
                            /\ HasCalls(m) => \A k \in 1..Len(m.calls) : HasResult(ms, s, k) =>
                                                  p + k \in 1..Len(list) /\ list[p + k].src = s + k
        BY DEF Built
    <2>1. p \in 1..n /\ list[p].src = p
          BY <1>4
    <2> QED BY <1>1, <1>2, <1>3, <2>1
  <1> QED BY <1>5 DEF list

---------------------------------------------------------------------------
(* The request.                                                            *)

\* Ranges that cut no call leave each call whole or take all of it.
LEMMA UncutIs ==
    ASSUME NEW ms \in Seq(Message), NEW rs, ~CutIn(ms, rs)
    PROVE  Uncut(ms, rs)
  <1> SUFFICES ASSUME NEW i \in 1..Len(ms), HasCalls(ms[i])
               PROVE  \/ \A j \in i .. i + Len(ms[i].calls) : j \notin removeSet(rs)
                      \/ \A j \in i .. i + Len(ms[i].calls) : j \in removeSet(rs)
      BY DEF Uncut
  <1> DEFINE block == i .. i + Len(ms[i].calls)
  <1>1. i \in DOMAIN ms
        BY LenProperties
  <1>2. block \intersect removeSet(rs) \in {{}, block}
        BY <1>1 DEF CutIn
  <1> HIDE DEF block
  <1>3. (\A j \in block : j \notin removeSet(rs)) \/ (\A j \in block : j \in removeSet(rs))
        BY <1>2
  <1> QED BY <1>3 DEF block

\* What guards a session guarded it when it was shorter.
LEMMA GuardBack ==
    ASSUME NEW ms \in Seq(Message), ResultsFollow(ms), NEW new, Longer(ms, new),
           NEW rs, NEW n \in 0..Len(ms), Guarded(new, rs, n)
    PROVE  Guarded(ms, rs, n)
  <1>1. /\ Len(ms) \in Nat /\ Len(new) \in Nat /\ Len(ms) <= Len(new)
        /\ DOMAIN ms = 1..Len(ms) /\ DOMAIN new = 1..Len(new)
        /\ \A i \in 1..Len(ms) : new[i] = ms[i]
        BY LenProperties DEF Longer
  <1>2. ~CutIn(ms, rs)
    <2> SUFFICES ASSUME NEW i \in DOMAIN ms, HasCalls(ms[i]),
                        (i .. i + Len(ms[i].calls)) \intersect removeSet(rs)
                            \notin {{}, i .. i + Len(ms[i].calls)}
                 PROVE  FALSE
        BY DEF CutIn
    <2>1. i \in DOMAIN new /\ new[i] = ms[i]
          BY <1>1
    <2> QED BY <2>1 DEF Guarded, CutIn
  <1>3. ASSUME NEW j \in n + 1 .. Len(ms), IsTool(ms[j])
        PROVE  ms[ms[j].of[1]].calls[ms[j].of[2]] # "compress"
    <2>1. j \in 1..Len(ms) /\ j \in n + 1 .. Len(new)
          BY <1>1
    <2> DEFINE c == ms[j].of[1]
    <2>2. c \in 1..j - 1
          BY <1>3, <2>1 DEF ResultsFollow
    <2>3. c \in 1..Len(ms)
          BY <1>1, <2>1, <2>2
    <2>4. new[j] = ms[j] /\ new[c] = ms[c]
          BY <1>1, <2>1, <2>3
    <2>5. IsTool(new[j]) => new[new[j].of[1]].calls[new[j].of[2]] # "compress"
          BY <2>1 DEF Guarded
    <2> QED BY <1>3, <2>4, <2>5
  <1> QED BY <1>2, <1>3 DEF Guarded

\* A list just built has the shape;
LEMMA ShapeOfBuilt ==
    ASSUME NEW ms \in Seq(Message), NEW list \in Seq(Entry(Len(ms))), Built(list, ms)
    PROVE  Shape(list, ms, Len(ms))
  <1>1. Len(ms) \in Nat /\ Len(list) \in Nat
        BY LenProperties
  <1>2. \A i \in 1..Len(list) : list[i].src \in 0..Len(ms)
    <2>1. \A i \in 1..Len(list) : list[i] \in Entry(Len(ms))
          BY ElementOfSeq
    <2> QED BY <2>1 DEF Entry
  <1>3. ASSUME NEW i \in 1..Len(list), list[i].src # 0 PROVE ShapeAt(list, ms, Len(ms), i)
    <2> DEFINE s == list[i].src
    <2>1. s <= Len(ms) /\ s # 0 /\ s = list[i].src
          BY <1>1, <1>2, <1>3
    <2> HIDE DEF s
    <2>2. /\ IsTool(ms[s]) => i > ms[s].of[2] /\ \A l \in 1..ms[s].of[2] : list[i - l].src = s - l
          /\ HasCalls(ms[s]) => \A k \in 1..Len(ms[s].calls) : HasResult(ms, s, k) =>
                                    i + k \in 1..Len(list) /\ list[i + k].src = s + k
          BY <2>1 DEF Built
    <2>3. ~(s > Len(ms))
          BY <1>1, <1>2, <2>1
    <2> QED BY <2>1, <2>2, <2>3 DEF ShapeAt
  <1> QED BY <1>3 DEF Shape

\* a longer session leaves it;
LEMMA ShapeGrows ==
    ASSUME NEW ms \in Seq(Message), NEW new, Longer(ms, new), NEW n \in 0..Len(ms),
           NEW list \in Seq(Entry(Len(ms))), Shape(list, ms, n)
    PROVE  Shape(list, new, n)
  <1>1. /\ Len(ms) \in Nat /\ Len(new) \in Nat /\ Len(ms) <= Len(new) /\ Len(list) \in Nat
        /\ \A i \in 1..Len(ms) : new[i] = ms[i]
        BY LenProperties DEF Longer
  <1>2. \A i \in 1..Len(list) : list[i].src \in 0..Len(ms)
    <2>1. \A i \in 1..Len(list) : list[i] \in Entry(Len(ms))
          BY ElementOfSeq
    <2> QED BY <2>1 DEF Entry
  <1> SUFFICES ASSUME NEW i \in 1..Len(list), list[i].src # 0 PROVE ShapeAt(list, new, n, i)
      BY DEF Shape
  <1> DEFINE s == list[i].src
  <1>3. s \in 1..Len(ms) /\ new[s] = ms[s] /\ s = list[i].src
        BY <1>1, <1>2
  <1>4. ShapeAt(list, ms, n, i)
        BY DEF Shape
  <1> HIDE DEF s
  <1>5. ASSUME s <= n, IsTool(new[s])
        PROVE  i > new[s].of[2] /\ \A l \in 1..new[s].of[2] : list[i - l].src = s - l
        BY <1>3, <1>4, <1>5 DEF ShapeAt
  <1>6. ASSUME s <= n, HasCalls(new[s]), NoneLate(new, n), NEW k \in 1..Len(new[s].calls),
               HasResult(new, s, k)
        PROVE  i + k \in 1..Len(list) /\ list[i + k].src = s + k
    <2>1. Len(ms[s].calls) \in Nat
          BY <1>3, <1>6, CallsOf
    <2>2. k \in Nat /\ k \in 1..Len(ms[s].calls) /\ HasCalls(ms[s])
          BY <1>3, <1>6, <2>1
    <2>3. NoneLate(ms, n)
      <3> SUFFICES ASSUME NEW j \in n + 1 .. Len(ms), IsTool(ms[j]) PROVE ms[j].of[1] > n
          BY DEF NoneLate
      <3>1. j \in n + 1 .. Len(new) /\ new[j] = ms[j]
            BY <1>1
      <3> QED BY <1>6, <3>1 DEF NoneLate
    <2> DEFINE j == s + k
    <2>4. j \in 1..Len(new) /\ IsTool(new[j]) /\ new[j].of = <<s, k>>
          BY <1>6 DEF HasResult
    <2>5. j <= n
      <3>1. CASE j \in n + 1 .. Len(new)
        <4>1. new[j].of[1] > n
              BY <1>6, <2>4, <3>1 DEF NoneLate
        <4>2. new[j].of[1] = s
              BY <2>4
        <4> QED BY <1>1, <1>3, <1>6, <4>1, <4>2
      <3> QED BY <1>1, <2>4, <3>1
    <2>6. j \in 1..Len(ms) /\ new[j] = ms[j]
      <3> HIDE DEF j
      <3>1. j \in 1..Len(ms)
            BY <1>1, <2>4, <2>5
      <3> QED BY <1>1, <3>1
    <2>7. HasResult(ms, s, k)
          BY <2>4, <2>6 DEF HasResult
    <2> QED BY <1>3, <1>4, <1>6, <2>2, <2>3, <2>7 DEF ShapeAt
  <1>7. ASSUME s > n
        PROVE  \/ IsTool(new[s]) /\ i > 1 /\ list[i - 1].src = new[s].of[1]
               \/ /\ HasCalls(new[s]) /\ i < Len(list) /\ list[i + 1].src # 0
                  /\ IsTool(new[list[i + 1].src]) /\ new[list[i + 1].src].of[1] = s
    <2>1. \/ IsTool(ms[s]) /\ i > 1 /\ list[i - 1].src = ms[s].of[1]
          \/ /\ HasCalls(ms[s]) /\ i < Len(list) /\ list[i + 1].src # 0
             /\ IsTool(ms[list[i + 1].src]) /\ ms[list[i + 1].src].of[1] = s
          BY <1>3, <1>4, <1>7 DEF ShapeAt
    <2>2. CASE i < Len(list) /\ list[i + 1].src # 0
      <3>1. i + 1 \in 1..Len(list)
            BY <1>1, <2>2
      <3>2. list[i + 1].src \in 1..Len(ms)
            BY <1>1, <1>2, <2>2, <3>1
      <3>3. new[list[i + 1].src] = ms[list[i + 1].src]
            BY <1>1, <3>2
      <3> QED BY <1>3, <2>1, <3>3
    <2> QED BY <1>3, <2>1, <2>2
  <1> QED BY <1>3, <1>5, <1>6, <1>7 DEF ShapeAt

\* so does the note of the summary;
LEMMA ShapeNoted ==
    ASSUME NEW ms \in Seq(Message), NEW n \in 0..Len(ms),
           NEW old \in Seq(Entry(Len(ms))), Shape(old, ms, n), NEW list, list = Append(old, Note)
    PROVE  Shape(list, ms, n)
  <1> DEFINE N == Len(old)
  <1>1. /\ Len(ms) \in Nat /\ N \in Nat /\ Len(list) = N + 1
        /\ list[N + 1].src = 0 /\ \A i \in 1..N : list[i] = old[i]
    <2>1. Len(ms) \in Nat /\ N \in Nat
          BY LenProperties
    <2> DEFINE x == Note
    <2>2. x \in Entry(Len(ms)) /\ x.src = 0 /\ list = Append(old, x)
          BY <2>1, EntriesAre
    <2> HIDE DEF x
    <2> QED BY <2>1, <2>2, AppendProperties
  <1> SUFFICES ASSUME NEW i \in 1..Len(list), list[i].src # 0 PROVE ShapeAt(list, ms, n, i)
      BY DEF Shape
  <1>2. i \in 1..N /\ list[i] = old[i]
        BY <1>1
  <1>3. ShapeAt(old, ms, n, i)
        BY <1>2 DEF Shape
  <1> DEFINE s == list[i].src
  <1>4. s = old[i].src /\ s = list[i].src
        BY <1>2
  <1> HIDE DEF s
  <1>5. ASSUME s <= n, IsTool(ms[s])
        PROVE  i > ms[s].of[2] /\ \A l \in 1..ms[s].of[2] : list[i - l].src = s - l
    <2> DEFINE k == ms[s].of[2]
    <2>1. i > k /\ \A l \in 1..k : old[i - l].src = s - l
          BY <1>3, <1>4, <1>5 DEF ShapeAt
    <2>2. k \in Nat
      <3>1. s \in 1..Len(ms)
        <4>1. old[i] \in Entry(Len(ms))
              BY <1>2, ElementOfSeq
        <4> QED BY <1>1, <1>4, <4>1 DEF Entry
      <3>2. ms[s] \in Message
            BY <3>1, ElementOfSeq
      <3> QED BY <1>5, <3>2, MessageKinds, BoundsAssumption DEF Calls
    <2> HIDE DEF k
    <2>3. \A l \in 1..k : list[i - l] = old[i - l]
          BY <1>1, <1>2, <2>1, <2>2
    <2> QED BY <2>1, <2>3 DEF k
  <1>6. ASSUME s <= n, HasCalls(ms[s]), NoneLate(ms, n), NEW k \in 1..Len(ms[s].calls),
               HasResult(ms, s, k)
        PROVE  i + k \in 1..Len(list) /\ list[i + k].src = s + k
    <2>1. i + k \in 1..N /\ old[i + k].src = s + k
          BY <1>3, <1>4, <1>6 DEF ShapeAt
    <2> QED BY <1>1, <2>1
  <1>7. ASSUME s > n
        PROVE  \/ IsTool(ms[s]) /\ i > 1 /\ list[i - 1].src = ms[s].of[1]
               \/ /\ HasCalls(ms[s]) /\ i < Len(list) /\ list[i + 1].src # 0
                  /\ IsTool(ms[list[i + 1].src]) /\ ms[list[i + 1].src].of[1] = s
    <2>1. \/ IsTool(ms[s]) /\ i > 1 /\ old[i - 1].src = ms[s].of[1]
          \/ /\ HasCalls(ms[s]) /\ i < N /\ old[i + 1].src # 0
             /\ IsTool(ms[old[i + 1].src]) /\ ms[old[i + 1].src].of[1] = s
          BY <1>3, <1>4, <1>7 DEF ShapeAt
    <2>2. i > 1 => list[i - 1] = old[i - 1]
          BY <1>1, <1>2
    <2>3. i < N => list[i + 1] = old[i + 1] /\ i < Len(list)
          BY <1>1, <1>2
    <2> QED BY <2>1, <2>2, <2>3
  <1> QED BY <1>4, <1>5, <1>6, <1>7 DEF ShapeAt

\* and so does a pair of a message with calls and a new result of it.
LEMMA ShapePaired ==
    ASSUME NEW ms \in Seq(Message), NEW new, Longer(ms, new), NEW n \in 0..Len(ms),
           NEW old \in Seq(Entry(Len(ms))), Shape(old, ms, n),
           NEW N, N = Len(ms) + 1, Len(new) = N, NEW c \in 1..Len(ms),
           IsTool(new[N]), new[N].of[1] = c, HasCalls(new[c]),
           NEW list, list = old \o <<Shown(c), Shown(N)>>
    PROVE  Shape(list, new, n)
  <1> DEFINE L == Len(old)
  <1>1. Len(ms) \in Nat /\ new \in Seq(Message) /\ L \in Nat /\ N \in 1..Len(new) /\ N > n
    <2>1. Len(ms) \in Nat /\ L \in Nat
          BY LenProperties
    <2> QED BY <2>1 DEF Longer
  <1>2. Shape(old, new, n)
        BY ShapeGrows
  <1>3. ~IsTool(new[c]) /\ ~HasCalls(new[N])
    <2>1. c \in 1..Len(new)
          BY <1>1
    <2>2. new[c] \in Message /\ new[N] \in Message
          BY <1>1, <2>1, ElementOfSeq
    <2> QED BY <2>2, MessageKinds
  <1>4. /\ Len(list) = L + 2 /\ \A i \in 1..L : list[i] = old[i]
        /\ list[L + 1].src = c /\ list[L + 2].src = N
    <2> DEFINE a == Shown(c)
               b == Shown(N)
               E == Entry(N)
               t == <<a, b>>
    <2>1. c \in 1..N /\ N \in 1..N /\ N \in Nat
          BY <1>1
    <2>2. a \in E /\ b \in E /\ a.src = c /\ b.src = N
          BY <2>1, EntriesAre
    <2>3. old \in Seq(E)
      <3>1. Entry(Len(ms)) \subseteq E
            BY <1>1 DEF Entry
      <3> QED BY <3>1
    <2>4. list = old \o t
          OBVIOUS
    <2> HIDE DEF a, b, E
    <2>5. t \in Seq(E) /\ Len(t) = 2 /\ t[1] = a /\ t[2] = b
          BY <2>2
    <2> HIDE DEF t
    <2>6. /\ Len(old \o t) = L + 2
          /\ \A i \in 1..L + 2 : (old \o t)[i] = IF i <= L THEN old[i] ELSE t[i - L]
      <3>1. /\ Len(old \o t) = Len(old) + Len(t)
            /\ \A i \in 1..Len(old) + Len(t) :
                  (old \o t)[i] = IF i <= Len(old) THEN old[i] ELSE t[i - Len(old)]
            BY <2>3, <2>5, ConcatProperties, Zenon
      <3> QED BY <2>5, <3>1
    <2> HIDE DEF L
    <2>7. Len(list) = L + 2 /\ \A i \in 1..L : list[i] = old[i]
      <3>1. ASSUME NEW i \in 1..L PROVE list[i] = old[i]
        <4>1. i \in 1..L + 2 /\ i <= L
              BY <1>1
        <4> QED BY <2>4, <2>6, <4>1
      <3> QED BY <2>4, <2>6, <3>1
    <2>8. L + 1 \in 1..L + 2 /\ ~(L + 1 <= L) /\ (L + 1) - L = 1
          BY <1>1
    <2>9. L + 2 \in 1..L + 2 /\ ~(L + 2 <= L) /\ (L + 2) - L = 2
          BY <1>1
    <2>10. list[L + 1] = a
           BY <2>4, <2>5, <2>6, <2>8
    <2>11. list[L + 2] = b
           BY <2>4, <2>5, <2>6, <2>9
    <2> QED BY <2>2, <2>7, <2>10, <2>11
  <1> HIDE DEF L
  <1>5. ASSUME NEW i \in 1..L, old[i].src # 0 PROVE ShapeAt(list, new, n, i)
    <2>1. ShapeAt(old, new, n, i)
          BY <1>2, <1>5 DEF Shape, L
    <2> DEFINE s == list[i].src
    <2>2. list[i] = old[i] /\ s = old[i].src /\ s = list[i].src
          BY <1>4
    <2> HIDE DEF s
    <2>3. ASSUME s <= n, IsTool(new[s])
          PROVE  i > new[s].of[2] /\ \A l \in 1..new[s].of[2] : list[i - l].src = s - l
      <3> DEFINE k == new[s].of[2]
      <3>1. i > k /\ \A l \in 1..k : old[i - l].src = s - l
            BY <2>1, <2>2, <2>3 DEF ShapeAt
      <3>2. k \in Nat
        <4>1. s \in 1..Len(new)
          <5>1. old[i] \in Entry(Len(ms))
                BY ElementOfSeq DEF L
          <5>2. s \in 0..Len(ms) /\ s # 0
                BY <1>5, <2>2, <5>1 DEF Entry
          <5> QED BY <1>1, <5>2
        <4>2. new[s] \in Message
              BY <1>1, <4>1, ElementOfSeq
        <4> QED BY <2>3, <4>2, MessageKinds, BoundsAssumption DEF Calls
      <3> HIDE DEF k
      <3>3. \A l \in 1..k : list[i - l] = old[i - l]
            BY <1>1, <1>4, <3>1, <3>2
      <3> QED BY <3>1, <3>3 DEF k
    <2>4. ASSUME s <= n, HasCalls(new[s]), NoneLate(new, n), NEW k \in 1..Len(new[s].calls),
                 HasResult(new, s, k)
          PROVE  i + k \in 1..Len(list) /\ list[i + k].src = s + k
      <3>1. i + k \in 1..L /\ old[i + k].src = s + k
            BY <2>1, <2>2, <2>4 DEF ShapeAt, L
      <3> QED BY <1>1, <1>4, <3>1
    <2>5. ASSUME s > n
          PROVE  \/ IsTool(new[s]) /\ i > 1 /\ list[i - 1].src = new[s].of[1]
                 \/ /\ HasCalls(new[s]) /\ i < Len(list) /\ list[i + 1].src # 0
                    /\ IsTool(new[list[i + 1].src]) /\ new[list[i + 1].src].of[1] = s
      <3>1. \/ IsTool(new[s]) /\ i > 1 /\ old[i - 1].src = new[s].of[1]
            \/ /\ HasCalls(new[s]) /\ i < L /\ old[i + 1].src # 0
               /\ IsTool(new[old[i + 1].src]) /\ new[old[i + 1].src].of[1] = s
            BY <2>1, <2>2, <2>5 DEF ShapeAt, L
      <3>2. i > 1 => list[i - 1] = old[i - 1]
            BY <1>1, <1>4
      <3>3. i < L => list[i + 1] = old[i + 1] /\ i < Len(list)
            BY <1>1, <1>4
      <3> QED BY <3>1, <3>2, <3>3
    <2> QED BY <2>2, <2>3, <2>4, <2>5 DEF ShapeAt
  <1>6. ShapeAt(list, new, n, L + 1)
    <2> DEFINE i == L + 1
    <2>1. list[i].src = c /\ list[i + 1].src = N /\ i < Len(list) /\ N # 0
      <3>1. i = L + 1 /\ i + 1 = L + 2 /\ i < L + 2
            BY <1>1
      <3>2. N # 0
            BY <1>1
      <3> HIDE DEF i
      <3> QED BY <1>4, <3>1, <3>2
    <2>2. c <= n => ~NoneLate(new, n)
      <3>1. N \in n + 1 .. Len(new)
            BY <1>1
      <3>2. NoneLate(new, n) => c > n
            BY <3>1 DEF NoneLate
      <3> QED BY <1>1, <3>2
    <2> HIDE DEF i
    <2>3. ShapeAt(list, new, n, i)
          BY <1>3, <2>1, <2>2 DEF ShapeAt
    <2> QED BY <2>3 DEF i
  <1>7. ShapeAt(list, new, n, L + 2)
    <2> DEFINE i == L + 2
    <2>1. list[i].src = N /\ list[i - 1].src = c /\ i > 1
      <3>1. i - 1 = L + 1
            BY <1>1
      <3> QED BY <1>1, <1>4, <3>1
    <2>2. ~(N <= n)
          BY <1>1
    <2> HIDE DEF i
    <2>3. ShapeAt(list, new, n, i)
          BY <2>1, <2>2 DEF ShapeAt
    <2> QED BY <2>3 DEF i
  <1>8. ASSUME NEW i \in 1..Len(list), list[i].src # 0 PROVE ShapeAt(list, new, n, i)
    <2>1. i \in 1..L \/ i = L + 1 \/ i = L + 2
          BY <1>1, <1>4
    <2>2. i \in 1..L => old[i].src # 0
          BY <1>4, <1>8
    <2> QED BY <1>5, <1>6, <1>7, <2>1, <2>2
  <1> QED BY <1>8 DEF Shape

\* A step that leaves the request and the ranges alone leaves the shape.
LEMMA ShapeWaits ==
    ASSUME Typed, ResultsFollow(msgs), Shaped, Longer(msgs, msgs'),
           UNCHANGED <<request, upTo>>, dcp'.ranges = dcp.ranges
    PROVE  Shaped'
  <1>1. /\ msgs \in Seq(Message) /\ request \in Seq(Entry(Len(msgs))) /\ upTo \in 0..Len(msgs)
        BY DEF Typed
  <1> SUFFICES ASSUME Guarded(msgs', dcp.ranges, upTo) PROVE Shape(request, msgs', upTo)
      BY DEF Shaped
  <1>2. Guarded(msgs, dcp.ranges, upTo)
        BY <1>1, GuardBack
  <1>3. Shape(request, msgs, upTo)
        BY <1>2 DEF Shaped
  <1> QED BY <1>1, <1>3, ShapeGrows

\* A request made of the session has it.
LEMMA ShapeRebuilt ==
    ASSUME NEW ms \in Seq(Message), ResultsFollow(ms), NEW new, Longer(ms, new),
           NEW d \in DcpOf(Len(ms)), NEW s \in 0..MaxSteps, Guarded(new, d.ranges, Len(ms)),
           NEW list, list = buildDCPMessages(ms, d, s) \/ list = Plain(ms)
    PROVE  Shape(list, new, Len(ms))
  <1>1. Len(ms) \in Nat /\ Len(ms) \in 0..Len(ms)
        BY LenProperties
  <1>2. Guarded(ms, d.ranges, Len(ms))
    <2> DEFINE rs == d.ranges
               n == Len(ms)
    <2>1. n \in 0..Len(ms) /\ Guarded(new, rs, n)
          BY <1>1
    <2> HIDE DEF rs, n
    <2>2. Guarded(ms, rs, n)
          BY <2>1, GuardBack
    <2> QED BY <2>2 DEF rs, n
  <1>3. Uncut(ms, d.ranges)
        BY <1>2, UncutIs DEF Guarded
  <1>4. list \in Seq(Entry(Len(ms))) /\ Built(list, ms)
    <2>1. CASE list = buildDCPMessages(ms, d, s)
      <3>1. buildDCPMessages(ms, d, s) \in Seq(Entry(Len(ms)))
            BY BuiltIs
      <3>2. Built(buildDCPMessages(ms, d, s), ms)
            BY <1>3, BuiltIsBuilt
      <3> QED BY <2>1, <3>1, <3>2
    <2>2. CASE list = Plain(ms)
      <3>1. Built(Plain(ms), ms)
            BY PlainBuilt
      <3>2. DOMAIN ms = 1..Len(ms) /\ \A i \in 1..Len(ms) : Shown(i) \in Entry(Len(ms))
            BY <1>1, LenProperties, EntriesAre
      <3>3. Plain(ms) = [i \in 1..Len(ms) |-> Shown(i)]
            BY <3>2 DEF Plain
      <3> DEFINE E == Entry(Len(ms))
                 f == Plain(ms)
      <3> HIDE DEF E, f
      <3>4. f = [i \in 1..Len(ms) |-> Shown(i)] /\ \A i \in 1..Len(ms) : Shown(i) \in E
            BY <3>2, <3>3 DEF E, f
      <3>5. f \in Seq(E)
            BY <1>1, <3>4
      <3> QED BY <2>2, <3>1, <3>5 DEF E, f
    <2> QED BY <2>1, <2>2
  <1>5. Shape(list, ms, Len(ms))
        BY <1>4, ShapeOfBuilt
  <1> QED BY <1>1, <1>4, <1>5, ShapeGrows

\* No step takes the shape from the request.
LEMMA ShapedStep ==
    ASSUME Typed, ResultsFollow(msgs), Working, Shaped, [Next]_vars
    PROVE  Shaped'
  <1>1. /\ Len(msgs) \in Nat /\ Len(msgs') \in Nat /\ upTo \in 0..Len(msgs)
        /\ msgs' \in Seq(Message) /\ msgs \in Seq(Message) /\ dcp \in DcpOf(Len(msgs))
        /\ request \in Seq(Entry(Len(msgs))) /\ Longer(msgs, msgs')
        BY AlwaysLonger, TypesStay DEF Typed
  <1>2. Typed' /\ ResultsFollow(msgs')
        BY TypedStep, ResultsStep
  <1>3. ASSUME UNCHANGED <<request, upTo>>, dcp'.ranges = dcp.ranges PROVE Shaped'
        BY <1>1, <1>3, ShapeWaits
  <1>4. ASSUME NEW t \in {"low", "mid", "high"}, dcp' = [dcp EXCEPT !.tokens = t]
        PROVE  dcp'.ranges = dcp.ranges
        BY <1>1, <1>4, DcpTokens
  <1>5. ASSUME NEW ms \in Seq(Message), ResultsFollow(ms), Longer(ms, msgs'),
               NEW d \in DcpOf(Len(ms)), NEW s \in 0..MaxSteps, Rebuild(ms, d, s)
        PROVE  Shaped'
    <2>1. request' = buildDCPMessages(ms, d, s) /\ dcp'.ranges = d.ranges /\ upTo' = Len(ms)
          BY <1>5, RebuildIs
    <2> SUFFICES ASSUME Guarded(msgs', d.ranges, Len(ms)) PROVE Shape(request', msgs', Len(ms))
        BY <2>1 DEF Shaped
    <2> QED BY <1>5, <2>1, ShapeRebuilt
  <1>6. Longer(msgs', msgs') /\ Len(msgs) <= Len(msgs')
    <2>1. Len(msgs') <= MaxMsgs
          BY <1>1 DEF Longer
    <2> QED BY <1>1, <2>1, StaysQuiet DEF Quiet, Longer
  <1>7. ASSUME NEW o \in {"ok", "error", "denied"}, Result(o), Busy
        PROVE  /\ step + 1 \in 0..MaxSteps /\ Len(msgs') = Len(msgs) + 1
               /\ Current \in 1..Len(msgs) /\ HasCalls(msgs'[Current])
               /\ IsTool(msgs'[Len(msgs')]) /\ msgs'[Len(msgs')].of = <<Current, call>>
               /\ msgs'[Current] = msgs[Current]
    <2>1. Answers /\ msgs' = Append(msgs, Answer(<<Current, call>>, o)) /\ <<Current, call>> \in Calls
          BY <1>7, ResultIs
    <2>2. step \in 0..MaxSteps /\ step < MaxSteps /\ MaxSteps \in Nat
          BY <1>7, BoundsAssumption DEF Typed, Busy
    <2>3. Current \in 1..Len(msgs) /\ HasCalls(msgs[Current])
          BY <1>7 DEF Working
    <2>4. msgs'[Current] = msgs[Current]
          BY <1>1, <2>3 DEF Longer
    <2>5. Len(msgs') = Len(msgs) + 1
          BY <2>1 DEF Answers
    <2>6. \E x \in {"ok", "error", "denied"} : msgs'[Len(msgs')] = Answer(<<Current, call>>, x)
          BY <2>1 DEF Answers
    <2>7. IsTool(msgs'[Len(msgs')]) /\ msgs'[Len(msgs')].of = <<Current, call>>
          BY <2>1, <2>6, NewMessages
    <2> QED BY <2>2, <2>3, <2>4, <2>5, <2>7
  <1>8. CASE ReplyText \/ ReplyEmpty \/ ReplyCalls
    <2>1. UNCHANGED <<request, upTo>> /\ Answered
          BY <1>8 DEF ReplyText, ReplyEmpty, ReplyCalls
    <2>2. \E t \in {"low", "mid", "high"} : dcp' = [dcp EXCEPT !.tokens = t]
      <3>1. dcp.tokens \in {"low", "mid", "high"} /\ Usages \subseteq {"low", "mid", "high"}
            BY <1>1, RepliesAssumption DEF DcpOf
      <3> QED BY <2>1, <3>1 DEF Answered
    <2> QED BY <1>3, <1>4, <2>1, <2>2
  <1>9. CASE TaskEnds \/ CompressPanics \/ ToolCancelled \/ CompressDenied \/ Rejected \/ UNCHANGED vars
        BY <1>3, <1>9 DEF TaskEnds, CompressPanics, ToolCancelled, CompressDenied, Rejected, vars
  <1>10. CASE RunTool
    <2>1. UNCHANGED <<request, upTo>> /\ (dcp' = dcp \/ dcp' = RecordToolCall(dcp, TheCall))
          BY <1>10 DEF RunTool
    <2>2. RecordToolCall(dcp, TheCall).ranges = dcp.ranges
          BY <1>1 DEF RecordToolCall, DcpOf
    <2> QED BY <1>3, <2>1, <2>2
  <1>11. CASE ToggleDcp
    <2>1. UNCHANGED <<request, upTo>> /\ (dcp' = dcp \/ dcp' = [dcp EXCEPT !.tokens = "low"])
          BY <1>11 DEF ToggleDcp
    <2>2. CASE dcp' = dcp
          BY <1>3, <2>1, <2>2
    <2>3. CASE dcp' = [dcp EXCEPT !.tokens = "low"]
      <3> DEFINE t == "low"
      <3>1. dcp' = [dcp EXCEPT !.tokens = t] /\ t \in {"low", "mid", "high"}
            BY <2>3
      <3> HIDE DEF t
      <3> QED BY <1>3, <1>4, <2>1, <3>1
    <2> QED BY <2>1, <2>2, <2>3
  <1>12. CASE Summarise
    <2>1. request' = Append(request, Note) /\ upTo' = upTo /\ dcp' = dcp
          BY <1>12 DEF Summarise
    <2> SUFFICES ASSUME Guarded(msgs', dcp.ranges, upTo) PROVE Shape(request', msgs', upTo)
        BY <2>1 DEF Shaped
    <2>2. Guarded(msgs, dcp.ranges, upTo)
          BY <1>1, GuardBack
    <2>3. Shape(request, msgs, upTo)
          BY <2>2 DEF Shaped
    <2>4. Shape(request', msgs, upTo)
          BY <1>1, <2>1, <2>3, ShapeNoted
    <2>5. request' \in Seq(Entry(Len(msgs)))
      <3> DEFINE x == Note
                 E == Entry(Len(msgs))
      <3>1. x \in E /\ request \in Seq(E) /\ request' = Append(request, x)
            BY <1>1, <2>1, EntriesAre
      <3> HIDE DEF x, E
      <3>2. request' \in Seq(E)
            BY <3>1, AppendProperties
      <3> QED BY <3>2 DEF E
    <2> QED BY <1>1, <2>4, <2>5, ShapeGrows
  <1>13. CASE Compress
    <2> DEFINE Ranges(args) == execCompress(dcp.ranges, args, Len(msgs)).ranges
               After(args) == [dcp EXCEPT !.ranges = Ranges(args)]
    <2>1. PICK args \in CompressArgs :
             \/ Result("ok") /\ Rebuild(msgs', After(args), step + 1)
             \/ Result("error") /\ UNCHANGED upTo
          BY <1>13 DEF Compress
    <2>2. Busy /\ TheCall = "compress"
          BY <1>13 DEF Compress, Intercepted, Busy
    <2>3. CASE Result("error") /\ UNCHANGED upTo
      <3>1. /\ Len(msgs') = Len(msgs) + 1 /\ Current \in 1..Len(msgs)
            /\ IsTool(msgs'[Len(msgs')]) /\ msgs'[Len(msgs')].of = <<Current, call>>
            /\ msgs'[Current] = msgs[Current]
            BY <1>7, <2>2, <2>3
      <3>2. msgs'[Current].calls[call] = "compress"
            BY <2>2, <3>1 DEF TheCall
      <3> DEFINE j == Len(msgs')
      <3>3. /\ j \in upTo' + 1 .. Len(msgs') /\ IsTool(msgs'[j])
            /\ msgs'[msgs'[j].of[1]].calls[msgs'[j].of[2]] = "compress"
            BY <1>1, <2>3, <3>1, <3>2
      <3> HIDE DEF j
      <3>4. ~Guarded(msgs', dcp'.ranges, upTo')
            BY <3>3 DEF Guarded
      <3> QED BY <3>4 DEF Shaped
    <2>4. CASE Result("ok") /\ Rebuild(msgs', After(args), step + 1)
      <3>1. step + 1 \in 0..MaxSteps
            BY <1>7, <2>2, <2>4
      <3> DEFINE d == After(args)
                 rs == Ranges(args)
      <3>2. rs \in Seq(RangesIn(Len(msgs)))
        <4>1. args \in Seq(Nat \X Nat) /\ dcp.ranges \in Seq(RangesIn(Len(msgs)))
              BY <1>1, RepliesAssumption DEF DcpOf
        <4> QED BY <1>1, <4>1, CompressIs
      <3>3. d = [dcp EXCEPT !.ranges = rs]
            OBVIOUS
      <3>4. Rebuild(msgs', d, step + 1)
            BY <2>4
      <3> HIDE DEF d, rs
      <3>5. d \in DcpOf(Len(msgs))
            BY <1>1, <3>2, <3>3, DcpRanges
      <3>6. d \in DcpOf(Len(msgs'))
            BY <1>1, <1>6, <3>5, DcpGrows
      <3> QED BY <1>1, <1>2, <1>5, <1>6, <3>1, <3>4, <3>6
    <2> QED BY <2>1, <2>3, <2>4
  <1>14. CASE ToolReturns
    <2> DEFINE Noted(o) == IF o = "error" /\ enabled THEN RecordErrorToolCall(dcp) ELSE dcp
    <2>1. PICK o \in {"ok", "error"} :
             /\ Result(o)
             /\ \/ Rebuild(msgs', Noted(o), step + 1)
                \/ /\ request' = request \o <<Shown(Current), Shown(Len(msgs) + 1)>>
                   /\ UNCHANGED <<dcp, upTo>>
          BY <1>14 DEF ToolReturns
    <2>2. Busy
          BY <1>14 DEF ToolReturns, Busy
    <2>3. /\ step + 1 \in 0..MaxSteps /\ Len(msgs') = Len(msgs) + 1
          /\ Current \in 1..Len(msgs) /\ HasCalls(msgs'[Current])
          /\ IsTool(msgs'[Len(msgs')]) /\ msgs'[Len(msgs')].of = <<Current, call>>
          BY <1>7, <2>1, <2>2
    <2>4. CASE request' = request \o <<Shown(Current), Shown(Len(msgs) + 1)>> /\ UNCHANGED <<dcp, upTo>>
      <3> SUFFICES ASSUME Guarded(msgs', dcp.ranges, upTo) PROVE Shape(request', msgs', upTo)
          BY <2>4 DEF Shaped
      <3>1. Guarded(msgs, dcp.ranges, upTo)
            BY <1>1, GuardBack
      <3>2. Shape(request, msgs, upTo)
            BY <3>1 DEF Shaped
      <3> DEFINE c == Current
                 N == Len(msgs) + 1
      <3>3. /\ N = Len(msgs) + 1 /\ Len(msgs') = N /\ c \in 1..Len(msgs)
            /\ IsTool(msgs'[N]) /\ msgs'[N].of[1] = c /\ HasCalls(msgs'[c])
            /\ request' = request \o <<Shown(c), Shown(N)>>
            BY <2>3, <2>4
      <3> HIDE DEF c, N
      <3> QED BY <1>1, <3>2, <3>3, ShapePaired
    <2>5. CASE Rebuild(msgs', Noted(o), step + 1)
      <3> DEFINE d == Noted(o)
      <3>1. d \in DcpOf(Len(msgs'))
        <4> DEFINE e == [call |-> <<Current, call>>, idx |-> Len(msgs), turn |-> dcp.turn]
                   q == {e}
        <4>1. d = dcp \/ d = [dcp EXCEPT !.errors = @ \union q]
              BY DEF RecordErrorToolCall
        <4>2. <<Current, call>> \in Calls
              BY <2>1, <2>2, ResultIs
        <4>3. e \in [call : Calls, idx : 1..MaxMsgs, turn : 1..MaxMsgs]
          <5>1. Len(msgs) \in 1..MaxMsgs
                BY <1>1, <2>3, BoundsAssumption DEF Typed
          <5>2. dcp.turn \in 0..Len(msgs) /\ dcp.turn >= 1
                BY <1>1, <2>2 DEF DcpOf, Typed, Busy
          <5>3. dcp.turn \in 1..MaxMsgs
                BY <1>1, <5>1, <5>2, BoundsAssumption
          <5> QED BY <4>2, <5>1, <5>3
        <4>4. q \in SUBSET [call : Calls, idx : 1..MaxMsgs, turn : 1..MaxMsgs]
              BY <4>3
        <4> HIDE DEF d, q
        <4>5. d \in DcpOf(Len(msgs))
          <5>1. CASE d = dcp
                BY <1>1, <5>1
          <5>2. CASE d = [dcp EXCEPT !.errors = @ \union q]
                BY <1>1, <4>4, <5>2, DcpErrors
          <5> QED BY <4>1, <5>1, <5>2
        <4> QED BY <1>1, <1>6, <4>5, DcpGrows
      <3>2. Rebuild(msgs', d, step + 1)
            BY <2>5
      <3> HIDE DEF d
      <3> QED BY <1>1, <1>2, <1>5, <1>6, <2>3, <3>1, <3>2
    <2> QED BY <2>1, <2>4, <2>5
  <1>15. CASE StartTask
    <2> DEFINE ms == Append(msgs, User)
               w == IF WindowKnown THEN "low" ELSE dcp.tokens
               d == [dcp EXCEPT !.turn = @ + 1, !.tokens = w]
    <2>1. \/ Rebuild(ms, d, 0)
          \/ dcp' = d /\ request' = Plain(ms) /\ upTo' = Len(ms)
          BY <1>15 DEF StartTask
    <2>2. PICK queued \in {<<>>, <<User>>} : msgs' = ms \o queued
          BY <1>15 DEF StartTask
    <2>3. /\ ms \in Seq(Message) /\ Len(ms) = Len(msgs) + 1 /\ User \in Message
          /\ ms[Len(msgs) + 1] = User /\ \A i \in 1..Len(msgs) : ms[i] = msgs[i]
          BY <1>1, NewMessages, AppendProperties
    <2>4. /\ queued \in Seq(Message) /\ Len(queued) \in Nat
          /\ Len(msgs') = Len(ms) + Len(queued)
          /\ \A i \in 1..Len(ms) : msgs'[i] = ms[i]
      <3> DEFINE u == User
      <3>1. u \in Message /\ (queued = <<>> \/ queued = <<u>>)
            BY <2>2, <2>3
      <3> HIDE DEF u, ms
      <3>2. queued \in Seq(Message) /\ Len(queued) \in Nat
        <4>1. <<>> \in Seq(Message) /\ <<u>> \in Seq(Message)
              BY <3>1
        <4> QED BY <3>1, <4>1, LenProperties
      <3>3. /\ Len(ms \o queued) = Len(ms) + Len(queued)
            /\ \A i \in 1..Len(ms) + Len(queued) :
                  (ms \o queued)[i] = IF i <= Len(ms) THEN ms[i] ELSE queued[i - Len(ms)]
            BY <2>3, <3>2, ConcatProperties, Zenon
      <3>4. ASSUME NEW i \in 1..Len(ms) PROVE msgs'[i] = ms[i]
        <4>1. i \in 1..Len(ms) + Len(queued) /\ i <= Len(ms)
              BY <1>1, <2>3, <3>2
        <4> QED BY <2>2, <3>3, <4>1
      <3> QED BY <2>2, <3>2, <3>3, <3>4
    <2>5. Longer(ms, msgs')
      <3>1. Len(msgs') <= MaxMsgs
            BY <1>1 DEF Longer
      <3> HIDE DEF ms
      <3> QED BY <1>1, <2>3, <2>4, <3>1 DEF Longer
    <2>6. ResultsFollow(ms)
      <3> HIDE DEF ms
      <3> SUFFICES ASSUME NEW j \in 1..Len(ms), IsTool(ms[j])
                   PROVE  LET i == ms[j].of[1]
                              k == ms[j].of[2]
                          IN  /\ i \in 1..j - 1 /\ k \in Nat /\ j = i + k
                              /\ HasCalls(ms[i]) /\ k \in 1..Len(ms[i].calls)
                              /\ \A l \in 1..k - 1 : IsTool(ms[i + l]) /\ ms[i + l].of = <<i, l>>
          BY DEF ResultsFollow
      <3>1. j # Len(msgs) + 1
            BY <2>3, NewMessages
      <3>2. j \in 1..Len(msgs) /\ ms[j] = msgs[j]
            BY <1>1, <2>3, <3>1
      <3> DEFINE i == msgs[j].of[1]
                 k == msgs[j].of[2]
      <3>3. /\ i \in 1..j - 1 /\ k \in Nat /\ j = i + k
            /\ HasCalls(msgs[i]) /\ k \in 1..Len(msgs[i].calls)
            /\ \A l \in 1..k - 1 : IsTool(msgs[i + l]) /\ msgs[i + l].of = <<i, l>>
            BY <3>2 DEF ResultsFollow
      <3> HIDE DEF i, k
      <3>4. i \in 1..Len(msgs) /\ \A l \in 1..k - 1 : i + l \in 1..Len(msgs)
        <4>1. j \in 1..Len(msgs) /\ i \in 1..j - 1 /\ k \in Nat /\ j = i + k
              BY <3>2, <3>3
        <4> QED BY <1>1, <4>1
      <3>5. ms[i] = msgs[i] /\ \A l \in 1..k - 1 : ms[i + l] = msgs[i + l]
            BY <2>3, <3>4
      <3>6. /\ i \in 1..j - 1 /\ k \in Nat /\ j = i + k
            /\ HasCalls(ms[i]) /\ k \in 1..Len(ms[i].calls)
            /\ \A l \in 1..k - 1 : IsTool(ms[i + l]) /\ ms[i + l].of = <<i, l>>
            BY <3>3, <3>5
      <3> QED BY <3>2, <3>6 DEF i, k
    <2>7. d \in DcpOf(Len(ms)) /\ d.ranges = dcp.ranges
      <3>1. w \in {"low", "mid", "high"}
            BY <1>1 DEF DcpOf
      <3> DEFINE n == Len(ms)
      <3>2. n \in Nat /\ n = Len(msgs) + 1
            BY <1>1, <2>3
      <3> HIDE DEF ms, w, n
      <3>3. dcp \in DcpOf(n)
            BY <1>1, <3>2, DcpGrows
      <3>4. dcp.turn + 1 \in 0..n
            BY <1>1, <3>2 DEF DcpOf
      <3>5. d \in DcpOf(n) /\ d.ranges = dcp.ranges
            BY <3>1, <3>2, <3>3, <3>4 DEF DcpOf
      <3> QED BY <3>5 DEF n
    <2> HIDE DEF ms, d
    <2>8. 0 \in 0..MaxSteps
          BY BoundsAssumption
    <2>9. CASE Rebuild(ms, d, 0)
          BY <1>5, <2>3, <2>5, <2>6, <2>7, <2>8, <2>9
    <2>10. CASE dcp' = d /\ request' = Plain(ms) /\ upTo' = Len(ms)
      <3> SUFFICES ASSUME Guarded(msgs', d.ranges, Len(ms)) PROVE Shape(request', msgs', Len(ms))
          BY <2>10 DEF Shaped
      <3> QED BY <2>3, <2>5, <2>6, <2>7, <2>8, <2>10, ShapeRebuilt
    <2> QED BY <2>1, <2>9, <2>10
  <1> QED BY <1>8, <1>9, <1>10, <1>11, <1>12, <1>13, <1>14, <1>15 DEF Next, Handle

\* Between two replies, and with no cancelled run behind, every call has its result.
LEMMA CallsAreDone ==
    ASSUME Typed, ResultsFollow(msgs), ~Busy, ~Dangling,
           NEW i \in 1..Len(msgs), HasCalls(msgs[i]), NEW k \in 1..Len(msgs[i].calls)
    PROVE  HasResult(msgs, i, k)
  <1>1. Len(msgs) \in Nat /\ DOMAIN msgs = 1..Len(msgs) /\ msgs \in Seq(Message)
        BY LenProperties DEF Typed
  <1>2. ~Executing(i)
        BY DEF Executing, Busy
  <1>3. Done(i) = DOMAIN msgs[i].calls
        BY <1>1, <1>2 DEF Dangling
  <1>4. k \in DOMAIN msgs[i].calls
        BY <1>1, CallsOf
  <1>5. PICK j \in DOMAIN msgs : IsTool(msgs[j]) /\ msgs[j].of = <<i, k>>
        BY <1>3, <1>4 DEF Done
  <1>6. j = i + k
        BY <1>1, <1>5 DEF ResultsFollow
  <1> QED BY <1>1, <1>5, <1>6 DEF HasResult

\* In a list of that shape each result stands behind its call,
LEMMA ShapeBehind ==
    ASSUME Typed, ResultsFollow(msgs), Shape(request, msgs, upTo)
    PROVE  BehindCalls(request)
  <1>1. /\ msgs \in Seq(Message) /\ Len(msgs) \in Nat /\ upTo \in 0..Len(msgs)
        /\ request \in Seq(Entry(Len(msgs))) /\ Len(request) \in Nat
        /\ DOMAIN request = 1..Len(request)
        BY LenProperties DEF Typed
  <1> SUFFICES ASSUME NEW i \in 1..Len(request), request[i].src # 0, IsTool(msgs[request[i].src])
               PROVE  \E h \in 1 .. i - 1 :
                         /\ request[h].src = msgs[request[i].src].of[1]
                         /\ \A g \in h + 1 .. i - 1 :
                                /\ request[g].src # 0 /\ IsTool(msgs[request[g].src])
                                /\ msgs[request[g].src].of[1] = request[h].src
      BY <1>1 DEF BehindCalls
  <1> DEFINE s == request[i].src
             c == msgs[s].of[1]
             k == msgs[s].of[2]
  <1>2. s \in 1..Len(msgs) /\ s = request[i].src
    <2>1. request[i] \in Entry(Len(msgs))
          BY <1>1, ElementOfSeq
    <2> QED BY <1>1, <2>1 DEF Entry
  <1>3. ShapeAt(request, msgs, upTo, i) /\ IsTool(msgs[s])
        BY DEF Shape
  <1>4. c = msgs[s].of[1] /\ k = msgs[s].of[2]
        OBVIOUS
  <1> HIDE DEF s, c, k
  <1>5. /\ c \in 1..Len(msgs) /\ c < s /\ k \in Nat \ {0} /\ s = c + k
        /\ \A l \in 1..k : HasResult(msgs, c, l) /\ IsTool(msgs[c + l])
        BY <1>1, <1>2, <1>3, <1>4, ResultStands
  <1>6. CASE s <= upTo
    <2>1. i > k /\ \A l \in 1..k : request[i - l].src = s - l
          BY <1>2, <1>3, <1>4, <1>6 DEF ShapeAt
    <2> DEFINE h == i - k
    <2>2. h \in 1..i - 1 /\ request[h].src = c
      <3>1. k \in 1..k /\ s - k = c
            BY <1>2, <1>5
      <3> QED BY <1>1, <1>5, <2>1, <3>1
    <2>3. ASSUME NEW g \in h + 1 .. i - 1
          PROVE  request[g].src # 0 /\ IsTool(msgs[request[g].src]) /\ msgs[request[g].src].of[1] = c
      <3> DEFINE l == i - g
                 x == k - l
      <3>1. l \in 1..k /\ x \in 1..k /\ i - l = g /\ s - l = c + x /\ c + x # 0
            BY <1>2, <1>5, <2>1
      <3> HIDE DEF l, x
      <3>2. request[g].src = c + x
            BY <2>1, <3>1
      <3>3. HasResult(msgs, c, x)
            BY <1>5, <3>1
      <3> QED BY <3>1, <3>2, <3>3 DEF HasResult
    <2> HIDE DEF h
    <2> QED BY <1>2, <1>4, <2>2, <2>3
  <1>7. CASE s > upTo
    <2>1. ~HasCalls(msgs[s])
      <3>1. msgs[s] \in Message
            BY <1>1, <1>2, ElementOfSeq
      <3> QED BY <1>3, <3>1, MessageKinds
    <2>2. i > 1 /\ request[i - 1].src = c
          BY <1>2, <1>3, <1>4, <1>7, <2>1 DEF ShapeAt
    <2>3. i - 1 \in 1..i - 1 /\ i - 1 + 1 .. i - 1 = {}
          BY <1>1, <2>2
    <2> QED BY <1>2, <1>4, <2>2, <2>3
  <1> QED BY <1>1, <1>2, <1>6, <1>7

\* and it is well formed when every call is done and the younger steps are of one call.
LEMMA ShapeWellFormed ==
    ASSUME Typed, ResultsFollow(msgs), ~Busy, ~Dangling, OneCallSteps, Shape(request, msgs, upTo)
    PROVE  WellFormed(request)
  <1>1. /\ msgs \in Seq(Message) /\ Len(msgs) \in Nat /\ upTo \in 0..Len(msgs)
        /\ request \in Seq(Entry(Len(msgs))) /\ Len(request) \in Nat
        /\ DOMAIN request = 1..Len(request)
        BY LenProperties DEF Typed
  <1>2. \A i \in 1..Len(request) : request[i].src \in 0..Len(msgs)
    <2>1. \A i \in 1..Len(request) : request[i] \in Entry(Len(msgs))
          BY <1>1, ElementOfSeq
    <2> QED BY <2>1 DEF Entry
  <1>3. NoneLate(msgs, upTo)
        BY DEF NoneLate, OneCallSteps, Since
  <1> SUFFICES ASSUME NEW i \in 1..Len(request), request[i].src # 0
               PROVE  LET m == msgs[request[i].src]
                      IN  /\ HasCalls(m) =>
                               \A k \in DOMAIN m.calls :
                                   /\ i + k \in DOMAIN request /\ RoleOf(request[i + k], msgs) = "tool"
                                   /\ msgs[request[i + k].src].of = <<request[i].src, k>>
                          /\ IsTool(m) => i > m.of[2] /\ request[i - m.of[2]].src = m.of[1]
      BY <1>1 DEF WellFormed
  <1> DEFINE s == request[i].src
  <1>4. s \in 1..Len(msgs) /\ s = request[i].src
        BY <1>1, <1>2
  <1>5. ShapeAt(request, msgs, upTo, i)
        BY DEF Shape
  <1> HIDE DEF s
  <1>6. ASSUME HasCalls(msgs[s]), NEW k \in DOMAIN msgs[s].calls
        PROVE  /\ i + k \in DOMAIN request /\ RoleOf(request[i + k], msgs) = "tool"
               /\ msgs[request[i + k].src].of = <<s, k>>
    <2>1. k \in 1..Len(msgs[s].calls) /\ Len(msgs[s].calls) \in Nat
          BY <1>1, <1>4, <1>6, CallsOf
    <2>2. HasResult(msgs, s, k)
          BY <1>4, <1>6, <2>1, CallsAreDone
    <2>3. CASE s <= upTo
      <3>1. i + k \in 1..Len(request) /\ request[i + k].src = s + k
            BY <1>3, <1>4, <1>5, <1>6, <2>1, <2>2, <2>3 DEF ShapeAt
      <3>2. s + k # 0
            BY <1>4, <2>1
      <3> QED BY <1>1, <2>2, <3>1, <3>2 DEF HasResult, RoleOf, IsTool
    <2>4. CASE s > upTo
      <3>1. ~IsTool(msgs[s])
        <4>1. msgs[s] \in Message
              BY <1>1, <1>4, ElementOfSeq
        <4> QED BY <1>6, <4>1, MessageKinds
      <3> DEFINE t == request[i + 1].src
      <3>2. /\ i + 1 \in 1..Len(request) /\ t # 0 /\ IsTool(msgs[t]) /\ msgs[t].of[1] = s
            BY <1>1, <1>4, <1>5, <2>4, <3>1 DEF ShapeAt
      <3>3. t \in 1..Len(msgs) /\ t = request[i + 1].src
            BY <1>1, <1>2, <3>2
      <3> HIDE DEF t
      <3>4. /\ s < t /\ msgs[t].of = <<s, msgs[t].of[2]>>
            /\ msgs[t].of[2] \in 1..Len(msgs[s].calls)
            BY <1>1, <3>2, <3>3, ResultStands
      <3>5. t \in Since
        <4>1. t \in upTo + 1 .. Len(msgs)
              BY <1>1, <1>4, <2>4, <3>3, <3>4
        <4> QED BY <3>2, <4>1 DEF Since
      <3>6. Len(msgs[s].calls) = 1
            BY <3>2, <3>5 DEF OneCallSteps
      <3>7. k = 1 /\ msgs[t].of = <<s, k>>
        <4>1. k = 1 /\ msgs[t].of[2] = 1
              BY <2>1, <3>4, <3>6
        <4> QED BY <3>4, <4>1
      <3> QED BY <1>1, <3>2, <3>3, <3>7 DEF RoleOf, IsTool
    <2> QED BY <1>1, <1>4, <2>3, <2>4
  <1>7. ASSUME IsTool(msgs[s])
        PROVE  i > msgs[s].of[2] /\ request[i - msgs[s].of[2]].src = msgs[s].of[1]
    <2> DEFINE c == msgs[s].of[1]
               k == msgs[s].of[2]
    <2>1. c = msgs[s].of[1] /\ k = msgs[s].of[2]
          OBVIOUS
    <2> HIDE DEF c, k
    <2>2. /\ c \in 1..Len(msgs) /\ c < s /\ k \in Nat \ {0} /\ s = c + k
          /\ k \in 1..Len(msgs[c].calls)
          BY <1>1, <1>4, <1>7, <2>1, ResultStands
    <2>3. CASE s <= upTo
      <3>1. i > k /\ \A l \in 1..k : request[i - l].src = s - l
            BY <1>4, <1>5, <1>7, <2>1, <2>3 DEF ShapeAt
      <3>2. k \in 1..k /\ s - k = c
            BY <1>4, <2>2
      <3> QED BY <2>1, <3>1, <3>2
    <2>4. CASE s > upTo
      <3>1. ~HasCalls(msgs[s])
        <4>1. msgs[s] \in Message
              BY <1>1, <1>4, ElementOfSeq
        <4> QED BY <1>7, <4>1, MessageKinds
      <3>2. i > 1 /\ request[i - 1].src = c
            BY <1>4, <1>5, <2>1, <2>4, <3>1 DEF ShapeAt
      <3>3. s \in Since
            BY <1>1, <1>4, <1>7, <2>4 DEF Since
      <3>4. Len(msgs[c].calls) = 1
            BY <2>1, <3>3 DEF OneCallSteps
      <3>5. k = 1
            BY <2>2, <3>4
      <3> QED BY <2>1, <3>2, <3>5
    <2> QED BY <1>1, <1>4, <2>3, <2>4
  <1> QED BY <1>4, <1>6, <1>7

\* The invariant holds at first and is kept.
LEMMA InitIInv == Init => IInv
  <1> SUFFICES ASSUME Init PROVE IInv
      OBVIOUS
  <1>1. /\ msgs = <<>> /\ dcp = NewDCPState /\ enabled = TRUE /\ toggles = 0 /\ pc = "idle"
        /\ step = 0 /\ empties = 0 /\ call = 0 /\ compressed = FALSE /\ request = <<>> /\ upTo = 0
        BY DEF Init
  <1>2. /\ MaxSteps \in Nat \ {0} /\ MaxMsgs \in Nat /\ DcpToggles \in Nat
        BY BoundsAssumption
  <1>3. msgs \in Seq(Message) /\ Len(msgs) = 0 /\ request \in Seq(Entry(0))
        BY <1>1
  <1>4. dcp \in DcpOf(0) /\ dcp.errors = {} /\ \A t \in Tools : dcp.seen[t] = 0
    <2>1. /\ <<>> \in Seq(RangesIn(0)) /\ [t \in Tools |-> 0] \in [Tools -> 0..MaxMsgs]
          /\ {} \in SUBSET [call : Calls, idx : 1..MaxMsgs, turn : 1..MaxMsgs]
          /\ 0 \in 0..0 /\ "low" \in {"low", "mid", "high"} /\ 0 \in 0..MaxSteps
          BY <1>2
    <2> QED BY <1>1, <2>1 DEF NewDCPState, DcpOf
  <1>5. Typed
    <2>1. /\ 0 <= MaxMsgs /\ 0 \in 0..DcpToggles /\ 0 \in 0..MaxSteps /\ 0 \in 0..2 /\ 0 \in 0..MaxMsgs
          /\ 0 \in 0..0
          BY <1>2
    <2> QED BY <1>1, <1>3, <1>4, <2>1 DEF Typed
  <1>6. ResultsFollow(msgs) /\ Working /\ NoneMissed /\ Shaped
    <2>1. 1..Len(msgs) = {} /\ upTo + 1 .. Len(msgs) = {} /\ 1..Len(request) = {}
          BY <1>1, <1>3
    <2> QED BY <1>1, <2>1 DEF ResultsFollow, Working, Busy, NoneMissed, Missed, Shaped, Shape
  <1>7. Aging /\ Recorded
        BY <1>4 DEF Aging, Recorded
  <1> QED BY <1>5, <1>6, <1>7 DEF IInv

\* Each part is kept by a lemma of its own.
LEMMA NextIInv == IInv /\ [Next]_vars => IInv'
  <1> SUFFICES ASSUME IInv, [Next]_vars PROVE IInv'
      OBVIOUS
  <1>1. /\ Typed /\ ResultsFollow(msgs) /\ Working /\ Aging /\ Recorded /\ NoneMissed
        /\ Shaped
        BY DEF IInv
  <1>2. Typed' /\ ResultsFollow(msgs')
        BY <1>1, TypedStep, ResultsStep
  <1>3. Working' /\ Aging'
        BY <1>1, WorkingStep, AgingStep
  <1>4. Recorded' /\ NoneMissed'
        BY <1>1, RecordedStep, NoneMissedStep
  <1>5. Shaped'
        BY <1>1, ShapedStep
  <1> QED BY <1>2, <1>3, <1>4, <1>5 DEF IInv

\* The invariant that the others follow from: Handle, the pruning and the tools
\* keep it, and so does every way a task can end.
THEOREM TranscriptInvariant == Spec => []IInv
  BY InitIInv, NextIInv, PTL DEF Spec

\* The variables have their types: the ranges, signatures and failures of the
\* pruning are places of the session, whatever was compressed.
THEOREM TranscriptTypes == Spec => []TypeOK
  <1>1. IInv => TypeOK
    <2> SUFFICES ASSUME Typed PROVE TypeOK
        BY DEF IInv
    <2> DEFINE n == Len(msgs)
    <2>1. n \in Nat /\ n <= MaxMsgs /\ MaxMsgs \in Nat
          BY LenProperties, BoundsAssumption DEF Typed
    <2>2. dcp \in DcpOf(n) /\ request \in Seq(Entry(n))
          BY DEF Typed
    <2> HIDE DEF n
    <2>3. dcp.ranges \in Seq([from : 1..MaxMsgs, to : 1..MaxMsgs, told : SUBSET (1..MaxMsgs)])
      <3>1. RangesIn(n) \subseteq [from : 1..MaxMsgs, to : 1..MaxMsgs, told : SUBSET (1..MaxMsgs)]
            BY <2>1 DEF RangesIn
      <3> DEFINE A == RangesIn(n)
                 B == [from : 1..MaxMsgs, to : 1..MaxMsgs, told : SUBSET (1..MaxMsgs)]
                 rs == dcp.ranges
      <3>2. A \subseteq B /\ rs \in Seq(A)
            BY <2>2, <3>1 DEF DcpOf
      <3> HIDE DEF A, B, rs
      <3>3. rs \in Seq(B)
            BY <3>2
      <3> QED BY <3>3 DEF rs, B
    <2>4. /\ dcp.seen \in [Tools -> 0..MaxMsgs]
          /\ dcp.errors \subseteq [call : Calls, idx : 1..MaxMsgs, turn : 1..MaxMsgs]
          /\ dcp.turn \in 0..MaxMsgs /\ dcp.tokens \in {"low", "mid", "high"}
          /\ dcp.lastNudge \in 0..MaxSteps
          BY <2>1, <2>2 DEF DcpOf
    <2>5. \A i \in DOMAIN request : request[i].src \in 0..n
      <3>1. \A i \in DOMAIN request : request[i] \in Entry(n)
            BY <2>2, LenProperties, ElementOfSeq
      <3> QED BY <3>1 DEF Entry
    <2> QED BY <2>3, <2>4, <2>5 DEF Typed, TypeOK, n
  <1> QED BY <1>1, TranscriptInvariant, PTL

\* The LLM is not asked for the next step without the effects of the last one: a
\* tool that ran has its result in the request, however pruning is switched in
\* between (Handle, src/agent.go).
THEOREM TranscriptEffects == Spec => []ExecutedIsShown
  <1>1. IInv => ExecutedIsShown
    <2> SUFFICES ASSUME IInv,
                        NEW i \in {x \in upTo + 1 .. Len(msgs) : \A k \in DOMAIN request : request[k].src # x},
                        IsTool(msgs[i]), msgs[msgs[i].of[1]].calls[msgs[i].of[2]] \in Tools
                 PROVE  FALSE
        BY DEF ExecutedIsShown
    <2>1. DOMAIN request = 1..Len(request)
          BY LenProperties DEF IInv, Typed
    <2>2. i \in Missed(msgs, request, upTo)
          BY <2>1 DEF Missed
    <2> QED BY <2>2 DEF IInv, NoneMissed
  <1> QED BY <1>1, TranscriptInvariant, PTL

\* In every request, however pruning is switched, each result stands behind its call
\* with only results of that call's message in between; and, where no task was
\* aborted inside a tool, each call has its results at once and in order, except that
\* without pruning a message with several calls is repeated for each result and
\* refusals are left out.  Both unless a range cuts a call from its results or a call
\* to compress came since (Handle, src/agent.go:422-459; buildDCPMessages).
THEOREM TranscriptRequests == Spec => []RequestWellFormed
  <1>1. IInv => RequestWellFormed
    <2> SUFFICES ASSUME IInv, pc \in {"llm", "summary"}, ~Cut,
                        \A j \in Since : Call(j) # "compress"
                 PROVE  /\ BehindCalls(request)
                        /\ ~Dangling /\ OneCallSteps => WellFormed(request)
        BY DEF RequestWellFormed
    <2>1. Typed /\ ResultsFollow(msgs) /\ Shaped /\ ~Busy
          BY DEF IInv, Busy
    <2>2. ~CutIn(msgs, dcp.ranges)
          BY DEF CutIn, Cut, Hidden, removeSet
    <2>3. Guarded(msgs, dcp.ranges, upTo)
          BY <2>2 DEF Guarded, Since, Call
    <2>4. Shape(request, msgs, upTo)
          BY <2>1, <2>3 DEF Shaped
    <2> QED BY <2>1, <2>4, ShapeBehind, ShapeWellFormed
  <1> QED BY <1>1, TranscriptInvariant, PTL

\* The view has the entries of list, which has those of short with other ways
\* of showing them, and at most a reminder.
Viewed(n, short, list) ==
    /\ short \in Seq(Entry(n)) /\ list \in Seq(Entry(n)) /\ View \in Seq(Entry(n))
    /\ Len(list) = Len(short) /\ Len(list) \in Nat
    /\ \A i \in 1..Len(list) :
          /\ list[i].src = short[i].src /\ list[i].told = short[i].told
          /\ list[i].shows = "duplicate" => i \in ReplacedAt(short, msgs, dcp.seen)
          /\ list[i].shows = "purged" =>
                /\ RoleOf(list[i], msgs) = "tool" /\ Failed(msgs[list[i].src])
                /\ \E e \in dcp.errors : /\ dcp.turn - e.turn >= PurgeTurns
                                         /\ e.call = msgs[list[i].src].of
    /\ \A q \in DOMAIN View : View[q] = Nudge \/ \E i \in 1..Len(list) : View[q] = list[i]
    /\ \A i \in 1..Len(list) : \E q \in DOMAIN View : View[q] = list[i]

\* The list View shows, without its reminder, and the shorter one it was made of.
LEMMA ViewIs ==
    ASSUME Typed
    PROVE  /\ Len(msgs) \in Nat /\ msgs \in Seq(Message) /\ dcp.ranges \in Seq(RangesIn(Len(msgs)))
           /\ \E short, list, at : /\ Places(short, Len(msgs), dcp.ranges, at)
                                   /\ Viewed(Len(msgs), short, list)
  <1> DEFINE n == Len(msgs)
             short == applyCompression(msgs, dcp.ranges)
             list == Pruned(msgs, dcp)
  <1>1. n \in Nat /\ msgs \in Seq(Message) /\ dcp \in DcpOf(n) /\ dcp.ranges \in Seq(RangesIn(n))
        BY LenProperties DEF Typed, DcpOf
  <1>2. short = applyCompression(msgs, dcp.ranges) /\ list = Pruned(msgs, dcp)
        OBVIOUS
  <1>3. Reminded(View, list, msgs) /\ View \in Seq(Entry(n))
        BY <1>1, BuiltIs DEF View
  <1> HIDE DEF short, list
  <1>4. /\ short \in Seq(Entry(n)) /\ list \in Seq(Entry(n)) /\ Len(list) = Len(short)
        /\ \E at : Places(short, n, dcp.ranges, at)
        /\ \A i \in 1..Len(list) :
              /\ list[i].src = short[i].src /\ list[i].told = short[i].told
              /\ list[i].shows = "duplicate" => i \in ReplacedAt(short, msgs, dcp.seen)
              /\ list[i].shows = "purged" =>
                    /\ RoleOf(list[i], msgs) = "tool" /\ Failed(msgs[list[i].src])
                    /\ \E e \in dcp.errors : /\ dcp.turn - e.turn >= PurgeTurns
                                             /\ e.call = msgs[list[i].src].of
        BY <1>1, <1>2, PrunedIs, SMTT(30)
  <1>5. Len(list) \in Nat /\ DOMAIN list = 1..Len(list) /\ DOMAIN View = 1..Len(View)
        BY <1>3, <1>4, LenProperties
  <1>6. /\ \A q \in DOMAIN View : View[q] = Nudge \/ \E i \in 1..Len(list) : View[q] = list[i]
        /\ \A i \in 1..Len(list) : \E q \in DOMAIN View : View[q] = list[i]
    <2>1. CASE View = list
          BY <1>5, <2>1
    <2>2. ASSUME NEW p \in 1..Len(list) + 1, View = InsertAt(list, p, Nudge)
          PROVE  /\ \A q \in DOMAIN View : View[q] = Nudge \/ \E i \in 1..Len(list) : View[q] = list[i]
                 /\ \A i \in 1..Len(list) : \E q \in DOMAIN View : View[q] = list[i]
      <3> DEFINE v == View
      <3>1. v = InsertAt(list, p, Nudge) /\ DOMAIN v = 1..Len(v)
            BY <1>5, <2>2
      <3> HIDE DEF v
      <3>2. /\ Len(v) = Len(list) + 1
            /\ v[p] = Nudge
            /\ \A j \in 1..Len(list) : j < p => v[j] = list[j]
            /\ \A j \in 1..Len(list) : j >= p => v[j + 1] = list[j]
            /\ \A q \in 1..Len(v) : q # p =>
                  \E j \in 1..Len(list) : (j < p /\ q = j) \/ (j >= p /\ q = j + 1)
        <4>1. n \in Nat /\ list \in Seq(Entry(n)) /\ p \in 1..Len(list) + 1
              BY <1>1, <1>4
        <4> HIDE DEF n
        <4>2. Moved(list, p, v)
              BY <3>1, <4>1, ReminderMoves
        <4> QED BY <4>2 DEF Moved
      <3>3. ASSUME NEW q \in DOMAIN v PROVE v[q] = Nudge \/ \E i \in 1..Len(list) : v[q] = list[i]
        <4>1. CASE q = p
              BY <3>2, <4>1
        <4>2. CASE q # p
          <5>1. PICK j \in 1..Len(list) : (j < p /\ q = j) \/ (j >= p /\ q = j + 1)
                BY <3>1, <3>2, <4>2
          <5>2. v[q] = list[j]
                BY <3>2, <5>1
          <5> QED BY <5>2
        <4> QED BY <4>1, <4>2
      <3>4. ASSUME NEW i \in 1..Len(list) PROVE \E q \in DOMAIN v : v[q] = list[i]
        <4>1. CASE i < p
          <5>1. v[i] = list[i] /\ i \in DOMAIN v
                BY <1>5, <3>1, <3>2, <4>1
          <5> QED BY <5>1
        <4>2. CASE i >= p
          <5>1. v[i + 1] = list[i] /\ i + 1 \in DOMAIN v
                BY <1>5, <3>1, <3>2, <4>2
          <5> QED BY <5>1
        <4> QED BY <1>5, <4>1, <4>2
      <3> QED BY <3>3, <3>4 DEF v
    <2> QED BY <1>3, <2>1, <2>2 DEF Reminded
  <1>7. PICK at : Places(short, n, dcp.ranges, at)
        BY <1>4
  <1>8. Viewed(n, short, list)
        BY <1>3, <1>4, <1>5, <1>6 DEF Viewed
  <1> QED BY <1>1, <1>7, <1>8

\* Only failed results are purged, and only when as many of the user's messages
\* as purgeTurns have come after them (purgeErrorInputs, recordToolError).
THEOREM TranscriptPurges == Spec => []PurgedAreOld
  <1>1. IInv => PurgedAreOld
    <2> SUFFICES ASSUME IInv, NEW q \in DOMAIN View, View[q].shows = "purged"
                 PROVE  /\ Failed(msgs[View[q].src])
                        /\ Cardinality(Users(msgs, View[q].src)) >= PurgeTurns
        BY DEF PurgedAreOld, Users
    <2> DEFINE n == Len(msgs)
               s == View[q].src
    <2>1. Typed /\ ResultsFollow(msgs) /\ Aging
          BY DEF IInv
    <2>2. n \in Nat /\ msgs \in Seq(Message)
          BY <2>1, ViewIs
    <2>3. PICK short, list, at : Places(short, n, dcp.ranges, at) /\ Viewed(n, short, list)
          BY <2>1, ViewIs
    <2>4. PICK i \in 1..Len(list) : View[q] = list[i]
      <3>1. View[q] = Nudge \/ \E i \in 1..Len(list) : View[q] = list[i]
            BY <2>3 DEF Viewed
      <3>2. View[q] # Nudge
            BY DEF Nudge
      <3> QED BY <3>1, <3>2
    <2>5. RoleOf(list[i], msgs) = "tool" /\ Failed(msgs[list[i].src])
          BY <2>3, <2>4 DEF Viewed
    <2>6. PICK e \in dcp.errors : dcp.turn - e.turn >= PurgeTurns /\ e.call = msgs[list[i].src].of
          BY <2>3, <2>4 DEF Viewed
    <2>7. s \in 1..n /\ IsTool(msgs[s])
      <3>1. list[i] \in Entry(n)
            BY <2>3, ElementOfSeq DEF Viewed
      <3>2. s \in 0..n /\ s # 0 /\ IsTool(msgs[s])
            BY <2>4, <2>5, <3>1 DEF Entry, RoleOf, IsTool
      <3> QED BY <2>2, <3>2
    <2>8. e.call = msgs[s].of /\ Failed(msgs[s])
          BY <2>4, <2>5, <2>6
    <2> HIDE DEF n, s
    <2>9. s = e.call[1] + e.call[2]
          BY <2>1, <2>7, <2>8 DEF ResultsFollow, n
    <2>10. Cardinality(Users(msgs, s)) >= dcp.turn - e.turn
           BY <2>1, <2>9 DEF Aging
    <2>11. e.turn \in Nat /\ dcp.turn \in Nat /\ PurgeTurns \in Nat
      <3>1. dcp.turn \in 0..n /\ dcp.errors \in SUBSET [call : Calls, idx : 1..MaxMsgs, turn : 1..MaxMsgs]
            BY <2>1 DEF Typed, DcpOf, n
      <3>2. e.turn \in 1..MaxMsgs
            BY <3>1
      <3> QED BY <2>2, <3>1, <3>2, PruningAssumption, BoundsAssumption
    <2>12. Cardinality(Users(msgs, s)) \in Nat
      <3>1. Longer(msgs, msgs)
            BY <2>1, StaysQuiet DEF Quiet, Typed
      <3>2. s \in Nat \ {0}
            BY <2>2, <2>7
      <3> QED BY <2>2, <3>1, <3>2, UsersGrow
    <2>13. Cardinality(Users(msgs, s)) >= PurgeTurns
           BY <2>6, <2>10, <2>11, <2>12
    <2> QED BY <2>8, <2>13 DEF s
  <1> QED BY <1>1, TranscriptInvariant, PTL

\* Each message of the session is shown or told of, as long as the summaries tell
\* of what they hide (applyCompression, metaSummarize, buildDCPMessages).
THEOREM TranscriptKeeps == Spec => []NothingLost
  <1>1. IInv => NothingLost
    <2> SUFFICES ASSUME IInv, Filled(dcp.ranges)
                 PROVE  UNION {View[i].told : i \in DOMAIN View} = DOMAIN msgs
        BY DEF NothingLost
    <2> DEFINE n == Len(msgs)
               rs == dcp.ranges
    <2>1. Typed
          BY DEF IInv
    <2>2. n \in Nat /\ msgs \in Seq(Message) /\ rs \in Seq(RangesIn(n)) /\ DOMAIN msgs = 1..n
          BY <2>1, ViewIs, LenProperties
    <2>3. PICK short, list, at : Places(short, n, rs, at) /\ Viewed(n, short, list)
          BY <2>1, ViewIs
    <2>4. Told(rs) = removeSet(rs)
          BY DEF Filled, Hidden, removeSet
    <2> HIDE DEF n, rs
    <2>5. /\ Len(short) \in Nat
          /\ \A i \in 1..n : i \notin removeSet(rs) => at[i] \in 1..Len(short) /\ short[at[i]].src = i
          BY <2>2, <2>3, PlaceOf
    <2>6. ASSUME NEW q \in DOMAIN View PROVE View[q].told \subseteq 1..n
      <3>1. View[q] \in Entry(n)
            BY <2>3, LenProperties, ElementOfSeq DEF Viewed
      <3> QED BY <3>1 DEF Entry
    <2>7. ASSUME NEW x \in 1..n PROVE \E q \in DOMAIN View : x \in View[q].told
      <3>1. \E p \in 1..Len(short) : x \in short[p].told
        <4>1. CASE x \notin removeSet(rs)
          <5>1. at[x] \in 1..Len(short) /\ short[at[x]] = Shown(x)
                BY <2>3, <4>1 DEF Places
          <5> QED BY <5>1 DEF Shown
        <4>2. CASE x \in removeSet(rs)
          <5>1. x \in Told(rs)
                BY <2>4, <4>2
          <5>2. PICK k \in DOMAIN rs : x \in rs[k].told
                BY <5>1 DEF Told
          <5>3. PICK p \in 1..Len(short) : short[p] = SummaryOf(rs[k])
                BY <2>3 DEF Places
          <5> QED BY <5>2, <5>3 DEF SummaryOf
        <4> QED BY <4>1, <4>2
      <3>2. PICK p \in 1..Len(short) : x \in short[p].told
            BY <3>1
      <3>3. p \in 1..Len(list) /\ x \in list[p].told
            BY <2>3, <3>2 DEF Viewed
      <3>4. PICK q \in DOMAIN View : View[q] = list[p]
            BY <2>3, <3>3 DEF Viewed
      <3> QED BY <3>3, <3>4
    <2> QED BY <2>2, <2>6, <2>7
  <1> QED BY <1>1, TranscriptInvariant, PTL

\* A result that is replaced by the duplicate's note has an earlier result of the
\* same call in the session, unless ranges overlap after a failed compression, a
\* call was aborted, or a range cuts a call from its result (deduplicateToolCalls).
THEOREM TranscriptDuplicates == Spec => []DuplicateHasOriginal
  <1>1. IInv => DuplicateHasOriginal
    <2> DEFINE CallOf(j) == msgs[msgs[j].of[1]].calls[msgs[j].of[2]]
    <2> SUFFICES ASSUME IInv, ~Torn, ~Dangling, ~Cut, NEW q \in DOMAIN View,
                        View[q].shows = "duplicate", RoleOf(View[q], msgs) = "tool"
                 PROVE  \E j \in 1 .. View[q].src - 1 : IsTool(msgs[j]) /\ CallOf(j) = CallOf(View[q].src)
        BY DEF DuplicateHasOriginal
    <2> DEFINE n == Len(msgs)
               rs == dcp.ranges
               s == View[q].src
    <2>1. Typed /\ ResultsFollow(msgs) /\ Working /\ Recorded
          BY DEF IInv
    <2>2. /\ n \in Nat /\ msgs \in Seq(Message) /\ rs \in Seq(RangesIn(n)) /\ DOMAIN msgs = 1..n
          BY <2>1, ViewIs, LenProperties
    <2>3. PICK short, list, at : Places(short, n, rs, at) /\ Viewed(n, short, list)
          BY <2>1, ViewIs
    <2>4. PICK p \in 1..Len(list) : View[q] = list[p]
          BY <2>3 DEF Viewed, Nudge
    <2>5. /\ Len(short) \in Nat
          /\ \A i \in 1..Len(short) : short[i].src # 0 =>
                /\ short[i].src \in 1..n /\ short[i].src \notin removeSet(rs)
                /\ i = at[short[i].src]
          /\ \A i \in 1..n : i \notin removeSet(rs) => at[i] \in 1..Len(short) /\ short[at[i]].src = i
      <3> HIDE DEF n, rs
      <3> QED BY <2>2, <2>3, PlaceOf
    <2>6. /\ p \in 1..Len(short) /\ short[p].src = s /\ p \in ReplacedAt(short, msgs, dcp.seen)
          BY <2>3, <2>4 DEF Viewed
    <2>7. s # 0 /\ IsTool(msgs[s])
          BY DEF RoleOf, IsTool
    <2>8. s \in 1..n /\ s \notin removeSet(rs) /\ p = at[s]
          BY <2>5, <2>6, <2>7
    <2> HIDE DEF s
    <2>9. Apart(rs)
      <3>1. rs = mergeOverlappingRanges(rs)
            BY DEF Torn
      <3> HIDE DEF rs, n
      <3>2. Separated(rs)
            BY <2>2, <3>1, MergedIs
      <3> QED BY <2>2, <3>2, SeparatedApart
    <2>10. \A i \in 0..n : at[i] <= i
          BY <2>3, <2>9 DEF Places
    <2>11. Uncut(msgs, rs)
      <3>1. ~CutIn(msgs, rs)
            BY DEF CutIn, Cut, Hidden, removeSet
      <3> QED BY <2>2, <3>1, UncutIs
    <2> DEFINE b == msgs[s].of[1]
               k == msgs[s].of[2]
    <2>12. /\ b \in 1..s - 1 /\ k \in Nat /\ s = b + k /\ HasCalls(msgs[b])
           /\ k \in 1..Len(msgs[b].calls)
           /\ \A l \in 1..k - 1 : IsTool(msgs[b + l]) /\ msgs[b + l].of = <<b, l>>
           BY <2>1, <2>7, <2>8 DEF ResultsFollow
    <2> HIDE DEF b, k, n, rs
    <2>13. b \in 1..n /\ b + k <= n /\ b < s /\ s <= n
           BY <2>2, <2>8, <2>12
    <2>14. Len(msgs[b].calls) \in Nat \ {0} /\ DOMAIN msgs[b].calls = 1..Len(msgs[b].calls)
           BY <2>2, <2>12, <2>13, CallsOf DEF n
    <2>15. AllShown(rs, b, k)
      <3>1. s \in b .. b + Len(msgs[b].calls)
            BY <2>2, <2>8, <2>12, <2>13, <2>14
      <3>2. \A j \in b .. b + Len(msgs[b].calls) : j \notin removeSet(rs)
            BY <2>8, <2>11, <2>12, <2>13, <3>1 DEF Uncut, n
      <3>3. \A j \in b .. b + k : j \in b .. b + Len(msgs[b].calls)
            BY <2>12, <2>13, <2>14
      <3> QED BY <3>2, <3>3 DEF AllShown
    <2>16. InARow(at, b, k)
           BY <2>2, <2>3, <2>12, <2>13, <2>15, BlockShown
    \* The assistant message before the result is that of its call.
    <2> DEFINE a == at[b]
    <2>17. /\ a \in 1..Len(short) /\ short[a].src = b /\ p = a + k /\ a <= b
           /\ \A l \in 1..k : short[a + l].src = b + l
      <3>1. b \in b .. b + k /\ k \in 0..k /\ b \in 0..n
            BY <2>12, <2>13
      <3>2. a \in 1..Len(short) /\ short[a].src = b /\ a <= b
            BY <2>5, <2>10, <2>13, <2>15, <3>1 DEF AllShown
      <3>3. p = a + k
            BY <2>8, <2>12, <2>16, <3>1 DEF InARow
      <3>4. ASSUME NEW l \in 1..k PROVE short[a + l].src = b + l
        <4>1. l \in 0..k /\ b + l \in b .. b + k /\ b + l \in 1..n
              BY <2>2, <2>12, <2>13
        <4>2. at[b + l] = a + l
              BY <2>16, <4>1 DEF InARow
        <4>3. short[at[b + l]].src = b + l
              BY <2>5, <2>15, <4>1 DEF AllShown
        <4> QED BY <4>2, <4>3
      <3> QED BY <3>2, <3>3, <3>4
    <2> HIDE DEF a
    <2> DEFINE As == AssistantsTo(short, msgs, p)
    <2>18. As # {} /\ Max(As) = a
      <3>1. a \in As
        <4>1. RoleOf(short[a], msgs) = "assistant"
              BY <2>12, <2>13, <2>17 DEF RoleOf, HasCalls
        <4>2. a \in 1..p
              BY <2>12, <2>17
        <4> QED BY <4>1, <4>2 DEF AssistantsTo
      <3>2. ASSUME NEW x \in As PROVE x <= a
        <4>1. x \in 1..p /\ RoleOf(short[x], msgs) = "assistant"
              BY <3>2 DEF AssistantsTo
        <4>2. SUFFICES ASSUME x > a PROVE FALSE
              BY <2>17, <4>1
        <4>3. x - a \in 1..k /\ a + (x - a) = x
              BY <2>12, <2>17, <4>1, <4>2
        <4>4. short[x].src = b + (x - a)
              BY <2>17, <4>3
        <4>5. IsTool(msgs[b + (x - a)])
          <5>1. CASE x - a = k
                BY <2>7, <2>12, <5>1
          <5>2. CASE x - a # k
            <6>1. x - a \in 1..k - 1
                  BY <2>12, <4>3, <5>2
            <6> QED BY <2>12, <6>1
          <5> QED BY <5>1, <5>2
        <4>6. b + (x - a) # 0
              BY <2>13, <4>3
        <4> QED BY <4>1, <4>4, <4>5, <4>6 DEF RoleOf, IsTool
      <3>3. As \in SUBSET (0..Len(short)) /\ As # {}
            BY <2>5, <2>6, <3>1 DEF AssistantsTo
      <3> HIDE DEF As
      <3>4. Max(As) \in As /\ \A y \in As : Max(As) >= y
            BY <2>5, <3>3, MaxOf
      <3> DEFINE mx == Max(As)
      <3>5. mx \in As /\ mx >= a /\ mx <= a
            BY <3>1, <3>2, <3>4
      <3>6. mx \in 0..Len(short) /\ a \in 0..Len(short)
            BY <3>1, <3>3, <3>5
      <3> HIDE DEF mx
      <3>7. mx = a
            BY <2>5, <3>5, <3>6
      <3> QED BY <3>3, <3>7 DEF mx
    <2>19. RepeatedAt(short, msgs, dcp.seen, a)
      <3>1. ~RepeatedAt(short, msgs, dcp.seen, p)
        <4>1. msgs[s] \in Message
              BY <2>2, <2>8, ElementOfSeq DEF n
        <4>2. ~HasCalls(msgs[s])
              BY <2>7, <4>1, MessageKinds
        <4> QED BY <2>6, <4>2 DEF RepeatedAt
      <3> QED BY <2>6, <2>18, <3>1 DEF ReplacedAt
    <2> DEFINE t == msgs[b].calls[k]
    <2>20. t \in Tools /\ dcp.seen[t] # 0 /\ dcp.seen[t] < a
      <3>1. k \in DOMAIN msgs[b].calls
            BY <2>12, <2>14
      <3> QED BY <2>17, <2>19, <3>1 DEF RepeatedAt, IsDuplicate
    <2> HIDE DEF t
    <2>21. PICK c \in Nat, m \in Nat : /\ FirstIs(msgs, t, dcp.seen[t], c, m)
                                       /\ Busy /\ c = Current => m < call \/ (m = call /\ pc = "running")
           BY <2>1, <2>20 DEF Recorded
    <2>22. /\ c \in 1..n /\ HasCalls(msgs[c]) /\ m \in 1..Len(msgs[c].calls)
           /\ msgs[c].calls[m] = t /\ dcp.seen[t] = c + m - 1
           BY <2>21 DEF FirstIs, n
    <2>23. c + m \in 1..s - 1
           BY <2>2, <2>8, <2>12, <2>13, <2>17, <2>20, <2>21, <2>22
    <2>24. IsTool(msgs[c + m]) /\ msgs[c + m].of = <<c, m>>
      <3>1. CASE Executing(c)
        <4>1. Busy /\ c = Current /\ Len(msgs) = c + call - 1
              BY <2>1, <3>1 DEF Executing, Busy, Working
        <4>2. call \in Nat
              BY <2>1, BoundsAssumption DEF Typed
        <4>3. m < call \/ m = call
              BY <2>21, <4>1
        <4>4. m < call
              BY <2>2, <2>8, <2>21, <2>23, <4>1, <4>2, <4>3 DEF n
        <4>5. m \in 1..call - 1
              BY <2>22, <4>2, <4>4
        <4> QED BY <2>1, <4>1, <4>5 DEF Working
      <3>2. CASE ~Executing(c)
        <4>1. Done(c) = DOMAIN msgs[c].calls
              BY <2>2, <2>22, <3>2 DEF Dangling
        <4>2. m \in DOMAIN msgs[c].calls
              BY <2>2, <2>22, CallsOf DEF n
        <4>3. PICK j \in DOMAIN msgs : IsTool(msgs[j]) /\ msgs[j].of = <<c, m>>
              BY <4>1, <4>2 DEF Done
        <4>4. j = c + m
              BY <2>1, <2>2, <4>3 DEF ResultsFollow, n
        <4> QED BY <4>3, <4>4
      <3> QED BY <3>1, <3>2
    <2>25. CallOf(c + m) = t /\ CallOf(s) = t
           BY <2>22, <2>24 DEF b, k, t
    <2> QED BY <2>23, <2>24, <2>25 DEF s
  <1> QED BY <1>1, TranscriptInvariant, PTL

\* A whole range tells of what it hides.
LEMMA WholeTold ==
    ASSUME NEW n \in Nat, NEW rs \in Seq(RangesIn(n)), Whole(rs)
    PROVE  Told(rs) = removeSet(rs)
  BY DEF Whole, Told, removeSet

\* One range over all of them.
LEMMA MetaHides ==
    ASSUME NEW n \in Nat, NEW rs \in Seq(RangesIn(n)), rs # <<>>, NEW new, new = metaSummarize(rs)
    PROVE  /\ Len(new) = 1 /\ Told(new) = Told(rs)
           /\ Hidden(new) = Min(removeSet(rs)) .. Max(removeSet(rs))
  <1> DEFINE from == Min({rs[i].from : i \in DOMAIN rs})
             to   == Max({rs[i].to : i \in DOMAIN rs})
             r    == [from |-> from, to |-> to, told |-> Told(rs)]
             D    == removeSet(rs)
  <1>1. /\ new = <<r>> /\ r \in RangesIn(n)
        /\ (\E i \in DOMAIN rs : from = rs[i].from) /\ (\A i \in DOMAIN rs : from <= rs[i].from)
        /\ (\E i \in DOMAIN rs : to = rs[i].to) /\ (\A i \in DOMAIN rs : rs[i].to <= to)
        BY MetaIs
  <1> HIDE DEF from, to
  <1>2. ASSUME NEW i \in DOMAIN rs
        PROVE  /\ rs[i].from \in 1..n /\ rs[i].to \in 1..n /\ rs[i].from <= rs[i].to
    <2>1. rs[i] \in RangesIn(n)
          BY LenProperties, ElementOfSeq
    <2> QED BY <2>1 DEF RangesIn
  <1>3. from \in 1..n /\ to \in 1..n
        BY <1>1, <1>2
  <1>4. ASSUME NEW x \in D PROVE x \in Nat /\ x \in 0..n /\ from <= x /\ x <= to
    <2>1. PICK i \in DOMAIN rs : x \in rs[i].from .. rs[i].to
          BY DEF removeSet
    <2>2. from <= rs[i].from /\ rs[i].to <= to
          BY <1>1
    <2> QED BY <1>2, <1>3, <2>1, <2>2
  <1>5. from \in D /\ to \in D
    <2>1. PICK i \in DOMAIN rs : from = rs[i].from
          BY <1>1
    <2>2. PICK j \in DOMAIN rs : to = rs[j].to
          BY <1>1
    <2>3. from \in rs[i].from .. rs[i].to /\ to \in rs[j].from .. rs[j].to
          BY <1>2, <2>1, <2>2
    <2> QED BY <2>3 DEF removeSet
  <1> HIDE DEF D
  <1>6. Min(D) = from
        BY <1>4, <1>5, MinIs
  <1>7. Max(D) = to
    <2>1. D \in SUBSET (0..n) /\ \A y \in D : y <= to
          BY <1>4
    <2> QED BY <1>5, <2>1, MaxIs
  <1>8. r.from = from /\ r.to = to /\ r.told = Told(rs)
        OBVIOUS
  <1> HIDE DEF r
  <1>9. Len(new) = 1 /\ DOMAIN new = {1} /\ new[1] = r
        BY <1>1
  <1>10. Hidden(new) = from .. to /\ Told(new) = Told(rs)
         BY <1>8, <1>9 DEF Hidden, Told
  <1> QED BY <1>6, <1>7, <1>9, <1>10 DEF D

\* After a compression the ranges are the maximal runs, or one range.
LEMMA CompressedExact ==
    ASSUME NEW n \in Nat, NEW old \in Seq(RangesIn(n)), Whole(old), NEW rs, Compressed(n, old, rs)
    PROVE  LET told == Told(rs)
               runs == {i \in told : i + 1 \notin told}
           IN  /\ Told(old) \subseteq told
               /\ IF Cardinality(runs) > Cap
                  THEN Len(rs) = 1 /\ Hidden(rs) = Min(told) .. Max(told)
                  ELSE /\ Whole(rs)
                       /\ \A i \in 1 .. Len(rs) - 1 : rs[i].to + 1 < rs[i + 1].from
  <1>1. PICK merged \in Seq(RangesIn(n)) :
           /\ merged # <<>> /\ Separated(merged)
           /\ Whole(old) => Whole(merged)
           /\ removeSet(old) \subseteq removeSet(merged)
           /\ rs = IF Len(merged) > Cap THEN metaSummarize(merged) ELSE merged
        BY DEF Compressed
  <1> DEFINE D == removeSet(merged)
  <1>2. Told(merged) = D /\ Told(old) \subseteq D
        BY <1>1, WholeTold
  <1>3. Cardinality({x \in D : x + 1 \notin D}) = Len(merged)
        BY <1>1, RunsAre
  <1>4. CASE Len(merged) > Cap
    <2>1. rs = metaSummarize(merged)
          BY <1>1, <1>4
    <2>2. Len(rs) = 1 /\ Told(rs) = Told(merged) /\ Hidden(rs) = Min(D) .. Max(D)
          BY <1>1, <2>1, MetaHides
    <2> HIDE DEF D
    <2>3. Told(rs) = D
          BY <1>2, <2>2
    <2> QED BY <1>2, <1>3, <1>4, <2>2, <2>3
  <1>5. CASE ~(Len(merged) > Cap)
    <2>1. rs = merged
          BY <1>1, <1>5
    <2>2. Told(rs) = D
          BY <1>2, <2>1
    <2>3. Whole(rs) /\ \A i \in 1 .. Len(rs) - 1 : rs[i].to + 1 < rs[i + 1].from
          BY <1>1, <2>1 DEF Separated
    <2> HIDE DEF D
    <2> QED BY <1>2, <1>3, <1>5, <2>2, <2>3
  <1> QED BY <1>4, <1>5

\* After a compression the ranges are the maximal runs of what was summarised so
\* far or, beyond the cap, one range over all of them; and no summary is
\* forgotten, as long as each range told of what it hid (execCompress,
\* mergeOverlappingRanges, metaSummarize).
THEOREM TranscriptCompresses == Spec => CompressionIsExact
  <1>1. ASSUME IInv, [Next]_vars, compressed', ~compressed, Whole(dcp.ranges)
        PROVE  LET rs   == dcp'.ranges
                   told == Told(rs)
                   runs == {i \in told : i + 1 \notin told}
               IN  /\ Told(dcp.ranges) \subseteq told
                   /\ IF Cardinality(runs) > Cap
                      THEN Len(rs) = 1 /\ Hidden(rs) = Min(told) .. Max(told)
                      ELSE /\ Whole(rs)
                           /\ \A i \in 1 .. Len(rs) - 1 : rs[i].to + 1 < rs[i + 1].from
    <2> DEFINE n == Len(msgs)
               Outcome(args) == execCompress(dcp.ranges, args, n)
               After(args) == [dcp EXCEPT !.ranges = Outcome(args).ranges]
    <2>1. /\ n \in Nat /\ dcp \in DcpOf(n) /\ dcp.ranges \in Seq(RangesIn(n))
          BY <1>1, LenProperties DEF IInv, Typed, DcpOf
    <2>2. Compress
          BY <1>1 DEF Next, Handle, vars, StartTask, ReplyText, ReplyEmpty, ReplyCalls, TaskEnds,
                      Summarise, CompressDenied, CompressPanics, Rejected, RunTool, ToolReturns,
                      ToolCancelled, ToggleDcp
    <2>3. PICK args \in CompressArgs :
             IF Outcome(args).ok THEN Rebuild(msgs', After(args), step + 1) ELSE UNCHANGED compressed
          BY <2>2 DEF Compress
    <2>4. Outcome(args).ok /\ Rebuild(msgs', After(args), step + 1)
          BY <1>1, <2>3
    <2> DEFINE new == Outcome(args).ranges
    <2>5. new \in Seq(RangesIn(n)) /\ Compressed(n, dcp.ranges, new)
      <3>1. args \in Seq(Nat \X Nat)
            BY RepliesAssumption
      <3> QED BY <2>1, <2>4, <3>1, CompressIs
    <2>6. dcp'.ranges = new
      <3> DEFINE d == After(args)
      <3>1. dcp' = d \/ dcp' = [d EXCEPT !.lastNudge = step + 1]
            BY <2>4 DEF Rebuild, NudgeNoted
      <3>2. d = [dcp EXCEPT !.ranges = new]
            OBVIOUS
      <3> HIDE DEF d, new
      <3>3. d \in DcpOf(n) /\ d.ranges = new
            BY <2>1, <2>5, <3>2, DcpRanges
      <3>4. [d EXCEPT !.lastNudge = step + 1].ranges = d.ranges
            BY <3>3 DEF DcpOf
      <3> QED BY <3>1, <3>3, <3>4
    <2> DEFINE rs == dcp'.ranges
    <2>7. Compressed(n, dcp.ranges, rs)
          BY <2>5, <2>6
    <2> HIDE DEF n, rs
    <2>8. LET told == Told(rs)
              runs == {i \in told : i + 1 \notin told}
          IN  /\ Told(dcp.ranges) \subseteq told
              /\ IF Cardinality(runs) > Cap
                 THEN Len(rs) = 1 /\ Hidden(rs) = Min(told) .. Max(told)
                 ELSE /\ Whole(rs)
                      /\ \A i \in 1 .. Len(rs) - 1 : rs[i].to + 1 < rs[i + 1].from
          BY <1>1, <2>1, <2>7, CompressedExact
    <2> QED BY <2>8 DEF rs
  <1>2. IInv /\ [Next]_vars =>
           [compressed' /\ ~compressed /\ Whole(dcp.ranges) =>
               LET rs   == dcp'.ranges
                   told == Told(rs)
                   runs == {i \in told : i + 1 \notin told}
               IN  /\ Told(dcp.ranges) \subseteq told
                   /\ IF Cardinality(runs) > Cap
                      THEN Len(rs) = 1 /\ Hidden(rs) = Min(told) .. Max(told)
                      ELSE /\ Whole(rs)
                           /\ \A i \in 1 .. Len(rs) - 1 : rs[i].to + 1 < rs[i + 1].from]_vars
        BY <1>1
  <1> QED BY <1>2, TranscriptInvariant, PTL DEF Spec, CompressionIsExact

=============================================================================
