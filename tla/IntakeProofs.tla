---------------------------- MODULE IntakeProofs ----------------------------
(***************************************************************************)
(* The safety properties of Intake, for any capacities and bounds.  That   *)
(* updates are acted on in order rests on the offset: what the process has *)
(* seen lies below it, and what a poll returns does not (Ordered).  That   *)
(* nothing is unaccounted for has to be shown of more than Telegram has    *)
(* forgotten: of all that the next request will make it forget (Known).    *)
(***************************************************************************)
EXTENDS Intake, TLAPS, SequenceTheorems, WellFoundedInduction

USE BoundsAssumption

Rising(s) == \A i, j \in 1..Len(s) : i < j => s[i] < s[j]
Under(s, m) == \A i \in 1..Len(s) : s[i] < m

\* What was taken from a channel and what is in it are one rising sequence.
InTurn(taken, chan) ==
    /\ Rising(taken) /\ Rising(chan)
    /\ \A i \in 1..Len(taken), j \in 1..Len(chan) : taken[i] < chan[j]

Ordered ==
    /\ InTurn(handled, pollCh) /\ InTurn(injDone, inject)
    /\ Under(handled, offset) /\ Under(pollCh, offset)
    /\ held # 0 => held < offset /\ Under(handled, held) /\ Under(pollCh, held)
    /\ Under(injDone, pushed + 1) /\ Under(inject, pushed + 1)

Known ==
    \A u \in 1..Confirms :
        sent[u] = "text" => u \in done \union InFlight \union skipped \union wiped

IInv == TypeOK /\ Ordered /\ Known

---------------------------------------------------------------------------
(* Numbers and channels.                                                   *)

\* A set of numbers that is not empty has a least one, which is Min.
LEMMA MinOf ==
    ASSUME NEW S \in SUBSET Nat, S # {}
    PROVE  Min(S) \in S /\ \A y \in S : Min(S) <= y
  <1> DEFINE R == {p \in Nat \X Nat : p[1] < p[2]}
  <1>1. IsWellFoundedOn(R, Nat)
        BY NatLessThanWellFounded DEF OpToRel
  <1>2. \A x, y \in Nat : ~(<<x, y>> \in R) => y <= x
        OBVIOUS
  <1> HIDE DEF R
  <1>3. PICK x \in S : \A y \in S : ~(<<y, x>> \in R)
        BY <1>1, WFMin
  <1>4. ASSUME NEW y \in S PROVE x <= y
    <2>1. ~(<<y, x>> \in R)
          BY <1>3, Zenon
    <2>2. x \in Nat /\ y \in Nat
          OBVIOUS
    <2> QED BY <1>2, <2>1, <2>2
  <1> QED BY <1>4 DEF Min

\* The offset is the larger of two numbers.
LEMMA MaxOfTwo ==
    ASSUME NEW a \in Nat, NEW b \in Nat
    PROVE  Max({a, b}) = IF a >= b THEN a ELSE b
  <1>1. PICK x \in {a, b} : \A y \in {a, b} : x >= y
        OBVIOUS
  <1>2. Max({a, b}) \in {a, b} /\ \A y \in {a, b} : Max({a, b}) >= y
        BY <1>1 DEF Max
  <1> QED BY <1>2

\* The members of a channel are what stands at its places;
LEMMA SetOf ==
    ASSUME NEW S, NEW s \in Seq(S)
    PROVE  ToSet(s) = {s[i] : i \in 1..Len(s)} /\ ToSet(s) \subseteq S
  <1>1. DOMAIN s = 1..Len(s) /\ \A i \in 1..Len(s) : s[i] \in S
        BY LenProperties, ElementOfSeq
  <1> QED BY <1>1 DEF ToSet

\* one more, and no other, after a send.
LEMMA SetOfAppend ==
    ASSUME NEW S, NEW s \in Seq(S), NEW n \in S
    PROVE  ToSet(Append(s, n)) = ToSet(s) \union {n}
  <1> DEFINE t == Append(s, n)
  <1>1. /\ t \in Seq(S) /\ Len(t) = Len(s) + 1 /\ Len(s) \in Nat /\ t[Len(s) + 1] = n
        /\ \A i \in 1..Len(s) : t[i] = s[i]
        BY AppendProperties, LenProperties
  <1>2. ToSet(s) = {s[i] : i \in 1..Len(s)} /\ ToSet(t) = {t[i] : i \in 1..Len(t)}
        BY <1>1, SetOf
  <1> HIDE DEF t
  <1>3. ASSUME NEW x \in ToSet(s) \union {n} PROVE x \in ToSet(t)
    <2>1. CASE x = n
          BY <1>1, <1>2, <2>1
    <2>2. CASE x \in ToSet(s)
      <3>1. PICK i \in 1..Len(s) : x = s[i]
            BY <1>2, <2>2
      <3>2. i \in 1..Len(t) /\ t[i] = x
            BY <1>1, <3>1
      <3> QED BY <1>2, <3>2
    <2> QED BY <1>3, <2>1, <2>2
  <1>4. ASSUME NEW x \in ToSet(t) PROVE x \in ToSet(s) \union {n}
    <2>1. PICK i \in 1..Len(t) : x = t[i]
          BY <1>2
    <2>2. i \in 1..Len(s) \/ i = Len(s) + 1
          BY <1>1
    <2> QED BY <1>1, <1>2, <2>1, <2>2
  <1> QED BY <1>3, <1>4 DEF t

\* A request confirms what was confirmed, and what is below the offset.
LEMMA ConfirmsIs ==
    ASSUME TypeOK
    PROVE  /\ Confirms \in 0..Len(sent) /\ confirmed <= Confirms
           /\ offset # 0 => offset - 1 <= Confirms
  <1>1. Len(sent) \in Nat /\ confirmed \in 0..Len(sent) /\ offset \in 0..Len(sent) + 1
        BY LenProperties DEF TypeOK
  <1>2. CASE offset = 0
        BY <1>1, <1>2 DEF Confirms
  <1>3. CASE offset # 0
    <2>1. offset - 1 \in Nat /\ confirmed \in Nat
          BY <1>1, <1>3
    <2>2. Confirms = IF confirmed >= offset - 1 THEN confirmed ELSE offset - 1
          BY <1>3, <2>1, MaxOfTwo DEF Confirms
    <2> QED BY <1>1, <1>3, <2>1, <2>2
  <1> QED BY <1>2, <1>3

\* What a poll returns, and what came behind it.
LEMMA PollReturns ==
    ASSUME TypeOK, LongPoll
    PROVE  \E W \in SUBSET (Confirms + 1 .. Len(sent)) :
              /\ W = {u \in Confirms + 1 .. Len(sent) : Wanted(u)}
              /\ W = {} => held' = 0
              /\ W # {} => held' \in W
              /\ skipped' = skipped \union (W \ {held'})
  <1> DEFINE W == {u \in Confirms + 1 .. Len(sent) : Wanted(u)}
  <1>1. /\ held' = IF W = {} THEN 0 ELSE Min(W)
        /\ skipped' = skipped \union (W \ {held'})
        BY DEF LongPoll
  <1>2. Confirms \in Nat /\ Len(sent) \in Nat
        BY ConfirmsIs, LenProperties DEF TypeOK
  <1>3. W \in SUBSET Nat /\ W \in SUBSET (Confirms + 1 .. Len(sent))
        BY <1>2
  <1> HIDE DEF W
  <1>4. W # {} => Min(W) \in W
        BY <1>3, MinOf
  <1>5. W = {u \in Confirms + 1 .. Len(sent) : Wanted(u)}
        BY DEF W
  <1> QED BY <1>1, <1>3, <1>4, <1>5

\* A number beyond all others is put into the channel.
LEMMA PutsIn ==
    ASSUME NEW d \in Seq(Nat), NEW c \in Seq(Nat), InTurn(d, c),
           NEW n \in Nat, Under(d, n), Under(c, n)
    PROVE  InTurn(d, Append(c, n))
  <1> DEFINE e == Append(c, n)
  <1>1. /\ Len(e) = Len(c) + 1 /\ Len(c) \in Nat /\ Len(d) \in Nat
        /\ \A i \in 1..Len(c) : e[i] = c[i]
        /\ e[Len(c) + 1] = n
        BY AppendProperties, LenProperties
  <1> HIDE DEF e
  <1>2. Rising(e)
    <2> SUFFICES ASSUME NEW i \in 1..Len(e), NEW j \in 1..Len(e), i < j PROVE e[i] < e[j]
        BY DEF Rising
    <2>1. i \in 1..Len(c) /\ e[i] = c[i]
          BY <1>1
    <2>2. CASE j \in 1..Len(c)
          BY <1>1, <2>1, <2>2 DEF InTurn, Rising
    <2>3. CASE j = Len(c) + 1
          BY <1>1, <2>1, <2>3 DEF Under
    <2>4. j \in 1..Len(c) \/ j = Len(c) + 1
          BY <1>1
    <2> QED BY <2>2, <2>3, <2>4
  <1>3. \A i \in 1..Len(d), j \in 1..Len(e) : d[i] < e[j]
    <2> SUFFICES ASSUME NEW i \in 1..Len(d), NEW j \in 1..Len(e) PROVE d[i] < e[j]
        OBVIOUS
    <2>1. CASE j \in 1..Len(c)
          BY <1>1, <2>1 DEF InTurn
    <2>2. CASE j = Len(c) + 1
          BY <1>1, <2>2 DEF Under
    <2> QED BY SMTT(30), <1>1, <2>1, <2>2
  <1> QED BY <1>2, <1>3 DEF e, InTurn

\* What is put in is below m as well.
LEMMA PutsUnder ==
    ASSUME NEW c \in Seq(Nat), NEW n \in Nat, NEW m \in Nat, Under(c, m), n < m
    PROVE  Under(Append(c, n), m)
  <1>1. /\ Len(Append(c, n)) = Len(c) + 1 /\ Len(c) \in Nat
        /\ \A i \in 1..Len(c) : Append(c, n)[i] = c[i]
        /\ Append(c, n)[Len(c) + 1] = n
        BY AppendProperties, LenProperties
  <1> QED BY <1>1 DEF Under

\* The first in the channel is taken out, and perhaps kept.
LEMMA TakesOut ==
    ASSUME NEW d \in Seq(Nat), NEW c \in Seq(Nat), InTurn(d, c), c # <<>>
    PROVE  /\ InTurn(d, Tail(c)) /\ InTurn(Append(d, Head(c)), Tail(c))
           /\ \A m \in Nat : Under(c, m) => Under(Tail(c), m)
           /\ \A m \in Nat : Under(d, m) /\ Under(c, m) => Under(Append(d, Head(c)), m)
           /\ {c[i] : i \in 1..Len(c)} = {Head(c)} \union {Tail(c)[i] : i \in 1..Len(Tail(c))}
  <1> DEFINE t == Tail(c)
             h == Head(c)
             e == Append(d, h)
  <1>1. /\ Len(t) = Len(c) - 1 /\ Len(c) \in Nat /\ Len(d) \in Nat /\ t \in Seq(Nat)
        /\ \A i \in 1..Len(t) : t[i] = c[i + 1]
        BY HeadTailProperties, LenProperties
  <1>2. h = c[1] /\ Len(c) >= 1 /\ h \in Nat
        BY <1>1, HeadTailProperties, EmptySeq
  <1>3. /\ Len(e) = Len(d) + 1 /\ e[Len(d) + 1] = h
        /\ \A i \in 1..Len(d) : e[i] = d[i]
        BY <1>2, AppendProperties
  <1> HIDE DEF t, h, e
  <1>4. \A i \in 1..Len(t) : i + 1 \in 1..Len(c) /\ 1 < i + 1
        BY <1>1
  <1>5. 1 \in 1..Len(c)
        BY <1>1, <1>2
  <1>6. Rising(t)
    <2> SUFFICES ASSUME NEW i \in 1..Len(t), NEW j \in 1..Len(t), i < j PROVE t[i] < t[j]
        BY DEF Rising
    <2>1. i + 1 \in 1..Len(c) /\ j + 1 \in 1..Len(c) /\ i + 1 < j + 1
          BY <1>1
    <2>2. c[i + 1] < c[j + 1]
          BY <2>1 DEF InTurn, Rising
    <2> QED BY <1>1, <2>2
  <1>7. \A i \in 1..Len(d), j \in 1..Len(t) : d[i] < t[j]
        BY <1>1, <1>4 DEF InTurn
  <1>8. \A j \in 1..Len(t) : h < t[j]
        BY <1>1, <1>2, <1>4, <1>5 DEF InTurn, Rising
  <1>9. \A i \in 1..Len(d) : d[i] < h
        BY <1>2, <1>5 DEF InTurn
  <1>10. Rising(e)
    <2> SUFFICES ASSUME NEW i \in 1..Len(e), NEW j \in 1..Len(e), i < j PROVE e[i] < e[j]
        BY DEF Rising
    <2>1. i \in 1..Len(d)
      <3>1. Len(e) = Len(d) + 1 /\ Len(d) \in Nat
            BY <1>1, <1>3
      <3> QED BY <3>1
    <2>2. CASE j \in 1..Len(d)
          BY <1>3, <2>1, <2>2 DEF InTurn, Rising
    <2>3. CASE j = Len(d) + 1
          BY <1>3, <1>9, <2>1, <2>3
    <2>4. j \in 1..Len(d) \/ j = Len(d) + 1
          BY <1>1, <1>3
    <2> QED BY <2>2, <2>3, <2>4
  <1>11. \A i \in 1..Len(e), j \in 1..Len(t) : e[i] < t[j]
    <2> SUFFICES ASSUME NEW i \in 1..Len(e), NEW j \in 1..Len(t) PROVE e[i] < t[j]
        OBVIOUS
    <2>1. CASE i \in 1..Len(d)
          BY <1>3, <1>7, <2>1
    <2>2. CASE i = Len(d) + 1
          BY <1>3, <1>8, <2>2
    <2>3. i \in 1..Len(d) \/ i = Len(d) + 1
      <3>1. i \in 1..Len(d) + 1 /\ Len(d) \in Nat
            BY <1>1, <1>3
      <3> QED BY <3>1
    <2> QED BY <2>1, <2>2, <2>3
  <1>12. ASSUME NEW m \in Nat, Under(c, m) PROVE Under(t, m) /\ h < m
        BY <1>1, <1>2, <1>4, <1>5, <1>12 DEF Under
  <1>13. ASSUME NEW m \in Nat, Under(d, m), h < m PROVE Under(e, m)
    <2> SUFFICES ASSUME NEW i \in 1..Len(e) PROVE e[i] < m
        BY DEF Under
    <2>1. i \in 1..Len(d) \/ i = Len(d) + 1
          BY <1>1, <1>3
    <2>2. \A k \in 1..Len(d) : d[k] < m
          BY <1>13 DEF Under
    <2>3. CASE i \in 1..Len(d)
          BY <1>3, <2>2, <2>3
    <2>4. CASE i = Len(d) + 1
          BY <1>3, <1>13, <2>4
    <2> QED BY <2>1, <2>3, <2>4
  <1>14. {c[i] : i \in 1..Len(c)} = {h} \union {t[i] : i \in 1..Len(t)}
    <2>1. ASSUME NEW i \in 1..Len(c), i # 1 PROVE \E k \in 1..Len(t) : c[i] = t[k]
      <3>1. i - 1 \in 1..Len(t) /\ (i - 1) + 1 = i
            BY <1>1, <2>1
      <3>2. t[i - 1] = c[(i - 1) + 1]
            BY <1>1, <3>1
      <3> QED BY <3>1, <3>2
    <2>2. ASSUME NEW k \in 1..Len(t) PROVE \E i \in 1..Len(c) : c[i] = t[k]
          BY <1>1, <1>4
    <2>3. ASSUME NEW i \in 1..Len(c) PROVE c[i] \in {h} \union {t[k] : k \in 1..Len(t)}
          BY <1>2, <2>1
    <2>4. h \in {c[i] : i \in 1..Len(c)}
          BY <1>2, <1>5
    <2>5. ASSUME NEW k \in 1..Len(t) PROVE t[k] \in {c[i] : i \in 1..Len(c)}
          BY <2>2
    <2> QED BY <2>3, <2>4, <2>5
  <1>15. InTurn(d, t) /\ InTurn(e, t)
        BY <1>6, <1>7, <1>10, <1>11 DEF InTurn
  <1> QED BY <1>12, <1>13, <1>14, <1>15 DEF t, h, e

\* Taken and waiting, one after the other.
LEMMA OneSequence ==
    ASSUME NEW d \in Seq(Nat), NEW c \in Seq(Nat), InTurn(d, c)
    PROVE  Increasing(d \o c)
  <1>1. /\ Len(d) \in Nat /\ Len(c) \in Nat /\ d \o c \in Seq(Nat)
        /\ Len(d \o c) = Len(d) + Len(c)
        /\ \A i \in 1..Len(d) + Len(c) : (d \o c)[i] = IF i <= Len(d) THEN d[i] ELSE c[i - Len(d)]
        BY ConcatProperties, LenProperties
  <1>2. DOMAIN (d \o c) = 1..Len(d) + Len(c)
        BY <1>1, LenProperties
  <1> SUFFICES ASSUME NEW i \in 1..Len(d) + Len(c), NEW j \in 1..Len(d) + Len(c), i < j
               PROVE  (d \o c)[i] < (d \o c)[j]
      BY <1>2 DEF Increasing
  <1>3. CASE j <= Len(d)
    <2>1. i \in 1..Len(d) /\ j \in 1..Len(d) /\ i <= Len(d)
          BY <1>1, <1>3
    <2>2. d[i] < d[j]
          BY <2>1 DEF InTurn, Rising
    <2> QED BY <1>1, <1>3, <2>1, <2>2
  <1>4. CASE i <= Len(d) /\ j > Len(d)
    <2>1. i \in 1..Len(d) /\ j - Len(d) \in 1..Len(c) /\ ~(j <= Len(d))
          BY <1>1, <1>4
    <2>2. d[i] < c[j - Len(d)]
          BY <2>1 DEF InTurn
    <2> QED BY <1>1, <1>4, <2>1, <2>2
  <1>5. CASE i > Len(d)
    <2>1. /\ i - Len(d) \in 1..Len(c) /\ j - Len(d) \in 1..Len(c) /\ i - Len(d) < j - Len(d)
          /\ ~(i <= Len(d)) /\ ~(j <= Len(d))
          BY <1>1, <1>5
    <2>2. c[i - Len(d)] < c[j - Len(d)]
          BY <2>1 DEF InTurn, Rising
    <2> QED BY <1>1, <2>1, <2>2
  <1> QED BY <1>1, <1>3, <1>4, <1>5

---------------------------------------------------------------------------
(* The steps.                                                              *)

\* Shapes and bounds.
LEMMA TypeStep == ASSUME TypeOK, [Next]_vars PROVE TypeOK'
  <1> USE DEF Updates
  <1>0. /\ sent \in Seq(Kinds) /\ Len(sent) \in Nat /\ pollCh \in Seq(1..Len(sent))
        /\ handled \in Seq(1..Len(sent)) /\ Len(pollCh) \in Nat /\ Len(inject) \in Nat
        /\ inject \in Seq(1..MaxInjected) /\ injDone \in Seq(1..MaxInjected)
        BY LenProperties DEF TypeOK
  <1>1. ASSUME NEW kind \in Kinds, Arrive(kind) PROVE TypeOK'
    <2>1. sent' \in Seq(Kinds) /\ Len(sent') = Len(sent) + 1
          BY <1>0, <1>1, AppendProperties DEF Arrive
    <2>2. 1..Len(sent) \subseteq 1..Len(sent')
          BY <1>0, <2>1
    <2>3. pollCh \in Seq(1..Len(sent')) /\ handled \in Seq(1..Len(sent'))
          BY <1>0, <2>2, SeqMonotonic
    <2>4. /\ UNCHANGED <<confirmed, bot, pushed, history, restarts>>
          /\ Len(sent) < MaxUpdates
          BY <1>1 DEF Arrive
    <2> QED BY <1>0, <2>1, <2>2, <2>3, <2>4 DEF TypeOK, bot, history
  <1>2. CASE LongPoll
    <2>1. held' \in 0..Len(sent) /\ skipped' \subseteq 1..Len(sent)
      <3>1. Confirms \in Nat
            BY <1>0, ConfirmsIs
      <3>2. Confirms + 1 .. Len(sent) \subseteq 1..Len(sent)
            BY <1>0, <3>1
      <3>3. skipped \subseteq 1..Len(sent)
            BY DEF TypeOK
      <3>4. PICK W \in SUBSET (Confirms + 1 .. Len(sent)) :
               /\ W = {} => held' = 0
               /\ W # {} => held' \in W
               /\ skipped' = skipped \union (W \ {held'})
            BY <1>2, PollReturns
      <3>5. W \subseteq 1..Len(sent)
            BY <3>2
      <3>6. held' = 0 \/ held' \in 1..Len(sent)
            BY <3>4, <3>5
      <3>7. skipped' \subseteq 1..Len(sent)
            BY <3>3, <3>4, <3>5
      <3> QED BY <1>0, <3>6, <3>7
    <2>2. confirmed' \in 0..Len(sent) /\ offset' \in 0..Len(sent) + 1
          BY <1>0, <1>2, ConfirmsIs DEF LongPoll
    <2>3. UNCHANGED <<sent, pollCh, inject, handled, injDone, pushed, done, wiped, ignored, restarts>>
          BY <1>2 DEF LongPoll
    <2> QED BY SMTT(30), <1>0, <2>1, <2>2, <2>3 DEF TypeOK
  <1>3. CASE LongPollFails
    <2>1. confirmed' \in 0..Len(sent)
          BY <1>0, <1>3, ConfirmsIs DEF LongPollFails
    <2>2. UNCHANGED <<sent, bot, pushed, history, restarts>>
          BY <1>3 DEF LongPollFails
    <2> QED BY <2>1, <2>2 DEF TypeOK, bot, history
  <1>4. CASE PassOn
    <2>1. pollCh' \in Seq(1..Len(sent)) /\ Len(pollCh') <= PollCap
      <3>1. held \in 1..Len(sent) /\ pollCh' = Append(pollCh, held) /\ Len(pollCh) < PollCap
            BY <1>4 DEF PassOn, TypeOK
      <3>2. pollCh' \in Seq(1..Len(sent)) /\ Len(pollCh') = Len(pollCh) + 1
            BY <1>0, <3>1, AppendProperties
      <3> QED BY <1>0, <3>1, <3>2
    <2>2. /\ held' = 0
          /\ UNCHANGED <<sent, confirmed, offset, inject, handled, injDone, pushed, history, restarts>>
          BY <1>4 DEF PassOn
    <2> QED BY <2>1, <2>2 DEF TypeOK, history
  <1>5. CASE Push
    <2>1. pushed' \in 1..MaxInjected
          BY <1>5 DEF Push, TypeOK
    <2>2. inject' \in Seq(1..MaxInjected) /\ Len(inject') <= InjectCap
      <3>1. CASE Len(inject) < InjectCap
        <4>1. inject' = Append(inject, pushed')
              BY <1>5, <3>1 DEF Push
        <4>2. inject' \in Seq(1..MaxInjected) /\ Len(inject') = Len(inject) + 1
              BY <1>0, <2>1, <4>1, AppendProperties
        <4> QED BY <1>0, <3>1, <4>2
      <3>2. CASE ~(Len(inject) < InjectCap)
            BY <1>5, <3>2 DEF Push, TypeOK
      <3> QED BY <3>1, <3>2
    <2>3. UNCHANGED <<sent, confirmed, offset, held, pollCh, handled, injDone, history, restarts>>
          BY <1>5 DEF Push
    <2> QED BY <2>1, <2>2, <2>3 DEF TypeOK, history
  <1>6. CASE RunLoopUpdate
    <2>1. pollCh # <<>> /\ pollCh' = Tail(pollCh)
          BY <1>6 DEF RunLoopUpdate
    <2>2. /\ pollCh' \in Seq(1..Len(sent)) /\ Len(pollCh') = Len(pollCh) - 1
          /\ Head(pollCh) \in 1..Len(sent)
          BY <1>0, <2>1, HeadTailProperties
    <2>3. handled' \in Seq(1..Len(sent))
      <3>1. handled' = handled \/ handled' = Append(handled, Head(pollCh))
            BY <1>6 DEF RunLoopUpdate
      <3>2. Append(handled, Head(pollCh)) \in Seq(1..Len(sent))
            BY <1>0, <2>2, AppendProperties
      <3> QED BY <1>0, <3>1, <3>2
    <2>4. done' \subseteq done \union {Head(pollCh)} /\ ignored' \subseteq ignored \union {Head(pollCh)}
          BY <1>6 DEF RunLoopUpdate
    <2>5. UNCHANGED <<sent, confirmed, offset, held, inject, injDone, pushed, skipped, wiped, restarts>>
          BY <1>6 DEF RunLoopUpdate
    <2>6. Len(pollCh') <= PollCap
          BY <1>0, <2>2 DEF TypeOK
    <2> QED BY <2>2, <2>3, <2>4, <2>5, <2>6 DEF TypeOK
  <1>7. CASE RunLoopInject
    <2>1. inject # <<>> /\ inject' = Tail(inject) /\ injDone' = Append(injDone, Head(inject))
          BY <1>7 DEF RunLoopInject
    <2>2. /\ inject' \in Seq(1..MaxInjected) /\ Len(inject') = Len(inject) - 1
          /\ Head(inject) \in 1..MaxInjected
          BY <1>0, <2>1, HeadTailProperties
    <2>3. injDone' \in Seq(1..MaxInjected)
          BY <1>0, <2>1, <2>2, AppendProperties
    <2>4. UNCHANGED <<sent, confirmed, offset, held, pollCh, handled, pushed, history, restarts>>
          BY <1>7 DEF RunLoopInject
    <2>5. Len(inject') <= InjectCap
          BY <1>0, <2>2 DEF TypeOK
    <2> QED BY <2>2, <2>3, <2>4, <2>5 DEF TypeOK, history
  <1>8. CASE Restart
    <2>1. pollCh' = <<>> /\ inject' = <<>> /\ handled' = <<>> /\ injDone' = <<>>
          BY <1>8 DEF Restart
    <2>2. /\ \A S : <<>> \in Seq(S)
          /\ Len(<<>>) = 0
          BY EmptySeq
    <2>3. InFlight \subseteq 1..Len(sent)
          BY <1>0, SetOf DEF InFlight, TypeOK
    <2>4. /\ wiped' \subseteq wiped \union InFlight /\ restarts' \in 0..MaxRestarts
          /\ offset' = 0 /\ held' = 0
          /\ UNCHANGED <<sent, confirmed, pushed, done, skipped, ignored>>
          BY <1>8 DEF Restart, TypeOK
    <2>5. wiped' \subseteq 1..Len(sent)
          BY <2>3, <2>4 DEF TypeOK
    <2>6. /\ pollCh' \in Seq(1..Len(sent)) /\ handled' \in Seq(1..Len(sent))
          /\ inject' \in Seq(1..MaxInjected) /\ injDone' \in Seq(1..MaxInjected)
          /\ Len(pollCh') <= PollCap /\ Len(inject') <= InjectCap
          BY <2>1, <2>2
    <2> QED BY SMTT(30), <1>0, <2>4, <2>5, <2>6 DEF TypeOK
  <1>9. CASE UNCHANGED vars
        BY <1>9 DEF TypeOK, vars, bot, history
  <1> QED BY <1>1, <1>2, <1>3, <1>4, <1>5, <1>6, <1>7, <1>8, <1>9 DEF Next, Poller

\* What lies under m lies under anything beyond.
LEMMA UnderMore ==
    ASSUME NEW s \in Seq(Nat), NEW m \in Nat, NEW n \in Nat, Under(s, m), m <= n
    PROVE  Under(s, n)
  <1>1. \A i \in 1..Len(s) : s[i] \in Nat
        BY ElementOfSeq
  <1> QED BY <1>1 DEF Under

\* A poll returns what lies beyond all that was seen.
LEMMA OrderedStep == ASSUME TypeOK, Ordered, [Next]_vars PROVE Ordered'
  <1>0. /\ handled \in Seq(Nat) /\ pollCh \in Seq(Nat) /\ injDone \in Seq(Nat) /\ inject \in Seq(Nat)
        /\ offset \in Nat /\ held \in Nat /\ pushed \in Nat /\ Len(sent) \in Nat
        /\ offset <= Len(sent) + 1
    <2>1. Updates \subseteq Nat /\ 1..MaxInjected \subseteq Nat /\ Len(sent) \in Nat
          BY LenProperties DEF Updates, TypeOK
    <2>2. /\ handled \in Seq(Nat) /\ pollCh \in Seq(Nat) /\ injDone \in Seq(Nat)
          /\ inject \in Seq(Nat)
          BY <2>1, SeqMonotonic DEF TypeOK
    <2> QED BY <2>1, <2>2 DEF TypeOK
  <1>1. ASSUME NEW kind \in Kinds, Arrive(kind) PROVE Ordered'
        BY <1>1 DEF Arrive, Ordered, bot
  <1>2. CASE LongPoll
    <2>1. /\ offset' = Len(sent) + 1
          /\ UNCHANGED <<pollCh, handled, injDone, inject, pushed>>
          BY <1>2 DEF LongPoll
    <2>2. held' = 0 \/ (offset <= held' /\ held' \in 1..Len(sent))
      <3>1. Confirms \in Nat /\ (offset # 0 => offset - 1 <= Confirms)
            BY <1>0, ConfirmsIs
      <3>2. held' = 0 \/ held' \in Confirms + 1 .. Len(sent)
            BY <1>2, PollReturns
      <3> QED BY <1>0, <3>1, <3>2
    <2>3. Under(handled, offset') /\ Under(pollCh, offset')
          BY <1>0, <2>1, UnderMore DEF Ordered
    <2>4. held' # 0 => held' < offset' /\ Under(handled, held') /\ Under(pollCh, held')
      <3>1. ASSUME held' # 0 PROVE Under(handled, held') /\ Under(pollCh, held')
        <4>1. held' \in Nat /\ offset <= held' /\ Under(handled, offset) /\ Under(pollCh, offset)
              BY <2>2, <3>1 DEF Ordered
        <4> QED BY <1>0, <4>1, UnderMore
      <3>2. held' # 0 => held' < offset'
            BY <1>0, <2>1, <2>2
      <3> QED BY <3>1, <3>2
    <2> QED BY <2>1, <2>3, <2>4 DEF Ordered
  <1>3. CASE LongPollFails
        BY <1>3 DEF LongPollFails, Ordered, bot
  <1>4. CASE PassOn
    <2>1. /\ held # 0 /\ pollCh' = Append(pollCh, held) /\ held' = 0
          /\ UNCHANGED <<offset, inject, handled, injDone, pushed>>
          BY <1>4 DEF PassOn
    <2>2. held < offset /\ Under(handled, held) /\ Under(pollCh, held)
          BY <2>1 DEF Ordered
    <2>3. InTurn(handled, pollCh')
          BY <1>0, <2>1, <2>2, PutsIn DEF Ordered
    <2>4. Under(pollCh', offset)
          BY <1>0, <2>1, <2>2, PutsUnder DEF Ordered
    <2> QED BY <2>1, <2>3, <2>4 DEF Ordered
  <1>5. CASE Push
    <2>1. /\ pushed' = pushed + 1
          /\ inject' = IF Len(inject) < InjectCap THEN Append(inject, pushed') ELSE inject
          /\ UNCHANGED <<offset, held, pollCh, handled, injDone>>
          BY <1>5 DEF Push
    <2>2. Under(injDone, pushed') /\ Under(inject, pushed')
          BY <2>1 DEF Ordered
    <2>3. Under(injDone, pushed' + 1) /\ Under(inject, pushed' + 1)
          BY <1>0, <2>1, <2>2, UnderMore
    <2>4. InTurn(injDone, Append(inject, pushed'))
          BY <1>0, <2>1, <2>2, PutsIn DEF Ordered
    <2>5. Under(Append(inject, pushed'), pushed' + 1)
          BY <1>0, <2>1, <2>3, PutsUnder
    <2> QED BY <2>1, <2>3, <2>4, <2>5 DEF Ordered
  <1>6. CASE RunLoopUpdate
    <2>1. /\ pollCh # <<>> /\ pollCh' = Tail(pollCh)
          /\ handled' = handled \/ handled' = Append(handled, Head(pollCh))
          /\ UNCHANGED <<offset, held, inject, injDone, pushed>>
          BY <1>6 DEF RunLoopUpdate
    <2>2. /\ InTurn(handled, Tail(pollCh)) /\ InTurn(Append(handled, Head(pollCh)), Tail(pollCh))
          /\ \A m \in Nat : Under(pollCh, m) => Under(Tail(pollCh), m)
          /\ \A m \in Nat : Under(handled, m) /\ Under(pollCh, m)
                            => Under(Append(handled, Head(pollCh)), m)
          BY <1>0, <2>1, TakesOut DEF Ordered
    <2>3. InTurn(handled', pollCh')
          BY <2>1, <2>2
    <2>4. Under(handled', offset) /\ Under(pollCh', offset)
          BY <1>0, <2>1, <2>2 DEF Ordered
    <2>5. held # 0 => held < offset /\ Under(handled', held) /\ Under(pollCh', held)
          BY <1>0, <2>1, <2>2 DEF Ordered
    <2> QED BY <2>1, <2>3, <2>4, <2>5 DEF Ordered
  <1>7. CASE RunLoopInject
    <2>1. /\ inject # <<>> /\ inject' = Tail(inject) /\ injDone' = Append(injDone, Head(inject))
          /\ UNCHANGED <<offset, held, pollCh, handled, pushed>>
          BY <1>7 DEF RunLoopInject
    <2>2. /\ InTurn(Append(injDone, Head(inject)), Tail(inject))
          /\ \A m \in Nat : Under(inject, m) => Under(Tail(inject), m)
          /\ \A m \in Nat : Under(injDone, m) /\ Under(inject, m)
                            => Under(Append(injDone, Head(inject)), m)
          BY <1>0, <2>1, TakesOut DEF Ordered
    <2>3. pushed + 1 \in Nat
          BY <1>0
    <2>4. Under(injDone', pushed + 1) /\ Under(inject', pushed + 1)
          BY <2>1, <2>2, <2>3 DEF Ordered
    <2> QED BY <2>1, <2>2, <2>4 DEF Ordered
  <1>8. CASE Restart
    <2>1. /\ pollCh' = <<>> /\ inject' = <<>> /\ handled' = <<>> /\ injDone' = <<>>
          /\ offset' = 0 /\ held' = 0
          BY <1>8 DEF Restart
    <2>2. 1..Len(<<>>) = {}
          BY EmptySeq
    <2>3. InTurn(<<>>, <<>>) /\ \A m : Under(<<>>, m)
          BY <2>2 DEF InTurn, Rising, Under
    <2> QED BY <2>1, <2>3 DEF Ordered
  <1>9. CASE UNCHANGED vars
        BY <1>9 DEF vars, bot, Ordered
  <1> QED BY <1>1, <1>2, <1>3, <1>4, <1>5, <1>6, <1>7, <1>8, <1>9 DEF Next, Poller

\* What the next request will confirm is accounted for.
LEMMA KnownStep == ASSUME TypeOK, Known, [Next]_vars PROVE Known'
  <1>0. /\ Len(sent) \in Nat /\ pollCh \in Seq(Updates) /\ held \in Nat
        /\ confirmed \in Nat /\ Confirms \in 0..Len(sent) /\ confirmed <= Confirms
        BY LenProperties, ConfirmsIs DEF TypeOK, Updates
  <1>1. ASSUME NEW kind \in Kinds, Arrive(kind) PROVE Known'
    <2>1. \A u \in 1..Confirms : sent'[u] = sent[u]
          BY <1>0, <1>1, AppendProperties DEF Arrive, TypeOK
    <2>2. Confirms' = Confirms /\ InFlight' = InFlight /\ UNCHANGED history
          BY <1>1 DEF Arrive, bot, Confirms, InFlight
    <2> QED BY <2>1, <2>2 DEF Known, history
  <1>2. CASE LongPoll
    <2>1. /\ held = 0 /\ confirmed' = Confirms /\ offset' = Len(sent) + 1
          /\ UNCHANGED <<sent, pollCh, done, wiped>>
          BY <1>2 DEF LongPoll
    <2>2. PICK W \in SUBSET (Confirms + 1 .. Len(sent)) :
             /\ W = {u \in Confirms + 1 .. Len(sent) : Wanted(u)}
             /\ W = {} => held' = 0
             /\ W # {} => held' \in W
             /\ skipped' = skipped \union (W \ {held'})
          BY <1>2, PollReturns
    <2>3. Confirms' = Len(sent)
      <3>1. offset' # 0 /\ offset' - 1 = Len(sent)
            BY <1>0, <2>1
      <3>2. Confirms' = Max({Confirms, Len(sent)})
            BY <2>1, <3>1 DEF Confirms
      <3> QED BY <1>0, <3>2, MaxOfTwo
    <2>4. InFlight \subseteq InFlight'
          BY <2>1 DEF InFlight
    <2>5. ASSUME NEW u \in 1..Len(sent), sent[u] = "text"
          PROVE  u \in done' \union InFlight' \union skipped' \union wiped'
      <3>1. CASE u \in 1..Confirms
        <4>1. u \in done \union InFlight \union skipped \union wiped
              BY <2>5, <3>1 DEF Known
        <4> QED BY <2>1, <2>2, <2>4, <4>1
      <3>2. CASE u \in Confirms + 1 .. Len(sent)
        <4>1. u \in W
              BY <2>2, <2>5, <3>2 DEF Wanted
        <4>2. u # held' => u \in skipped'
              BY <2>2, <4>1
        <4>3. u = held' => u \in InFlight'
              BY DEF InFlight
        <4> QED BY <4>2, <4>3
      <3> QED BY <1>0, <3>1, <3>2
    <2> QED BY <2>1, <2>3, <2>5 DEF Known
  <1>3. CASE LongPollFails
    <2>1. confirmed' = Confirms /\ UNCHANGED <<sent, offset, held, pollCh, history>>
          BY <1>3 DEF LongPollFails, bot
    <2>2. Confirms' = Confirms
      <3>1. CASE offset = 0
            BY <2>1, <3>1 DEF Confirms
      <3>2. CASE offset # 0
        <4>1. offset - 1 \in Nat /\ offset - 1 <= Confirms
              BY <1>0, <3>2, ConfirmsIs DEF TypeOK
        <4>2. Confirms' = Max({Confirms, offset - 1})
              BY <2>1, <3>2 DEF Confirms
        <4> QED BY <1>0, <4>1, <4>2, MaxOfTwo
      <3> QED BY <3>1, <3>2
    <2>3. InFlight' = InFlight
          BY <2>1 DEF InFlight
    <2> QED BY <2>1, <2>2, <2>3 DEF Known, history
  <1>4. CASE PassOn
    <2>1. /\ held # 0 /\ pollCh' = Append(pollCh, held) /\ held' = 0
          /\ UNCHANGED <<sent, confirmed, offset, history>>
          BY <1>4 DEF PassOn
    <2>2. held \in Updates
          BY <2>1 DEF TypeOK
    <2>3. ToSet(pollCh') = ToSet(pollCh) \union {held}
          BY <1>0, <2>1, <2>2, SetOfAppend
    <2>4. InFlight' = InFlight
          BY <2>1, <2>3 DEF InFlight
    <2>5. Confirms' = Confirms
          BY <2>1 DEF Confirms
    <2> QED BY <2>1, <2>4, <2>5 DEF Known, history
  <1>5. CASE Push
        BY <1>5 DEF Push, Known, Confirms, InFlight, history
  <1>6. CASE RunLoopUpdate
    <2> DEFINE h == Head(pollCh)
    <2>1. /\ pollCh # <<>> /\ pollCh' = Tail(pollCh)
          /\ done' = IF sent[h] = "text" THEN done \union {h} ELSE done
          /\ UNCHANGED <<sent, confirmed, offset, held, skipped, wiped>>
          BY <1>6 DEF RunLoopUpdate
    <2>2. ToSet(pollCh) \subseteq {h} \union ToSet(pollCh')
      <3>1. pollCh' \in Seq(Updates)
            BY <1>0, <2>1, HeadTailProperties
      <3>2. /\ ToSet(pollCh) = {pollCh[i] : i \in 1..Len(pollCh)}
            /\ ToSet(pollCh') = {pollCh'[i] : i \in 1..Len(pollCh')}
            BY <1>0, <3>1, SetOf
      <3>3. ASSUME NEW i \in 1..Len(pollCh) PROVE pollCh[i] \in {h} \union ToSet(pollCh')
        <4>1. CASE i = 1
              BY <1>0, <2>1, <4>1
        <4>2. CASE i # 1
          <5>1. /\ Len(pollCh') = Len(pollCh) - 1 /\ Len(pollCh) \in Nat
                /\ \A k \in 1..Len(pollCh') : pollCh'[k] = pollCh[k + 1]
                BY <1>0, <2>1, HeadTailProperties, LenProperties
          <5>2. i - 1 \in 1..Len(pollCh') /\ (i - 1) + 1 = i
                BY <4>2, <5>1
          <5>3. pollCh'[i - 1] = pollCh[(i - 1) + 1]
                BY <5>1, <5>2
          <5> QED BY <3>2, <5>2, <5>3
        <4> QED BY <4>1, <4>2
      <3> QED BY <3>2, <3>3
    <2>3. InFlight \subseteq {h} \union InFlight' /\ Confirms' = Confirms
          BY <2>1, <2>2 DEF InFlight, Confirms
    <2> HIDE DEF h
    <2> QED BY <2>1, <2>3 DEF Known
  <1>7. CASE RunLoopInject
        BY <1>7 DEF RunLoopInject, Known, Confirms, InFlight, history
  <1>8. CASE Restart
    <2>1. /\ wiped' = wiped \union {u \in InFlight : u <= confirmed}
          /\ offset' = 0 /\ UNCHANGED <<sent, confirmed, done, skipped>>
          BY <1>8 DEF Restart
    <2>2. Confirms' = confirmed
          BY <2>1 DEF Confirms
    <2>3. ASSUME NEW u \in 1..confirmed, sent[u] = "text"
          PROVE  u \in done \union wiped' \union skipped
      <3>1. u \in 1..Confirms /\ u <= confirmed
            BY <1>0
      <3> QED BY <2>1, <2>3, <3>1 DEF Known
    <2> QED BY <2>1, <2>2, <2>3 DEF Known
  <1>9. CASE UNCHANGED vars
        BY <1>9 DEF vars, bot, history, Known, Confirms, InFlight
  <1> QED BY <1>1, <1>2, <1>3, <1>4, <1>5, <1>6, <1>7, <1>8, <1>9 DEF Next, Poller

---------------------------------------------------------------------------
(* The theorems.                                                           *)

\* The facts above hold in every reachable state.
THEOREM IntakeInvariant == Spec => []IInv
  <1>1. Init => IInv
    <2> SUFFICES ASSUME Init PROVE IInv
        OBVIOUS
    <2>1. /\ \A S : <<>> \in Seq(S)
          /\ Len(<<>>) = 0 /\ 1..Len(<<>>) = {}
          BY EmptySeq
    <2>2. TypeOK
          BY <2>1 DEF Init, TypeOK, Updates
    <2>3. InTurn(<<>>, <<>>) /\ \A m : Under(<<>>, m)
          BY <2>1 DEF InTurn, Rising, Under
    <2>4. Ordered
          BY <2>3 DEF Init, Ordered
    <2>5. Known
          BY DEF Init, Known, Confirms
    <2> QED BY <2>2, <2>4, <2>5 DEF IInv
  <1>2. IInv /\ [Next]_vars => IInv'
        BY TypeStep, OrderedStep, KnownStep DEF IInv
  <1> QED BY <1>1, <1>2, PTL DEF Spec

\* Types; the channels keep their capacities.
THEOREM IntakeTypes == Spec => []TypeOK
  <1>1. IInv => TypeOK
        BY DEF IInv
  <1> QED BY <1>1, IntakeInvariant, PTL

\* A process acts on updates in their order and on none twice, and so on injected
\* texts.
THEOREM IntakeOrder == Spec => []InOrder
  <1>1. IInv => InOrder
    <2> SUFFICES ASSUME TypeOK, Ordered PROVE InOrder
        BY DEF IInv
    <2>1. Updates \subseteq Nat /\ 1..MaxInjected \subseteq Nat
          BY LenProperties DEF Updates, TypeOK
    <2>2. /\ handled \in Seq(Nat) /\ pollCh \in Seq(Nat) /\ injDone \in Seq(Nat)
          /\ inject \in Seq(Nat)
          BY <2>1, SeqMonotonic DEF TypeOK
    <2> QED BY <2>2, OneSequence DEF Ordered, InOrder
  <1> QED BY <1>1, IntakeInvariant, PTL

\* A text that Telegram has forgotten is accounted for.
THEOREM IntakeAccounts == Spec => []Accounted
  <1>1. IInv => Accounted
    <2> SUFFICES ASSUME TypeOK, Known, NEW u \in 1..confirmed, sent[u] = "text"
                 PROVE  u \in done \union InFlight \union skipped \union wiped
        BY DEF IInv, Accounted
    <2>1. confirmed <= Confirms /\ Confirms \in Nat /\ confirmed \in Nat
          BY ConfirmsIs, LenProperties DEF TypeOK
    <2>2. u \in 1..Confirms
          BY <2>1
    <2> QED BY <2>2 DEF Known
  <1> QED BY <1>1, IntakeInvariant, PTL

=============================================================================
