---------------------------- MODULE MirrorProofs ----------------------------
(***************************************************************************)
(* The safety properties of Mirror, for any clients, cap and number of     *)
(* messages.  MirrorExact speaks of the sequence of what was handed out and*)
(* what is buffered; the proof takes it apart (Ordered, Partition), because*)
(* a full buffer loses its head in the middle of that sequence.            *)
(***************************************************************************)
EXTENDS Mirror, TLAPS, SequenceTheorems

USE CapAssumption

Rising(s) == \A i, j \in 1..Len(s) : i < j => s[i] < s[j]
In(m, s) == \E i \in 1..Len(s) : s[i] = m

\* What was handed out comes before what is buffered, both in order.
Ordered ==
    /\ Rising(got) /\ Rising(outbound)
    /\ \A i \in 1..Len(got), j \in 1..Len(outbound) : got[i] < outbound[j]

\* Every message is in exactly one place, and the lost ones are older than those
\* in the buffer.
Partition ==
    /\ \A m : In(m, got) \/ In(m, outbound) \/ m \in dropped <=> m \in 1..recorded
    /\ \A m \in dropped : ~In(m, got) /\ ~In(m, outbound)
    /\ \A m \in dropped, j \in 1..Len(outbound) : m < outbound[j]

IInv == TypeOK /\ NoSleeper /\ Ordered /\ Partition

---------------------------------------------------------------------------
\* The buffer after a message: it is appended, and k messages, one or none, are
\* lost at the head.
LEMMA RecordShifts ==
    ASSUME TypeOK, Ordered, Partition, Record
    PROVE  \E k \in {0, 1} :
              /\ k <= Len(outbound)
              /\ outbound' \in Seq(1..MaxMessages)
              /\ Len(outbound') = Len(outbound) + 1 - k /\ Len(outbound') <= Cap
              /\ \A i \in 1..Len(outbound') :
                    outbound'[i] = IF i + k <= Len(outbound) THEN outbound[i + k] ELSE recorded + 1
              /\ dropped' = dropped \union {outbound[i] : i \in 1..k}
  <1> DEFINE n == recorded + 1
             t == Append(outbound, n)
  <1>1. /\ outbound \in Seq(1..MaxMessages) /\ Len(outbound) \in Nat /\ Len(outbound) <= Cap
        /\ n \in 1..MaxMessages
        BY DEF TypeOK, Record
  <1>2. /\ t \in Seq(1..MaxMessages) /\ Len(t) = Len(outbound) + 1
        /\ \A i \in 1..Len(outbound) : t[i] = outbound[i]
        /\ t[Len(outbound) + 1] = n
        BY <1>1, AppendProperties
  <1>3. outbound' = Kept(t)
        BY DEF Record
  <1>4. /\ ToSet(outbound) = {outbound[i] : i \in 1..Len(outbound)}
        /\ dropped' = dropped \union (ToSet(outbound) \ ToSet(outbound'))
        BY <1>1, LenProperties DEF ToSet, Record
  <1> HIDE DEF t
  <1>5. CASE Len(outbound) < Cap
    <2>1. outbound' = t
          BY <1>1, <1>2, <1>3, <1>5 DEF Kept
    <2>2. ToSet(outbound') = {t[i] : i \in 1..Len(t)}
          BY <1>2, <2>1, LenProperties DEF ToSet
    <2>3. \A i \in 1..Len(outbound) : i \in 1..Len(t)
          BY <1>1, <1>2
    <2>4. \A i \in 1..Len(outbound) : outbound[i] \in ToSet(outbound')
          BY <1>2, <2>2, <2>3
    <2>5. dropped' = dropped \union {outbound[i] : i \in 1..0}
          BY <1>4, <2>4
    <2>6. \A i \in 1..Len(t) :
             t[i] = IF i + 0 <= Len(outbound) THEN outbound[i + 0] ELSE n
          BY <1>1, <1>2
    <2> QED BY <1>1, <1>2, <1>5, <2>1, <2>5, <2>6
  <1>6. CASE Len(outbound) = Cap
    <2>1. outbound' = SubSeq(t, 2, Len(t))
          BY <1>1, <1>2, <1>3, <1>6 DEF Kept
    <2>2. \A i \in 2..Len(t) : t[i] \in 1..MaxMessages
          BY <1>1, <1>2
    <2>3. /\ outbound' \in Seq(1..MaxMessages)
          /\ Len(outbound') = IF 2 <= Len(t) THEN Len(t) - 2 + 1 ELSE 0
          /\ \A i \in 1..(Len(t) - 2 + 1) : outbound'[i] = t[2 + i - 1]
          BY <1>1, <1>2, <2>1, <2>2, SubSeqProperties
    <2>4. Len(outbound') = Len(outbound) /\ Len(outbound) >= 1
          BY <1>1, <1>2, <1>6, <2>3
    <2>5. \A i \in 1..Len(outbound) :
             outbound'[i] = IF i + 1 <= Len(outbound) THEN outbound[i + 1] ELSE n
      <3> SUFFICES ASSUME NEW i \in 1..Len(outbound)
                   PROVE  outbound'[i] = IF i + 1 <= Len(outbound) THEN outbound[i + 1] ELSE n
          OBVIOUS
      <3>1. outbound'[i] = t[i + 1]
            BY <1>1, <1>2, <2>3
      <3> QED BY <1>1, <1>2, <3>1
    <2>6. ToSet(outbound') = {outbound'[i] : i \in 1..Len(outbound)}
          BY <2>3, <2>4, LenProperties DEF ToSet
    <2>7. ASSUME NEW i \in 2..Len(outbound) PROVE outbound[i] \in ToSet(outbound')
      <3>1. PICK j \in 1..Len(outbound) : j + 1 = i
        <4>1. i - 1 \in 1..Len(outbound) /\ (i - 1) + 1 = i
              BY <1>1
        <4> QED BY <4>1
      <3>2. outbound'[j] = outbound[i]
            BY <1>1, <2>5, <3>1
      <3> QED BY <2>6, <3>2
    <2>8. outbound[1] \notin ToSet(outbound')
      <3>1. ASSUME NEW i \in 1..Len(outbound), i + 1 <= Len(outbound)
            PROVE  outbound[1] # outbound[i + 1]
        <4>1. 1 \in 1..Len(outbound) /\ i + 1 \in 1..Len(outbound) /\ 1 < i + 1
              BY <1>1, <3>1
        <4>2. outbound[1] < outbound[i + 1]
              BY <4>1 DEF Ordered, Rising
        <4>3. outbound[1] \in Nat /\ outbound[i + 1] \in Nat
              BY <1>1, <4>1
        <4> QED BY <4>2, <4>3
      <3>2. outbound[1] # n
        <4>1. In(outbound[1], outbound)
              BY <1>1, <2>4 DEF In
        <4>2. outbound[1] \in 1..recorded
              BY <4>1 DEF Partition
        <4> QED BY <4>2 DEF TypeOK
      <3>3. \A i \in 1..Len(outbound) : outbound'[i] # outbound[1]
            BY <1>1, <2>5, <3>1, <3>2
      <3> QED BY <2>6, <3>3
    <2>9. dropped' = dropped \union {outbound[1]}
          BY <1>1, <1>4, <2>4, <2>7, <2>8
    <2>10. {outbound[i] : i \in 1..1} = {outbound[1]}
          OBVIOUS
    <2>11. Len(outbound') = Len(outbound) + 1 - 1 /\ Len(outbound') <= Cap
          BY <1>1, <2>4
    <2> QED BY <2>3, <2>4, <2>5, <2>9, <2>10, <2>11
  <1> QED BY <1>1, <1>5, <1>6

\* A message recorded goes to the end; what is lost is older than what is kept.
LEMMA RecordStep ==
    ASSUME TypeOK, Ordered, Partition, Record
    PROVE  Ordered' /\ Partition'
  <1> DEFINE n == recorded + 1
             L == Len(outbound)
             K == Len(outbound')
  <1>1. PICK k \in {0, 1} :
           /\ k <= L
           /\ outbound' \in Seq(1..MaxMessages)
           /\ K = L + 1 - k
           /\ \A i \in 1..K : outbound'[i] = IF i + k <= L THEN outbound[i + k] ELSE n
           /\ dropped' = dropped \union {outbound[i] : i \in 1..k}
        BY RecordShifts
  <1>2. recorded \in Nat /\ recorded' = n /\ got' = got /\ L \in Nat /\ K \in Nat
        BY <1>1, LenProperties DEF TypeOK, Record
  <1>3. \A i \in 1..L : outbound[i] \in 1..recorded
        BY DEF Partition, In
  <1>4. \A i \in 1..Len(got) : got[i] \in 1..recorded
        BY DEF Partition, In
  <1>5. \A i, j \in 1..L : i < j => outbound[i] < outbound[j]
        BY DEF Ordered, Rising
  <1>6. \A i \in 1..Len(got), j \in 1..L : got[i] < outbound[j]
        BY DEF Ordered
  <1> HIDE DEF L, K
  <1>7. \A i \in 1..K : outbound'[i] = n \/ (i + k \in 1..L /\ outbound'[i] = outbound[i + k])
        BY <1>1, <1>2
  <1>8. \A i \in 1..L : i \in 1..k \/ \E j \in 1..K : outbound'[j] = outbound[i]
    <2> SUFFICES ASSUME NEW i \in 1..L, i \notin 1..k
                 PROVE  \E j \in 1..K : outbound'[j] = outbound[i]
        OBVIOUS
    <2>1. i - k \in 1..K /\ (i - k) + k = i
          BY <1>1, <1>2
    <2>2. PICK j \in 1..K : j + k = i
          BY <2>1
    <2>3. j + k <= L
          BY <1>2, <2>2
    <2>4. outbound'[j] = outbound[j + k]
          BY <1>1, <2>3
    <2> QED BY <2>2, <2>4
  <1>9. \E j \in 1..K : outbound'[j] = n
    <2>1. K \in 1..K /\ ~(K + k <= L)
          BY <1>1, <1>2
    <2> QED BY <1>1, <2>1
  <1>10. Ordered'
    <2>1. ASSUME NEW i \in 1..K, NEW j \in 1..K, i < j PROVE outbound'[i] < outbound'[j]
      <3>0. i + k \in 1..L /\ i + k <= L
            BY <1>1, <1>2, <2>1
      <3>1. i + k \in 1..L /\ outbound'[i] = outbound[i + k]
            BY <1>1, <3>0
      <3>2. CASE outbound'[j] = n
            BY <1>2, <1>3, <3>1, <3>2
      <3>3. CASE j + k \in 1..L /\ outbound'[j] = outbound[j + k]
        <4>1. i + k < j + k
              BY <2>1
        <4> QED BY <1>5, <3>1, <3>3, <4>1
      <3> QED BY <1>7, <3>2, <3>3
    <2>2. ASSUME NEW i \in 1..Len(got), NEW j \in 1..K PROVE got[i] < outbound'[j]
          BY <1>2, <1>4, <1>6, <1>7
    <2> QED BY <1>2, <2>1, <2>2 DEF Ordered, Rising, K
  <1>11. \A m \in dropped' :
            m \in dropped \/ (k = 1 /\ 1 \in 1..L /\ m = outbound[1])
         BY <1>1, <1>2
  <1>12. \A m : In(m, outbound)' => m = n \/ In(m, outbound)
         BY <1>7 DEF In, K, L
  <1>13. \A m : In(m, outbound) \/ m = n => In(m, outbound)' \/ m \in dropped'
    <2>1. \A i \in 1..L : (\E j \in 1..K : outbound'[j] = outbound[i]) \/ outbound[i] \in dropped'
          BY <1>1, <1>8
    <2> QED BY <1>9, <2>1 DEF In, K, L
  <1>14. ASSUME NEW m PROVE (In(m, got) \/ In(m, outbound) \/ m \in dropped)' <=> m \in 1..n
    <2>1. m \in 1..n <=> m \in 1..recorded \/ m = n
          BY <1>2
    <2>2. m \in dropped' => m \in dropped \/ In(m, outbound)
          BY <1>11 DEF In, L
    <2>3. m \in dropped => m \in dropped'
          BY <1>1
    <2> QED BY <1>2, <1>12, <1>13, <2>1, <2>2, <2>3 DEF Partition
  <1>15. ASSUME NEW m \in dropped', NEW j \in 1..K PROVE m < outbound'[j]
    <2>1. CASE m \in dropped
      <3>1. m \in 1..recorded /\ \A i \in 1..L : m < outbound[i]
            BY <2>1 DEF Partition, L
      <3> QED BY <1>2, <1>7, <3>1
    <2>2. CASE k = 1 /\ 1 \in 1..L /\ m = outbound[1]
      <3>1. CASE outbound'[j] = n
            BY <1>2, <1>3, <2>2, <3>1
      <3>2. CASE j + 1 \in 1..L /\ outbound'[j] = outbound[j + 1]
        <4>1. 1 < j + 1
              OBVIOUS
        <4> QED BY <1>5, <2>2, <3>2, <4>1
      <3> QED BY <1>7, <2>2, <3>1, <3>2
    <2> QED BY <1>11, <2>1, <2>2
  <1>16. ASSUME NEW m \in dropped' PROVE ~In(m, got)
    <2>1. CASE m \in dropped
          BY <2>1 DEF Partition
    <2>2. CASE 1 \in 1..L /\ m = outbound[1]
      <3>1. \A i \in 1..Len(got) : got[i] \in Nat /\ m \in Nat /\ got[i] < m
            BY <1>3, <1>4, <1>6, <2>2
      <3> QED BY <3>1 DEF In
    <2> QED BY <1>11, <2>1, <2>2
  <1>17. ASSUME NEW m \in dropped' PROVE ~In(m, outbound)'
    <2>1. m \in Nat
          BY <1>2, <1>3, <1>11 DEF Partition
    <2>2. \A j \in 1..K : m # outbound'[j]
          BY <1>15, <2>1
    <2> QED BY <2>2 DEF In, K
  <1> QED BY <1>2, <1>10, <1>14, <1>15, <1>16, <1>17 DEF Partition, In, K

\* What was handed out and what is buffered, one after the other.
LEMMA InARow ==
    ASSUME TypeOK, Ordered, NEW all, all = got \o outbound
    PROVE  /\ all \in Seq(1..MaxMessages) /\ Rising(all)
           /\ \A m : In(m, all) <=> In(m, got) \/ In(m, outbound)
  <1>1. got \in Seq(1..MaxMessages) /\ outbound \in Seq(1..MaxMessages)
        BY DEF TypeOK
  <1>2. Len(got) \in Nat /\ Len(outbound) \in Nat
        BY <1>1, LenProperties
  <1>3. /\ all \in Seq(1..MaxMessages) /\ Len(all) = Len(got) + Len(outbound)
        /\ \A i \in 1..Len(all) :
              all[i] = IF i <= Len(got) THEN got[i] ELSE outbound[i - Len(got)]
        BY <1>1, ConcatProperties
  <1>5. \A i \in 1..Len(all) :
           \/ i \in 1..Len(got) /\ all[i] = got[i]
           \/ /\ i > Len(got) /\ i - Len(got) \in 1..Len(outbound)
              /\ all[i] = outbound[i - Len(got)]
        BY <1>2, <1>3
  <1>r. /\ \A i, j \in 1..Len(got) : i < j => got[i] < got[j]
        /\ \A i, j \in 1..Len(outbound) : i < j => outbound[i] < outbound[j]
        BY DEF Ordered, Rising
  <1>6. ASSUME NEW i \in 1..Len(all), NEW j \in 1..Len(all), i < j PROVE all[i] < all[j]
    <2>1. CASE i > Len(got)
      <3>1. j > Len(got) /\ i - Len(got) < j - Len(got)
            BY <1>2, <1>3, <1>6, <2>1
      <3>2. /\ i - Len(got) \in 1..Len(outbound) /\ j - Len(got) \in 1..Len(outbound)
            /\ all[i] = outbound[i - Len(got)] /\ all[j] = outbound[j - Len(got)]
            BY <1>2, <1>5, <2>1, <3>1
      <3> QED BY <1>r, <3>1, <3>2
    <2>2. CASE j <= Len(got)
      <3>1. i \in 1..Len(got) /\ j \in 1..Len(got)
            BY <1>2, <1>3, <1>6, <2>2
      <3>2. all[i] = got[i] /\ all[j] = got[j]
            BY <1>2, <1>5, <3>1
      <3> QED BY <1>6, <1>r, <3>1, <3>2
    <2>3. CASE i <= Len(got) /\ j > Len(got)
          BY <1>2, <1>5, <2>3 DEF Ordered
    <2> QED BY <1>2, <1>3, <2>1, <2>2, <2>3
  <1>7. \A m : In(m, all) <=> In(m, got) \/ In(m, outbound)
    <2>1. \A m : In(m, all) => In(m, got) \/ In(m, outbound)
          BY <1>5 DEF In
    <2>2. \A i \in 1..Len(got) : i \in 1..Len(all) /\ all[i] = got[i]
          BY <1>2, <1>3
    <2>3. \A i \in 1..Len(outbound) : \E j \in 1..Len(all) : all[j] = outbound[i]
      <3> SUFFICES ASSUME NEW i \in 1..Len(outbound)
                   PROVE  \E j \in 1..Len(all) : all[j] = outbound[i]
          OBVIOUS
      <3>1. PICK j \in 1..Len(all) : j = Len(got) + i
            BY <1>2, <1>3
      <3>2. j - Len(got) = i /\ ~(j <= Len(got))
            BY <1>2, <3>1
      <3> QED BY <1>3, <3>2
    <2> QED BY <2>1, <2>2, <2>3 DEF In
  <1> QED BY <1>3, <1>6, <1>7 DEF Rising

\* What is drained goes to the end of what was handed out.
LEMMA DrainStep ==
    ASSUME TypeOK, Ordered, Partition, Drain, UNCHANGED <<recorded, dropped>>
    PROVE  /\ got' \in Seq(1..MaxMessages) /\ outbound' \in Seq(1..MaxMessages)
           /\ Len(outbound') <= Cap
           /\ Ordered' /\ Partition'
  <1>1. PICK all : all = got \o outbound
        OBVIOUS
  <1>2. /\ all \in Seq(1..MaxMessages) /\ Rising(all)
        /\ \A m : In(m, all) <=> In(m, got) \/ In(m, outbound)
        BY <1>1, InARow
  <1>3. got' = all /\ outbound' \in Seq(1..MaxMessages) /\ Len(outbound') = 0
        BY <1>1, EmptySeq DEF Drain
  <1>4. Ordered'
        BY <1>2, <1>3 DEF Ordered, Rising
  <1>5. \A m : ~In(m, outbound)' /\ (In(m, got)' <=> In(m, got) \/ In(m, outbound))
        BY <1>2, <1>3 DEF In
  <1>6. Partition'
        BY <1>3, <1>5 DEF Partition
  <1> QED BY <1>2, <1>3, <1>4, <1>6

\* Types, the sleepers, and the rest of the steps.
LEMMA Step == IInv /\ [Next]_vars => IInv'
  <1> SUFFICES ASSUME IInv, [Next]_vars PROVE IInv'
      OBVIOUS
  <1> USE DEF IInv, TypeOK, NoSleeper
  <1>1. ASSUME UNCHANGED <<recorded, outbound, got, dropped>> PROVE Ordered' /\ Partition'
        BY <1>1 DEF Ordered, Partition, Rising, In
  <1>2. CASE Record
    <2>1. Ordered' /\ Partition'
          BY <1>2, RecordStep
    <2>2. outbound' \in Seq(1..MaxMessages) /\ Len(outbound') <= Cap
          BY <1>2, RecordShifts
    <2>3. \A m \in dropped' : m \in 1..recorded'
          BY <2>1 DEF Partition
    <2>4. recorded' \in 0..MaxMessages /\ UNCHANGED <<client, seen, got>>
          BY <1>2 DEF Record
    <2>5. dropped' \subseteq 1..MaxMessages
          BY <2>3, <2>4
    <2>6. waiters' \subseteq Clients /\ waking' \subseteq Clients
          BY <1>2 DEF Record
    <2>7. TypeOK'
          BY <2>2, <2>4, <2>5, <2>6
    <2>8. NoSleeper'
          BY <1>2 DEF Record
    <2> QED BY <2>1, <2>7, <2>8
  <1>3. ASSUME NEW c \in Clients, Close(c) PROVE IInv'
        BY <1>1, <1>3 DEF Close
  <1>4. ASSUME NEW c \in Clients, Get(c) PROVE IInv'
        BY <1>4, DrainStep DEF Get
  <1>5. ASSUME NEW c \in Clients, Wait(c) PROVE IInv'
        BY <1>1, <1>5 DEF Wait
  <1>6. ASSUME NEW c \in Clients, Woken(c) PROVE IInv'
        BY <1>6, DrainStep DEF Woken
  <1>7. ASSUME NEW c \in Clients, GivesUp(c) PROVE IInv'
        BY <1>1, <1>7 DEF GivesUp
  <1>8. CASE UNCHANGED vars
        BY <1>1, <1>8 DEF vars
  <1> QED BY <1>2, <1>3, <1>4, <1>5, <1>6, <1>7, <1>8 DEF Next

---------------------------------------------------------------------------
\* The strengthening is an invariant: the order, and the place of every message.
THEOREM MirrorInvariant == Spec => []IInv
  <1>1. Init => IInv
    <2>1. <<>> \in Seq(1..MaxMessages) /\ Len(<<>>) = 0
          BY EmptySeq
    <2> QED BY <2>1 DEF Init, IInv, TypeOK, NoSleeper, Ordered, Partition, Rising, In
  <1> QED BY <1>1, Step, PTL DEF Spec

\* Shapes; the buffer keeps its cap.
THEOREM MirrorTypes == Spec => []TypeOK
  <1>1. IInv => TypeOK
        BY DEF IInv
  <1> QED BY <1>1, MirrorInvariant, PTL

\* Nobody sleeps through a message.
THEOREM MirrorWakes == Spec => []NoSleeper
  <1>1. IInv => NoSleeper
        BY DEF IInv
  <1> QED BY <1>1, MirrorInvariant, PTL

\* Every message is handed out once and in order, or lost as one of the oldest.
THEOREM MirrorOnce == Spec => []MirrorExact
  <1>1. IInv => MirrorExact
    <2> SUFFICES ASSUME IInv PROVE MirrorExact
        OBVIOUS
    <2>1. PICK all : all = got \o outbound
          OBVIOUS
    <2>2. /\ all \in Seq(1..MaxMessages) /\ Rising(all)
          /\ \A m : In(m, all) <=> In(m, got) \/ In(m, outbound)
          BY <2>1, InARow DEF IInv
    <2>3. DOMAIN all = 1..Len(all) /\ DOMAIN outbound = 1..Len(outbound)
          BY <2>2, LenProperties DEF IInv, TypeOK
    <2>4. \A m : (m \in ToSet(all) <=> In(m, all)) /\ (m \in ToSet(outbound) <=> In(m, outbound))
          BY <2>3 DEF ToSet, In
    <2>5. \A i, j \in DOMAIN all : i < j => all[i] < all[j]
          BY <2>2, <2>3 DEF Rising
    <2>6. ToSet(all) \union dropped = 1..recorded /\ ToSet(all) \intersect dropped = {}
          BY <2>2, <2>4 DEF IInv, Partition
    <2>7. \A d \in dropped, m \in ToSet(outbound) : d < m
          BY <2>4 DEF IInv, Partition, In
    <2> QED BY <2>1, <2>5, <2>6, <2>7 DEF MirrorExact
  <1> QED BY <1>1, MirrorInvariant, PTL
=============================================================================
