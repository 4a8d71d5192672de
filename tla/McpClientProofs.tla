-------------------------- MODULE McpClientProofs --------------------------
(***************************************************************************)
(* The safety properties of McpClient, for any calls, pipes and number of  *)
(* notifications, and its refinement of RemoteCalls.                       *)
(*                                                                         *)
(* The table is exact because ids are fresh (FreshIds).  That readLoop     *)
(* never blocks and that answers reach their own call both rest on one     *)
(* fact: the request of a call, and later its answer, is in at most one    *)
(* place - stdin, the server, stdout, the hands of readLoop, or the channel*)
(* of the call (OnePlace) - and in none before it is written (OnlySent).   *)
(***************************************************************************)
EXTENDS McpClient, TLAPS, SequenceTheorems

USE NamesAssumption, CapsAssumption

Sent(c) == pc[c] \in {"waiting", "leaving", "done"}

\* Ids are given out in order, one to each call.
FreshIds ==
    /\ \A c \in Calls : pc[c] # "idle" => id[c] \in 1..nextID
    /\ \A c, d \in Calls : pc[c] # "idle" /\ pc[d] # "idle" /\ id[c] = id[d] => c = d

\* A line is a notification, or belongs to a call and carries its id.
Real(m) == m = Note \/ (m.of \in Calls /\ Sent(m.of) /\ m.id = id[m.of])

Occurs(s, c) == \E i \in 1..Len(s) : s[i].of = c
Single(s) == \A i, j \in 1..Len(s) : s[i].of \in Calls /\ s[i].of = s[j].of => i = j
InOwed(c) == \E m \in owed : m.of = c

OnlySent ==
    /\ \A i \in 1..Len(stdin) : Real(stdin[i]) /\ stdin[i].of \in Calls
    /\ \A m \in owed : Real(m) /\ m.of \in Calls
    /\ \A i \in 1..Len(stdout) : Real(stdout[i])
    /\ Real(line)
    /\ \A c \in Calls : Len(chan[c]) = 1 => Sent(c) /\ chan[c][1].of = c

OnePlace ==
    /\ Single(stdin) /\ Single(stdout)
    /\ \A c \in Calls :
          /\ Occurs(stdin, c) => ~InOwed(c) /\ ~Occurs(stdout, c) /\ line.of # c /\ chan[c] = <<>>
          /\ InOwed(c) => ~Occurs(stdout, c) /\ line.of # c /\ chan[c] = <<>>
          /\ Occurs(stdout, c) => line.of # c /\ chan[c] = <<>>
          /\ line.of = c => chan[c] = <<>>

\* readLoop sends to the call the line belongs to.
Aimed == rd = "sending" => target \in Calls /\ line.of = target

\* What has left the server was answered.
AnsweredLines ==
    \A c \in Calls : Occurs(stdout, c) \/ line.of = c \/ chan[c] # <<>> => c \in answered

\* A call that has ended has a result, and an answer is its own.
OwnResults ==
    \A c \in Calls :
        /\ pc[c] \in {"leaving", "done"} => result[c] # None
        /\ result[c] \in {None, Failed} \/ (result[c] = c /\ c \in answered)

IInv == /\ TypeOK /\ FreshIds /\ PendingExact /\ OnlySent /\ OnePlace
        /\ Aimed /\ AnsweredLines /\ OwnResults

---------------------------------------------------------------------------
(* Lines in a pipe.                                                        *)

\* Appending a line adds its call, and keeps calls apart if it was not there.
LEMMA AppendLine ==
    ASSUME NEW s \in Seq(Lines), NEW m \in Lines
    PROVE  /\ Append(s, m) \in Seq(Lines)
           /\ \A i \in 1..Len(Append(s, m)) :
                 Append(s, m)[i] = m \/ \E j \in 1..Len(s) : Append(s, m)[i] = s[j]
           /\ \A c : Occurs(Append(s, m), c) => Occurs(s, c) \/ m.of = c
           /\ Single(s) /\ (m.of \in Calls => ~Occurs(s, m.of)) => Single(Append(s, m))
  <1> DEFINE t == Append(s, m)
  <1>1. t \in Seq(Lines) /\ Len(t) = Len(s) + 1 /\ Len(s) \in Nat
        BY AppendProperties, LenProperties
  <1>2. \A i \in 1..Len(s) : t[i] = s[i]
        BY AppendProperties
  <1>3. t[Len(s) + 1] = m
        BY AppendProperties
  <1>4. \A i \in 1..Len(t) : i \in 1..Len(s) \/ i = Len(s) + 1
        BY <1>1
  <1> HIDE DEF t
  <1>5. \A i \in 1..Len(t) : t[i] = m \/ \E j \in 1..Len(s) : t[i] = s[j]
        BY <1>2, <1>3, <1>4
  <1>6. \A c : Occurs(t, c) => Occurs(s, c) \/ m.of = c
        BY <1>5 DEF Occurs
  <1>7. ASSUME Single(s), m.of \in Calls => ~Occurs(s, m.of) PROVE Single(t)
    <2> SUFFICES ASSUME NEW i \in 1..Len(t), NEW j \in 1..Len(t),
                        t[i].of \in Calls, t[i].of = t[j].of
                 PROVE  i = j
        BY DEF Single
    <2>1. CASE i \in 1..Len(s) /\ j \in 1..Len(s)
          BY <1>2, <1>7, <2>1 DEF Single
    <2>2. CASE i = Len(s) + 1 /\ j \in 1..Len(s)
          BY <1>2, <1>3, <1>7, <2>2 DEF Occurs
    <2>3. CASE i \in 1..Len(s) /\ j = Len(s) + 1
          BY <1>2, <1>3, <1>7, <2>3 DEF Occurs
    <2> QED BY <1>4, <2>1, <2>2, <2>3
  <1> QED BY <1>1, <1>5, <1>6, <1>7 DEF t

\* Taking a line out of a pipe that keeps calls apart removes its call.
LEMMA TakeLine ==
    ASSUME NEW s \in Seq(Lines), s # <<>>
    PROVE  /\ Head(s) \in Lines /\ Tail(s) \in Seq(Lines)
           /\ \E j \in 1..Len(s) : Head(s) = s[j]
           /\ \A i \in 1..Len(Tail(s)) : \E j \in 1..Len(s) : Tail(s)[i] = s[j]
           /\ \A c : Occurs(Tail(s), c) => Occurs(s, c)
           /\ Occurs(s, Head(s).of)
           /\ Single(s) => /\ Single(Tail(s))
                           /\ Head(s).of \in Calls => ~Occurs(Tail(s), Head(s).of)
  <1> DEFINE t == Tail(s)
  <1>1. /\ Head(s) \in Lines /\ t \in Seq(Lines) /\ Len(t) = Len(s) - 1
        /\ \A i \in 1..Len(t) : t[i] = s[i + 1]
        BY HeadTailProperties
  <1>2. Len(s) \in Nat \ {0} /\ Head(s) = s[1]
        BY EmptySeq
  <1> HIDE DEF t
  <1>3. \A i \in 1..Len(t) : i + 1 \in 1..Len(s) /\ i + 1 # 1
        BY <1>1, <1>2
  <1>4. 1 \in 1..Len(s)
        BY <1>2
  <1>5. \A i \in 1..Len(t) : \E j \in 1..Len(s) : t[i] = s[j]
        BY <1>1, <1>3
  <1>6. \A c : Occurs(t, c) => Occurs(s, c)
        BY <1>5 DEF Occurs
  <1>7. Occurs(s, Head(s).of)
        BY <1>2, <1>4 DEF Occurs
  <1>8. ASSUME Single(s)
        PROVE  Single(t) /\ (Head(s).of \in Calls => ~Occurs(t, Head(s).of))
    <2>1. ASSUME NEW i \in 1..Len(t), NEW j \in 1..Len(t), t[i].of \in Calls, t[i].of = t[j].of
          PROVE  i = j
      <3>1. i + 1 = j + 1
            BY <1>1, <1>3, <1>8, <2>1 DEF Single
      <3> QED BY <3>1
    <2>2. ASSUME Head(s).of \in Calls, NEW i \in 1..Len(t), t[i].of = Head(s).of PROVE FALSE
          BY <1>1, <1>2, <1>3, <1>4, <1>8, <2>2 DEF Single
    <2> QED BY <2>1, <2>2 DEF Single, Occurs
  <1> QED BY <1>1, <1>2, <1>4, <1>5, <1>6, <1>7, <1>8 DEF t

\* A notification is nobody's answer.
LEMMA NoteIsLine == Note \in Lines /\ Note.of = None /\ None \notin Calls /\ Note.id = 0
  BY DEF Note, Lines

---------------------------------------------------------------------------
(* Types.                                                                  *)

\* Every step keeps the types.
LEMMA TypeStep == TypeOK /\ OnlySent /\ [Next]_vars => TypeOK'
  <1> SUFFICES ASSUME TypeOK, OnlySent, [Next]_vars PROVE TypeOK'
      OBVIOUS
  <1> USE DEF TypeOK, PCs, caller, reader, server
  <1>n. Note \in Lines
        BY NoteIsLine
  <1>1. ASSUME NEW c \in Calls, Register(c) PROVE TypeOK'
    <2>1. nextID + 1 \in Nat \ {0}
          OBVIOUS
    <2>2. pending' \subseteq (Nat \ {0}) \X Calls
          BY <1>1, <2>1 DEF Register, Put
    <2> QED BY <1>1, <2>1, <2>2 DEF Register
  <1>2. ASSUME NEW c \in Calls, BeginWrite(c) PROVE TypeOK'
        BY <1>2 DEF BeginWrite
  <1>3. ASSUME NEW c \in Calls, EndWrite(c) PROVE TypeOK'
    <2>1. Line(c) \in Lines
          BY DEF Line, Lines
    <2>2. Append(stdin, Line(c)) \in Seq(Lines)
          BY <2>1, AppendLine
    <2> QED BY <1>3, <2>2 DEF EndWrite
  <1>4. ASSUME NEW c \in Calls, Receive(c) PROVE TypeOK'
    <2>1. /\ Tail(chan[c]) \in Seq(Lines) /\ Len(Tail(chan[c])) <= 1
          /\ Head(chan[c]).of \in Calls \union {None}
      <3>1. chan[c] \in Seq(Lines) /\ chan[c] # <<>>
            BY <1>4 DEF Receive
      <3>2. /\ Head(chan[c]) \in Lines /\ Tail(chan[c]) \in Seq(Lines)
            /\ Len(Tail(chan[c])) = Len(chan[c]) - 1
            BY <3>1, HeadTailProperties
      <3>3. Len(chan[c]) \in Nat /\ Len(chan[c]) <= 1
            BY <3>1, LenProperties
      <3>4. Head(chan[c]).of \in Calls \union {None}
            BY <3>2 DEF Lines
      <3>5. Len(Tail(chan[c])) <= 1
            BY <3>2, <3>3
      <3> QED BY <3>2, <3>4, <3>5
    <2> QED BY <1>4, <2>1 DEF Receive
  <1>5. ASSUME NEW c \in Calls, GiveUp(c) PROVE TypeOK'
        BY <1>5 DEF GiveUp
  <1>6. ASSUME NEW c \in Calls, Leave(c) PROVE TypeOK'
        BY <1>6 DEF Leave
  <1>7. CASE ReadLine
    <2>1. Head(stdout) \in Lines /\ Tail(stdout) \in Seq(Lines)
          BY <1>7, TakeLine DEF ReadLine
    <2> QED BY <1>7, <2>1 DEF ReadLine
  <1>8. CASE ReadEOF
        BY <1>8 DEF ReadEOF
  <1>9. CASE Lookup
        BY <1>9, <1>n DEF Lookup
  <1>10. CASE Deliver
    <2>1. ASSUME target \in Calls
          PROVE  chan'[target] \in Seq(Lines) /\ Len(chan'[target]) <= 1
      <3>1. chan'[target] = Append(chan[target], line)
            BY <1>10, <2>1 DEF Deliver
      <3>2. chan[target] \in Seq(Lines)
            BY <2>1
      <3>3. Len(chan[target]) \in Nat /\ Len(chan[target]) < 1
            BY <1>10, <3>2, LenProperties DEF Deliver
      <3>4. Len(Append(chan[target], line)) = Len(chan[target]) + 1
            BY <3>2, AppendProperties
      <3> QED BY <3>1, <3>2, <3>3, <3>4, AppendLine
    <2>2. \A c \in Calls : c # target => chan'[c] = chan[c]
          BY <1>10 DEF Deliver
    <2>3. chan' \in [Calls -> Seq(Lines)] /\ \A c \in Calls : Len(chan'[c]) <= 1
      <3>1. chan' = [c \in Calls |-> chan'[c]]
            BY <1>10 DEF Deliver
      <3>2. \A c \in Calls : chan'[c] \in Seq(Lines) /\ Len(chan'[c]) <= 1
            BY <2>1, <2>2
      <3> QED BY <3>1, <3>2
    <2> QED BY <1>10, <1>n, <2>3 DEF Deliver
  <1>11. CASE ServerReads
    <2>1. Head(stdin) \in Lines /\ Tail(stdin) \in Seq(Lines)
          BY <1>11, TakeLine DEF ServerReads
    <2> QED BY <1>11, <2>1 DEF ServerReads
  <1>12. ASSUME NEW m \in owed, ServerAnswers(m) PROVE TypeOK'
    <2>2. m.of \in Calls
          BY DEF OnlySent
    <2>1. Append(stdout, m) \in Seq(Lines)
          BY AppendLine
    <2> QED BY <1>12, <2>1, <2>2 DEF ServerAnswers
  <1>13. CASE ServerNotifies
    <2>1. Append(stdout, Note) \in Seq(Lines)
          BY <1>n, AppendLine
    <2> QED BY <1>13, <2>1 DEF ServerNotifies
  <1>14. CASE ServerExits
    <2>1. <<>> \in Seq(Lines)
          BY EmptySeq
    <2> QED BY <1>14, <2>1 DEF ServerExits
  <1>15. CASE UNCHANGED vars
        BY <1>15 DEF vars
  <1> QED BY <1>1, <1>2, <1>3, <1>4, <1>5, <1>6, <1>7, <1>8, <1>9, <1>10, <1>11, <1>12,
             <1>13, <1>14, <1>15 DEF Next, send, readLoop, Server

---------------------------------------------------------------------------
(* The table.                                                              *)

\* Only Register gives out ids and opens calls; only Leave ends them.
LEMMA TableStep == IInv /\ [Next]_vars => FreshIds' /\ PendingExact'
  <1> SUFFICES ASSUME IInv, [Next]_vars PROVE FreshIds' /\ PendingExact'
      OBVIOUS
  <1> USE DEF IInv, TypeOK, FreshIds, PendingExact, InPending, Open, PCs
  <1>1. ASSUME NEW c \in Calls, Register(c) PROVE FreshIds' /\ PendingExact'
    <2>1. FreshIds'
          BY <1>1 DEF Register
    <2>2. \A d \in Calls : InPending(d)' <=> InPending(d) \/ d = c
          BY <1>1 DEF Register
    <2>3. \A p \in pending : p[1] # nextID + 1
          OBVIOUS
    <2>4. pending' = pending \union {<<nextID + 1, c>>}
          BY <1>1, <2>3 DEF Register, Put
    <2>5. \A d \in Calls : InPending(d) => id'[d] = id[d]
          BY <1>1 DEF Register
    <2>6. id'[c] = nextID + 1
          BY <1>1 DEF Register
    <2>7. PendingExact'
          BY <2>2, <2>4, <2>5, <2>6
    <2> QED BY <2>1, <2>7
  <1>2. ASSUME NEW c \in Calls, Leave(c) PROVE FreshIds' /\ PendingExact'
    <2>1. FreshIds'
          BY <1>2 DEF Leave
    <2>2. \A d \in Calls : InPending(d)' <=> InPending(d) /\ d # c
          BY <1>2 DEF Leave
    <2>3. \A d \in Calls : InPending(d) /\ d # c => id[d] # id[c]
          BY <1>2 DEF Leave
    <2>4. \A d \in Calls : <<id[d], d>>[1] = id[d]
          OBVIOUS
    <2>5. PendingExact'
          BY <1>2, <2>2, <2>3, <2>4 DEF Leave
    <2> QED BY <2>1, <2>5
  <1>3. ASSUME UNCHANGED <<nextID, id, pending>>,
               \A d \in Calls : (pc'[d] = "idle" <=> pc[d] = "idle") /\ (InPending(d)' <=> InPending(d))
        PROVE  FreshIds' /\ PendingExact'
        BY <1>3
  <1>4. ASSUME NEW c \in Calls, BeginWrite(c) \/ EndWrite(c) \/ Receive(c) \/ GiveUp(c)
        PROVE  FreshIds' /\ PendingExact'
        BY <1>3, <1>4 DEF BeginWrite, EndWrite, Receive, GiveUp
  <1>5. CASE readLoop
        BY <1>3, <1>5 DEF readLoop, ReadLine, ReadEOF, Lookup, Deliver, caller
  <1>6. CASE Server
        BY <1>3, <1>6 DEF Server, ServerReads, ServerAnswers, ServerNotifies, ServerExits, caller
  <1>7. CASE UNCHANGED vars
        BY <1>3, <1>7 DEF vars, caller
  <1> QED BY <1>1, <1>2, <1>4, <1>5, <1>6, <1>7 DEF Next, send

---------------------------------------------------------------------------
(* Lines and channels.                                                     *)

\* A call that was sent stays sent, under its id: what belonged to it still does.
LEMMA SentStays ==
    ASSUME TypeOK, [Next]_vars
    PROVE  /\ \A c \in Calls : Sent(c) => Sent(c)' /\ id'[c] = id[c]
           /\ \A m : Real(m) => Real(m)'
  <1> USE DEF TypeOK, PCs, Sent
  <1>1. \A c \in Calls : Sent(c) => Sent(c)' /\ id'[c] = id[c]
    <2>1. ASSUME NEW d \in Calls, send(d)
          PROVE  \A c \in Calls : Sent(c) => Sent(c)' /\ id'[c] = id[c]
          BY <2>1 DEF send, Register, BeginWrite, EndWrite, Receive, GiveUp, Leave
    <2>2. CASE UNCHANGED <<pc, id>>
          BY <2>2
    <2>3. readLoop \/ Server => UNCHANGED <<pc, id>>
          BY DEF readLoop, ReadLine, ReadEOF, Lookup, Deliver, Server, ServerReads, ServerAnswers,
                 ServerNotifies, ServerExits, caller
    <2> QED BY <2>1, <2>2, <2>3 DEF Next, vars, caller
  <1>2. \A m : Real(m) => Real(m)'
        BY <1>1 DEF Real
  <1> QED BY <1>1, <1>2

\* A channel holds one line or none.
LEMMA ChannelLength ==
    ASSUME TypeOK, NEW c \in Calls
    PROVE  /\ chan[c] = <<>> <=> Len(chan[c]) # 1
           /\ chan[c] # <<>> => Head(chan[c]) = chan[c][1] /\ Tail(chan[c]) = <<>>
  <1>1. chan[c] \in Seq(Lines) /\ Len(chan[c]) <= 1
        BY DEF TypeOK
  <1>2. Len(chan[c]) \in Nat /\ (chan[c] # <<>> => Len(chan[c]) \in Nat \ {0})
        BY <1>1, LenProperties, EmptySeq
  <1>3. chan[c] = <<>> => Len(chan[c]) = 0
        BY EmptySeq
  <1>4. chan[c] # <<>> => Tail(chan[c]) \in Seq(Lines) /\ Len(Tail(chan[c])) = Len(chan[c]) - 1
        BY <1>1, HeadTailProperties
  <1>5. chan[c] # <<>> => Tail(chan[c]) = <<>>
        BY <1>1, <1>2, <1>4, EmptySeq
  <1>6. chan[c] = <<>> <=> Len(chan[c]) # 1
    <2>1. ASSUME NEW n \in Nat \ {0}, n <= 1 PROVE n = 1
          BY <2>1
    <2>2. chan[c] # <<>> => Len(chan[c]) = 1
          BY <1>1, <1>2, <2>1, Zenon
    <2> QED BY <1>3, <2>2
  <1>7. Head(chan[c]) = chan[c][1]
        BY <1>1
  <1> QED BY <1>5, <1>6, <1>7

\* A channel that readLoop sends to is empty.
LEMMA EmptyTarget == IInv => ReaderNeverBlocks
  <1> SUFFICES ASSUME IInv, rd = "sending" PROVE chan[target] = <<>>
      BY DEF ReaderNeverBlocks
  <1> QED BY DEF IInv, Aimed, OnePlace

\* The channel of a call that has sent nothing is empty, and no line is its own.
LEMMA NothingYet ==
    ASSUME IInv, NEW c \in Calls, ~Sent(c)
    PROVE  /\ ~Occurs(stdin, c) /\ ~InOwed(c) /\ ~Occurs(stdout, c) /\ line.of # c
           /\ chan[c] = <<>>
  <1>1. Note.of # c
        BY NoteIsLine
  <1>2. chan[c] = <<>>
        BY ChannelLength DEF IInv, OnlySent
  <1>3. \A m : Real(m) => m.of # c
        BY <1>1 DEF Real
  <1> QED BY <1>2, <1>3 DEF IInv, OnlySent, Occurs, InOwed

\* What the lines of the pipes, the server and the channels say of calls stays true.
LEMMA LinesStep == IInv /\ TypeOK' /\ [Next]_vars => OnlySent'
  <1> SUFFICES ASSUME IInv, TypeOK', [Next]_vars PROVE OnlySent'
      OBVIOUS
  <1> USE DEF IInv, OnlySent, caller, reader, server
  <1>s. /\ \A c \in Calls : Sent(c) => Sent(c)' /\ id'[c] = id[c]
        /\ \A m : Real(m) => Real(m)'
        BY SentStays
  <1>n. Real(Note)'
        BY DEF Real
  <1>1. ASSUME UNCHANGED <<stdin, stdout, owed, line, chan>> PROVE OnlySent'
        BY <1>1, <1>s
  <1>2. ASSUME NEW c \in Calls, Register(c) \/ BeginWrite(c) \/ GiveUp(c) \/ Leave(c)
        PROVE  OnlySent'
        BY <1>1, <1>2 DEF Register, BeginWrite, GiveUp, Leave
  <1>3. ASSUME NEW c \in Calls, EndWrite(c) PROVE OnlySent'
    <2>1. CASE UNCHANGED stdin
          BY <1>1, <1>3, <2>1 DEF EndWrite
    <2>2. CASE stdin' = Append(stdin, Line(c)) /\ pc' = [pc EXCEPT ![c] = "waiting"]
      <3>1. PICK m \in Lines : m = Line(c)
            BY DEF Line, Lines, TypeOK
      <3>2. m.of = c /\ m.id = id[c]
            BY <3>1 DEF Line
      <3>3. Real(m)'
            BY <1>3, <2>2, <3>2 DEF Real, EndWrite, Sent, TypeOK
      <3>4. \A i \in 1..Len(stdin') :
               stdin'[i] = m \/ \E j \in 1..Len(stdin) : stdin'[i] = stdin[j]
            BY <2>2, <3>1, AppendLine DEF TypeOK
      <3>5. (\A i \in 1..Len(stdin) : Real(stdin[i]) /\ stdin[i].of \in Calls)'
            BY <1>s, <3>2, <3>3, <3>4
      <3>6. UNCHANGED <<stdout, owed, line, chan>>
            BY <1>3 DEF EndWrite
      <3> QED BY <1>s, <3>5, <3>6
    <2> QED BY <1>3, <2>1, <2>2 DEF EndWrite
  <1>4. ASSUME NEW c \in Calls, Receive(c) PROVE OnlySent'
    <2>1. UNCHANGED <<stdin, stdout, owed, line>>
          BY <1>4 DEF Receive
    <2>2. \A d \in Calls : d # c => chan'[d] = chan[d]
          BY <1>4 DEF Receive
    <2>3. chan'[c] = <<>>
          BY <1>4, ChannelLength DEF Receive, TypeOK
    <2>4. \A d \in Calls : Len(chan'[d]) = 1 => Sent(d)' /\ chan'[d][1].of = d
          BY <1>s, <2>2, <2>3
    <2> QED BY <1>s, <2>1, <2>4
  <1>5. CASE ReadLine
    <2>1. Real(Head(stdout))
          BY <1>5, TakeLine DEF ReadLine, TypeOK
    <2>2. \A i \in 1..Len(stdout') : Real(stdout'[i])
          BY <1>5, TakeLine DEF ReadLine, TypeOK
    <2> QED BY <1>5, <1>s, <2>1, <2>2 DEF ReadLine
  <1>6. CASE ReadEOF \/ Lookup
        BY <1>6, <1>s, <1>n DEF ReadEOF, Lookup
  <1>7. CASE Deliver
    <2>1. target \in Calls /\ line.of = target /\ Real(line) /\ chan[target] = <<>>
          BY <1>7, EmptyTarget DEF Deliver, Aimed, ReaderNeverBlocks
    <2>2. Sent(target)
          BY <2>1, NoteIsLine DEF Real
    <2>3. chan'[target] = <<line>>
          BY <1>7, <2>1 DEF Deliver, TypeOK
    <2>4. \A d \in Calls : d # target => chan'[d] = chan[d]
          BY <1>7 DEF Deliver
    <2>5. \A d \in Calls : Len(chan'[d]) = 1 => Sent(d)' /\ chan'[d][1].of = d
          BY <1>s, <2>1, <2>2, <2>3, <2>4
    <2> QED BY <1>7, <1>s, <1>n, <2>5 DEF Deliver
  <1>8. CASE ServerReads
    <2>1. Real(Head(stdin)) /\ Head(stdin).of \in Calls
          BY <1>8, TakeLine DEF ServerReads, TypeOK
    <2>2. \A i \in 1..Len(stdin') : Real(stdin'[i]) /\ stdin'[i].of \in Calls
          BY <1>8, TakeLine DEF ServerReads, TypeOK
    <2> QED BY <1>8, <1>s, <2>1, <2>2 DEF ServerReads
  <1>9. ASSUME NEW m \in Lines, Real(m), stdout' = Append(stdout, m), owed' \subseteq owed,
               UNCHANGED <<stdin, line, chan>>
        PROVE  OnlySent'
    <2>1. \A i \in 1..Len(stdout') :
             stdout'[i] = m \/ \E j \in 1..Len(stdout) : stdout'[i] = stdout[j]
      <3>1. stdout \in Seq(Lines)
            BY DEF TypeOK
      <3> QED BY <1>9, <3>1, AppendLine
    <2> QED BY <1>9, <1>s, <2>1
  <1>10. ASSUME NEW m \in owed, ServerAnswers(m) PROVE OnlySent'
         BY <1>9, <1>10 DEF ServerAnswers, TypeOK
  <1>11. CASE ServerNotifies
    <2>1. Note \in Lines /\ Real(Note)
          BY NoteIsLine DEF Real
    <2> QED BY <1>9, <1>11, <2>1 DEF ServerNotifies
  <1>12. CASE ServerExits
    <2>1. Len(stdin') = 0 /\ owed' = {}
          BY <1>12, EmptySeq DEF ServerExits
    <2>2. UNCHANGED <<stdout, line, chan>>
          BY <1>12 DEF ServerExits
    <2> QED BY <1>s, <2>1, <2>2
  <1>13. CASE UNCHANGED vars
         BY <1>1, <1>13 DEF vars
  <1> QED BY <1>2, <1>3, <1>4, <1>5, <1>6, <1>7, <1>8, <1>10, <1>11, <1>12, <1>13
          DEF Next, send, readLoop, Server

\* The server owes a call one answer.
LEMMA OwedOnce ==
    ASSUME TypeOK, OnlySent, NEW m \in owed, NEW n \in owed, m.of = n.of
    PROVE  m = n
  <1>1. m \in Lines /\ n \in Lines
        BY DEF TypeOK
  <1>2. m.id = n.id
        BY NoteIsLine DEF OnlySent, Real
  <1> QED BY <1>1, <1>2 DEF Lines

\* Each step moves at most one line from one place to the next.
LEMMA PlaceStep == IInv /\ [Next]_vars => OnePlace'
  <1> SUFFICES ASSUME IInv, [Next]_vars PROVE OnePlace'
      OBVIOUS
  <1> USE DEF IInv, OnePlace, caller, reader, server
  <1>t. /\ stdin \in Seq(Lines) /\ stdout \in Seq(Lines) /\ owed \subseteq Lines /\ line \in Lines
        /\ chan \in [Calls -> Seq(Lines)]
        BY DEF TypeOK
  <1>n. Note \in Lines /\ Note.of \notin Calls
        BY NoteIsLine
  <1>1. ASSUME UNCHANGED <<stdin, stdout, owed, line, chan>> PROVE OnePlace'
        BY <1>1 DEF Single, Occurs, InOwed
  <1>2. ASSUME NEW c \in Calls, Register(c) \/ BeginWrite(c) \/ GiveUp(c) \/ Leave(c)
        PROVE  OnePlace'
        BY <1>1, <1>2 DEF Register, BeginWrite, GiveUp, Leave
  <1>3. ASSUME NEW c \in Calls, EndWrite(c) PROVE OnePlace'
    <2>1. CASE UNCHANGED stdin
          BY <1>1, <1>3, <2>1 DEF EndWrite
    <2>2. CASE stdin' = Append(stdin, Line(c))
      <3>0. PICK m \in Lines : m = Line(c)
            BY DEF Line, Lines, TypeOK
      <3>1. m.of = c
            BY <3>0 DEF Line
      <3>2. /\ ~Occurs(stdin, c) /\ ~InOwed(c) /\ ~Occurs(stdout, c) /\ line.of # c
            /\ chan[c] = <<>>
            BY <1>3, NothingYet DEF EndWrite, Sent
      <3>3. /\ Single(stdin')
            /\ \A d : Occurs(stdin', d) => Occurs(stdin, d) \/ d = c
            BY <1>t, <2>2, <3>0, <3>1, <3>2, AppendLine
      <3>4. UNCHANGED <<stdout, owed, line, chan>>
            BY <1>3 DEF EndWrite
      <3> QED BY <3>2, <3>3, <3>4 DEF Single, Occurs, InOwed
    <2> QED BY <1>3, <2>1, <2>2 DEF EndWrite
  <1>4. ASSUME NEW c \in Calls, Receive(c) PROVE OnePlace'
    <2>1. UNCHANGED <<stdin, stdout, owed, line>>
          BY <1>4 DEF Receive
    <2>2. \A d \in Calls : chan[d] = <<>> => chan'[d] = <<>>
          BY <1>4, <1>t, ChannelLength DEF Receive
    <2> QED BY <2>1, <2>2 DEF Single, Occurs, InOwed
  <1>5. CASE ReadLine
    <2>1. /\ Single(stdout') /\ Occurs(stdout, line'.of)
          /\ line'.of \in Calls => ~Occurs(stdout', line'.of)
          /\ \A d : Occurs(stdout', d) => Occurs(stdout, d)
          BY <1>5, <1>t, TakeLine DEF ReadLine
    <2>2. UNCHANGED <<stdin, owed, chan>>
          BY <1>5 DEF ReadLine
    <2> QED BY <2>1, <2>2 DEF Single, Occurs, InOwed
  <1>6. CASE ReadEOF \/ Lookup
    <2>1. UNCHANGED <<stdin, stdout, owed, chan>> /\ (line' = line \/ line' = Note)
          BY <1>6 DEF ReadEOF, Lookup
    <2> QED BY <1>n, <2>1 DEF Single, Occurs, InOwed
  <1>7. CASE Deliver
    <2>1. target \in Calls /\ line.of = target
          BY <1>7 DEF Deliver, Aimed
    <2>2. \A d \in Calls : d # target => chan'[d] = chan[d]
          BY <1>7 DEF Deliver
    <2>3. UNCHANGED <<stdin, stdout, owed>> /\ line' = Note
          BY <1>7 DEF Deliver
    <2> QED BY <1>n, <2>1, <2>2, <2>3 DEF Single, Occurs, InOwed
  <1>8. CASE ServerReads
    <2>1. PICK m \in Lines : m = Head(stdin)
          BY <1>8, <1>t, TakeLine DEF ServerReads
    <2>2. /\ Single(stdin') /\ Occurs(stdin, m.of)
          /\ m.of \in Calls => ~Occurs(stdin', m.of)
          /\ \A d : Occurs(stdin', d) => Occurs(stdin, d)
          BY <1>8, <1>t, <2>1, TakeLine DEF ServerReads
    <2>3. owed' = owed \union {m} /\ UNCHANGED <<stdout, line, chan>>
          BY <1>8, <2>1 DEF ServerReads
    <2>4. \A d : InOwed(d)' => InOwed(d) \/ d = m.of
          BY <2>3 DEF InOwed
    <2> QED BY <2>2, <2>3, <2>4 DEF Single, Occurs
  <1>9. ASSUME NEW m \in owed, ServerAnswers(m) PROVE OnePlace'
    <2>1. m \in Lines /\ m.of \in Calls /\ InOwed(m.of)
          BY <1>t DEF OnlySent, InOwed
    <2>2. stdout' = Append(stdout, m) /\ owed' = owed \ {m} /\ UNCHANGED <<stdin, line, chan>>
          BY <1>9 DEF ServerAnswers
    <2>3. ~Occurs(stdout, m.of)
          BY <2>1
    <2>4. /\ Single(stdout')
          /\ \A d : Occurs(stdout', d) => Occurs(stdout, d) \/ d = m.of
          BY <1>t, <2>1, <2>2, <2>3, AppendLine
    <2>5. \A d : InOwed(d)' => InOwed(d) /\ d # m.of
          BY <2>2, OwedOnce DEF InOwed
    <2> QED BY <2>1, <2>2, <2>4, <2>5 DEF Single, Occurs
  <1>10. CASE ServerNotifies
    <2>1. stdout' = Append(stdout, Note) /\ UNCHANGED <<stdin, owed, line, chan>>
          BY <1>10 DEF ServerNotifies
    <2>2. /\ Single(stdout')
          /\ \A d : Occurs(stdout', d) => Occurs(stdout, d) \/ d = Note.of
          BY <1>t, <1>n, <2>1, AppendLine
    <2> QED BY <1>n, <2>1, <2>2 DEF Single, Occurs, InOwed
  <1>11. CASE ServerExits
    <2>1. Len(stdin') = 0 /\ owed' = {} /\ UNCHANGED <<stdout, line, chan>>
          BY <1>11, EmptySeq DEF ServerExits
    <2>2. \A d : ~Occurs(stdin', d) /\ ~InOwed(d)'
          BY <2>1 DEF Occurs, InOwed
    <2>3. Single(stdin')
          BY <2>1 DEF Single
    <2> QED BY <2>1, <2>2, <2>3 DEF Single, Occurs
  <1>12. CASE UNCHANGED vars
         BY <1>1, <1>12 DEF vars
  <1> QED BY <1>2, <1>3, <1>4, <1>5, <1>6, <1>7, <1>8, <1>9, <1>10, <1>11, <1>12
          DEF Next, send, readLoop, Server

\* What readLoop holds, what was answered, and what calls return.
LEMMA AnswerStep == IInv /\ [Next]_vars => Aimed' /\ AnsweredLines' /\ OwnResults'
  <1> SUFFICES ASSUME IInv, [Next]_vars PROVE Aimed' /\ AnsweredLines' /\ OwnResults'
      OBVIOUS
  <1> USE DEF IInv, Aimed, AnsweredLines, OwnResults, caller, reader, server
  <1>t. /\ stdin \in Seq(Lines) /\ stdout \in Seq(Lines) /\ owed \subseteq Lines
        /\ pc \in [Calls -> PCs] /\ result \in [Calls -> Calls \union {None, Failed}]
        /\ chan \in [Calls -> Seq(Lines)]
        BY DEF TypeOK
  <1>n. Note.of \notin Calls
        BY NoteIsLine
  <1>1. ASSUME UNCHANGED <<stdout, reader, answered, chan, result>>,
               \A c \in Calls : pc'[c] \in {"leaving", "done"} => pc[c] \in {"leaving", "done"}
        PROVE  Aimed' /\ AnsweredLines' /\ OwnResults'
        BY <1>1 DEF Occurs
  <1>2. ASSUME UNCHANGED <<stdout, reader, answered>>,
               \A d \in Calls : chan'[d] # <<>> => chan[d] # <<>>,
               NEW c \in Calls, pc' = [pc EXCEPT ![c] = "leaving"],
               \E r : /\ r = Failed \/ (r = c /\ c \in answered)
                      /\ result' = [result EXCEPT ![c] = r]
        PROVE  Aimed' /\ AnsweredLines' /\ OwnResults'
    <2>1. Aimed' /\ AnsweredLines'
          BY <1>2 DEF Occurs
    <2>2. OwnResults'
          BY <1>2, <1>t
    <2> QED BY <2>1, <2>2
  <1>3. ASSUME NEW c \in Calls, Register(c) \/ BeginWrite(c) \/ Leave(c)
        PROVE  Aimed' /\ AnsweredLines' /\ OwnResults'
        BY <1>1, <1>3, <1>t DEF Register, BeginWrite, Leave
  <1>4. ASSUME NEW c \in Calls, EndWrite(c) PROVE Aimed' /\ AnsweredLines' /\ OwnResults'
        BY <1>1, <1>2, <1>4, <1>t DEF EndWrite
  <1>5. ASSUME NEW c \in Calls, Receive(c) PROVE Aimed' /\ AnsweredLines' /\ OwnResults'
    <2>1. chan[c] # <<>> /\ c \in answered /\ Head(chan[c]).of = c
          BY <1>5, ChannelLength DEF Receive, OnlySent
    <2>2. \A d \in Calls : chan'[d] # <<>> => chan[d] # <<>>
          BY <1>5, <1>t, <2>1 DEF Receive
    <2>3. /\ UNCHANGED <<stdout, reader, answered>> /\ pc' = [pc EXCEPT ![c] = "leaving"]
          /\ result' = [result EXCEPT ![c] = c]
          BY <1>5, <2>1 DEF Receive
    <2> QED BY <1>2, <2>1, <2>2, <2>3
  <1>6. ASSUME NEW c \in Calls, GiveUp(c) PROVE Aimed' /\ AnsweredLines' /\ OwnResults'
        BY <1>2, <1>6 DEF GiveUp
  <1>7. CASE ReadLine
    <2>1. Occurs(stdout, line'.of) /\ \A d : Occurs(stdout', d) => Occurs(stdout, d)
          BY <1>7, <1>t, TakeLine DEF ReadLine
    <2>2. UNCHANGED <<pc, chan, result, answered>> /\ rd' = "looking"
          BY <1>7 DEF ReadLine
    <2> QED BY <2>1, <2>2 DEF Occurs
  <1>8. CASE ReadEOF
        BY <1>8 DEF ReadEOF, Occurs
  <1>9. CASE Lookup
    <2>1. ASSUME NEW c \in Calls, <<line.id, c>> \in pending PROVE line.of = c
      <3>1. InPending(c) /\ line.id = id[c] /\ pc[c] # "idle" /\ id[c] # 0
            BY <2>1 DEF PendingExact, InPending, Open, FreshIds, TypeOK
      <3>2. line # Note
            BY <3>1, NoteIsLine
      <3>3. /\ line.of \in Calls /\ pc[line.of] # "idle" /\ id[line.of] = id[c]
            BY <3>1, <3>2 DEF OnlySent, Real, Sent
      <3> QED BY <3>1, <3>3 DEF FreshIds
    <2>2. Aimed'
          BY <1>9, <2>1 DEF Lookup
    <2>3. AnsweredLines' /\ OwnResults'
          BY <1>9, <1>n DEF Lookup, Occurs
    <2> QED BY <2>2, <2>3
  <1>10. CASE Deliver
    <2>1. target \in answered
          BY <1>10 DEF Deliver
    <2>2. \A d \in Calls : d # target => chan'[d] = chan[d]
          BY <1>10 DEF Deliver
    <2>3. UNCHANGED <<pc, stdout, result, answered>> /\ line' = Note /\ rd' = "reading"
          BY <1>10 DEF Deliver
    <2> QED BY <1>n, <2>1, <2>2, <2>3 DEF Occurs
  <1>11. CASE ServerReads \/ ServerExits
         BY <1>1, <1>11 DEF ServerReads, ServerExits
  <1>12. ASSUME NEW m \in owed, ServerAnswers(m) PROVE Aimed' /\ AnsweredLines' /\ OwnResults'
    <2>1. \A d : Occurs(stdout', d) => Occurs(stdout, d) \/ d = m.of
          BY <1>12, <1>t, AppendLine DEF ServerAnswers
    <2>2. UNCHANGED <<pc, reader, chan, result>> /\ answered' = answered \union {m.of}
          BY <1>12 DEF ServerAnswers
    <2> QED BY <2>1, <2>2 DEF Occurs
  <1>13. CASE ServerNotifies
    <2>1. \A d : Occurs(stdout', d) => Occurs(stdout, d) \/ d = Note.of
          BY <1>13, <1>t, NoteIsLine, AppendLine DEF ServerNotifies
    <2>2. UNCHANGED <<pc, reader, chan, result, answered>>
          BY <1>13 DEF ServerNotifies
    <2> QED BY <1>n, <2>1, <2>2 DEF Occurs
  <1>14. CASE UNCHANGED vars
         BY <1>1, <1>14 DEF vars
  <1> QED BY <1>3, <1>4, <1>5, <1>6, <1>7, <1>8, <1>9, <1>10, <1>11, <1>12, <1>13, <1>14
          DEF Next, send, readLoop, Server

---------------------------------------------------------------------------
(* The theorems.                                                           *)

\* The strengthening is an invariant: ids are fresh, and a request or its answer
\* is in at most one place.
THEOREM McpInvariant == Spec => []IInv
  <1>1. Init => IInv
    <2> SUFFICES ASSUME Init PROVE IInv
        OBVIOUS
    <2> USE DEF Init
    <2>1. Note \in Lines /\ Note.of \notin Calls
          BY NoteIsLine
    <2>2. <<>> \in Seq(Lines) /\ Len(<<>>) = 0
          BY EmptySeq
    <2>3. TypeOK
          BY <2>1, <2>2 DEF TypeOK, PCs
    <2>4. FreshIds /\ PendingExact
          BY DEF FreshIds, PendingExact, InPending, Open
    <2>5. OnlySent /\ OnePlace
          BY <2>1, <2>2 DEF OnlySent, OnePlace, Real, Single, Occurs, InOwed
    <2>6. Aimed /\ AnsweredLines /\ OwnResults
          BY <2>1, <2>2 DEF Aimed, AnsweredLines, OwnResults, Occurs
    <2> QED BY <2>3, <2>4, <2>5, <2>6 DEF IInv
  <1>2. IInv /\ [Next]_vars => IInv'
    <2> SUFFICES ASSUME IInv, [Next]_vars PROVE IInv'
        OBVIOUS
    <2>1. TypeOK'
          BY TypeStep DEF IInv
    <2> QED BY <2>1, TableStep, LinesStep, PlaceStep, AnswerStep DEF IInv
  <1> QED BY <1>1, <1>2, PTL DEF Spec

\* Shapes; a channel never holds two lines.
THEOREM McpTypes == Spec => []TypeOK
  <1>1. IInv => TypeOK
        BY DEF IInv
  <1> QED BY <1>1, McpInvariant, PTL

\* c.pending has one entry for each call inside send and no other.
THEOREM McpTable == Spec => []PendingExact
  <1>1. IInv => PendingExact
        BY DEF IInv
  <1> QED BY <1>1, McpInvariant, PTL

\* readLoop finds the channel it sends to empty, also after a timeout.
THEOREM McpReader == Spec => []ReaderNeverBlocks
  <1> QED BY EmptyTarget, McpInvariant, PTL

---------------------------------------------------------------------------
(* The refinement.                                                         *)

\* Only Register, a failed write, Receive, GiveUp and ServerAnswers are steps of
\* RemoteCalls; the others are invisible to callers.
LEMMA RemoteStep == IInv /\ [Next]_vars => [Rpc!Next]_(Rpc!vars)
  <1> SUFFICES ASSUME IInv, [Next]_vars PROVE [Rpc!Next]_(Rpc!vars)
      OBVIOUS
  <1> USE DEF Rpc!vars, IInv, TypeOK, PCs, caller, reader, server
  <1> DEFINE Sees(c) == CallerSees[c]
  <1>d. /\ CallerSees = [c \in Calls |-> Sees(c)]
        /\ CallerSees' = [c \in Calls |-> Sees(c)']
        BY DEF CallerSees
  <1>1. ASSUME NEW c \in Calls, NEW s, Sees(c)' = s,
               \A d \in Calls : d # c => Sees(d)' = Sees(d)
        PROVE  CallerSees' = [CallerSees EXCEPT ![c] = s]
        BY <1>d, <1>1
  <1>2. ASSUME NEW c \in Calls, UNCHANGED answered,
               \A d \in Calls : d # c => pc'[d] = pc[d] /\ result'[d] = result[d]
        PROVE  \A d \in Calls : d # c => Sees(d)' = Sees(d)
        BY <1>2 DEF CallerSees, Open
  <1>3. ASSUME UNCHANGED answered,
               \A d \in Calls : \/ pc'[d] = pc[d] /\ result'[d] = result[d]
                                \/ Open(d) /\ Open(d)'
                                \/ /\ pc[d] = "leaving" /\ pc'[d] = "done"
                                   /\ result'[d] = result[d]
        PROVE  UNCHANGED Rpc!vars
    <2>1. \A d \in Calls : Sees(d)' = Sees(d)
          BY <1>3 DEF CallerSees, Open
    <2> QED BY <1>d, <1>3, <2>1
  <1>4. ASSUME NEW c \in Calls, Open(c), pc' = [pc EXCEPT ![c] = "leaving"], UNCHANGED answered,
               \/ result' = [result EXCEPT ![c] = Failed]
               \/ result' = [result EXCEPT ![c] = c] /\ c \in answered
        PROVE  Rpc!Next
    <2>1. \A d \in Calls : d # c => Sees(d)' = Sees(d)
          BY <1>2, <1>4
    <2>2. Sees(c) = "open"
          BY <1>4 DEF CallerSees, Open
    <2>3. CASE result' = [result EXCEPT ![c] = Failed]
      <3>1. Sees(c)' = "failed"
            BY <1>4, <2>3 DEF CallerSees, Open
      <3>2. CallerSees' = [CallerSees EXCEPT ![c] = "failed"]
            BY <1>1, <2>1, <3>1
      <3> QED BY <1>4, <2>2, <3>2 DEF Rpc!Next, Rpc!Fail
    <2>4. CASE result' = [result EXCEPT ![c] = c] /\ c \in answered
      <3>1. Sees(c)' = "ok"
            BY <1>4, <2>4 DEF CallerSees, Open
      <3>2. CallerSees' = [CallerSees EXCEPT ![c] = "ok"]
            BY <1>1, <2>1, <3>1
      <3> QED BY <1>4, <2>2, <2>4, <3>2 DEF Rpc!Next, Rpc!Succeed
    <2> QED BY <1>4, <2>3, <2>4
  <1>5. ASSUME NEW c \in Calls, Register(c) PROVE Rpc!Next
    <2>1. UNCHANGED answered /\ pc' = [pc EXCEPT ![c] = "registered"] /\ UNCHANGED result
          BY <1>5 DEF Register
    <2>2. \A d \in Calls : d # c => Sees(d)' = Sees(d)
          BY <1>2, <2>1
    <2>3. Sees(c) = "idle" /\ Sees(c)' = "open"
          BY <1>5, <2>1 DEF CallerSees, Open, Register
    <2>4. CallerSees' = [CallerSees EXCEPT ![c] = "open"]
          BY <1>1, <2>2, <2>3
    <2> QED BY <2>1, <2>3, <2>4 DEF Rpc!Next, Rpc!Begin
  <1>6. ASSUME NEW c \in Calls, BeginWrite(c) \/ Leave(c) PROVE UNCHANGED Rpc!vars
    <2>1. UNCHANGED <<answered, result>>
          BY <1>6 DEF BeginWrite, Leave
    <2>2. \A d \in Calls : \/ pc'[d] = pc[d]
                           \/ Open(d) /\ Open(d)'
                           \/ pc[d] = "leaving" /\ pc'[d] = "done"
          BY <1>6 DEF BeginWrite, Leave, Open
    <2> QED BY <1>3, <2>1, <2>2
  <1>7. ASSUME NEW c \in Calls, EndWrite(c) PROVE [Rpc!Next]_(Rpc!vars)
    <2>1. CASE pc' = [pc EXCEPT ![c] = "waiting"] /\ UNCHANGED result
      <3>1. \A d \in Calls : pc'[d] = pc[d] \/ (Open(d) /\ Open(d)')
            BY <1>7, <2>1 DEF EndWrite, Open
      <3>2. UNCHANGED answered
            BY <1>7 DEF EndWrite
      <3>3. UNCHANGED Rpc!vars
            BY <1>3, <2>1, <3>1, <3>2
      <3> QED BY <3>3
    <2>2. CASE pc' = [pc EXCEPT ![c] = "leaving"] /\ result' = [result EXCEPT ![c] = Failed]
      <3>1. Open(c) /\ UNCHANGED answered
            BY <1>7 DEF EndWrite, Open
      <3>2. Rpc!Next
            BY <1>4, <2>2, <3>1
      <3> QED BY <3>2
    <2> QED BY <1>7, <2>1, <2>2 DEF EndWrite
  <1>8. ASSUME NEW c \in Calls, Receive(c) PROVE Rpc!Next
    <2>1. chan[c] # <<>> /\ c \in answered /\ Head(chan[c]).of = c
          BY <1>8, ChannelLength DEF Receive, OnlySent, AnsweredLines
    <2>2. /\ Open(c) /\ pc' = [pc EXCEPT ![c] = "leaving"] /\ UNCHANGED answered
          /\ result' = [result EXCEPT ![c] = c]
          BY <1>8, <2>1 DEF Receive, Open
    <2> QED BY <1>4, <2>1, <2>2
  <1>9. ASSUME NEW c \in Calls, GiveUp(c) PROVE Rpc!Next
    <2>1. /\ Open(c) /\ pc' = [pc EXCEPT ![c] = "leaving"] /\ UNCHANGED answered
          /\ result' = [result EXCEPT ![c] = Failed]
          BY <1>9 DEF GiveUp, Open
    <2> QED BY <1>4, <2>1
  <1>10. ASSUME NEW m \in owed, ServerAnswers(m) PROVE [Rpc!Next]_(Rpc!vars)
    <2>1. m.of \in Calls /\ Sent(m.of)
          BY NoteIsLine DEF OnlySent, Real
    <2>2. answered' = answered \union {m.of} /\ UNCHANGED <<pc, result>>
          BY <1>10 DEF ServerAnswers
    <2>3. \A d \in Calls : Sees(d)' = Sees(d)
          BY <2>2 DEF CallerSees, Open
    <2>4. UNCHANGED CallerSees
          BY <1>d, <2>3
    <2>5. CallerSees[m.of] # "idle"
          BY <2>1 DEF CallerSees, Sent
    <2>6. CASE m.of \in answered
          BY <2>2, <2>4, <2>6
    <2>7. CASE m.of \notin answered
          BY <2>1, <2>2, <2>4, <2>5, <2>7 DEF Rpc!Next, Rpc!Answer
    <2> QED BY <2>6, <2>7
  <1>11. CASE readLoop \/ ServerReads \/ ServerNotifies \/ ServerExits \/ UNCHANGED vars
    <2>1. UNCHANGED <<pc, result, answered>>
          BY <1>11 DEF readLoop, ReadLine, ReadEOF, Lookup, Deliver, ServerReads, ServerNotifies,
                       ServerExits, vars
    <2> QED BY <1>3, <2>1
  <1> HIDE DEF Rpc!vars
  <1> QED BY <1>5, <1>6, <1>7, <1>8, <1>9, <1>10, <1>11 DEF Next, send, Server

\* McpClient implements RemoteCalls: a call ends once, with its own answer or with
\* an error.
THEOREM McpRefines == Spec => AnswersAreOwn
  <1>1. Init => Rpc!Init
        BY DEF Init, Rpc!Init, CallerSees
  <1> QED BY <1>1, McpInvariant, RemoteStep, PTL DEF Spec, AnswersAreOwn, Rpc!Spec
============================================================================
