-------------------------- MODULE AgentRunsProofs --------------------------
(***************************************************************************)
(* The safety invariants of AgentRuns, for any tasks, step budget and      *)
(* number of retries.                                                      *)
(*                                                                         *)
(* Types come first, with InBudget, which keeps the counters in range.     *)
(* The registry needs nothing else.  That accepted texts stay in the       *)
(* database rests on two facts about behaviours without a race: at most    *)
(* one Handle is in progress (Alone), and its copy of the session is the   *)
(* row itself (CopyIsRow).  The bound on late LLM calls is a count by the  *)
(* place where the run stands (LateByPlace).                               *)
(***************************************************************************)
EXTENDS AgentRuns, TLAPS, SequenceTheorems

USE TasksAssumption, BoundsAssumption

Keep == TypeOK /\ InBudget /\ NotStarted

\* A late LLM call is counted up by one.
LEMMA LateType ==
    ASSUME late \in [Tasks -> Nat], NEW t \in Tasks, NEW next, CallLLM(t, next)
    PROVE  late' \in [Tasks -> Nat]
  <1>1. CASE asked[t]
    <2>1. late[t] + 1 \in Nat
          OBVIOUS
    <2> QED BY <1>1, <2>1 DEF CallLLM
  <1>2. CASE ~asked[t]
        BY <1>2 DEF CallLLM
  <1> QED BY <1>1, <1>2

\* Every step keeps the types and the budgets.
LEMMA TypeStep == Keep /\ [Next]_vars => Keep'
  <1> SUFFICES ASSUME Keep, [Next]_vars PROVE Keep'
      OBVIOUS
  <1> USE DEF Keep, TypeOK, NotStarted, InBudget, PCs, ToSet, OthersKeep, HandleKeeps, Before, During
  <1>1. ASSUME NEW m \in Tasks \union Controls, DispatchText(m) PROVE Keep'
    <2>1. CASE m \in {Stop, Abort} /\ Interrupt
          BY <1>1, <2>1 DEF DispatchText, Interrupt
    <2>2. CASE m \in unsent /\ Busy(m) /\ queuing' = m /\ HandlesKeep
          BY <1>1, <2>2 DEF DispatchText, HandlesKeep
    <2>3. CASE m \in unsent /\ ~Busy(m) /\ Spawn(m)
          BY <1>1, <2>3 DEF DispatchText, Spawn, Busy
    <2> QED BY <1>1, <2>1, <2>2, <2>3 DEF DispatchText
  <1>2. CASE AddPending
        BY <1>2 DEF AddPending, HandlesKeep
  <1>3. ASSUME NEW t \in Tasks, Load(t) PROVE Keep'
        BY <1>3 DEF Load
  <1>4. ASSUME NEW t \in Tasks, AppendUser(t) PROVE Keep'
        BY <1>4 DEF AppendUser
  <1>5. ASSUME NEW t \in Tasks, Register(t) PROVE Keep'
        BY <1>5 DEF Register
  <1>6. ASSUME NEW t \in Tasks, DrainPending(t) PROVE Keep'
    <2>1. ToSet(pending) \subseteq Tasks
          OBVIOUS
    <2> HIDE DEF ToSet
    <2>2. CASE pending = <<>>
          BY <1>6, <2>1, <2>2 DEF DrainPending
    <2>3. CASE pending # <<>>
      <3>1. sess[t] \union ToSet(pending) \in SUBSET Tasks
            BY <2>1
      <3>2. /\ sess' = [sess EXCEPT ![t] = sess[t] \union ToSet(pending)]
            /\ stored' = sess[t] \union ToSet(pending)
            BY <1>6, <2>3 DEF DrainPending
      <3>3. sess' \in [Tasks -> SUBSET Tasks] /\ stored' \subseteq Tasks
            BY <3>1, <3>2
      <3>4. accepted' \subseteq Tasks /\ pending' \in Seq(Tasks) /\ pc' = [pc EXCEPT ![t] = "top"]
            BY <1>6, <2>1 DEF DrainPending
      <3>5. UNCHANGED <<unsent, queuing, raced, run, asked, step, attempt, lastReg, late>>
            BY <1>6 DEF DrainPending
      <3> QED BY ZenonT(30), <1>6, <3>3, <3>4, <3>5 DEF DrainPending
    <2> QED BY <2>2, <2>3
  <1>7. ASSUME NEW t \in Tasks, LoopTop(t) PROVE Keep'
    <2>1. late' \in [Tasks -> Nat] /\ attempt' \in [Tasks -> 0..MaxRetries]
          BY <1>7, LateType DEF LoopTop
    <2>2. pc' \in [Tasks -> PCs] /\ (pc'[t] = "llm" => step[t] < MaxSteps)
          BY <1>7 DEF LoopTop, CallLLM
    <2>3. pc'[t] \notin {"backoff", "tools"} /\ \A u \in Tasks \ {t} : pc'[u] = pc[u] /\ attempt'[u] = attempt[u]
          BY <1>7 DEF LoopTop, CallLLM
    <2> QED BY <1>7, <2>1, <2>2, <2>3 DEF LoopTop
  <1>8. ASSUME NEW t \in Tasks, LLMTransient(t) PROVE Keep'
        BY <1>8 DEF LLMTransient
  <1>9. ASSUME NEW t \in Tasks, BackoffEnds(t) PROVE Keep'
    <2>1. late' \in [Tasks -> Nat]
          BY <1>9, LateType DEF BackoffEnds
    <2>2. attempt[t] + 1 \in 0..MaxRetries
          BY <1>9 DEF BackoffEnds
    <2>3. attempt' \in [Tasks -> 0..MaxRetries]
          BY <1>9, <2>2 DEF BackoffEnds
    <2> QED BY <1>9, <2>1, <2>3 DEF BackoffEnds, CallLLM
  <1>10. ASSUME NEW t \in Tasks, BackoffInterrupted(t) PROVE Keep'
        BY <1>10 DEF BackoffInterrupted
  <1>11. ASSUME NEW t \in Tasks, LLMGivesUp(t) PROVE Keep'
        BY <1>11 DEF LLMGivesUp
  <1>12. ASSUME NEW t \in Tasks, LLMAnswers(t) PROVE Keep'
    <2>1. step[t] + 1 \in 0..MaxSteps
          BY SMTT(30), <1>12 DEF LLMAnswers
    <2>2. step' \in [Tasks -> 0..MaxSteps]
          BY ZenonT(30), <1>12, <2>1 DEF LLMAnswers
    <2> QED BY <1>12, <2>2 DEF LLMAnswers, Save
  <1>13. ASSUME NEW t \in Tasks, ToolsDone(t) PROVE Keep'
    <2>1. step[t] + 1 \in 0..MaxSteps
          BY <1>13 DEF ToolsDone
    <2>2. step' \in [Tasks -> 0..MaxSteps]
          BY <1>13, <2>1 DEF ToolsDone
    <2> QED BY <1>13, <2>2 DEF ToolsDone, Save
  <1>14. ASSUME NEW t \in Tasks, ToolCancelled(t) PROVE Keep'
        BY <1>14 DEF ToolCancelled
  <1>15. ASSUME NEW t \in Tasks, Summarise(t) PROVE Keep'
        BY <1>15 DEF Summarise, Save
  <1>16. ASSUME NEW t \in Tasks, Cleanup(t) PROVE Keep'
        BY <1>16 DEF Cleanup, Return
  <1>17. CASE UNCHANGED vars
        BY <1>17 DEF vars
  <1> QED
      BY <1>1, <1>2, <1>3, <1>4, <1>5, <1>6, <1>7, <1>8, <1>9, <1>10, <1>11,
         <1>12, <1>13, <1>14, <1>15, <1>16, <1>17 DEF Next, RunLoop, Handle,
         DispatchButton

\* Every step keeps the registry exact.
LEMMA RegistryStep == Keep /\ RegistryExact /\ [Next]_vars => RegistryExact'
  <1> SUFFICES ASSUME Keep, RegistryExact, [Next]_vars PROVE RegistryExact'
      OBVIOUS
  <1> USE DEF Keep, TypeOK, NotStarted, RegistryExact, Active, OthersKeep, HandleKeeps, Before, During
  <1>1. ASSUME NEW m \in Tasks \union Controls, DispatchText(m) PROVE RegistryExact'
    <2>1. CASE m \in {Stop, Abort} /\ Interrupt
          BY <1>1, <2>1 DEF DispatchText, Interrupt
    <2>2. CASE m \in unsent /\ Busy(m) /\ queuing' = m /\ HandlesKeep
          BY <1>1, <2>2 DEF DispatchText, HandlesKeep
    <2>3. CASE m \in unsent /\ ~Busy(m) /\ Spawn(m)
          BY <1>1, <2>3 DEF DispatchText, Spawn, Busy
    <2> QED BY <1>1, <2>1, <2>2, <2>3 DEF DispatchText
  <1>2. CASE AddPending
        BY <1>2 DEF AddPending, HandlesKeep
  <1>3. ASSUME NEW t \in Tasks, Load(t) PROVE RegistryExact'
        BY <1>3 DEF Load
  <1>4. ASSUME NEW t \in Tasks, AppendUser(t) PROVE RegistryExact'
        BY <1>4 DEF AppendUser
  <1>5. ASSUME NEW t \in Tasks, Register(t) PROVE RegistryExact'
        BY <1>5 DEF Register
  <1>6. ASSUME NEW t \in Tasks, DrainPending(t) PROVE RegistryExact'
        BY <1>6 DEF DrainPending
  <1>7. ASSUME NEW t \in Tasks, LoopTop(t) PROVE RegistryExact'
        BY <1>7 DEF LoopTop, CallLLM
  <1>8. ASSUME NEW t \in Tasks, LLMTransient(t) PROVE RegistryExact'
        BY <1>8 DEF LLMTransient
  <1>9. ASSUME NEW t \in Tasks, BackoffEnds(t) PROVE RegistryExact'
        BY <1>9 DEF BackoffEnds, CallLLM
  <1>10. ASSUME NEW t \in Tasks, BackoffInterrupted(t) PROVE RegistryExact'
        BY <1>10 DEF BackoffInterrupted
  <1>11. ASSUME NEW t \in Tasks, LLMGivesUp(t) PROVE RegistryExact'
        BY <1>11 DEF LLMGivesUp
  <1>12. ASSUME NEW t \in Tasks, LLMAnswers(t) PROVE RegistryExact'
        BY <1>12 DEF LLMAnswers, Save
  <1>13. ASSUME NEW t \in Tasks, ToolsDone(t) PROVE RegistryExact'
        BY <1>13 DEF ToolsDone, Save
  <1>14. ASSUME NEW t \in Tasks, ToolCancelled(t) PROVE RegistryExact'
        BY <1>14 DEF ToolCancelled
  <1>15. ASSUME NEW t \in Tasks, Summarise(t) PROVE RegistryExact'
        BY <1>15 DEF Summarise, Save
  <1>16. ASSUME NEW t \in Tasks, Cleanup(t) PROVE RegistryExact'
        BY <1>16 DEF Cleanup, Return
  <1>17. CASE UNCHANGED vars
        BY <1>17 DEF vars
  <1> QED
      BY <1>1, <1>2, <1>3, <1>4, <1>5, <1>6, <1>7, <1>8, <1>9, <1>10, <1>11,
         <1>12, <1>13, <1>14, <1>15, <1>16, <1>17 DEF Next, RunLoop, Handle,
         DispatchButton

\* Without a race a second Handle never starts.
LEMMA AloneStep == Keep /\ Alone /\ RegistryExact /\ [Next]_vars => Alone'
  <1> SUFFICES ASSUME Keep, Alone, RegistryExact, [Next]_vars PROVE Alone'
      OBVIOUS
  <1> USE DEF Keep, TypeOK, NotStarted, Alone, RegistryExact, Active, InProgress, OthersKeep, HandleKeeps, Before, During
  <1>1. ASSUME NEW m \in Tasks \union Controls, DispatchText(m) PROVE Alone'
    <2>1. CASE m \in {Stop, Abort} /\ Interrupt
          BY <1>1, <2>1 DEF DispatchText, Interrupt
    <2>2. CASE m \in unsent /\ Busy(m) /\ queuing' = m /\ HandlesKeep
          BY <1>1, <2>2 DEF DispatchText, HandlesKeep
    <2>3. CASE m \in unsent /\ ~Busy(m) /\ Spawn(m)
          BY <1>1, <2>3 DEF DispatchText, Spawn, Busy
    <2> QED BY <1>1, <2>1, <2>2, <2>3 DEF DispatchText
  <1>2. CASE AddPending
        BY <1>2 DEF AddPending, HandlesKeep
  <1>3. ASSUME NEW t \in Tasks, Load(t) PROVE Alone'
        BY <1>3 DEF Load
  <1>4. ASSUME NEW t \in Tasks, AppendUser(t) PROVE Alone'
        BY <1>4 DEF AppendUser
  <1>5. ASSUME NEW t \in Tasks, Register(t) PROVE Alone'
        BY <1>5 DEF Register
  <1>6. ASSUME NEW t \in Tasks, DrainPending(t) PROVE Alone'
        BY <1>6 DEF DrainPending
  <1>7. ASSUME NEW t \in Tasks, LoopTop(t) PROVE Alone'
        BY <1>7 DEF LoopTop, CallLLM
  <1>8. ASSUME NEW t \in Tasks, LLMTransient(t) PROVE Alone'
        BY <1>8 DEF LLMTransient
  <1>9. ASSUME NEW t \in Tasks, BackoffEnds(t) PROVE Alone'
        BY <1>9 DEF BackoffEnds, CallLLM
  <1>10. ASSUME NEW t \in Tasks, BackoffInterrupted(t) PROVE Alone'
        BY <1>10 DEF BackoffInterrupted
  <1>11. ASSUME NEW t \in Tasks, LLMGivesUp(t) PROVE Alone'
        BY <1>11 DEF LLMGivesUp
  <1>12. ASSUME NEW t \in Tasks, LLMAnswers(t) PROVE Alone'
        BY <1>12 DEF LLMAnswers, Save
  <1>13. ASSUME NEW t \in Tasks, ToolsDone(t) PROVE Alone'
        BY <1>13 DEF ToolsDone, Save
  <1>14. ASSUME NEW t \in Tasks, ToolCancelled(t) PROVE Alone'
        BY <1>14 DEF ToolCancelled
  <1>15. ASSUME NEW t \in Tasks, Summarise(t) PROVE Alone'
        BY <1>15 DEF Summarise, Save
  <1>16. ASSUME NEW t \in Tasks, Cleanup(t) PROVE Alone'
        BY <1>16 DEF Cleanup, Return
  <1>17. CASE UNCHANGED vars
        BY <1>17 DEF vars
  <1> QED
      BY <1>1, <1>2, <1>3, <1>4, <1>5, <1>6, <1>7, <1>8, <1>9, <1>10, <1>11,
         <1>12, <1>13, <1>14, <1>15, <1>16, <1>17 DEF Next, RunLoop, Handle,
         DispatchButton

\* Without a race nobody takes the entry of the Handle in its loop.
LEMMA StoppableStep ==
    Keep /\ Alone /\ StoppableUnlessRaced /\ [Next]_vars => StoppableUnlessRaced'
  <1> SUFFICES ASSUME Keep, Alone, StoppableUnlessRaced, [Next]_vars
               PROVE StoppableUnlessRaced'
      OBVIOUS
  <1> USE DEF Keep, TypeOK, NotStarted, Alone, StoppableUnlessRaced, Active, InProgress,
              OthersKeep, HandleKeeps, Before, During
  <1>1. ASSUME NEW m \in Tasks \union Controls, DispatchText(m) PROVE StoppableUnlessRaced'
    <2>1. CASE m \in {Stop, Abort} /\ Interrupt
          BY <1>1, <2>1 DEF DispatchText, Interrupt
    <2>2. CASE m \in unsent /\ Busy(m) /\ queuing' = m /\ HandlesKeep
          BY <1>1, <2>2 DEF DispatchText, HandlesKeep
    <2>3. CASE m \in unsent /\ ~Busy(m) /\ Spawn(m)
          BY <1>1, <2>3 DEF DispatchText, Spawn, Busy
    <2> QED BY <1>1, <2>1, <2>2, <2>3 DEF DispatchText
  <1>2. CASE AddPending
        BY <1>2 DEF AddPending, HandlesKeep
  <1>3. ASSUME NEW t \in Tasks, Load(t) PROVE StoppableUnlessRaced'
        BY <1>3 DEF Load
  <1>4. ASSUME NEW t \in Tasks, AppendUser(t) PROVE StoppableUnlessRaced'
        BY <1>4 DEF AppendUser
  <1>5. ASSUME NEW t \in Tasks, Register(t) PROVE StoppableUnlessRaced'
        BY <1>5 DEF Register
  <1>6. ASSUME NEW t \in Tasks, DrainPending(t) PROVE StoppableUnlessRaced'
        BY <1>6 DEF DrainPending
  <1>7. ASSUME NEW t \in Tasks, LoopTop(t) PROVE StoppableUnlessRaced'
        BY <1>7 DEF LoopTop, CallLLM
  <1>8. ASSUME NEW t \in Tasks, LLMTransient(t) PROVE StoppableUnlessRaced'
        BY <1>8 DEF LLMTransient
  <1>9. ASSUME NEW t \in Tasks, BackoffEnds(t) PROVE StoppableUnlessRaced'
        BY <1>9 DEF BackoffEnds, CallLLM
  <1>10. ASSUME NEW t \in Tasks, BackoffInterrupted(t) PROVE StoppableUnlessRaced'
        BY <1>10 DEF BackoffInterrupted
  <1>11. ASSUME NEW t \in Tasks, LLMGivesUp(t) PROVE StoppableUnlessRaced'
        BY <1>11 DEF LLMGivesUp
  <1>12. ASSUME NEW t \in Tasks, LLMAnswers(t) PROVE StoppableUnlessRaced'
        BY <1>12 DEF LLMAnswers, Save
  <1>13. ASSUME NEW t \in Tasks, ToolsDone(t) PROVE StoppableUnlessRaced'
        BY <1>13 DEF ToolsDone, Save
  <1>14. ASSUME NEW t \in Tasks, ToolCancelled(t) PROVE StoppableUnlessRaced'
        BY <1>14 DEF ToolCancelled
  <1>15. ASSUME NEW t \in Tasks, Summarise(t) PROVE StoppableUnlessRaced'
        BY <1>15 DEF Summarise, Save
  <1>16. ASSUME NEW t \in Tasks, Cleanup(t) PROVE StoppableUnlessRaced'
        BY <1>16 DEF Cleanup, Return
  <1>17. CASE UNCHANGED vars
        BY <1>17 DEF vars
  <1> QED
      BY <1>1, <1>2, <1>3, <1>4, <1>5, <1>6, <1>7, <1>8, <1>9, <1>10, <1>11,
         <1>12, <1>13, <1>14, <1>15, <1>16, <1>17 DEF Next, RunLoop, Handle,
         DispatchButton

\* Every step keeps the count of late calls.
LEMMA LateStep == Keep /\ LateByPlace /\ [Next]_vars => LateByPlace'
  <1> SUFFICES ASSUME Keep, LateByPlace, [Next]_vars PROVE LateByPlace'
      OBVIOUS
  <1> USE DEF Keep, TypeOK, NotStarted, LateByPlace, OthersKeep, HandleKeeps, Before, During
  <1>1. ASSUME NEW m \in Tasks \union Controls, DispatchText(m) PROVE LateByPlace'
    <2>1. CASE m \in {Stop, Abort} /\ Interrupt
          BY <1>1, <2>1 DEF DispatchText, Interrupt
    <2>2. CASE m \in unsent /\ Busy(m) /\ queuing' = m /\ HandlesKeep
          BY <1>1, <2>2 DEF DispatchText, HandlesKeep
    <2>3. CASE m \in unsent /\ ~Busy(m) /\ Spawn(m)
          BY <1>1, <2>3 DEF DispatchText, Spawn, Busy
    <2> QED BY <1>1, <2>1, <2>2, <2>3 DEF DispatchText
  <1>2. CASE AddPending
        BY <1>2 DEF AddPending, HandlesKeep
  <1>3. ASSUME NEW t \in Tasks, Load(t) PROVE LateByPlace'
        BY <1>3 DEF Load
  <1>4. ASSUME NEW t \in Tasks, AppendUser(t) PROVE LateByPlace'
        BY <1>4 DEF AppendUser
  <1>5. ASSUME NEW t \in Tasks, Register(t) PROVE LateByPlace'
        BY <1>5 DEF Register
  <1>6. ASSUME NEW t \in Tasks, DrainPending(t) PROVE LateByPlace'
        BY <1>6 DEF DrainPending
  <1>7. ASSUME NEW t \in Tasks, LoopTop(t) PROVE LateByPlace'
        BY SMTT(30), <1>7 DEF LoopTop, CallLLM
  <1>8. ASSUME NEW t \in Tasks, LLMTransient(t) PROVE LateByPlace'
        BY <1>8 DEF LLMTransient
  <1>9. ASSUME NEW t \in Tasks, BackoffEnds(t) PROVE LateByPlace'
        BY SMTT(30), <1>9 DEF BackoffEnds, CallLLM
  <1>10. ASSUME NEW t \in Tasks, BackoffInterrupted(t) PROVE LateByPlace'
        BY <1>10 DEF BackoffInterrupted
  <1>11. ASSUME NEW t \in Tasks, LLMGivesUp(t) PROVE LateByPlace'
        BY <1>11 DEF LLMGivesUp
  <1>12. ASSUME NEW t \in Tasks, LLMAnswers(t) PROVE LateByPlace'
        BY SMTT(30), <1>12 DEF LLMAnswers, Save
  <1>13. ASSUME NEW t \in Tasks, ToolsDone(t) PROVE LateByPlace'
        BY <1>13 DEF ToolsDone, Save
  <1>14. ASSUME NEW t \in Tasks, ToolCancelled(t) PROVE LateByPlace'
        BY <1>14 DEF ToolCancelled
  <1>15. ASSUME NEW t \in Tasks, Summarise(t) PROVE LateByPlace'
        BY <1>15 DEF Summarise, Save
  <1>16. ASSUME NEW t \in Tasks, Cleanup(t) PROVE LateByPlace'
        BY <1>16 DEF Cleanup, Return
  <1>17. CASE UNCHANGED vars
        BY <1>17 DEF vars
  <1> QED
      BY <1>1, <1>2, <1>3, <1>4, <1>5, <1>6, <1>7, <1>8, <1>9, <1>10, <1>11,
         <1>12, <1>13, <1>14, <1>15, <1>16, <1>17 DEF Next, RunLoop, Handle,
         DispatchButton

\* A text appended to the pending queue that is not in it already.
LEMMA AppendOnce ==
    ASSUME NEW s \in Seq(Tasks), NEW x \in Tasks, x \notin ToSet(s), IsInjective(s)
    PROVE  ToSet(Append(s, x)) = ToSet(s) \union {x} /\ IsInjective(Append(s, x))
  <1>1. /\ DOMAIN Append(s, x) = 1..(Len(s) + 1)
        /\ Append(s, x)[Len(s) + 1] = x
        /\ \A i \in 1..Len(s) : Append(s, x)[i] = s[i]
        OBVIOUS
  <1>2. ToSet(Append(s, x)) = ToSet(s) \union {x}
        BY <1>1 DEF ToSet
  <1>3. IsInjective(Append(s, x))
        BY <1>1 DEF ToSet, IsInjective
  <1> QED BY <1>2, <1>3

\* The empty queue holds nothing.
LEMMA EmptyQueue == ToSet(<<>>) = {} /\ IsInjective(<<>>)
  BY DEF ToSet, IsInjective

\* Without a race the only copy of the session is the row, and has every accepted text.
LEMMA CopyStep == Keep /\ Alone /\ CopyIsRow /\ KeptUnlessRaced /\ [Next]_vars => (CopyIsRow /\ KeptUnlessRaced)'
  <1> SUFFICES ASSUME Keep, Alone, CopyIsRow, KeptUnlessRaced, [Next]_vars PROVE (CopyIsRow /\ KeptUnlessRaced)'
      OBVIOUS
  <1> USE DEF Keep, TypeOK, NotStarted, Alone, CopyIsRow, KeptUnlessRaced, InProgress, OthersKeep, HandleKeeps, Before, During
  <1>1. ASSUME NEW m \in Tasks \union Controls, DispatchText(m) PROVE (CopyIsRow /\ KeptUnlessRaced)'
    <2>1. CASE m \in {Stop, Abort} /\ Interrupt
          BY <1>1, <2>1 DEF DispatchText, Interrupt, Controls
    <2>2. CASE m \in unsent /\ Busy(m) /\ queuing' = m /\ HandlesKeep
          BY <1>1, <2>2 DEF DispatchText, HandlesKeep
    <2>3. CASE m \in unsent /\ ~Busy(m) /\ Spawn(m)
          BY <1>1, <2>3 DEF DispatchText, Spawn, Busy
    <2> QED BY <1>1, <2>1, <2>2, <2>3 DEF DispatchText
  <1>2. CASE AddPending
        BY <1>2 DEF AddPending, HandlesKeep
  <1>3. ASSUME NEW t \in Tasks, Load(t) PROVE (CopyIsRow /\ KeptUnlessRaced)'
        BY <1>3 DEF Load
  <1>4. ASSUME NEW t \in Tasks, AppendUser(t) PROVE (CopyIsRow /\ KeptUnlessRaced)'
        BY <1>4 DEF AppendUser
  <1>5. ASSUME NEW t \in Tasks, Register(t) PROVE (CopyIsRow /\ KeptUnlessRaced)'
        BY <1>5 DEF Register
  <1>6. ASSUME NEW t \in Tasks, DrainPending(t) PROVE (CopyIsRow /\ KeptUnlessRaced)'
    <2>1. CASE raced
          BY <1>6, <2>1 DEF DrainPending
    <2>2. CASE ~raced /\ pending = <<>>
          BY <1>6, <2>2, EmptyQueue DEF DrainPending
    <2>3. CASE ~raced /\ pending # <<>>
      <3>1. sess[t] = stored /\ accepted \subseteq stored
            BY <1>6, <2>3 DEF DrainPending
      <3>2. sess'[t] = stored' /\ accepted' \subseteq stored'
            BY <1>6, <2>3, <3>1 DEF DrainPending
      <3>3. \A u \in Tasks : u # t => pc'[u] \in {"none", "done"}
            BY <1>6, <2>3 DEF DrainPending
      <3> QED BY <3>2, <3>3
    <2> QED BY <2>1, <2>2, <2>3
  <1>7. ASSUME NEW t \in Tasks, LoopTop(t) PROVE (CopyIsRow /\ KeptUnlessRaced)'
        BY <1>7 DEF LoopTop, CallLLM
  <1>8. ASSUME NEW t \in Tasks, LLMTransient(t) PROVE (CopyIsRow /\ KeptUnlessRaced)'
        BY <1>8 DEF LLMTransient
  <1>9. ASSUME NEW t \in Tasks, BackoffEnds(t) PROVE (CopyIsRow /\ KeptUnlessRaced)'
        BY <1>9 DEF BackoffEnds, CallLLM
  <1>10. ASSUME NEW t \in Tasks, BackoffInterrupted(t) PROVE (CopyIsRow /\ KeptUnlessRaced)'
        BY <1>10 DEF BackoffInterrupted
  <1>11. ASSUME NEW t \in Tasks, LLMGivesUp(t) PROVE (CopyIsRow /\ KeptUnlessRaced)'
        BY <1>11 DEF LLMGivesUp
  <1>12. ASSUME NEW t \in Tasks, LLMAnswers(t) PROVE (CopyIsRow /\ KeptUnlessRaced)'
        BY <1>12 DEF LLMAnswers, Save
  <1>13. ASSUME NEW t \in Tasks, ToolsDone(t) PROVE (CopyIsRow /\ KeptUnlessRaced)'
        BY <1>13 DEF ToolsDone, Save
  <1>14. ASSUME NEW t \in Tasks, ToolCancelled(t) PROVE (CopyIsRow /\ KeptUnlessRaced)'
        BY <1>14 DEF ToolCancelled
  <1>15. ASSUME NEW t \in Tasks, Summarise(t) PROVE (CopyIsRow /\ KeptUnlessRaced)'
        BY <1>15 DEF Summarise, Save
  <1>16. ASSUME NEW t \in Tasks, Cleanup(t) PROVE (CopyIsRow /\ KeptUnlessRaced)'
        BY <1>16 DEF Cleanup, Return
  <1>17. CASE UNCHANGED vars
        BY <1>17 DEF vars
  <1> QED
      BY <1>1, <1>2, <1>3, <1>4, <1>5, <1>6, <1>7, <1>8, <1>9, <1>10, <1>11,
         <1>12, <1>13, <1>14, <1>15, <1>16, <1>17 DEF Next, RunLoop, Handle,
         DispatchButton

\* A text moves from one place to the next.
LEMMA PlaceStep == Keep /\ InOnePlace /\ PlaceByPc /\ [Next]_vars => (InOnePlace /\ PlaceByPc)'
  <1> SUFFICES ASSUME Keep, InOnePlace, PlaceByPc, [Next]_vars PROVE (InOnePlace /\ PlaceByPc)'
      OBVIOUS
  <1> USE DEF Keep, TypeOK, NotStarted, InOnePlace, PlaceByPc, Queued, InHand, OthersKeep, HandleKeeps, Before, During
  <1>1. ASSUME NEW m \in Tasks \union Controls, DispatchText(m) PROVE (InOnePlace /\ PlaceByPc)'
    <2>1. CASE m \in {Stop, Abort} /\ Interrupt
          BY <1>1, <2>1 DEF DispatchText, Interrupt, Controls
    <2>2. CASE m \in unsent /\ Busy(m) /\ queuing' = m /\ HandlesKeep
          BY <1>1, <2>2 DEF DispatchText, HandlesKeep
    <2>3. CASE m \in unsent /\ ~Busy(m) /\ Spawn(m)
          BY <1>1, <2>3 DEF DispatchText, Spawn, Busy
    <2> QED BY <1>1, <2>1, <2>2, <2>3 DEF DispatchText
  <1>2. CASE AddPending
    <2>1. queuing \in Tasks /\ queuing \notin unsent /\ queuing \notin ToSet(pending)
          BY <1>2 DEF AddPending
    <2>2. ToSet(pending') = ToSet(pending) \union {queuing} /\ IsInjective(pending')
          BY <1>2, <2>1, AppendOnce DEF AddPending
    <2>3. ToSet(pending) \subseteq Tasks
          BY DEF ToSet
    <2>4. queuing' = None /\ None \notin ToSet(pending') /\ UNCHANGED <<unsent, accepted, pc>>
          BY <1>2, <2>1, <2>2, <2>3 DEF AddPending, HandlesKeep
    <2>5. queuing # None /\ \A u \in Tasks : Queued(u)' <=> Queued(u)
          BY <1>2, <2>2, <2>4 DEF AddPending
    <2> QED BY <2>1, <2>2, <2>4, <2>5
  <1>3. ASSUME NEW t \in Tasks, Load(t) PROVE (InOnePlace /\ PlaceByPc)'
        BY <1>3 DEF Load
  <1>4. ASSUME NEW t \in Tasks, AppendUser(t) PROVE (InOnePlace /\ PlaceByPc)'
        BY <1>4 DEF AppendUser
  <1>5. ASSUME NEW t \in Tasks, Register(t) PROVE (InOnePlace /\ PlaceByPc)'
        BY <1>5 DEF Register
  <1>6. ASSUME NEW t \in Tasks, DrainPending(t) PROVE (InOnePlace /\ PlaceByPc)'
        BY <1>6, EmptyQueue DEF DrainPending
  <1>7. ASSUME NEW t \in Tasks, LoopTop(t) PROVE (InOnePlace /\ PlaceByPc)'
        BY <1>7 DEF LoopTop, CallLLM
  <1>8. ASSUME NEW t \in Tasks, LLMTransient(t) PROVE (InOnePlace /\ PlaceByPc)'
        BY <1>8 DEF LLMTransient
  <1>9. ASSUME NEW t \in Tasks, BackoffEnds(t) PROVE (InOnePlace /\ PlaceByPc)'
        BY <1>9 DEF BackoffEnds, CallLLM
  <1>10. ASSUME NEW t \in Tasks, BackoffInterrupted(t) PROVE (InOnePlace /\ PlaceByPc)'
        BY <1>10 DEF BackoffInterrupted
  <1>11. ASSUME NEW t \in Tasks, LLMGivesUp(t) PROVE (InOnePlace /\ PlaceByPc)'
        BY <1>11 DEF LLMGivesUp
  <1>12. ASSUME NEW t \in Tasks, LLMAnswers(t) PROVE (InOnePlace /\ PlaceByPc)'
        BY <1>12 DEF LLMAnswers, Save
  <1>13. ASSUME NEW t \in Tasks, ToolsDone(t) PROVE (InOnePlace /\ PlaceByPc)'
        BY <1>13 DEF ToolsDone, Save
  <1>14. ASSUME NEW t \in Tasks, ToolCancelled(t) PROVE (InOnePlace /\ PlaceByPc)'
        BY <1>14 DEF ToolCancelled
  <1>15. ASSUME NEW t \in Tasks, Summarise(t) PROVE (InOnePlace /\ PlaceByPc)'
        BY <1>15 DEF Summarise, Save
  <1>16. ASSUME NEW t \in Tasks, Cleanup(t) PROVE (InOnePlace /\ PlaceByPc)'
        BY <1>16 DEF Cleanup, Return
  <1>17. CASE UNCHANGED vars
        BY <1>17 DEF vars
  <1> QED
      BY <1>1, <1>2, <1>3, <1>4, <1>5, <1>6, <1>7, <1>8, <1>9, <1>10, <1>11,
         <1>12, <1>13, <1>14, <1>15, <1>16, <1>17 DEF Next, RunLoop, Handle,
         DispatchButton

\* IInv holds at the start: no Handle runs and every place is empty.
LEMMA InitIInv == Init => IInv
  <1> SUFFICES ASSUME Init PROVE IInv
      OBVIOUS
  <1> USE DEF Init
  <1>1. TypeOK /\ InBudget /\ NotStarted
    <2>1. 0 \in 0..MaxSteps /\ 0 \in 0..MaxRetries /\ 0 \in Nat /\ <<>> \in Seq(Tasks)
          OBVIOUS
    <2>2. TypeOK
          BY <2>1 DEF TypeOK, PCs, Before
    <2>3. InBudget /\ NotStarted
          BY DEF InBudget, NotStarted
    <2> QED BY <2>2, <2>3
  <1>2. RegistryExact /\ Alone /\ CopyIsRow /\ KeptUnlessRaced /\ StoppableUnlessRaced
        BY DEF RegistryExact, Alone, CopyIsRow, KeptUnlessRaced, StoppableUnlessRaced,
               InProgress, Active, During
  <1>3. LateByPlace
        BY DEF LateByPlace
  <1>4. InOnePlace /\ PlaceByPc
        BY EmptyQueue DEF InOnePlace, PlaceByPc, Queued
  <1> QED BY <1>1, <1>2, <1>3, <1>4 DEF IInv

\* Every step of the dispatcher and of a Handle keeps IInv.
LEMMA StepIInv == IInv /\ [Next]_vars => IInv'
  BY TypeStep, RegistryStep, AloneStep, StoppableStep, CopyStep, LateStep, PlaceStep DEF IInv, Keep

\* The strengthened invariant, of which the theorems below state the parts.
THEOREM AgentRunsInvariant == Spec => []IInv
  BY InitIInv, StepIInv, PTL DEF Spec

\* Every variable keeps its type; the loop counter and the retry counter stay
\* within the budget of any size.
THEOREM AgentRunsTypes == Spec => []TypeOK
  <1>1. IInv => TypeOK
        BY DEF IInv
  <1> QED BY <1>1, AgentRunsInvariant, PTL

\* The registry holds the latest active run and nothing else, for any number of
\* overlapping Handles.
THEOREM AgentRunsRegistry == Spec => []RegistryExact
  <1>1. IInv => RegistryExact
        BY DEF IInv
  <1> QED BY <1>1, AgentRunsInvariant, PTL

\* Without a race of two Handles no accepted text disappears from the database.
THEOREM AgentRunsKept == Spec => []KeptUnlessRaced
  <1>1. IInv => KeptUnlessRaced
        BY DEF IInv
  <1> QED BY <1>1, AgentRunsInvariant, PTL

\* A text is in one place at any time: never dropped, never processed twice.
THEOREM AgentRunsPlaces == Spec => []InOnePlace
  <1>1. IInv => InOnePlace
        BY DEF IInv
  <1> QED BY <1>1, AgentRunsInvariant, PTL

\* After /stop or /abort a run begins at most two more LLM calls, whatever its
\* budget and number of retries.
THEOREM AgentRunsStop == Spec => []StopBoundsWork
  <1>1. IInv => StopBoundsWork
        BY DEF IInv, TypeOK, LateByPlace, StopBoundsWork
  <1> QED BY <1>1, AgentRunsInvariant, PTL

\* The Handle in its loop is the one /stop and /abort reach, unless two Handles of
\* the chat overlapped.
THEOREM AgentRunsStoppable == Spec => []StoppableUnlessRaced
  <1>1. IInv => StoppableUnlessRaced
        BY DEF IInv
  <1> QED BY <1>1, AgentRunsInvariant, PTL

=============================================================================
