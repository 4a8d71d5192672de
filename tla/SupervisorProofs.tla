------------------------- MODULE SupervisorProofs -------------------------
(***************************************************************************)
(* The safety invariants of Supervisor, for any set of versions, channel   *)
(* capacity and number of requests.                                        *)
(*                                                                         *)
(* The argument has two layers.  TypeOK is inductive together with         *)
(* Launchable: markBad is called with target, and only Launchable says     *)
(* that target is a real version there.  The other three conjuncts of IInv *)
(* are then preserved action by action.                                    *)
(***************************************************************************)
EXTENDS Supervisor, TLAPS, SequenceTheorems

USE V0Assumption, NamesAssumption, CapAssumption, ReqAssumption

\* What the channel holds after a send.
LEMMA SendKeepsChannel ==
    ASSUME NEW q \in Seq(Names), NEW v \in Names, Len(q) < UpgradeCap
    PROVE  Append(q, v) \in Seq(Names) /\ Len(Append(q, v)) <= UpgradeCap
  OBVIOUS

\* What a receive yields is a name, and what it leaves is a channel.
LEMMA ReceiveKeepsChannel ==
    ASSUME NEW q \in Seq(Names), q # <<>>, Len(q) <= UpgradeCap
    PROVE  /\ Head(q) \in Names
           /\ Tail(q) \in Seq(Names)
           /\ Len(Tail(q)) <= UpgradeCap
  OBVIOUS

TypeInv == TypeOK /\ Launchable /\ FallbackIsCurrent

\* Every step keeps the types, and keeps runOne away from a version without a binary.
LEMMA TypeStep == TypeInv /\ [Next]_vars => TypeInv'
  <1> SUFFICES ASSUME TypeInv, [Next]_vars PROVE TypeInv'
      OBVIOUS
  <1> USE DEF TypeInv, TypeOK, Launchable, FallbackIsCurrent, Names, NoNames, PCs, Saving, Ends, LoopKeeps, files
  <1>1. ASSUME NEW v \in Versions, RequestSwap(v) PROVE TypeInv'
    <2>1. CASE Len(upgradeCh) < UpgradeCap
          BY <1>1, <2>1, SendKeepsChannel DEF RequestSwap, Enqueue, Alive
    <2>2. CASE ~(Len(upgradeCh) < UpgradeCap)
          BY <1>1, <2>2 DEF RequestSwap, Enqueue, Alive
    <2> QED BY <2>1, <2>2
  <1>2. ASSUME NEW v \in Versions, Build(v) PROVE TypeInv'
        BY <1>2 DEF Build
  <1>3. CASE RestartClicked
    <2>1. CASE Len(upgradeCh) < UpgradeCap
          BY <1>3, <2>1, SendKeepsChannel DEF RestartClicked
    <2>2. CASE ~(Len(upgradeCh) < UpgradeCap)
          BY <1>3, <2>2 DEF RestartClicked
    <2> QED BY <2>1, <2>2
  <1>4. CASE QuitClicked
        BY <1>4 DEF QuitClicked
  <1>5. ASSUME NEW how \in Ends, AgentEnds(how) PROVE TypeInv'
        BY <1>5 DEF AgentEnds
  <1>6. CASE SupervisorDies
        BY <1>6 DEF SupervisorDies
  <1>7. CASE SupervisorStarts
        BY <1>7 DEF SupervisorStarts
  <1>8. CASE Boot
        BY <1>8 DEF Boot
  <1>9. CASE SaveCurrent
        BY <1>9 DEF SaveCurrent
  <1>10. CASE ReturnOnStop
        BY <1>10 DEF ReturnOnStop
  <1>11. CASE Choose
    <2>1. CASE upgradeCh # <<>>
          BY <1>11, <2>1, ReceiveKeepsChannel DEF Choose
    <2>2. CASE upgradeCh = <<>>
          BY <1>11, <2>2 DEF Choose
    <2> QED BY <2>1, <2>2
  <1>12. CASE DropNextFile
        BY <1>12 DEF DropNextFile
  <1>13. CASE Vet
        BY <1>13 DEF Vet
  <1>14. CASE Stat
        BY <1>14 DEF Stat
  <1>15. CASE Fallback
        BY <1>15 DEF Fallback, latestVersionDir
  <1>16. CASE StartOk
        BY <1>16 DEF StartOk
  <1>17. CASE StartFails
        BY <1>17 DEF StartFails
  <1>18. CASE ReapExit
        BY <1>18 DEF ReapExit
  <1>19. CASE Swap
        BY <1>19, ReceiveKeepsChannel DEF Swap
  <1>20. CASE Swapped
        BY <1>20 DEF Swapped
  <1>21. CASE StopAgent
        BY <1>21 DEF StopAgent
  <1>22. CASE UNCHANGED vars
        BY <1>22 DEF vars
  <1> QED
      BY <1>1, <1>2, <1>3, <1>4, <1>5, <1>6, <1>7, <1>8, <1>9, <1>10, <1>11,
         <1>12, <1>13, <1>14, <1>15, <1>16, <1>17, <1>18, <1>19, <1>20, <1>21,
         <1>22 DEF Next, Loop, Environment

\* Every step keeps the promise about the marked version.
LEMMA BadStep == TypeInv /\ BadOnlyIfCurrent /\ [Next]_vars => BadOnlyIfCurrent'
  <1> SUFFICES ASSUME TypeInv, BadOnlyIfCurrent, [Next]_vars PROVE BadOnlyIfCurrent'
      OBVIOUS
  <1> USE DEF TypeInv, FallbackIsCurrent, BadOnlyIfCurrent, isBad, Saving, LoopKeeps, files
  <1>1. ASSUME NEW v \in Versions, RequestSwap(v) PROVE BadOnlyIfCurrent'
        BY <1>1 DEF RequestSwap, Enqueue
  <1>2. ASSUME NEW v \in Versions, Build(v) PROVE BadOnlyIfCurrent'
        BY <1>2 DEF Build
  <1>3. ASSUME NEW how \in Ends, AgentEnds(how) PROVE BadOnlyIfCurrent'
        BY <1>3 DEF AgentEnds
  <1>4. CASE RestartClicked
        BY <1>4 DEF RestartClicked
  <1>5. CASE QuitClicked
        BY <1>5 DEF QuitClicked
  <1>6. CASE SupervisorDies
        BY <1>6 DEF SupervisorDies
  <1>7. CASE SupervisorStarts
        BY <1>7 DEF SupervisorStarts
  <1>8. CASE Boot
        BY <1>8 DEF Boot
  <1>9. CASE SaveCurrent
        BY <1>9 DEF SaveCurrent
  <1>10. CASE ReturnOnStop
        BY <1>10 DEF ReturnOnStop
  <1>11. CASE Choose
        BY <1>11 DEF Choose
  <1>12. CASE DropNextFile
        BY <1>12 DEF DropNextFile
  <1>13. CASE Vet
        BY <1>13 DEF Vet
  <1>14. CASE Stat
        BY <1>14 DEF Stat
  <1>15. CASE Fallback
        BY <1>15 DEF Fallback, latestVersionDir
  <1>16. CASE StartOk
        BY <1>16 DEF StartOk
  <1>17. CASE StartFails
        BY <1>17 DEF StartFails
  <1>18. CASE ReapExit
        BY <1>18 DEF ReapExit
  <1>19. CASE Swap
        BY <1>19 DEF Swap
  <1>20. CASE Swapped
        BY <1>20 DEF Swapped
  <1>21. CASE StopAgent
        BY <1>21 DEF StopAgent
  <1>22. CASE UNCHANGED vars
        BY <1>22 DEF vars
  <1> QED
      BY <1>1, <1>2, <1>3, <1>4, <1>5, <1>6, <1>7, <1>8, <1>9, <1>10, <1>11,
         <1>12, <1>13, <1>14, <1>15, <1>16, <1>17, <1>18, <1>19, <1>20, <1>21,
         <1>22 DEF Next, Loop, Environment

\* Every step keeps current.json in agreement with the loop.
LEMMA PointerStep == PointerDurable /\ [Next]_vars => PointerDurable'
  <1> SUFFICES ASSUME PointerDurable, [Next]_vars PROVE PointerDurable'
      OBVIOUS
  <1> USE DEF PointerDurable, Alive, Saving, LoopKeeps, files
  <1>1. ASSUME NEW v \in Versions, RequestSwap(v) PROVE PointerDurable'
        BY <1>1 DEF RequestSwap, Enqueue
  <1>2. ASSUME NEW v \in Versions, Build(v) PROVE PointerDurable'
        BY <1>2 DEF Build
  <1>3. ASSUME NEW how \in Ends, AgentEnds(how) PROVE PointerDurable'
        BY <1>3 DEF AgentEnds
  <1>4. CASE RestartClicked
        BY <1>4 DEF RestartClicked
  <1>5. CASE QuitClicked
        BY <1>5 DEF QuitClicked
  <1>6. CASE SupervisorDies
        BY <1>6 DEF SupervisorDies
  <1>7. CASE SupervisorStarts
        BY <1>7 DEF SupervisorStarts
  <1>8. CASE Boot
        BY <1>8 DEF Boot
  <1>9. CASE SaveCurrent
        BY <1>9 DEF SaveCurrent
  <1>10. CASE ReturnOnStop
        BY <1>10 DEF ReturnOnStop
  <1>11. CASE Choose
        BY <1>11 DEF Choose
  <1>12. CASE DropNextFile
        BY <1>12 DEF DropNextFile
  <1>13. CASE Vet
        BY <1>13 DEF Vet
  <1>14. CASE Stat
        BY <1>14 DEF Stat
  <1>15. CASE Fallback
        BY <1>15 DEF Fallback, latestVersionDir
  <1>16. CASE StartOk
        BY <1>16 DEF StartOk
  <1>17. CASE StartFails
        BY <1>17 DEF StartFails
  <1>18. CASE ReapExit
        BY <1>18 DEF ReapExit
  <1>19. CASE Swap
        BY <1>19 DEF Swap
  <1>20. CASE Swapped
        BY <1>20 DEF Swapped
  <1>21. CASE StopAgent
        BY <1>21 DEF StopAgent
  <1>22. CASE UNCHANGED vars
        BY <1>22 DEF vars
  <1> QED
      BY <1>1, <1>2, <1>3, <1>4, <1>5, <1>6, <1>7, <1>8, <1>9, <1>10, <1>11,
         <1>12, <1>13, <1>14, <1>15, <1>16, <1>17, <1>18, <1>19, <1>20, <1>21,
         <1>22 DEF Next, Loop, Environment

\* The invariant holds at first and is kept.
LEMMA InitIInv == Init => IInv
  <1> SUFFICES ASSUME Init PROVE IInv
      OBVIOUS
  <1>1. TypeOK
    <2>1. built \subseteq Versions /\ newest \in built \union {None}
          BY DEF Init
    <2>2. upgradeCh \in Seq(Names) /\ Len(upgradeCh) <= UpgradeCap /\ requests \in 0..MaxRequests
          BY DEF Init
    <2> QED BY <2>1, <2>2 DEF Init, TypeOK, Names, NoNames, PCs, Saving, Ends
  <1>2. Launchable /\ FallbackIsCurrent /\ BadOnlyIfCurrent /\ PointerDurable
        BY DEF Init, Launchable, FallbackIsCurrent, BadOnlyIfCurrent, PointerDurable, Alive
  <1> QED BY <1>1, <1>2 DEF IInv

\* Each part is kept by a lemma of its own.
LEMMA StepIInv == IInv /\ [Next]_vars => IInv'
  BY TypeStep, BadStep, PointerStep DEF IInv, TypeInv

\* The inductive invariant holds of every behaviour of the supervisor.
THEOREM SupervisorInvariant == Spec => []IInv
  BY InitIInv, StepIInv, PTL DEF Spec

\* Every variable keeps its type; no message overflows the channel, and only
\* real versions are ever written to bad.json.
THEOREM SupervisorTypes == Spec => []TypeOK
  <1>1. IInv => TypeOK
        BY DEF IInv
  <1> QED BY <1>1, SupervisorInvariant, PTL

\* The version being run is the marked one only if it is the current one.
THEOREM SupervisorBadOnlyIfCurrent == Spec => []BadOnlyIfCurrent
  <1>1. IInv => BadOnlyIfCurrent
        BY DEF IInv
  <1> QED BY <1>1, SupervisorInvariant, PTL

\* current.json names the loop's current version whenever it is not being written.
THEOREM SupervisorPointerDurable == Spec => []PointerDurable
  <1>1. IInv => PointerDurable
        BY DEF IInv
  <1> QED BY <1>1, SupervisorInvariant, PTL
===========================================================================
