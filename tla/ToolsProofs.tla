----------------------------- MODULE ToolsProofs -----------------------------
(***************************************************************************)
(* What the tools of the agent promise that leave something behind: the    *)
(* file tools (Tools), for any chats, files, spellings and texts, and the  *)
(* rebuilding and rolling back that self_modify begins (Upgrade), for any  *)
(* sources, jobs and bounds.                                               *)
(*                                                                         *)
(* What runs was tested, but for the labels of the supervisor's own builds *)
(* and fallbacks, because whatever may be started next was                 *)
(* (StartableTested).  commit.txt is exact, and a rollback leads to its    *)
(* commit, by what each place of a job implies (RollbackPlaces,            *)
(* UpgradePlaces, OwnPlaces), which holds while jobs do not overlap        *)
(* (OneJob).                                                               *)
(*                                                                         *)
(* EditExact is arithmetic: an edit is one splice of the lines it read     *)
(* (Splice), and the guards of edit_file put the cut inside them.  Serial  *)
(* needs an invariant on every call that is under way: on a file that no   *)
(* two calls share, it has read what the history says (Fresh), and what it *)
(* will write is what the history says already (Pending).                  *)
(***************************************************************************)
EXTENDS Tools, Upgrade, TLAPS, SequenceTheorems

---------------------------------------------------------------------------
(* Upgrades and rollbacks.                                                 *)

USE SourcesAssumption, BoundsAssumption

JobType == [pc : Pcs, kind : Kinds, label : Commits,
            sha : Commits \union {0}, cli : BOOLEAN]

\* Hashes that are written down are of commits.
HashesKnown ==
    /\ \A v \in Commits : commit[v] # 0 => log[commit[v]] # None
    /\ \A j \in Jobs : job[j].sha # 0 => log[job[j].sha] # None
    /\ \A j \in Jobs : job[j].pc \in {"checkout", "note"} \/ (Own(j) /\ job[j].pc = "build")
                       => job[j].sha # 0
    /\ \A j \in Jobs : Own(j) => job[j].pc \in {"checkout", "build", "note", "post"}

\* What may be started has been built.
Built ==
    /\ exe[current] # None
    /\ \A v \in posted : exe[v] # None
    /\ \A j \in Jobs : job[j].pc \in {"smoke", "post"} \/ (Own(j) /\ job[j].pc = "note")
                       => exe[job[j].label] # None

\* Whatever the supervisor may start was tested, but for the labels it built itself or
\* fell back to, and those that were built in use.
StartableTested ==
    /\ running \in Good \/ current \in untested
    /\ \A v \in posted \union {current} : exe[v] \in Good \/ v \in untested
    /\ \A j \in Jobs : job[j].pc = "post" =>
          exe[job[j].label] \in Good \/ job[j].label \in untested
    /\ \A j \in Jobs : Own(j) /\ job[j].pc = "note" => job[j].label \in untested

OneJob == disturbed \/ \A j, k \in Jobs : Busy(j) /\ Busy(k) => j = k

\* A rollback keeps the commit of its label, has it in the tree when it builds, and
\* in the binary after that.
RollbackPlaces ==
    disturbed \/ \A j \in Jobs : job[j].kind = "rollback" /\ Busy(j) =>
        /\ job[j].sha # 0 /\ commit[job[j].label] = job[j].sha
        /\ job[j].pc \in {"checkout", "build", "smoke", "post"}
        /\ job[j].pc = "build" => tree = log[job[j].sha]
        /\ job[j].pc \in {"smoke", "post"} => exe[job[j].label] = log[job[j].sha]

\* An upgrade has the commit of the tree in its hands, and then in commit.txt.
UpgradePlaces ==
    disturbed \/ broken \/ \A j \in Jobs : job[j].kind = "upgrade" =>
        /\ job[j].pc # "checkout"
        /\ job[j].pc = "note" => job[j].sha # 0 /\ log[job[j].sha] = tree
        /\ job[j].pc = "build" =>
              commit[job[j].label] # 0 /\ log[commit[job[j].label]] = tree

\* The supervisor's own builds take the commit they are labelled with, unless the tree
\* of /rebuild was another.
OwnPlaces ==
    disturbed \/ \A j \in Jobs : Own(j) /\ job[j].label \notin asIs =>
        /\ job[j].pc \in {"checkout", "build", "note"} => job[j].sha = job[j].label
        /\ job[j].pc = "build" => tree = log[job[j].label]
        /\ job[j].pc = "note" => exe[job[j].label] = log[job[j].label]

\* commit.txt is exact but for a label that is being built.
Exact(v) == commit[v] # 0 /\ log[commit[v]] = exe[v]
HalfDone(j) ==
    \/ job[j].kind = "upgrade" /\ job[j].pc = "build"
    \/ Own(j) /\ job[j].pc = "note"
InBuild(v) == \E j \in Jobs : HalfDone(j) /\ job[j].label = v
AllExact ==
    disturbed \/ broken \/ \A v \in Commits \ asIs : exe[v] # None => Exact(v) \/ InBuild(v)

IInv == /\ TypeOK /\ HashesKnown /\ Built /\ StartableTested /\ OneJob
        /\ RollbackPlaces /\ UpgradePlaces /\ OwnPlaces /\ AllExact /\ ResumedOnce

---------------------------------------------------------------------------
(* Types, hashes and markers.                                              *)

\* Shapes.
LEMMA TypeStep == IInv /\ [Next]_vars => TypeOK'
  <1> SUFFICES ASSUME IInv, [Next]_vars PROVE TypeOK'
      OBVIOUS
  <1> USE DEF IInv, TypeOK, Pcs, Kinds, Own, HashesKnown, Built, ResumedOnce, git, versions, supervisor,
             resumption, history
  <1>j. NoJob \in JobType
    <2>1. 1 \in Commits
          BY DEF Commits
    <2> QED BY <2>1 DEF NoJob, JobType
  <1>1. ASSUME NEW s \in Sources, Edit(s) PROVE TypeOK'
        BY <1>1 DEF Edit
  <1>2. ASSUME NEW j \in Jobs, NEW v \in Commits, NEW cli \in BOOLEAN, StartUpgrade(j, v, cli)
        PROVE  TypeOK'
    <2>1. [NoJob EXCEPT !.pc = "commit", !.label = v, !.cli = cli] \in JobType
          BY DEF NoJob, JobType
    <2>2. job' \in [Jobs -> JobType]
          BY <1>2, <2>1 DEF StartUpgrade, Begins, JobType
    <2>3. disturbed' \in BOOLEAN
          BY <1>2 DEF StartUpgrade, Begins
    <2> QED BY <1>2, <2>2, <2>3 DEF StartUpgrade, Begins, JobType
  <1>3. ASSUME NEW j \in Jobs, NEW v \in Commits, StartUpgradeAndResume(j, v) PROVE TypeOK'
    <2>1. [NoJob EXCEPT !.pc = "commit", !.label = v] \in JobType
          BY DEF NoJob, JobType
    <2>2. job' \in [Jobs -> JobType]
          BY <1>3, <2>1 DEF StartUpgradeAndResume, saveResumeMarker, Begins, JobType
    <2>3. disturbed' \in BOOLEAN
          BY <1>3 DEF StartUpgradeAndResume, saveResumeMarker, Begins
    <2> QED BY <1>3, <2>2, <2>3 DEF StartUpgradeAndResume, saveResumeMarker, Begins, JobType
  <1>4. ASSUME NEW j \in Jobs, NEW v \in Commits, NEW f \in BOOLEAN, NEW cli \in BOOLEAN,
               StartRollback(j, v, f, cli)
        PROVE  TypeOK'
        BY <1>4 DEF StartRollback, Allowed, Begins
  <1>5. ASSUME NEW j \in Jobs, CommitAll(j) PROVE TypeOK'
    <2>1. ASSUME NEW c \in Commits \ Known, log' = [log EXCEPT ![c] = tree], head' = c,
                 job' = [job EXCEPT ![j].pc = "note", ![j].sha = c]
          PROVE  log' \in [Commits -> Sources \union {None}] /\ log'[head'] # None
                 /\ job' \in [Jobs -> JobType]
      <3>1. log' \in [Commits -> Sources \union {None}]
            BY <2>1
      <3>2. log'[head'] # None
            BY <2>1
      <3>3. job' \in [Jobs -> JobType]
        <4>1. [job[j] EXCEPT !.pc = "note", !.sha = c] \in JobType
          <5>1. job[j] \in JobType /\ c \in Commits
                BY DEF JobType
          <5> QED BY <5>1 DEF JobType
        <4>2. job' = [job EXCEPT ![j] = [job[j] EXCEPT !.pc = "note", !.sha = c]]
              BY <2>1 DEF JobType
        <4> HIDE DEF JobType
        <4>3. job \in [Jobs -> JobType]
              BY DEF JobType
        <4> QED BY <4>1, <4>2, <4>3
      <3> QED BY <3>1, <3>2, <3>3
    <2>2. ASSUME UNCHANGED <<head, log>>,
                 job' = [job EXCEPT ![j].pc = "note", ![j].sha = head]
                 \/ job' = [job EXCEPT ![j].pc = "build"]
          PROVE  log' \in [Commits -> Sources \union {None}] /\ log'[head'] # None
                 /\ job' \in [Jobs -> JobType]
          BY <2>2 DEF JobType
    <2>3. broken' \in BOOLEAN /\ untracked' \in BOOLEAN /\ head' \in Commits
          BY <1>5 DEF CommitAll, Known
    <2>4. log' \in [Commits -> Sources \union {None}] /\ log'[head'] # None
          /\ job' \in [Jobs -> JobType]
          BY <1>5, <2>1, <2>2 DEF CommitAll, Goes
    <2> QED BY <1>5, <2>3, <2>4 DEF CommitAll, JobType
  <1>6. ASSUME NEW j \in Jobs, WriteCommitTxt(j) PROVE TypeOK'
        BY <1>6 DEF WriteCommitTxt
  <1>7. ASSUME NEW j \in Jobs, Build(j) PROVE TypeOK'
        BY <1>7 DEF Build, Goes, Taken
  <1>8. ASSUME NEW j \in Jobs, SmokeTest(j) PROVE TypeOK'
        BY <1>8 DEF SmokeTest, Passes, Goes
  <1>9. ASSUME NEW j \in Jobs, Post(j) PROVE TypeOK'
    <2>1. job' \in [Jobs -> JobType]
          BY <1>9, <1>j DEF Post, JobType
    <2> QED BY <1>9, <2>1 DEF Post, JobType
  <1>10. ASSUME NEW j \in Jobs, JobFails(j) PROVE TypeOK'
    <2>1. broken' \in BOOLEAN /\ cutShort' \in BOOLEAN
          BY <1>10 DEF JobFails, Fails, Wrote
    <2>2. job' \in [Jobs -> JobType]
          BY <1>10, <1>j DEF JobFails, Fails, Wrote, JobType
    <2> QED BY <1>10, <2>1, <2>2 DEF JobFails, Fails, Wrote, JobType
  <1>11. ASSUME NEW j \in Jobs, Checkout(j) PROVE TypeOK'
    <2>1. CASE Fails(j) /\ UNCHANGED <<tree, untracked, head, disturbed>>
      <3>1. broken' \in BOOLEAN
            BY <1>11, <2>1 DEF Fails
      <3>2. job' \in [Jobs -> JobType]
            BY <1>j, <2>1 DEF Fails, JobType
      <3> QED BY <1>11, <2>1, <3>1, <3>2 DEF Checkout, JobType
    <2>2. CASE /\ head' = job[j].sha
               /\ IF Dirty THEN tree' \in Sources ELSE tree' = log[job[j].sha]
               /\ untracked' = (untracked /\ tree' # log[job[j].sha])
               /\ disturbed' = (disturbed \/ Dirty)
               /\ Goes(j, "build")
               /\ UNCHANGED broken
      <3>1. job[j].sha \in Commits /\ log[job[j].sha] \in Sources
            BY <1>11, <2>2 DEF Checkout
      <3>2. untracked' \in BOOLEAN /\ disturbed' \in BOOLEAN
            BY <2>2
      <3>3. job' \in [Jobs -> JobType]
            BY <2>2 DEF Goes, JobType
      <3>4. head' \in Commits /\ tree' \in Sources
            BY <2>2, <3>1
      <3> QED BY <1>11, <2>2, <3>1, <3>2, <3>3, <3>4 DEF Checkout, JobType
    <2> QED BY <1>11, <2>1, <2>2 DEF Checkout
  <1>12. ASSUME NEW v \in Commits, Swap(v) PROVE TypeOK'
    <2>1. broken' \in BOOLEAN /\ cutShort' \in BOOLEAN
          BY <1>12 DEF Swap, Dies, Wrote
    <2>2. job' \in [Jobs -> JobType]
          BY <1>12, <1>j DEF Swap, Dies, JobType
    <2>3. running' \in Sources
          BY <1>12 DEF Swap
    <2>4. told' \in Commits \union {0} /\ boot' \in {"check", "wait", "ready"}
          /\ saves' \in 0..MaxSaves /\ marker' \in Commits \union {0}
          BY <1>12 DEF Swap, Dies
    <2>5. UNCHANGED <<git, versions, begun, resumes, pushed, asIs, disturbed>>
          BY <1>12 DEF Swap, Dies
    <2>6. posted' \subseteq Commits /\ current' \in Commits /\ untested' \subseteq Commits
          BY <1>12 DEF Swap
    <2> QED BY <2>1, <2>2, <2>3, <2>4, <2>5, <2>6 DEF JobType
  <1>13. CASE Restart
    <2>1. broken' \in BOOLEAN /\ cutShort' \in BOOLEAN
          BY <1>13 DEF Restart, Dies, Wrote
    <2>2. job' \in [Jobs -> JobType]
          BY <1>13, <1>j DEF Restart, Dies, JobType
    <2>3. running' \in Sources
          BY <1>13 DEF Restart
    <2>4. told' \in Commits \union {0} /\ boot' \in {"check", "wait", "ready"}
          /\ saves' \in 0..MaxSaves /\ marker' \in Commits \union {0}
          BY <1>13 DEF Restart, Dies
    <2>5. UNCHANGED <<git, versions, begun, resumes, pushed, asIs, disturbed>>
          BY <1>13 DEF Restart, Dies
    <2>6. posted' \subseteq Commits /\ current' \in Commits /\ untested' \subseteq Commits
          BY <1>13 DEF Restart
    <2> QED BY <2>1, <2>2, <2>3, <2>4, <2>5, <2>6 DEF JobType
  <1>14. CASE handleUpgradeResume
    <2>1. broken' \in BOOLEAN /\ cutShort' \in BOOLEAN
          BY <1>14 DEF handleUpgradeResume, Dies, Wrote
    <2>2. job' \in [Jobs -> JobType]
          BY <1>14, <1>j DEF handleUpgradeResume, Dies, JobType
    <2>3. running' \in Sources
          BY <1>14 DEF handleUpgradeResume
    <2>4. told' \in Commits \union {0} /\ boot' \in {"check", "wait", "ready"}
          /\ saves' \in 0..MaxSaves /\ marker' \in Commits \union {0}
          BY <1>14 DEF handleUpgradeResume, Dies, saveResumeMarker
    <2>5. UNCHANGED <<git, versions, begun, resumes, pushed, asIs, disturbed>>
          BY <1>14 DEF handleUpgradeResume, Dies
    <2>6. posted' \subseteq Commits /\ current' \in Commits /\ untested' \subseteq Commits
          BY <1>14 DEF handleUpgradeResume
    <2> QED BY <2>1, <2>2, <2>3, <2>4, <2>5, <2>6 DEF JobType
  <1>15. CASE CheckMarker
        BY <1>15 DEF CheckMarker, BootKeeps
  <1>16. CASE PushContinuation
        BY <1>16 DEF PushContinuation, BootKeeps
  <1>17. CASE UNCHANGED vars
        BY <1>17 DEF vars
  <1>18. ASSUME NEW j \in Jobs, StartRebuild(j) PROVE TypeOK'
        BY <1>18 DEF StartRebuild, Begins, Dirty
  <1>19. ASSUME NEW j \in Jobs, NEW v \in Commits, StartTrayRollback(j, v) PROVE TypeOK'
        BY <1>19 DEF StartTrayRollback, Begins, Known
  <1>20. ASSUME NEW v \in Commits, FallBack(v) PROVE TypeOK'
    <2>1. broken' \in BOOLEAN /\ cutShort' \in BOOLEAN
          BY <1>20 DEF FallBack, Dies, Wrote
    <2>2. job' \in [Jobs -> JobType]
          BY <1>20, <1>j DEF FallBack, Dies, JobType
    <2>3. running' \in Sources
          BY <1>20 DEF FallBack
    <2>4. told' \in Commits \union {0} /\ boot' \in {"check", "wait", "ready"}
          /\ saves' \in 0..MaxSaves /\ marker' \in Commits \union {0}
          BY <1>20 DEF FallBack, Dies
    <2>5. UNCHANGED <<git, versions, begun, resumes, pushed, asIs, disturbed>>
          BY <1>20 DEF FallBack, Dies
    <2>6. posted' \subseteq Commits /\ current' \in Commits /\ untested' \subseteq Commits
          BY <1>20 DEF FallBack
    <2> QED BY <2>1, <2>2, <2>3, <2>4, <2>5, <2>6 DEF JobType
  <1> QED BY <1>1, <1>2, <1>3, <1>4, <1>5, <1>6, <1>7, <1>8, <1>9,
             <1>10, <1>11, <1>12, <1>13, <1>14, <1>15, <1>16, <1>17, <1>18, <1>19, <1>20
          DEF Next, Start, Job, Boot

\* No commit is ever forgotten.
LEMMA HashStep == IInv /\ [Next]_vars => HashesKnown'
  <1> SUFFICES ASSUME IInv, [Next]_vars PROVE HashesKnown'
      OBVIOUS
  <1> USE DEF IInv, TypeOK, Pcs, Kinds, Own, HashesKnown, git, versions, supervisor, resumption, history
  <1>1. ASSUME NEW s \in Sources, Edit(s) PROVE HashesKnown'
        BY <1>1 DEF Edit
  <1>2. ASSUME NEW j \in Jobs, NEW v \in Commits, NEW cli \in BOOLEAN, StartUpgrade(j, v, cli)
        PROVE  HashesKnown'
        BY <1>2 DEF StartUpgrade, Begins, NoJob
  <1>3. ASSUME NEW j \in Jobs, NEW v \in Commits, StartUpgradeAndResume(j, v)
        PROVE  HashesKnown'
        BY <1>3 DEF StartUpgradeAndResume, saveResumeMarker, Begins, NoJob
  <1>4. ASSUME NEW j \in Jobs, NEW v \in Commits, NEW f \in BOOLEAN, NEW cli \in BOOLEAN,
               StartRollback(j, v, f, cli)
        PROVE  HashesKnown'
        BY <1>4 DEF StartRollback, Allowed, Begins
  <1>5. ASSUME NEW j \in Jobs, CommitAll(j) PROVE HashesKnown'
    <2>1. ASSUME NEW c \in Commits \ Known, Dirty, log' = [log EXCEPT ![c] = tree], head' = c,
                 job' = [job EXCEPT ![j].pc = "note", ![j].sha = c], UNCHANGED broken
          PROVE  HashesKnown'
      <3>j. /\ job'[j].pc = "note" /\ job'[j].sha = c /\ job'[j].kind = job[j].kind
            /\ job'[j].label = job[j].label /\ \A k \in Jobs \ {j} : job'[k] = job[k]
            BY <2>1 DEF JobType
      <3>u. UNCHANGED <<tree, exe, commit, disturbed>> /\ job[j].pc = "commit"
            BY <1>5 DEF CommitAll
      <3>1. \A x \in Commits : log[x] # None => log'[x] = log[x]
            BY <2>1 DEF Known
      <3>2. log'[c] = tree
            BY <2>1
      <3>3. \A v \in Commits : commit'[v] # 0 => log'[commit'[v]] # None
            BY <3>u, <3>1
      <3>4. ASSUME NEW k \in Jobs
            PROVE  /\ job'[k].sha # 0 => log'[job'[k].sha] # None
                   /\ job'[k].pc \in {"checkout", "note"} \/ (Own(k)' /\ job'[k].pc = "build")
                      => job'[k].sha # 0
                   /\ Own(k)' => job'[k].pc \in {"checkout", "build", "note", "post"}
        <4>1. CASE k = j
              BY <3>j, <4>1, <3>2 DEF Commits
        <4>2. CASE k # j
              BY <3>j, <4>2, <3>1
        <4> QED BY <4>1, <4>2
      <3> QED BY <3>3, <3>4
    <2>2. ASSUME job' = [job EXCEPT ![j].pc = "note", ![j].sha = head],
                 broken' = (broken \/ Dirty), UNCHANGED <<head, log>>
          PROVE  HashesKnown'
      <3>j. /\ job'[j].pc = "note" /\ job'[j].sha = head /\ job'[j].kind = job[j].kind
            /\ job'[j].label = job[j].label /\ \A k \in Jobs \ {j} : job'[k] = job[k]
            BY <2>2 DEF JobType
      <3>u. UNCHANGED <<tree, exe, commit, disturbed>> /\ job[j].pc = "commit"
            BY <1>5 DEF CommitAll
      <3>3. \A v \in Commits : commit'[v] # 0 => log'[commit'[v]] # None
            BY <3>u, <2>2
      <3>4. ASSUME NEW k \in Jobs
            PROVE  /\ job'[k].sha # 0 => log'[job'[k].sha] # None
                   /\ job'[k].pc \in {"checkout", "note"} \/ (Own(k)' /\ job'[k].pc = "build")
                      => job'[k].sha # 0
                   /\ Own(k)' => job'[k].pc \in {"checkout", "build", "note", "post"}
        <4>1. CASE k = j
              BY <3>j, <4>1, <2>2 DEF Commits
        <4>2. CASE k # j
              BY <3>j, <4>2, <2>2
        <4> QED BY <4>1, <4>2
      <3> QED BY <3>3, <3>4
    <2>3. ASSUME Goes(j, "build"), broken' = TRUE, UNCHANGED <<head, log>>
          PROVE  HashesKnown'
          BY <1>5, <2>3 DEF CommitAll, Goes
    <2> QED BY <1>5, <2>1, <2>2, <2>3 DEF CommitAll
  <1>6. ASSUME NEW j \in Jobs, WriteCommitTxt(j) PROVE HashesKnown'
        BY <1>6 DEF WriteCommitTxt
  <1>7. ASSUME NEW j \in Jobs, Build(j) PROVE HashesKnown'
        BY <1>7 DEF Build, Goes, Taken
  <1>8. ASSUME NEW j \in Jobs, SmokeTest(j) PROVE HashesKnown'
        BY <1>8 DEF SmokeTest, Passes, Goes
  <1>9. ASSUME NEW j \in Jobs, Post(j) PROVE HashesKnown'
        BY <1>9 DEF Post, NoJob
  <1>10. ASSUME NEW j \in Jobs, JobFails(j) PROVE HashesKnown'
        BY <1>10 DEF JobFails, Fails, Wrote, NoJob
  <1>11. ASSUME NEW j \in Jobs, Checkout(j) PROVE HashesKnown'
        BY <1>11 DEF Checkout, Fails, Wrote, Goes, Dirty, NoJob
  <1>12. ASSUME NEW v \in Commits, Swap(v) PROVE HashesKnown'
        BY <1>12 DEF Swap, Dies, Wrote, NoJob
  <1>13. CASE Restart
        BY <1>13 DEF Restart, Dies, Wrote, NoJob
  <1>14. CASE handleUpgradeResume
        BY <1>14 DEF handleUpgradeResume, saveResumeMarker, Dies, Wrote, NoJob
  <1>15. CASE CheckMarker
        BY <1>15 DEF CheckMarker, BootKeeps
  <1>16. CASE PushContinuation
        BY <1>16 DEF PushContinuation, BootKeeps
  <1>17. CASE UNCHANGED vars
        BY <1>17 DEF vars
  <1>18. ASSUME NEW j \in Jobs, StartRebuild(j) PROVE HashesKnown'
        BY <1>18 DEF StartRebuild, Begins, Dirty, Commits
  <1>19. ASSUME NEW j \in Jobs, NEW v \in Commits, StartTrayRollback(j, v) PROVE HashesKnown'
        BY <1>19 DEF StartTrayRollback, Begins, Known, Commits
  <1>20. ASSUME NEW v \in Commits, FallBack(v) PROVE HashesKnown'
        BY <1>20 DEF FallBack, Dies, Wrote, NoJob
  <1> QED BY <1>1, <1>2, <1>3, <1>4, <1>5, <1>6, <1>7, <1>8, <1>9,
             <1>10, <1>11, <1>12, <1>13, <1>14, <1>15, <1>16, <1>17, <1>18, <1>19, <1>20
          DEF Next, Start, Job, Boot

\* Nor a binary.
LEMMA BuiltStep == IInv /\ [Next]_vars => Built'
  <1> SUFFICES ASSUME IInv, [Next]_vars PROVE Built'
      OBVIOUS
  <1> USE DEF IInv, TypeOK, Pcs, Kinds, Own, Built, git, versions, supervisor, resumption, history
  <1>1. ASSUME NEW s \in Sources, Edit(s) PROVE Built'
        BY <1>1 DEF Edit
  <1>2. ASSUME NEW j \in Jobs, NEW v \in Commits, NEW cli \in BOOLEAN, StartUpgrade(j, v, cli)
        PROVE  Built'
        BY <1>2 DEF StartUpgrade, Begins, NoJob
  <1>3. ASSUME NEW j \in Jobs, NEW v \in Commits, StartUpgradeAndResume(j, v) PROVE Built'
        BY <1>3 DEF StartUpgradeAndResume, saveResumeMarker, Begins, NoJob
  <1>4. ASSUME NEW j \in Jobs, NEW v \in Commits, NEW f \in BOOLEAN, NEW cli \in BOOLEAN,
               StartRollback(j, v, f, cli)
        PROVE  Built'
        BY <1>4 DEF StartRollback, Allowed, Begins
  <1>5. ASSUME NEW j \in Jobs, CommitAll(j) PROVE Built'
        BY <1>5 DEF CommitAll, HashesKnown, Goes, Dirty, Known
  <1>6. ASSUME NEW j \in Jobs, WriteCommitTxt(j) PROVE Built'
        BY <1>6 DEF WriteCommitTxt
  <1>7. ASSUME NEW j \in Jobs, Build(j) PROVE Built'
        BY <1>7 DEF Build, Goes, Taken
  <1>8. ASSUME NEW j \in Jobs, SmokeTest(j) PROVE Built'
        BY <1>8 DEF SmokeTest, Passes, Goes
  <1>9. ASSUME NEW j \in Jobs, Post(j) PROVE Built'
        BY <1>9 DEF Post, NoJob
  <1>10. ASSUME NEW j \in Jobs, JobFails(j) PROVE Built'
        BY <1>10 DEF JobFails, Fails, Wrote, NoJob
  <1>11. ASSUME NEW j \in Jobs, Checkout(j) PROVE Built'
        BY <1>11 DEF Checkout, Fails, Wrote, Goes, Dirty, NoJob
  <1>12. ASSUME NEW v \in Commits, Swap(v) PROVE Built'
        BY <1>12 DEF Swap, Dies, Wrote, NoJob
  <1>13. CASE Restart
        BY <1>13 DEF Restart, Dies, Wrote, NoJob
  <1>14. CASE handleUpgradeResume
        BY <1>14 DEF handleUpgradeResume, saveResumeMarker, Dies, Wrote, NoJob
  <1>15. CASE CheckMarker
        BY <1>15 DEF CheckMarker, BootKeeps
  <1>16. CASE PushContinuation
        BY <1>16 DEF PushContinuation, BootKeeps
  <1>17. CASE UNCHANGED vars
        BY <1>17 DEF vars
  <1>18. ASSUME NEW j \in Jobs, StartRebuild(j) PROVE Built'
        BY <1>18 DEF StartRebuild, Begins, Dirty
  <1>19. ASSUME NEW j \in Jobs, NEW v \in Commits, StartTrayRollback(j, v) PROVE Built'
        BY <1>19 DEF StartTrayRollback, Begins, Known
  <1>20. ASSUME NEW v \in Commits, FallBack(v) PROVE Built'
        BY <1>20 DEF FallBack, Dies, Wrote, NoJob
  <1> QED BY <1>1, <1>2, <1>3, <1>4, <1>5, <1>6, <1>7, <1>8, <1>9,
             <1>10, <1>11, <1>12, <1>13, <1>14, <1>15, <1>16, <1>17, <1>18, <1>19, <1>20
          DEF Next, Start, Job, Boot

\* A marker is used up when it is read.
LEMMA ResumeStep == IInv /\ [Next]_vars => ResumedOnce'
  <1> SUFFICES ASSUME IInv, [Next]_vars PROVE ResumedOnce'
      OBVIOUS
  <1> USE DEF IInv, TypeOK, ResumedOnce, git, versions, supervisor, resumption, history
  <1>1. ASSUME NEW s \in Sources, Edit(s) PROVE ResumedOnce'
        BY <1>1 DEF Edit
  <1>2. ASSUME NEW j \in Jobs, NEW v \in Commits, NEW cli \in BOOLEAN, StartUpgrade(j, v, cli)
        PROVE  ResumedOnce'
        BY <1>2 DEF StartUpgrade, Begins, NoJob
  <1>3. ASSUME NEW j \in Jobs, NEW v \in Commits, StartUpgradeAndResume(j, v)
        PROVE  ResumedOnce'
        BY <1>3 DEF StartUpgradeAndResume, saveResumeMarker, Begins, NoJob
  <1>4. ASSUME NEW j \in Jobs, NEW v \in Commits, NEW f \in BOOLEAN, NEW cli \in BOOLEAN,
               StartRollback(j, v, f, cli)
        PROVE  ResumedOnce'
        BY <1>4 DEF StartRollback, Allowed, Begins
  <1>5. ASSUME NEW j \in Jobs, CommitAll(j) PROVE ResumedOnce'
        BY <1>5 DEF CommitAll, Goes, Dirty, Known
  <1>6. ASSUME NEW j \in Jobs, WriteCommitTxt(j) PROVE ResumedOnce'
        BY <1>6 DEF WriteCommitTxt
  <1>7. ASSUME NEW j \in Jobs, Build(j) PROVE ResumedOnce'
        BY <1>7 DEF Build, Goes, Taken
  <1>8. ASSUME NEW j \in Jobs, SmokeTest(j) PROVE ResumedOnce'
        BY <1>8 DEF SmokeTest, Passes, Goes
  <1>9. ASSUME NEW j \in Jobs, Post(j) PROVE ResumedOnce'
        BY <1>9 DEF Post, NoJob
  <1>10. ASSUME NEW j \in Jobs, JobFails(j) PROVE ResumedOnce'
        BY <1>10 DEF JobFails, Fails, Wrote, NoJob
  <1>11. ASSUME NEW j \in Jobs, Checkout(j) PROVE ResumedOnce'
        BY <1>11 DEF Checkout, Fails, Wrote, Goes, Dirty, NoJob
  <1>12. ASSUME NEW v \in Commits, Swap(v) PROVE ResumedOnce'
        BY <1>12 DEF Swap, Dies, Wrote, NoJob
  <1>13. CASE Restart
        BY <1>13 DEF Restart, Dies, Wrote, NoJob
  <1>14. CASE handleUpgradeResume
        BY <1>14 DEF handleUpgradeResume, saveResumeMarker, Dies, Wrote, NoJob
  <1>15. CASE CheckMarker
        BY <1>15 DEF CheckMarker, BootKeeps
  <1>16. CASE PushContinuation
        BY <1>16 DEF PushContinuation, BootKeeps
  <1>17. CASE UNCHANGED vars
        BY <1>17 DEF vars
  <1>18. ASSUME NEW j \in Jobs, StartRebuild(j) PROVE ResumedOnce'
        BY <1>18 DEF StartRebuild, Begins, Dirty
  <1>19. ASSUME NEW j \in Jobs, NEW v \in Commits, StartTrayRollback(j, v) PROVE ResumedOnce'
        BY <1>19 DEF StartTrayRollback, Begins, Known
  <1>20. ASSUME NEW v \in Commits, FallBack(v) PROVE ResumedOnce'
        BY <1>20 DEF FallBack, Dies, Wrote, NoJob
  <1> QED BY <1>1, <1>2, <1>3, <1>4, <1>5, <1>6, <1>7, <1>8, <1>9,
             <1>10, <1>11, <1>12, <1>13, <1>14, <1>15, <1>16, <1>17, <1>18, <1>19, <1>20
          DEF Next, Start, Job, Boot

---------------------------------------------------------------------------
(* What is started, and what a rollback leads to.                          *)

\* A build changes no label that may be started.
LEMMA TestedStep == IInv /\ [Next]_vars => StartableTested'
  <1> SUFFICES ASSUME IInv, [Next]_vars PROVE StartableTested'
      OBVIOUS
  <1> USE DEF IInv, TypeOK, Pcs, Kinds, Own, StartableTested, Busy, git, versions, supervisor,
             resumption, history
  <1>1. ASSUME NEW s \in Sources, Edit(s) PROVE StartableTested'
        BY <1>1 DEF Edit
  <1>2. ASSUME NEW j \in Jobs, NEW v \in Commits, NEW cli \in BOOLEAN, StartUpgrade(j, v, cli)
        PROVE  StartableTested'
        BY <1>2 DEF StartUpgrade, Begins, NoJob
  <1>3. ASSUME NEW j \in Jobs, NEW v \in Commits, StartUpgradeAndResume(j, v)
        PROVE  StartableTested'
        BY <1>3 DEF StartUpgradeAndResume, saveResumeMarker, Begins, NoJob
  <1>4. ASSUME NEW j \in Jobs, NEW v \in Commits, NEW f \in BOOLEAN, NEW cli \in BOOLEAN,
               StartRollback(j, v, f, cli)
        PROVE  StartableTested'
        BY <1>4 DEF StartRollback, Allowed, Begins
  <1>5. ASSUME NEW j \in Jobs, CommitAll(j) PROVE StartableTested'
        BY <1>5 DEF CommitAll, HashesKnown, Goes, Dirty, Known
  <1>6. ASSUME NEW j \in Jobs, WriteCommitTxt(j) PROVE StartableTested'
        BY <1>6 DEF WriteCommitTxt
  <1>7. ASSUME NEW j \in Jobs, Build(j) PROVE StartableTested'
        BY <1>7 DEF Build, Goes, Taken
  <1>8. ASSUME NEW j \in Jobs, SmokeTest(j) PROVE StartableTested'
        BY <1>8 DEF SmokeTest, Passes, Goes
  <1>9. ASSUME NEW j \in Jobs, Post(j) PROVE StartableTested'
        BY <1>9 DEF Post, NoJob
  <1>10. ASSUME NEW j \in Jobs, JobFails(j) PROVE StartableTested'
        BY <1>10 DEF JobFails, Fails, Wrote, NoJob
  <1>11. ASSUME NEW j \in Jobs, Checkout(j) PROVE StartableTested'
        BY <1>11 DEF Checkout, Fails, Wrote, Goes, Dirty, NoJob
  <1>12. ASSUME NEW v \in Commits, Swap(v) PROVE StartableTested'
        BY <1>12 DEF Swap, Dies, Wrote, NoJob
  <1>13. CASE Restart
        BY <1>13 DEF Restart, Dies, Wrote, NoJob
  <1>14. CASE handleUpgradeResume
        BY <1>14 DEF handleUpgradeResume, saveResumeMarker, Dies, Wrote, NoJob
  <1>15. CASE CheckMarker
        BY <1>15 DEF CheckMarker, BootKeeps
  <1>16. CASE PushContinuation
        BY <1>16 DEF PushContinuation, BootKeeps
  <1>17. CASE UNCHANGED vars
        BY <1>17 DEF vars
  <1>18. ASSUME NEW j \in Jobs, StartRebuild(j) PROVE StartableTested'
        BY <1>18 DEF StartRebuild, Begins, Dirty
  <1>19. ASSUME NEW j \in Jobs, NEW v \in Commits, StartTrayRollback(j, v) PROVE StartableTested'
        BY <1>19 DEF StartTrayRollback, Begins, Known
  <1>20. ASSUME NEW v \in Commits, FallBack(v) PROVE StartableTested'
        BY <1>20 DEF FallBack, Dies, Wrote, NoJob
  <1> QED BY <1>1, <1>2, <1>3, <1>4, <1>5, <1>6, <1>7, <1>8, <1>9,
             <1>10, <1>11, <1>12, <1>13, <1>14, <1>15, <1>16, <1>17, <1>18, <1>19, <1>20
          DEF Next, Start, Job, Boot

\* A second job is a disturbance.
LEMMA OneJobStep == IInv /\ [Next]_vars => OneJob'
  <1> SUFFICES ASSUME IInv, [Next]_vars PROVE OneJob'
      OBVIOUS
  <1> USE DEF IInv, TypeOK, OneJob, Own, Busy, git, versions, supervisor, resumption, history
  <1>1. ASSUME NEW s \in Sources, Edit(s) PROVE OneJob'
        BY <1>1 DEF Edit
  <1>2. ASSUME NEW j \in Jobs, NEW v \in Commits, NEW cli \in BOOLEAN, StartUpgrade(j, v, cli)
        PROVE  OneJob'
        BY <1>2 DEF StartUpgrade, Begins, NoJob
  <1>3. ASSUME NEW j \in Jobs, NEW v \in Commits, StartUpgradeAndResume(j, v) PROVE OneJob'
        BY <1>3 DEF StartUpgradeAndResume, saveResumeMarker, Begins, NoJob
  <1>4. ASSUME NEW j \in Jobs, NEW v \in Commits, NEW f \in BOOLEAN, NEW cli \in BOOLEAN,
               StartRollback(j, v, f, cli)
        PROVE  OneJob'
        BY <1>4 DEF StartRollback, Allowed, Begins
  <1>5. ASSUME NEW j \in Jobs, CommitAll(j) PROVE OneJob'
        BY <1>5 DEF CommitAll, Goes, Dirty, Known
  <1>6. ASSUME NEW j \in Jobs, WriteCommitTxt(j) PROVE OneJob'
        BY <1>6 DEF WriteCommitTxt
  <1>7. ASSUME NEW j \in Jobs, Build(j) PROVE OneJob'
        BY <1>7 DEF Build, Goes, Taken
  <1>8. ASSUME NEW j \in Jobs, SmokeTest(j) PROVE OneJob'
        BY <1>8 DEF SmokeTest, Passes, Goes
  <1>9. ASSUME NEW j \in Jobs, Post(j) PROVE OneJob'
        BY <1>9 DEF Post, NoJob
  <1>10. ASSUME NEW j \in Jobs, JobFails(j) PROVE OneJob'
        BY <1>10 DEF JobFails, Fails, Wrote, NoJob
  <1>11. ASSUME NEW j \in Jobs, Checkout(j) PROVE OneJob'
        BY <1>11 DEF Checkout, Fails, Wrote, Goes, Dirty, NoJob
  <1>12. ASSUME NEW v \in Commits, Swap(v) PROVE OneJob'
        BY <1>12 DEF Swap, Dies, Wrote, NoJob
  <1>13. CASE Restart
        BY <1>13 DEF Restart, Dies, Wrote, NoJob
  <1>14. CASE handleUpgradeResume
        BY <1>14 DEF handleUpgradeResume, saveResumeMarker, Dies, Wrote, NoJob
  <1>15. CASE CheckMarker
        BY <1>15 DEF CheckMarker, BootKeeps
  <1>16. CASE PushContinuation
        BY <1>16 DEF PushContinuation, BootKeeps
  <1>17. CASE UNCHANGED vars
        BY <1>17 DEF vars
  <1>18. ASSUME NEW j \in Jobs, StartRebuild(j) PROVE OneJob'
        BY <1>18 DEF StartRebuild, Begins, Dirty
  <1>19. ASSUME NEW j \in Jobs, NEW v \in Commits, StartTrayRollback(j, v) PROVE OneJob'
        BY <1>19 DEF StartTrayRollback, Begins, Known
  <1>20. ASSUME NEW v \in Commits, FallBack(v) PROVE OneJob'
        BY <1>20 DEF FallBack, Dies, Wrote, NoJob
  <1> QED BY <1>1, <1>2, <1>3, <1>4, <1>5, <1>6, <1>7, <1>8, <1>9,
             <1>10, <1>11, <1>12, <1>13, <1>14, <1>15, <1>16, <1>17, <1>18, <1>19, <1>20
          DEF Next, Start, Job, Boot

\* Nobody else moves the tree or commit.txt while a rollback is under way.
LEMMA RollbackStep == IInv /\ [Next]_vars => RollbackPlaces'
  <1> SUFFICES ASSUME IInv, [Next]_vars PROVE RollbackPlaces'
      OBVIOUS
  <1> USE DEF IInv, TypeOK, Pcs, Kinds, Own, OneJob, HashesKnown, RollbackPlaces, Busy, git, versions,
             supervisor, resumption, history
  <1>1. ASSUME NEW s \in Sources, Edit(s) PROVE RollbackPlaces'
        BY <1>1 DEF Edit
  <1>2. ASSUME NEW j \in Jobs, NEW v \in Commits, NEW cli \in BOOLEAN, StartUpgrade(j, v, cli)
        PROVE  RollbackPlaces'
        BY <1>2 DEF StartUpgrade, Begins, NoJob
  <1>3. ASSUME NEW j \in Jobs, NEW v \in Commits, StartUpgradeAndResume(j, v)
        PROVE  RollbackPlaces'
        BY <1>3 DEF StartUpgradeAndResume, saveResumeMarker, Begins, NoJob
  <1>4. ASSUME NEW j \in Jobs, NEW v \in Commits, NEW f \in BOOLEAN, NEW cli \in BOOLEAN,
               StartRollback(j, v, f, cli)
        PROVE  RollbackPlaces'
        BY <1>4 DEF StartRollback, Allowed, Begins
  <1>5. ASSUME NEW j \in Jobs, CommitAll(j) PROVE RollbackPlaces'
        BY <1>5 DEF CommitAll, Goes, Dirty, Known
  <1>6. ASSUME NEW j \in Jobs, WriteCommitTxt(j) PROVE RollbackPlaces'
        BY <1>6 DEF WriteCommitTxt
  <1>7. ASSUME NEW j \in Jobs, Build(j) PROVE RollbackPlaces'
        BY <1>7 DEF Build, Goes, Taken
  <1>8. ASSUME NEW j \in Jobs, SmokeTest(j) PROVE RollbackPlaces'
        BY <1>8 DEF SmokeTest, Passes, Goes
  <1>9. ASSUME NEW j \in Jobs, Post(j) PROVE RollbackPlaces'
        BY <1>9 DEF Post, NoJob
  <1>10. ASSUME NEW j \in Jobs, JobFails(j) PROVE RollbackPlaces'
        BY <1>10 DEF JobFails, Fails, Wrote, NoJob
  <1>11. ASSUME NEW j \in Jobs, Checkout(j) PROVE RollbackPlaces'
    <2>1. ASSUME Fails(j), UNCHANGED <<tree, untracked, head, disturbed>> PROVE RollbackPlaces'
          BY <1>11, <2>1 DEF Checkout, Fails, Wrote, NoJob
    <2>2. ASSUME head' = job[j].sha, IF Dirty THEN tree' \in Sources ELSE tree' = log[job[j].sha],
                 disturbed' = (disturbed \/ Dirty), Goes(j, "build"), UNCHANGED broken
          PROVE  RollbackPlaces'
      <3>j. /\ job'[j].pc = "build" /\ job'[j].sha = job[j].sha /\ job'[j].kind = job[j].kind
            /\ job'[j].label = job[j].label /\ \A k \in Jobs \ {j} : job'[k] = job[k]
            BY <2>2 DEF Goes, JobType
      <3>1. job[j].pc = "checkout" /\ UNCHANGED <<log, exe, commit>>
            BY <1>11 DEF Checkout
      <3>2. disturbed' \/ tree' = log[job[j].sha]
            BY <2>2
      <3> QED BY <1>11, <2>2, <3>j, <3>1, <3>2
    <2> QED BY <1>11, <2>1, <2>2 DEF Checkout
  <1>12. ASSUME NEW v \in Commits, Swap(v) PROVE RollbackPlaces'
        BY <1>12 DEF Swap, Dies, Wrote, NoJob
  <1>13. CASE Restart
        BY <1>13 DEF Restart, Dies, Wrote, NoJob
  <1>14. CASE handleUpgradeResume
        BY <1>14 DEF handleUpgradeResume, saveResumeMarker, Dies, Wrote, NoJob
  <1>15. CASE CheckMarker
        BY <1>15 DEF CheckMarker, BootKeeps
  <1>16. CASE PushContinuation
        BY <1>16 DEF PushContinuation, BootKeeps
  <1>17. CASE UNCHANGED vars
        BY <1>17 DEF vars
  <1>18. ASSUME NEW j \in Jobs, StartRebuild(j) PROVE RollbackPlaces'
        BY <1>18 DEF StartRebuild, Begins, Dirty
  <1>19. ASSUME NEW j \in Jobs, NEW v \in Commits, StartTrayRollback(j, v) PROVE RollbackPlaces'
        BY <1>19 DEF StartTrayRollback, Begins, Known
  <1>20. ASSUME NEW v \in Commits, FallBack(v) PROVE RollbackPlaces'
        BY <1>20 DEF FallBack, Dies, Wrote, NoJob
  <1> HIDE DEF IInv, TypeOK, Pcs, Kinds, Own, OneJob, HashesKnown, RollbackPlaces, Busy, git, versions,
             supervisor, resumption, history
  <1> QED BY <1>1, <1>2, <1>3, <1>4, <1>5, <1>6, <1>7, <1>8, <1>9,
             <1>10, <1>11, <1>12, <1>13, <1>14, <1>15, <1>16, <1>17, <1>18, <1>19, <1>20
          DEF Next, Start, Job, Boot

\* Nor while an upgrade is.
LEMMA UpgradeStep == IInv /\ [Next]_vars => UpgradePlaces'
  <1> SUFFICES ASSUME IInv, [Next]_vars PROVE UpgradePlaces'
      OBVIOUS
  <1> USE DEF IInv, TypeOK, Pcs, Kinds, Own, OneJob, HashesKnown, UpgradePlaces, Busy, git, versions,
             supervisor, resumption, history
  <1>1. ASSUME NEW s \in Sources, Edit(s) PROVE UpgradePlaces'
        BY <1>1 DEF Edit
  <1>2. ASSUME NEW j \in Jobs, NEW v \in Commits, NEW cli \in BOOLEAN, StartUpgrade(j, v, cli)
        PROVE  UpgradePlaces'
        BY <1>2 DEF StartUpgrade, Begins, NoJob
  <1>3. ASSUME NEW j \in Jobs, NEW v \in Commits, StartUpgradeAndResume(j, v)
        PROVE  UpgradePlaces'
        BY <1>3 DEF StartUpgradeAndResume, saveResumeMarker, Begins, NoJob
  <1>4. ASSUME NEW j \in Jobs, NEW v \in Commits, NEW f \in BOOLEAN, NEW cli \in BOOLEAN,
               StartRollback(j, v, f, cli)
        PROVE  UpgradePlaces'
        BY <1>4 DEF StartRollback, Allowed, Begins
  <1>5. ASSUME NEW j \in Jobs, CommitAll(j) PROVE UpgradePlaces'
    <2>1. ASSUME NEW c \in Commits \ Known, Dirty, log' = [log EXCEPT ![c] = tree], head' = c,
                 job' = [job EXCEPT ![j].pc = "note", ![j].sha = c], UNCHANGED broken
          PROVE  UpgradePlaces'
      <3>j. /\ job'[j].pc = "note" /\ job'[j].sha = c /\ job'[j].kind = job[j].kind
            /\ job'[j].label = job[j].label /\ \A k \in Jobs \ {j} : job'[k] = job[k]
            BY <2>1 DEF JobType
      <3>u. UNCHANGED <<tree, exe, commit, disturbed>> /\ job[j].pc = "commit"
            BY <1>5 DEF CommitAll
      <3>1. \A x \in Commits : log[x] # None => log'[x] = log[x]
            BY <2>1 DEF Known
      <3>2. log'[c] = tree
            BY <2>1
      <3>3. ASSUME ~disturbed', ~broken', NEW k \in Jobs, job'[k].kind = "upgrade"
            PROVE  /\ job'[k].pc # "checkout"
                   /\ job'[k].pc = "note" => job'[k].sha # 0 /\ log'[job'[k].sha] = tree'
                   /\ job'[k].pc = "build" =>
                         commit'[job'[k].label] # 0 /\ log'[commit'[job'[k].label]] = tree'
        <4>1. CASE k = j
              BY <3>u, <3>j, <4>1, <3>2 DEF Commits
        <4>2. CASE k # j
              BY <3>u, <3>j, <3>3, <4>2, <2>1
        <4> QED BY <4>1, <4>2
      <3> QED BY <3>3
    <2>2. ASSUME job' = [job EXCEPT ![j].pc = "note", ![j].sha = head],
                 broken' = (broken \/ Dirty), UNCHANGED <<head, log>>
          PROVE  UpgradePlaces'
      <3>j. /\ job'[j].pc = "note" /\ job'[j].sha = head /\ job'[j].kind = job[j].kind
            /\ job'[j].label = job[j].label /\ \A k \in Jobs \ {j} : job'[k] = job[k]
            BY <2>2 DEF JobType
      <3>u. UNCHANGED <<tree, exe, commit, disturbed>> /\ job[j].pc = "commit"
            BY <1>5 DEF CommitAll
      <3>3. ASSUME ~disturbed', ~broken', NEW k \in Jobs, job'[k].kind = "upgrade"
            PROVE  /\ job'[k].pc # "checkout"
                   /\ job'[k].pc = "note" => job'[k].sha # 0 /\ log'[job'[k].sha] = tree'
                   /\ job'[k].pc = "build" =>
                         commit'[job'[k].label] # 0 /\ log'[commit'[job'[k].label]] = tree'
        <4>0. tree = log[head]
              BY <3>3, <2>2 DEF Dirty
        <4>1. CASE k = j
              BY <3>u, <3>j, <4>1, <2>2, <4>0 DEF Commits
        <4>2. CASE k # j
              BY <3>u, <3>j, <3>3, <4>2, <2>2
        <4> QED BY <4>1, <4>2
      <3> QED BY <3>3
    <2>3. ASSUME Goes(j, "build"), broken' = TRUE, UNCHANGED <<head, log>>
          PROVE  UpgradePlaces'
          BY <1>5, <2>3 DEF CommitAll, Goes
    <2> QED BY <1>5, <2>1, <2>2, <2>3 DEF CommitAll
  <1>6. ASSUME NEW j \in Jobs, WriteCommitTxt(j) PROVE UpgradePlaces'
        BY <1>6 DEF WriteCommitTxt
  <1>7. ASSUME NEW j \in Jobs, Build(j) PROVE UpgradePlaces'
        BY <1>7 DEF Build, Goes, Taken
  <1>8. ASSUME NEW j \in Jobs, SmokeTest(j) PROVE UpgradePlaces'
        BY <1>8 DEF SmokeTest, Passes, Goes
  <1>9. ASSUME NEW j \in Jobs, Post(j) PROVE UpgradePlaces'
        BY <1>9 DEF Post, NoJob
  <1>10. ASSUME NEW j \in Jobs, JobFails(j) PROVE UpgradePlaces'
        BY <1>10 DEF JobFails, Fails, Wrote, NoJob
  <1>11. ASSUME NEW j \in Jobs, Checkout(j) PROVE UpgradePlaces'
    <2>1. ASSUME Fails(j), UNCHANGED <<tree, untracked, head, disturbed>> PROVE UpgradePlaces'
          BY <1>11, <2>1 DEF Checkout, Fails, Wrote, NoJob
    <2>2. ASSUME head' = job[j].sha, IF Dirty THEN tree' \in Sources ELSE tree' = log[job[j].sha],
                 disturbed' = (disturbed \/ Dirty), Goes(j, "build"), UNCHANGED broken
          PROVE  UpgradePlaces'
      <3>j. /\ job'[j].pc = "build" /\ job'[j].sha = job[j].sha /\ job'[j].kind = job[j].kind
            /\ job'[j].label = job[j].label /\ \A k \in Jobs \ {j} : job'[k] = job[k]
            BY <2>2 DEF Goes, JobType
      <3>1. job[j].pc = "checkout" /\ UNCHANGED <<log, exe, commit>>
            BY <1>11 DEF Checkout
      <3>2. disturbed' \/ tree' = log[job[j].sha]
            BY <2>2
      <3> QED BY <1>11, <2>2, <3>j, <3>1, <3>2
    <2> QED BY <1>11, <2>1, <2>2 DEF Checkout
  <1>12. ASSUME NEW v \in Commits, Swap(v) PROVE UpgradePlaces'
        BY <1>12 DEF Swap, Dies, Wrote, NoJob
  <1>13. CASE Restart
        BY <1>13 DEF Restart, Dies, Wrote, NoJob
  <1>14. CASE handleUpgradeResume
        BY <1>14 DEF handleUpgradeResume, saveResumeMarker, Dies, Wrote, NoJob
  <1>15. CASE CheckMarker
        BY <1>15 DEF CheckMarker, BootKeeps
  <1>16. CASE PushContinuation
        BY <1>16 DEF PushContinuation, BootKeeps
  <1>17. CASE UNCHANGED vars
        BY <1>17 DEF vars
  <1>18. ASSUME NEW j \in Jobs, StartRebuild(j) PROVE UpgradePlaces'
        BY <1>18 DEF StartRebuild, Begins, Dirty
  <1>19. ASSUME NEW j \in Jobs, NEW v \in Commits, StartTrayRollback(j, v) PROVE UpgradePlaces'
        BY <1>19 DEF StartTrayRollback, Begins, Known
  <1>20. ASSUME NEW v \in Commits, FallBack(v) PROVE UpgradePlaces'
        BY <1>20 DEF FallBack, Dies, Wrote, NoJob
  <1> HIDE DEF IInv, TypeOK, Pcs, Kinds, Own, OneJob, HashesKnown, UpgradePlaces, Busy, git, versions,
             supervisor, resumption, history
  <1> QED BY <1>1, <1>2, <1>3, <1>4, <1>5, <1>6, <1>7, <1>8, <1>9,
             <1>10, <1>11, <1>12, <1>13, <1>14, <1>15, <1>16, <1>17, <1>18, <1>19, <1>20
          DEF Next, Start, Job, Boot

\* Nor while the supervisor builds.
LEMMA OwnStep == IInv /\ [Next]_vars => OwnPlaces'
  <1> SUFFICES ASSUME IInv, [Next]_vars PROVE OwnPlaces'
      OBVIOUS
  <1> USE DEF IInv, TypeOK, Pcs, Kinds, Own, OneJob, HashesKnown, OwnPlaces, Busy, git,
             versions, supervisor, resumption, history
  <1>1. ASSUME NEW s \in Sources, Edit(s) PROVE OwnPlaces'
        BY <1>1 DEF Edit
  <1>2. ASSUME NEW j \in Jobs, NEW v \in Commits, NEW cli \in BOOLEAN, StartUpgrade(j, v, cli)
        PROVE  OwnPlaces'
        BY <1>2 DEF StartUpgrade, Begins, NoJob
  <1>3. ASSUME NEW j \in Jobs, NEW v \in Commits, StartUpgradeAndResume(j, v)
        PROVE  OwnPlaces'
        BY <1>3 DEF StartUpgradeAndResume, saveResumeMarker, Begins, NoJob
  <1>4. ASSUME NEW j \in Jobs, NEW v \in Commits, NEW f \in BOOLEAN, NEW cli \in BOOLEAN,
               StartRollback(j, v, f, cli)
        PROVE  OwnPlaces'
        BY <1>4 DEF StartRollback, Allowed, Begins
  <1>5. ASSUME NEW j \in Jobs, CommitAll(j) PROVE OwnPlaces'
        BY <1>5 DEF CommitAll, Goes, Dirty, Known
  <1>6. ASSUME NEW j \in Jobs, WriteCommitTxt(j) PROVE OwnPlaces'
        BY <1>6 DEF WriteCommitTxt
  <1>7. ASSUME NEW j \in Jobs, Build(j) PROVE OwnPlaces'
        BY <1>7 DEF Build, Goes, Taken
  <1>8. ASSUME NEW j \in Jobs, SmokeTest(j) PROVE OwnPlaces'
        BY <1>8 DEF SmokeTest, Passes, Goes
  <1>9. ASSUME NEW j \in Jobs, Post(j) PROVE OwnPlaces'
        BY <1>9 DEF Post, NoJob
  <1>10. ASSUME NEW j \in Jobs, JobFails(j) PROVE OwnPlaces'
        BY <1>10 DEF JobFails, Fails, Wrote, NoJob
  <1>11. ASSUME NEW j \in Jobs, Checkout(j) PROVE OwnPlaces'
    <2>1. ASSUME Fails(j), UNCHANGED <<tree, untracked, head, disturbed>> PROVE OwnPlaces'
          BY <1>11, <2>1 DEF Checkout, Fails, Wrote, NoJob
    <2>2. ASSUME head' = job[j].sha, IF Dirty THEN tree' \in Sources ELSE tree' = log[job[j].sha],
                 disturbed' = (disturbed \/ Dirty), Goes(j, "build"), UNCHANGED broken
          PROVE  OwnPlaces'
      <3>j. /\ job'[j].pc = "build" /\ job'[j].sha = job[j].sha /\ job'[j].kind = job[j].kind
            /\ job'[j].label = job[j].label /\ \A k \in Jobs \ {j} : job'[k] = job[k]
            BY <2>2 DEF Goes, JobType
      <3>1. job[j].pc = "checkout" /\ UNCHANGED <<log, exe, commit>>
            BY <1>11 DEF Checkout
      <3>2. disturbed' \/ tree' = log[job[j].sha]
            BY <2>2
      <3>3. disturbed' \/ \A k \in Jobs \ {j} : job[k].pc = "none"
            BY <2>2, <3>1
      <3>4. ASSUME ~disturbed', NEW k \in Jobs, Own(k)', job'[k].label \notin asIs'
            PROVE  k = j
            BY <3>3, <3>4, <3>j
      <3>5. Own(j) /\ job[j].label \notin asIs /\ ~disturbed => job[j].sha = job[j].label
            BY <3>1
      <3>6. UNCHANGED asIs /\ (disturbed => disturbed')
            BY <1>11, <2>2 DEF Checkout
      <3> QED BY <3>j, <3>1, <3>2, <3>4, <3>5, <3>6
    <2> QED BY <1>11, <2>1, <2>2 DEF Checkout
  <1>12. ASSUME NEW v \in Commits, Swap(v) PROVE OwnPlaces'
        BY <1>12 DEF Swap, Dies, Wrote, NoJob
  <1>13. CASE Restart
        BY <1>13 DEF Restart, Dies, Wrote, NoJob
  <1>14. CASE handleUpgradeResume
        BY <1>14 DEF handleUpgradeResume, saveResumeMarker, Dies, Wrote, NoJob
  <1>15. CASE CheckMarker
        BY <1>15 DEF CheckMarker, BootKeeps
  <1>16. CASE PushContinuation
        BY <1>16 DEF PushContinuation, BootKeeps
  <1>17. CASE UNCHANGED vars
        BY <1>17 DEF vars
  <1>18. ASSUME NEW j \in Jobs, StartRebuild(j) PROVE OwnPlaces'
        BY <1>18 DEF StartRebuild, Begins, Dirty
  <1>19. ASSUME NEW j \in Jobs, NEW v \in Commits, StartTrayRollback(j, v) PROVE OwnPlaces'
        BY <1>19 DEF StartTrayRollback, Begins, Known
  <1>20. ASSUME NEW v \in Commits, FallBack(v) PROVE OwnPlaces'
        BY <1>20 DEF FallBack, Dies, Wrote, NoJob
  <1> HIDE DEF IInv, TypeOK, Pcs, Kinds, Own, OneJob, HashesKnown, OwnPlaces, Busy, git, versions,
             supervisor, resumption, history
  <1> QED BY <1>1, <1>2, <1>3, <1>4, <1>5, <1>6, <1>7, <1>8, <1>9,
             <1>10, <1>11, <1>12, <1>13, <1>14, <1>15, <1>16, <1>17, <1>18, <1>19, <1>20
          DEF Next, Start, Job, Boot

\* A job that dies half done is told of.
LEMMA DeathKeeps ==
    Dies => /\ broken' \/ \A k \in Jobs : HalfDone(k) => job'[k] = job[k]
            /\ broken => broken'
            /\ UNCHANGED <<log, exe, commit, disturbed, asIs>>
  BY DEF Dies, HalfDone, Wrote, git, versions

LEMMA Untouched ==
    /\ AllExact /\ (broken => broken')
    /\ broken' \/ \A k \in Jobs : HalfDone(k) => job'[k] = job[k]
    /\ UNCHANGED <<log, exe, commit, disturbed, asIs>>
    => AllExact'
  <1> SUFFICES ASSUME AllExact, ~disturbed, ~broken', broken => broken',
                      \A k \in Jobs : HalfDone(k) => job'[k] = job[k],
                      UNCHANGED <<log, exe, commit, disturbed, asIs>>,
                      NEW v \in Commits \ asIs, exe[v] # None
               PROVE  Exact(v)' \/ InBuild(v)'
      BY DEF AllExact
  <1>1. CASE Exact(v)
        BY <1>1 DEF Exact
  <1>2. CASE InBuild(v)
    <2>1. PICK k \in Jobs : HalfDone(k) /\ job[k].label = v
          BY <1>2 DEF InBuild
    <2>2. job'[k] = job[k]
          BY <2>1
    <2>3. HalfDone(k)' /\ job'[k].label = v
          BY <2>1, <2>2 DEF HalfDone, Own
    <2> QED BY <2>3 DEF InBuild
  <1> QED BY <1>1, <1>2 DEF AllExact

\* commit.txt is inexact only between its writing and the end of the build.
LEMMA ExactStep == IInv /\ [Next]_vars => AllExact'
  <1> SUFFICES ASSUME IInv, [Next]_vars PROVE AllExact'
      OBVIOUS
  <1> USE DEF IInv, TypeOK, Pcs, Kinds, Own, OneJob, HashesKnown, RollbackPlaces, UpgradePlaces,
             OwnPlaces, AllExact, Exact, InBuild, HalfDone, Busy, git, versions, supervisor, resumption, history
  <1>1. ASSUME NEW s \in Sources, Edit(s) PROVE AllExact'
        BY <1>1 DEF Edit
  <1>2. ASSUME NEW j \in Jobs, NEW v \in Commits, NEW cli \in BOOLEAN, StartUpgrade(j, v, cli)
        PROVE  AllExact'
        BY <1>2 DEF StartUpgrade, Begins, NoJob
  <1>3. ASSUME NEW j \in Jobs, NEW v \in Commits, StartUpgradeAndResume(j, v)
        PROVE  AllExact'
        BY <1>3 DEF StartUpgradeAndResume, saveResumeMarker, Begins, NoJob
  <1>4. ASSUME NEW j \in Jobs, NEW v \in Commits, NEW f \in BOOLEAN, NEW cli \in BOOLEAN,
               StartRollback(j, v, f, cli)
        PROVE  AllExact'
        BY <1>4 DEF StartRollback, Allowed, Begins
  <1>5. ASSUME NEW j \in Jobs, CommitAll(j) PROVE AllExact'
        BY <1>5 DEF CommitAll, Goes, Dirty, Known
  <1>6. ASSUME NEW j \in Jobs, WriteCommitTxt(j) PROVE AllExact'
    <2> SUFFICES ASSUME ~disturbed', ~broken', NEW v \in Commits \ asIs', exe'[v] # None
                 PROVE  Exact(v)' \/ InBuild(v)'
        BY Zenon DEF AllExact
    <2>1. /\ commit' = [commit EXCEPT ![job[j].label] = job[j].sha]
          /\ UNCHANGED <<tree, log, exe, disturbed, asIs>> /\ ~broken
          BY <1>6 DEF WriteCommitTxt
    <2>2. /\ job'[j].pc = IF Own(j) THEN "post" ELSE "build"
          /\ job'[j].kind = job[j].kind /\ job'[j].label = job[j].label
          /\ \A k \in Jobs \ {j} : job'[k] = job[k]
          BY <1>6 DEF WriteCommitTxt
    <2>3. job[j].pc = "note" /\ job[j].kind # "rollback"
          BY <1>6, <2>1 DEF WriteCommitTxt
    <2>4. CASE v # job[j].label
      <3>1. Exact(v) \/ InBuild(v)
            BY <2>1
      <3>2. commit'[v] = commit[v]
            BY <2>1, <2>4
      <3>3. Exact(v) => Exact(v)'
            BY <2>1, <3>2 DEF Exact
      <3>4. InBuild(v) => InBuild(v)'
            BY <2>2, <2>4 DEF InBuild, HalfDone, Own
      <3> QED BY <3>1, <3>3, <3>4
    <2>5. CASE v = job[j].label /\ Own(j)
          BY <2>1, <2>3, <2>5
    <2>6. CASE v = job[j].label /\ ~Own(j)
          BY <2>2, <2>3, <2>6
    <2> QED BY <2>4, <2>5, <2>6
  <1>7. ASSUME NEW j \in Jobs, Build(j) PROVE AllExact'
        BY <1>7 DEF Build, Goes, Taken
  <1>8. ASSUME NEW j \in Jobs, SmokeTest(j) PROVE AllExact'
        BY <1>8 DEF SmokeTest, Passes, Goes
  <1>9. ASSUME NEW j \in Jobs, Post(j) PROVE AllExact'
        BY <1>9 DEF Post, NoJob
  <1>10. ASSUME NEW j \in Jobs, JobFails(j) PROVE AllExact'
    <2>1. /\ job'[j].pc = "none" /\ \A k \in Jobs \ {j} : job'[k] = job[k]
          /\ broken' = (broken \/ Wrote(j))
          BY <1>10 DEF JobFails, Fails, NoJob
    <2>2. broken' \/ ~HalfDone(j)
          BY <2>1 DEF Wrote, HalfDone
    <2>3. UNCHANGED <<log, exe, commit, disturbed, asIs>>
          BY <1>10 DEF JobFails
    <2> QED BY <2>1, <2>2, <2>3 DEF HalfDone
  <1>11. ASSUME NEW j \in Jobs, Checkout(j) PROVE AllExact'
        BY <1>11 DEF Checkout, Fails, Wrote, Goes, Dirty, NoJob
  <1>12. ASSUME NEW v \in Commits, Swap(v) PROVE AllExact'
        BY <1>12, DeathKeeps, Untouched DEF Swap
  <1>13. CASE Restart
        BY <1>13, DeathKeeps, Untouched DEF Restart
  <1>14. CASE handleUpgradeResume
        BY <1>14, DeathKeeps, Untouched DEF handleUpgradeResume
  <1>15. CASE CheckMarker
        BY <1>15 DEF CheckMarker, BootKeeps
  <1>16. CASE PushContinuation
        BY <1>16 DEF PushContinuation, BootKeeps
  <1>17. CASE UNCHANGED vars
        BY <1>17 DEF vars
  <1>18. ASSUME NEW j \in Jobs, StartRebuild(j) PROVE AllExact'
        BY <1>18 DEF StartRebuild, Begins, Dirty
  <1>19. ASSUME NEW j \in Jobs, NEW v \in Commits, StartTrayRollback(j, v) PROVE AllExact'
        BY <1>19 DEF StartTrayRollback, Begins, Known
  <1>20. ASSUME NEW v \in Commits, FallBack(v) PROVE AllExact'
        BY <1>20, DeathKeeps, Untouched DEF FallBack
  <1> HIDE DEF IInv, TypeOK, Pcs, Kinds, Own, OneJob, HashesKnown, RollbackPlaces,
             UpgradePlaces, OwnPlaces, AllExact, Exact, InBuild, HalfDone, Busy, git, versions,
             supervisor, resumption, history
  <1> QED BY <1>1, <1>2, <1>3, <1>4, <1>5, <1>6, <1>7, <1>8, <1>9,
             <1>10, <1>11, <1>12, <1>13, <1>14, <1>15, <1>16, <1>17, <1>18, <1>19, <1>20
          DEF Next, Start, Job, Boot

---------------------------------------------------------------------------
(* The theorems.                                                           *)

\* The places above hold in every reachable state.
THEOREM UpgradeInvariant == Spec => []IInv
  <1>1. Init => IInv
    <2> SUFFICES ASSUME Init PROVE IInv
        OBVIOUS
    <2> USE DEF Init
    <2>1. 1 \in Commits
          BY DEF Commits
    <2>2. NoJob \in JobType
          BY <2>1 DEF NoJob, JobType, Pcs, Kinds
    <2>3. TypeOK
      <3>1. job \in [Jobs -> JobType]
            BY <2>2
      <3>2. /\ log \in [Commits -> Sources \union {None}] /\ log[head] # None
            /\ exe \in [Commits -> Sources \union {None}]
            /\ commit \in [Commits -> Commits \union {0}]
            BY <2>1
      <3>3. {pushed, cutShort, disturbed, broken} \subseteq BOOLEAN
            OBVIOUS
      <3>4. 0 \in 0..MaxBegun /\ 0 \in 0..MaxSaves
            OBVIOUS
      <3> QED BY <2>1, <3>1, <3>2, <3>3, <3>4 DEF TypeOK, JobType
    <2>4. HashesKnown /\ Built
          BY <2>1 DEF HashesKnown, Built, Own, NoJob
    <2>5. StartableTested /\ OneJob
          BY <2>1 DEF StartableTested, OneJob, Own, Busy, NoJob
    <2>6. RollbackPlaces /\ UpgradePlaces /\ OwnPlaces
          BY DEF RollbackPlaces, UpgradePlaces, OwnPlaces, Own, Busy, NoJob
    <2>7. AllExact
          BY <2>1 DEF AllExact, Exact
    <2>8. ResumedOnce
          BY DEF ResumedOnce
    <2> QED BY <2>3, <2>4, <2>5, <2>6, <2>7, <2>8 DEF IInv
  <1>2. IInv /\ [Next]_vars => IInv'
        BY TypeStep, HashStep, BuiltStep, ResumeStep, TestedStep, OneJobStep, RollbackStep,
           UpgradeStep, OwnStep, ExactStep DEF IInv
  <1> QED BY <1>1, <1>2, PTL DEF Spec

\* Types.
THEOREM UpgradeTypes == Spec => []TypeOK
  <1>1. IInv => TypeOK
        BY DEF IInv
  <1> QED BY <1>1, UpgradeInvariant, PTL

\* What runs has passed its smoke test, whatever dies half way, unless the supervisor
\* built its label itself or fell back to it, or the label was built in use.
THEOREM UpgradeTested == Spec => []RunsTested
  <1>1. IInv => RunsTested
        BY DEF IInv, StartableTested, RunsTested
  <1> QED BY <1>1, UpgradeInvariant, PTL

\* commit.txt names the commit its binary was built from, but for the labels /rebuild
\* was to build from a changed tree; and until a job is disturbed or fails half way.
THEOREM UpgradeCommitTxt == Spec => []CommitTxtExact
  <1>1. IInv => CommitTxtExact
    <2> SUFFICES ASSUME AllExact PROVE CommitTxtExact
        BY DEF IInv
    <2> QED BY DEF AllExact, Exact, InBuild, HalfDone, CommitTxtExact, Busy
  <1> QED BY <1>1, UpgradeInvariant, PTL

\* No marker is used twice.
THEOREM UpgradeResumedOnce == Spec => []ResumedOnce
  <1>1. IInv => ResumedOnce
        BY DEF IInv
  <1> QED BY <1>1, UpgradeInvariant, PTL

\* A rollback asks for the commit of its version.
THEOREM UpgradeRollback == Spec => RollbackExact
  <1>1. IInv /\ [Next]_vars =>
          [\A j \in Jobs : Post(j) /\ job[j].kind = "rollback" /\ ~disturbed
                           => exe[job[j].label] = log[job[j].sha]]_vars
        BY DEF IInv, RollbackPlaces, Post, Busy
  <1> QED BY <1>1, UpgradeInvariant, PTL DEF Spec, RollbackExact

---------------------------------------------------------------------------
(* The file tools.                                                         *)

USE LinesAssumption, PathsAssumption, MaxLinesAssumption, ContentsAssumption, NoFileAssumption

OpenCalls ==
    [args : WriteArgs \union EditArgs, pc : {"open"}, file : Files, old : Texts \union {NoFile}]
FillCalls == [pc : {"fill"}, file : Files, result : Texts]

\* What edit_file has made sure of when it begins to write.
Applies(k) ==
    k.args.op # "write" =>
        /\ k.old \in Texts
        /\ ~Refused(k.args, Len(k.old)) /\ ~Panics(k.args, Len(k.old))
        /\ Len(Edited(k.args, k.old)) <= MaxLines

Shapes ==
    /\ disk \in [Files -> Texts \union {NoFile}]
    /\ serial \in [Files -> Texts \union {NoFile}]
    /\ readFiles \subseteq Paths /\ raced \subseteq Files
    /\ call \in [Chats -> {Idle} \union OpenCalls \union FillCalls]
    /\ \A c \in Chats : call[c].pc = "open" => Applies(call[c])

\* Two calls at a time on a file are noticed.
Noticed ==
    \A c, d \in Chats :
        c # d /\ call[c] # Idle /\ call[d] # Idle /\ call[c].file = call[d].file
            => call[c].file \in raced

\* What is about to be written was made of what the file still holds ...
Fresh ==
    \A c \in Chats :
        call[c].pc = "open" /\ call[c].file \notin raced
            => call[c].old = serial[call[c].file]

\* ... and what is being written goes into an empty file and makes it what the
\* history says.
Pending ==
    \A c \in Chats :
        call[c].pc = "fill" /\ call[c].file \notin raced
            => /\ disk[call[c].file] = Empty
               /\ call[c].result = serial[call[c].file]

ToolsInv == Shapes /\ Noticed /\ Fresh /\ Pending /\ Serial

---------------------------------------------------------------------------
(* Texts and the line arithmetic.                                          *)

\* The texts are the sequences of lines within the bound,
LEMMA TextsAre ==
    \A t : t \in Texts <=> t \in Seq(Lines) /\ Len(t) \in 1..MaxLines
  <1>1. ASSUME NEW t \in Texts PROVE t \in Seq(Lines) /\ Len(t) \in 1..MaxLines
    <2>1. PICK n \in 1..MaxLines : t \in [1..n -> Lines]
          BY DEF Texts
    <2>2. t \in Seq(Lines) /\ n \in Nat
          BY <2>1, SeqDef
    <2>3. Len(t) = n
          BY <2>1, <2>2, LenProperties
    <2> QED BY <2>2, <2>3
  <1>2. ASSUME NEW t \in Seq(Lines), Len(t) \in 1..MaxLines PROVE t \in Texts
    <2>1. t \in [1..Len(t) -> Lines]
          BY LenProperties
    <2> QED BY <1>2, <2>1 DEF Texts
  <1> QED BY <1>1, <1>2

\* and what calls write and files hold at first are texts.
LEMMA WrittenAreTexts == Pieces \subseteq Texts /\ Contents \subseteq Texts /\ Empty \in Texts
  <1>1. ASSUME NEW t \in Pieces \union Contents PROVE t \in Texts
        BY <1>1 DEF Texts
  <1>2. Empty \in Seq(Lines) /\ Len(Empty) = 1
        BY DEF Empty
  <1>3. Len(Empty) \in 1..MaxLines
        BY <1>2
  <1> QED BY <1>1, <1>2, <1>3, TextsAre

\* The lines h + 1 to k - 1 of s give way to those of t.
Spliced(s, h, t, k) == SubSeq(s, 1, h) \o t \o From(s, k)

\* It keeps what is before and behind the cut.
Keeps(new, s, h, t, k) ==
    /\ new \in Seq(Lines)
    /\ Len(new) = h + Len(t) + (Len(s) - k + 1)
    /\ \A i \in 1..h : new[i] = s[i]
    /\ \A i \in 1..Len(t) : new[h + i] = t[i]
    /\ \A i \in k..Len(s) : new[i + (Len(new) - Len(s))] = s[i]

\* Such a splice does, wherever the cut lies in the lines.
LEMMA Splice ==
    ASSUME NEW s \in Seq(Lines), NEW t \in Seq(Lines),
           NEW h \in 0..Len(s), NEW k \in h + 1..Len(s) + 1,
           NEW new, new = Spliced(s, h, t, k)
    PROVE  Keeps(new, s, h, t, k)
  <1> DEFINE u == SubSeq(s, 1, h)
             v == From(s, k)
             w == u \o t
  <1>1. /\ Len(s) \in Nat /\ Len(t) \in Nat /\ h \in Nat /\ k \in Nat
        /\ \A i \in 1..Len(s) : s[i] \in Lines
        BY LenProperties, ElementOfSeq
  <1>2. u \in Seq(Lines) /\ Len(u) = h /\ \A i \in 1..h : u[i] = s[i]
    <2>1. \A i \in 1..h : s[i] \in Lines
          BY <1>1
    <2>2. /\ u \in Seq(Lines) /\ Len(u) = IF 1 <= h THEN h - 1 + 1 ELSE 0
          /\ \A i \in 1..h - 1 + 1 : u[i] = s[1 + i - 1]
          BY <1>1, <2>1, SubSeqProperties
    <2>3. Len(u) = h
          BY <1>1, <2>2
    <2> HIDE DEF u
    <2> QED BY <1>1, <2>2, <2>3
  <1>3. /\ v \in Seq(Lines) /\ Len(v) = Len(s) - k + 1
        /\ \A i \in 1..Len(s) - k + 1 : v[i] = s[k + i - 1]
    <2>1. \A i \in k..Len(s) : s[i] \in Lines
          BY <1>1
    <2>2. /\ v \in Seq(Lines) /\ Len(v) = IF k <= Len(s) THEN Len(s) - k + 1 ELSE 0
          /\ \A i \in 1..Len(s) - k + 1 : v[i] = s[k + i - 1]
          BY <1>1, <2>1, SubSeqProperties DEF From
    <2>3. Len(v) = Len(s) - k + 1
          BY <1>1, <2>2
    <2> HIDE DEF v
    <2> QED BY <1>1, <2>2, <2>3
  <1> HIDE DEF u, v
  <1>4. /\ w \in Seq(Lines) /\ Len(w) = h + Len(t)
        /\ \A i \in 1..h + Len(t) : w[i] = IF i <= h THEN u[i] ELSE t[i - h]
    <2>1. u \in Seq(Lines) /\ Len(u) = h
          BY <1>2
    <2>2. /\ w \in Seq(Lines) /\ Len(w) = Len(u) + Len(t)
          /\ \A i \in 1..Len(u) + Len(t) : w[i] = IF i <= Len(u) THEN u[i] ELSE t[i - Len(u)]
          BY <2>1, ConcatProperties, Zenon
    <2> HIDE DEF w
    <2> QED BY <2>1, <2>2, Zenon
  <1> HIDE DEF w
  <1>5. new = w \o v
        BY DEF u, v, w, Spliced
  <1>6. /\ new \in Seq(Lines) /\ Len(new) = Len(w) + Len(v)
        /\ \A i \in 1..Len(w) + Len(v) : new[i] = IF i <= Len(w) THEN w[i] ELSE v[i - Len(w)]
    <2>1. /\ w \o v \in Seq(Lines) /\ Len(w \o v) = Len(w) + Len(v)
          /\ \A i \in 1..Len(w) + Len(v) :
                (w \o v)[i] = IF i <= Len(w) THEN w[i] ELSE v[i - Len(w)]
      <3>1. w \in Seq(Lines) /\ v \in Seq(Lines)
            BY <1>3, <1>4
      <3> QED BY <3>1, ConcatProperties, Zenon
    <2> QED BY <1>5, <2>1, Zenon
  <1>7. Len(new) = h + Len(t) + (Len(s) - k + 1)
        BY <1>1, <1>3, <1>4, <1>6
  <1>8. ASSUME NEW i \in 1..h PROVE new[i] = s[i]
    <2>1. i \in 1..h + Len(t) /\ i \in 1..Len(w) + Len(v) /\ i <= h /\ i <= Len(w)
          BY <1>1, <1>3, <1>4
    <2>2. new[i] = w[i] /\ w[i] = u[i]
          BY <1>4, <1>6, <2>1
    <2> QED BY <1>2, <2>2
  <1>9. ASSUME NEW i \in 1..Len(t) PROVE new[h + i] = t[i]
    <2> DEFINE j == h + i
    <2>1. /\ j \in 1..h + Len(t) /\ j \in 1..Len(w) + Len(v)
          /\ ~(j <= h) /\ j <= Len(w) /\ j - h = i
          BY <1>1, <1>3, <1>4
    <2> HIDE DEF j
    <2>2. new[j] = w[j] /\ w[j] = t[j - h]
          BY <1>4, <1>6, <2>1
    <2>3. new[j] = t[i]
          BY <2>1, <2>2
    <2> QED BY <2>3 DEF j
  <1>10. ASSUME NEW i \in k..Len(s) PROVE new[i + (Len(new) - Len(s))] = s[i]
    <2> DEFINE j == i + (Len(new) - Len(s))
    <2>0. i \in Nat /\ k <= i /\ i <= Len(s)
          BY <1>1
    <2>1. j = i + h + Len(t) - k + 1
          BY <1>1, <1>7, <2>0
    <2>2. j - Len(w) = i - k + 1 /\ Len(w) + Len(v) = h + Len(t) + Len(s) - k + 1
          BY <1>1, <1>3, <1>4, <2>0, <2>1
    <2>3. /\ j \in 1..Len(w) + Len(v) /\ ~(j <= Len(w))
          /\ j - Len(w) \in 1..Len(s) - k + 1 /\ k + (j - Len(w)) - 1 = i
          BY <1>1, <1>4, <2>0, <2>1, <2>2
    <2> HIDE DEF j
    <2>4. new[j] = v[j - Len(w)] /\ v[j - Len(w)] = s[k + (j - Len(w)) - 1]
          BY <1>3, <1>6, <2>3
    <2>5. new[j] = s[i]
          BY <2>3, <2>4
    <2> QED BY <2>5 DEF j
  <1> QED BY <1>6, <1>7, <1>8, <1>9, <1>10 DEF Keeps

\* Where an edit cuts, and what it puts there.
CutFrom(a) == IF a.op = "insert" THEN a.start ELSE a.start - 1
CutTo(a, n) == IF a.op = "insert" THEN a.start + 1 ELSE Last(a, n) + 1
Inserted(a) == IF a.op = "delete" THEN <<>> ELSE a.text

\* What the arguments of edit_file are.
LEMMA ArgsAre ==
    ASSUME NEW a \in EditArgs
    PROVE  /\ a.op \in {"replace", "delete", "insert"}
           /\ a.start \in Nat /\ a.end \in Nat
           /\ a.op # "delete" => a.text \in Pieces
           /\ a.op = "insert" => a.end = 0
  BY DEF EditArgs

\* Every edit that is neither refused nor panics is one splice of the lines it
\* read, with a cut that lies inside them (editFile, src/tools.go).
THEOREM EditIsSplice ==
    ASSUME NEW a \in EditArgs, NEW s \in Texts, ~Refused(a, Len(s)), ~Panics(a, Len(s))
    PROVE  /\ CutFrom(a) \in 0..Len(s)
           /\ CutTo(a, Len(s)) \in CutFrom(a) + 1..Len(s) + 1
           /\ Inserted(a) \in Seq(Lines)
           /\ a.op # "delete" => Len(Inserted(a)) >= 1
           /\ Edited(a, s) = Joined(Spliced(s, CutFrom(a), Inserted(a), CutTo(a, Len(s))))
  <1>1. s \in Seq(Lines) /\ Len(s) \in Nat /\ Len(s) >= 1
        BY TextsAre
  <1>2. CASE a.op = "insert"
    <2>1. CutFrom(a) = a.start /\ CutTo(a, Len(s)) = a.start + 1 /\ Inserted(a) = a.text
          BY <1>2 DEF CutFrom, CutTo, Inserted
    <2>2. a.start \in 0..Len(s)
          BY <1>1, <1>2, ArgsAre DEF Refused
    <2>3. a.text \in Seq(Lines) /\ Len(a.text) \in 1..MaxLines
          BY <1>2, ArgsAre, WrittenAreTexts, TextsAre
    <2>4. Edited(a, s) = Joined(SubSeq(s, 1, a.start) \o a.text \o From(s, a.start + 1))
          BY <1>2 DEF Edited
    <2> QED BY <1>1, <2>1, <2>2, <2>3, <2>4 DEF Spliced
  <1>3. CASE a.op = "replace"
    <2>1. CutFrom(a) = a.start - 1 /\ CutTo(a, Len(s)) = Last(a, Len(s)) + 1 /\ Inserted(a) = a.text
          BY <1>3 DEF CutFrom, CutTo, Inserted
    <2>2. /\ a.start \in 1..Len(s) /\ Last(a, Len(s)) \in Nat
          /\ a.start <= Last(a, Len(s)) /\ Last(a, Len(s)) <= Len(s)
      <3>1. Last(a, Len(s)) \in Nat
            BY <1>3, ArgsAre DEF Last
      <3> QED BY <1>1, <1>3, <3>1, ArgsAre DEF Refused, Panics
    <2>3. a.text \in Seq(Lines) /\ Len(a.text) \in 1..MaxLines
          BY <1>3, ArgsAre, WrittenAreTexts, TextsAre
    <2>4. Edited(a, s) = Joined(SubSeq(s, 1, a.start - 1) \o a.text \o From(s, Last(a, Len(s)) + 1))
          BY <1>3 DEF Edited
    <2> QED BY <1>1, <2>1, <2>2, <2>3, <2>4 DEF Spliced
  <1>4. CASE a.op = "delete"
    <2>1. CutFrom(a) = a.start - 1 /\ CutTo(a, Len(s)) = Last(a, Len(s)) + 1 /\ Inserted(a) = <<>>
          BY <1>4 DEF CutFrom, CutTo, Inserted
    <2>2. /\ a.start \in 1..Len(s) /\ Last(a, Len(s)) \in Nat
          /\ a.start <= Last(a, Len(s)) /\ Last(a, Len(s)) <= Len(s)
      <3>1. Last(a, Len(s)) \in Nat /\ Last(a, Len(s)) <= Len(s)
        <4>1. CASE a.end = 0
          <5>1. a.start \in 1..Len(s)
                BY <1>1, <1>4, ArgsAre DEF Refused
          <5> QED BY <1>1, <1>4, <4>1, <5>1 DEF Last
        <4>2. CASE a.end # 0
              BY <1>1, <1>4, <4>2, ArgsAre DEF Last
        <4> QED BY <4>1, <4>2
      <3> QED BY <1>1, <1>4, <3>1, ArgsAre DEF Refused
    <2>3. Edited(a, s) = Joined(SubSeq(s, 1, a.start - 1) \o From(s, Last(a, Len(s)) + 1))
          BY <1>4 DEF Edited
    <2>4. SubSeq(s, 1, a.start - 1) \in Seq(Lines)
      <3>1. \A i \in 1..a.start - 1 : s[i] \in Lines
            BY <1>1, <2>2, ElementOfSeq
      <3> QED BY <1>1, <2>2, <3>1, SubSeqProperties
    <2>5. SubSeq(s, 1, a.start - 1) \o <<>> = SubSeq(s, 1, a.start - 1)
          BY <2>4, ConcatEmptySeq
    <2>6. <<>> \in Seq(Lines)
          OBVIOUS
    <2>7. /\ a.start - 1 \in 0..Len(s)
          /\ Last(a, Len(s)) + 1 \in a.start - 1 + 1..Len(s) + 1
          BY <1>1, <2>2
    <2> QED BY <1>4, <2>1, <2>3, <2>5, <2>6, <2>7 DEF Spliced
  <1> QED BY <1>2, <1>3, <1>4, ArgsAre

\* EditExact of one edit.
Applied(a, old, new) ==
    LET front == IF a.op = "insert" THEN a.start ELSE a.start - 1
        end == IF a.end < a.start THEN a.start ELSE a.end
        tail == {i \in 1..Len(old) : i > (IF a.op = "insert" THEN a.start ELSE end)}
        gap == IF a.op = "delete" THEN 0 ELSE Len(a.text)
        shift == Len(new) - Len(old)
    IN  \/ /\ a.op = "delete" /\ front = 0 /\ tail = {}
           /\ new = Empty
        \/ /\ \A i \in 1..front : new[i] = old[i]
           /\ \A i \in tail : new[i + shift] = old[i]
           /\ \A i \in 1..gap : new[front + i] = a.text[i]
           /\ \A i \in 1..Len(new) : i <= front + gap \/ i - shift \in tail

\* So an edit changes the lines it was asked to.
LEMMA EditsExactly ==
    ASSUME NEW a \in EditArgs, NEW s \in Texts, ~Refused(a, Len(s)), ~Panics(a, Len(s))
    PROVE  /\ Edited(a, s) \in Seq(Lines) /\ Len(Edited(a, s)) >= 1
           /\ Applied(a, s, Edited(a, s))
  <1> DEFINE h == CutFrom(a)
             k == CutTo(a, Len(s))
             t == Inserted(a)
             new == Spliced(s, h, t, k)
             tail == {i \in 1..Len(s) : i >= k}
  <1>1. s \in Seq(Lines) /\ Len(s) \in Nat /\ Len(s) >= 1
        BY TextsAre
  <1>2. /\ h \in 0..Len(s) /\ k \in h + 1..Len(s) + 1 /\ t \in Seq(Lines)
        /\ a.op # "delete" => Len(t) >= 1
        /\ Edited(a, s) = Joined(new)
        BY EditIsSplice
  <1>3. h = IF a.op = "insert" THEN a.start ELSE a.start - 1
        BY DEF CutFrom
  <1>4. Len(t) = (IF a.op = "delete" THEN 0 ELSE Len(a.text)) /\ (a.op # "delete" => t = a.text)
        BY DEF Inserted
  <1>5. {i \in 1..Len(s) : i > (IF a.op = "insert" THEN a.start
                                ELSE IF a.end < a.start THEN a.start ELSE a.end)} = tail
    <2>1. CASE a.op = "insert"
      <3>1. k = a.start + 1 /\ a.start \in Nat
            BY <2>1, ArgsAre DEF CutTo
      <3>2. \A i \in 1..Len(s) : i > a.start <=> i >= k
            BY <1>1, <3>1
      <3> QED BY <2>1, <3>2
    <2>2. CASE a.op # "insert"
      <3> DEFINE end == IF a.end < a.start THEN a.start ELSE a.end
      <3>1. k = Last(a, Len(s)) + 1 /\ a.start \in Nat /\ a.end \in Nat
            BY <2>2, ArgsAre DEF CutTo
      <3>2. a.start \in 1..Len(s) /\ Last(a, Len(s)) >= a.start
        <4>1. Last(a, Len(s)) \in Nat
              BY <1>1, ArgsAre DEF Last
        <4> QED BY <1>1, <2>2, <3>1, <4>1 DEF Refused
      <3>3. Last(a, Len(s)) = end \/ (end > Len(s) /\ Last(a, Len(s)) = Len(s))
        <4>1. CASE a.end = 0
              BY <1>1, <3>1, <3>2, <4>1 DEF Last
        <4>2. CASE a.end # 0
              BY <1>1, <3>1, <3>2, <4>2 DEF Last
        <4> QED BY <4>1, <4>2
      <3>4. \A i \in 1..Len(s) : i > end <=> i >= k
            BY <1>1, <3>1, <3>2, <3>3
      <3> QED BY <2>2, <3>4
    <2> QED BY <2>1, <2>2
  <1>n. new = Spliced(s, h, t, k)
        OBVIOUS
  <1> HIDE DEF h, k, t, new
  <1>o. s \in Seq(Lines) /\ t \in Seq(Lines) /\ h \in 0..Len(s) /\ k \in h + 1..Len(s) + 1
        BY <1>1, <1>2
  <1>p. Keeps(new, s, h, t, k)
        BY <1>n, <1>o, Splice
  <1>6. /\ new \in Seq(Lines)
        /\ Len(new) = h + Len(t) + (Len(s) - k + 1)
        /\ \A i \in 1..h : new[i] = s[i]
        /\ \A i \in 1..Len(t) : new[h + i] = t[i]
        /\ \A i \in k..Len(s) : new[i + (Len(new) - Len(s))] = s[i]
        BY <1>p DEF Keeps
  <1>7. Len(t) \in Nat /\ h \in Nat /\ k \in Nat /\ Len(new) \in Nat
        BY <1>1, <1>2, <1>6, LenProperties
  <1>8. CASE new = <<>>
    <2>1. Edited(a, s) = Empty /\ Empty \in Seq(Lines) /\ Len(Empty) = 1
          BY <1>2, <1>8 DEF Joined, Empty
    <2>2. Len(new) = 0
          BY <1>8
    <2>3. h = 0 /\ Len(t) = 0 /\ k = Len(s) + 1
          BY <1>1, <1>2, <1>6, <1>7, <2>2
    <2>4. a.op = "delete"
          BY <1>2, <2>3
    <2>5. tail = {}
          BY <1>1, <2>3
    <2> QED BY <1>3, <1>5, <2>1, <2>3, <2>4, <2>5 DEF Applied
  <1>9. CASE new # <<>>
    <2>1. Edited(a, s) = new
          BY <1>2, <1>9 DEF Joined
    <2>2. Len(new) >= 1
          BY <1>6, <1>7, <1>9, EmptySeq
    <2>3. \A i \in tail : new[i + (Len(new) - Len(s))] = s[i]
          BY <1>1, <1>6, <1>7
    <2>4. \A i \in 1..(IF a.op = "delete" THEN 0 ELSE Len(a.text)) : new[h + i] = a.text[i]
          BY <1>4, <1>6
    <2>5. ASSUME NEW i \in 1..Len(new) PROVE i <= h + Len(t) \/ i - (Len(new) - Len(s)) \in tail
          BY <1>1, <1>2, <1>6, <1>7
    <2> HIDE DEF tail
    <2>6. Applied(a, s, new)
          BY <1>3, <1>4, <1>5, <1>6, <2>3, <2>4, <2>5 DEF Applied
    <2> QED BY <1>6, <2>1, <2>2, <2>6
  <1> QED BY <1>8, <1>9

---------------------------------------------------------------------------
(* The invariant.                                                          *)

\* The invariant holds at first ...
LEMMA ToolsInitInv == ToolsInit => ToolsInv
  <1> SUFFICES ASSUME ToolsInit PROVE ToolsInv
      OBVIOUS
  <1>1. \A c \in Chats : call[c] = Idle
        BY DEF ToolsInit
  <1>2. Shapes
        BY WrittenAreTexts, <1>1 DEF ToolsInit, Shapes, Idle
  <1> QED BY <1>1, <1>2 DEF ToolsInit, ToolsInv, Noticed, Fresh, Pending, Serial, Idle

\* What the records of calls say.
LEMMA CallsAre ==
    ASSUME Shapes, NEW c \in Chats
    PROVE  /\ call[c].pc \in {"idle", "open", "fill"}
           /\ call[c].pc = "idle" => call[c] = Idle
           /\ call[c].pc = "open" => call[c] \in OpenCalls /\ Applies(call[c])
           /\ call[c].pc = "fill" => call[c] \in FillCalls
           /\ call[c].pc # "idle" => call[c] # Idle /\ call[c].file \in Files
  BY DEF Shapes, OpenCalls, FillCalls, Idle

\* What a call writes is a text.
LEMMA ResultIsText ==
    ASSUME NEW k \in OpenCalls, Applies(k)
    PROVE  Result(k) \in Texts
  <1>1. CASE k.args.op = "write"
    <2>1. k.args \in WriteArgs
          BY <1>1, ArgsAre DEF OpenCalls
    <2> QED BY <1>1, <2>1, WrittenAreTexts DEF Result, WriteArgs
  <1>2. CASE k.args.op # "write"
    <2>1. k.args \in EditArgs
          BY <1>2 DEF OpenCalls, WriteArgs
    <2>2. /\ k.old \in Texts /\ Edited(k.args, k.old) \in Seq(Lines)
          /\ Len(Edited(k.args, k.old)) >= 1
          BY <1>2, <2>1, EditsExactly DEF Applies
    <2>3. Len(Edited(k.args, k.old)) \in 1..MaxLines
          BY <1>2, <2>2, LenProperties DEF Applies
    <2> QED BY <1>2, <2>2, <2>3, TextsAre DEF Result
  <1> QED BY <1>1, <1>2

\* A text written over another one, from its beginning.
LEMMA Overwrite ==
    ASSUME NEW r \in Texts, NEW d \in Texts
    PROVE  /\ r \o From(d, Len(r) + 1) \in Texts
           /\ d = Empty => r \o From(d, Len(r) + 1) = r
  <1> DEFINE v == From(d, Len(r) + 1)
  <1>1. /\ r \in Seq(Lines) /\ Len(r) \in 1..MaxLines
        /\ d \in Seq(Lines) /\ Len(d) \in 1..MaxLines
        BY TextsAre
  <1>2. \A i \in Len(r) + 1..Len(d) : d[i] \in Lines
        BY <1>1, ElementOfSeq
  <1>3. v \in Seq(Lines) /\ Len(v) = IF Len(r) + 1 <= Len(d) THEN Len(d) - (Len(r) + 1) + 1 ELSE 0
        BY <1>1, <1>2, SubSeqProperties DEF From
  <1>4. d = Empty => v = <<>>
    <2>1. d = Empty => Len(d) = 1
          BY DEF Empty
    <2> QED BY <1>1, <2>1, SubSeqEmpty DEF From
  <1> HIDE DEF v
  <1>5. r \o v \in Seq(Lines) /\ Len(r \o v) = Len(r) + Len(v)
        BY <1>1, <1>3, ConcatProperties
  <1>6. Len(r \o v) \in 1..MaxLines
        BY <1>1, <1>3, <1>5
  <1>7. r \o v \in Texts
        BY <1>5, <1>6, TextsAre
  <1>8. d = Empty => r \o v = r
        BY <1>1, <1>4, ConcatEmptySeq
  <1> QED BY <1>7, <1>8 DEF v

\* A call begins to write.
LEMMA BeginStep ==
    ASSUME ToolsInv, NEW c \in Chats, NEW p \in Paths, NEW a \in WriteArgs \union EditArgs,
           call[c] = Idle, Begin(c, p, a),
           Applies([args |-> a, pc |-> "open", file |-> FileOf[p], old |-> disk[FileOf[p]]])
    PROVE  ToolsInv'
  <1> DEFINE f == FileOf[p]
             k == [args |-> a, pc |-> "open", file |-> f, old |-> disk[f]]
  <1>1. f \in Files /\ disk[f] \in Texts \union {NoFile}
        BY DEF ToolsInv, Shapes
  <1>2. /\ k \in OpenCalls /\ Applies(k) /\ k.pc = "open" /\ k.file = f /\ k.old = disk[f]
        /\ k # Idle
        BY <1>1 DEF OpenCalls, Idle
  <1>3. call' = [call EXCEPT ![c] = k] /\ disk' = disk /\ readFiles' = readFiles
        BY DEF Begin
  <1> HIDE DEF k
  <1>4. /\ raced' = raced \union {g \in {f} : Meets(g)}
        /\ serial' = [g \in Files |-> IF g \in raced' THEN NoFile ELSE serial[g]]
        BY DEF Begin, Races
  <1> HIDE DEF f
  <1>5. /\ call'[c] = k
        /\ \A d \in Chats : d # c => call'[d] = call[d]
        BY <1>3 DEF ToolsInv, Shapes
  <1>6. /\ raced \subseteq raced' /\ raced' \subseteq Files
        /\ f \notin raced' => ~Meets(f)
        /\ \A g \in Files : g \notin raced' => serial'[g] = serial[g]
        BY <1>1, <1>4 DEF ToolsInv, Shapes
  <1>7. Shapes'
    <2>1. serial' \in [Files -> Texts \union {NoFile}]
          BY <1>4 DEF ToolsInv, Shapes
    <2>2. call' \in [Chats -> {Idle} \union OpenCalls \union FillCalls]
          BY <1>2, <1>3 DEF ToolsInv, Shapes
    <2>3. \A d \in Chats : call'[d].pc = "open" => Applies(call'[d])
          BY <1>2, <1>5 DEF ToolsInv, Shapes
    <2> QED BY <1>3, <1>6, <2>1, <2>2, <2>3 DEF ToolsInv, Shapes
  <1>8. Noticed'
    <2> SUFFICES ASSUME NEW d \in Chats, NEW e \in Chats, d # e, call'[d] # Idle, call'[e] # Idle,
                        call'[d].file = call'[e].file
                 PROVE  call'[d].file \in raced'
        BY DEF Noticed
    <2>1. CASE d # c /\ e # c
          BY <1>5, <1>6, <2>1 DEF ToolsInv, Noticed
    <2>2. CASE d = c \/ e = c
      <3>1. call'[d].file = f /\ \E b \in Chats : call[b] # Idle /\ call[b].file = f
            BY <1>2, <1>5, <2>2
      <3> QED BY <1>6, <3>1 DEF Meets
    <2> QED BY <2>1, <2>2
  <1>9. Fresh'
    <2> SUFFICES ASSUME NEW d \in Chats, call'[d].pc = "open", call'[d].file \notin raced'
                 PROVE  call'[d].old = serial'[call'[d].file]
        BY DEF Fresh
    <2>1. CASE d # c
      <3>1. call'[d] = call[d] /\ call[d].file \in Files
            BY <1>5, <2>1, CallsAre DEF ToolsInv
      <3> QED BY <1>6, <3>1 DEF ToolsInv, Fresh
    <2>2. CASE d = c
      <3>1. f \notin raced' /\ f \notin raced /\ ~Meets(f)
            BY <1>2, <1>5, <1>6, <2>2
      <3>2. ~\E b \in Chats : call[b].pc = "fill" /\ call[b].file = f
            BY <3>1 DEF Meets, Idle
      <3>3. disk[f] = serial[f]
            BY <1>1, <3>1, <3>2 DEF ToolsInv, Serial
      <3> QED BY <1>1, <1>2, <1>5, <1>6, <2>2, <3>1, <3>3
    <2> QED BY <2>1, <2>2
  <1>10. Pending'
    <2> SUFFICES ASSUME NEW d \in Chats, call'[d].pc = "fill", call'[d].file \notin raced'
                 PROVE  /\ disk'[call'[d].file] = Empty
                        /\ call'[d].result = serial'[call'[d].file]
        BY DEF Pending
    <2>1. call'[d] = call[d] /\ call[d].file \in Files
      <3>1. d # c
            BY <1>2, <1>5
      <3> QED BY <1>5, <3>1, CallsAre DEF ToolsInv
    <2> QED BY <1>3, <1>6, <2>1 DEF ToolsInv, Pending
  <1>11. Serial'
    <2> SUFFICES ASSUME NEW g \in Files, g \notin raced',
                        ~\E d \in Chats : call'[d].pc = "fill" /\ call'[d].file = g
                 PROVE  disk'[g] = serial'[g]
        BY DEF Serial
    <2>1. ~\E d \in Chats : call[d].pc = "fill" /\ call[d].file = g
          BY <1>5 DEF Idle
    <2> QED BY <1>3, <1>6, <2>1 DEF ToolsInv, Serial
  <1> QED BY <1>7, <1>8, <1>9, <1>10, <1>11 DEF ToolsInv

\* The file is emptied; from here on the call counts.
LEMMA OpenStep ==
    ASSUME ToolsInv, NEW c \in Chats, Open(c)
    PROVE  ToolsInv'
  <1> DEFINE f == call[c].file
             a == call[c].args
             r == Result(call[c])
             k == [pc |-> "fill", file |-> f, result |-> r]
  <1>1. /\ call[c].pc = "open" /\ call[c] \in OpenCalls /\ Applies(call[c]) /\ f \in Files
        /\ call[c] # Idle
        BY CallsAre DEF ToolsInv, Open
  <1>2. r \in Texts
        BY <1>1, ResultIsText
  <1>3. /\ k \in FillCalls /\ k.pc = "fill" /\ k.file = f /\ k.result = r /\ k # Idle
        BY <1>1, <1>2 DEF FillCalls, Idle
  <1>4. /\ disk' = [disk EXCEPT ![f] = Empty] /\ readFiles' = readFiles /\ raced' = raced
        /\ call' = [call EXCEPT ![c] = k]
        BY DEF Open, Counts
  <1>5. serial' = [serial EXCEPT ![f] = IF f \in raced THEN serial[f] ELSE r]
    <2>1. serial' = [serial EXCEPT ![f] = IF f \in raced THEN serial[f]
                        ELSE IF a.op = "write" THEN a.text ELSE Edited(a, serial[f])]
          BY DEF Open, Counts
    <2>2. f \notin raced => call[c].old = serial[f]
          BY <1>1 DEF ToolsInv, Fresh
    <2>3. f \notin raced => r = IF a.op = "write" THEN a.text ELSE Edited(a, serial[f])
          BY <2>2 DEF Result
    <2> QED BY <2>1, <2>3
  <1> HIDE DEF r, k
  <1>6. /\ call'[c] = k
        /\ \A d \in Chats : d # c => call'[d] = call[d]
        BY <1>4 DEF ToolsInv, Shapes
  <1>7. /\ disk'[f] = Empty /\ \A g \in Files : g # f => disk'[g] = disk[g]
        /\ \A g \in Files : g # f => serial'[g] = serial[g]
        /\ f \notin raced => serial'[f] = r
        BY <1>1, <1>4, <1>5 DEF ToolsInv, Shapes
  \* No other call is under way on a file that is not raced.
  <1>8. ASSUME NEW d \in Chats, d # c, call[d] # Idle, call[d].file \notin raced
        PROVE  call[d].file # f
        BY <1>1, <1>8 DEF ToolsInv, Noticed
  <1>9. Shapes'
    <2>1. disk' \in [Files -> Texts \union {NoFile}]
          BY <1>4, WrittenAreTexts DEF ToolsInv, Shapes
    <2>2. serial' \in [Files -> Texts \union {NoFile}]
          BY <1>1, <1>2, <1>5 DEF ToolsInv, Shapes
    <2>3. call' \in [Chats -> {Idle} \union OpenCalls \union FillCalls]
          BY <1>3, <1>4 DEF ToolsInv, Shapes
    <2>4. \A d \in Chats : call'[d].pc = "open" => Applies(call'[d])
          BY <1>3, <1>6 DEF ToolsInv, Shapes
    <2> QED BY <1>4, <2>1, <2>2, <2>3, <2>4 DEF ToolsInv, Shapes
  <1>10. Noticed'
    <2>1. \A d \in Chats : /\ call'[d] # Idle <=> call[d] # Idle
                           /\ call'[d] # Idle => call'[d].file = call[d].file
          BY <1>1, <1>3, <1>6
    <2> QED BY <1>4, <2>1 DEF ToolsInv, Noticed
  <1>11. Fresh'
    <2> SUFFICES ASSUME NEW d \in Chats, call'[d].pc = "open", call'[d].file \notin raced'
                 PROVE  call'[d].old = serial'[call'[d].file]
        BY DEF Fresh
    <2>1. d # c /\ call'[d] = call[d]
          BY <1>3, <1>6
    <2>2. call[d] # Idle /\ call[d].file \in Files
          BY <2>1, CallsAre DEF ToolsInv
    <2>3. call[d].file # f
          BY <1>4, <1>8, <2>1, <2>2
    <2> QED BY <1>4, <1>7, <2>1, <2>2, <2>3 DEF ToolsInv, Fresh
  <1>12. Pending'
    <2> SUFFICES ASSUME NEW d \in Chats, call'[d].pc = "fill", call'[d].file \notin raced'
                 PROVE  /\ disk'[call'[d].file] = Empty
                        /\ call'[d].result = serial'[call'[d].file]
        BY DEF Pending
    <2>1. CASE d = c
          BY <1>3, <1>4, <1>6, <1>7, <2>1
    <2>2. CASE d # c
      <3>1. call'[d] = call[d]
            BY <1>6, <2>2
      <3>2. call[d] # Idle /\ call[d].file \in Files
            BY <3>1, CallsAre DEF ToolsInv
      <3>3. call[d].file # f
            BY <1>4, <1>8, <2>2, <3>1, <3>2
      <3> QED BY <1>4, <1>7, <3>1, <3>2, <3>3 DEF ToolsInv, Pending
    <2> QED BY <2>1, <2>2
  <1>13. Serial'
    <2> SUFFICES ASSUME NEW g \in Files, g \notin raced',
                        ~\E d \in Chats : call'[d].pc = "fill" /\ call'[d].file = g
                 PROVE  disk'[g] = serial'[g]
        BY DEF Serial
    <2>1. g # f
          BY <1>3, <1>6
    <2>2. ~\E d \in Chats : call[d].pc = "fill" /\ call[d].file = g
          BY <1>1, <1>6
    <2> QED BY <1>4, <1>7, <2>1, <2>2 DEF ToolsInv, Serial
  <1> QED BY <1>9, <1>10, <1>11, <1>12, <1>13 DEF ToolsInv

\* What was to be written is in the file, which may have been raced meanwhile.
LEMMA FillStep ==
    ASSUME ToolsInv, NEW c \in Chats, Fill(c)
    PROVE  ToolsInv'
  <1> DEFINE f == call[c].file
             r == call[c].result
  <1>1. /\ call[c].pc = "fill" /\ f \in Files /\ r \in Texts /\ call[c] # Idle
        /\ disk[f] \in Texts \union {NoFile}
    <2>1. call[c].pc = "fill" /\ call[c] \in FillCalls /\ call[c] # Idle
          BY CallsAre DEF ToolsInv, Fill
    <2> QED BY <2>1 DEF ToolsInv, Shapes, FillCalls
  <1>2. /\ readFiles' = readFiles /\ serial' = serial /\ raced' = raced
        /\ call' = [call EXCEPT ![c] = Idle]
        BY DEF Fill
  <1>3. disk' = [disk EXCEPT ![f] = IF disk[f] = NoFile THEN NoFile ELSE r \o From(disk[f], Len(r) + 1)]
        BY DEF Fill
  <1>4. /\ call'[c] = Idle
        /\ \A d \in Chats : d # c => call'[d] = call[d]
        BY <1>2 DEF ToolsInv, Shapes
  <1>5. /\ disk'[f] \in Texts \union {NoFile}
        /\ disk[f] = Empty => disk'[f] = r
        /\ \A g \in Files : g # f => disk'[g] = disk[g]
    <2>1. /\ disk'[f] = IF disk[f] = NoFile THEN NoFile ELSE r \o From(disk[f], Len(r) + 1)
          /\ \A g \in Files : g # f => disk'[g] = disk[g]
          BY <1>1, <1>3 DEF ToolsInv, Shapes
    <2>2. CASE disk[f] = NoFile
          BY <2>1, <2>2, WrittenAreTexts
    <2>3. CASE disk[f] # NoFile
      <3>1. disk[f] \in Texts
            BY <1>1, <2>3
      <3>2. /\ r \o From(disk[f], Len(r) + 1) \in Texts
            /\ disk[f] = Empty => r \o From(disk[f], Len(r) + 1) = r
            BY <1>1, <3>1, Overwrite
      <3> QED BY <2>1, <2>3, <3>2
    <2> QED BY <2>2, <2>3
  <1>6. ASSUME NEW d \in Chats, d # c, call[d] # Idle, call[d].file \notin raced
        PROVE  call[d].file # f
        BY <1>1, <1>6 DEF ToolsInv, Noticed
  <1>7. Shapes'
    <2>1. disk' \in [Files -> Texts \union {NoFile}]
          BY <1>1, <1>3, <1>5 DEF ToolsInv, Shapes
    <2>2. call' \in [Chats -> {Idle} \union OpenCalls \union FillCalls]
          BY <1>2 DEF ToolsInv, Shapes
    <2>3. \A d \in Chats : call'[d].pc = "open" => Applies(call'[d])
          BY <1>4 DEF ToolsInv, Shapes, Idle
    <2> QED BY <1>2, <2>1, <2>2, <2>3 DEF ToolsInv, Shapes
  <1>8. Noticed'
    <2>1. \A d \in Chats : call'[d] # Idle => call'[d] = call[d]
          BY <1>4
    <2> QED BY <1>2, <2>1 DEF ToolsInv, Noticed
  <1>9. Fresh'
    <2>1. \A d \in Chats : call'[d].pc = "open" => call'[d] = call[d]
          BY <1>4 DEF Idle
    <2> QED BY <1>2, <2>1 DEF ToolsInv, Fresh
  <1>10. Pending'
    <2> SUFFICES ASSUME NEW d \in Chats, call'[d].pc = "fill", call'[d].file \notin raced'
                 PROVE  /\ disk'[call'[d].file] = Empty
                        /\ call'[d].result = serial'[call'[d].file]
        BY DEF Pending
    <2>1. d # c /\ call'[d] = call[d]
          BY <1>4 DEF Idle
    <2>2. call[d] # Idle /\ call[d].file \in Files
          BY <2>1, CallsAre DEF ToolsInv
    <2>3. call[d].file # f
          BY <1>2, <1>6, <2>1, <2>2
    <2> QED BY <1>2, <1>5, <2>1, <2>2, <2>3 DEF ToolsInv, Pending
  <1>11. Serial'
    <2> SUFFICES ASSUME NEW g \in Files, g \notin raced',
                        ~\E d \in Chats : call'[d].pc = "fill" /\ call'[d].file = g
                 PROVE  disk'[g] = serial'[g]
        BY DEF Serial
    <2>1. CASE g = f
      <3>1. disk[f] = Empty /\ r = serial[f]
            BY <1>1, <1>2, <2>1 DEF ToolsInv, Pending
      <3> QED BY <1>2, <1>5, <2>1, <3>1
    <2>2. CASE g # f
      <3>1. ~\E d \in Chats : call[d].pc = "fill" /\ call[d].file = g
            BY <1>4, <2>2
      <3> QED BY <1>2, <1>5, <2>2, <3>1 DEF ToolsInv, Serial
    <2> QED BY <2>1, <2>2
  <1> QED BY <1>7, <1>8, <1>9, <1>10, <1>11 DEF ToolsInv

\* A command counts at once, unless the file is being written.
LEMMA TerminalStep ==
    ASSUME ToolsInv, NEW c \in Chats, NEW f \in Files, NEW text \in Contents \union {NoFile},
           execTerminal(c, f, text)
    PROVE  ToolsInv'
  <1>1. /\ disk' = [disk EXCEPT ![f] = text] /\ readFiles' = readFiles /\ call' = call
        /\ text \in Texts \union {NoFile}
        BY WrittenAreTexts DEF execTerminal
  <1>2. /\ disk' \in [Files -> Texts \union {NoFile}] /\ disk'[f] = text
        /\ \A g \in Files : g # f => disk'[g] = disk[g]
        BY <1>1 DEF ToolsInv, Shapes
  <1>3. /\ serial' \in [Files -> Texts \union {NoFile}]
        /\ raced \subseteq raced' /\ raced' \subseteq Files
        /\ \A g \in Files : g # f /\ g \notin raced' => serial'[g] = serial[g]
        /\ f \notin raced' => serial'[f] = text /\ ~Meets(f)
    <2>1. CASE Meets(f) \/ f \in raced
      <3>1. /\ raced' = raced \union {f}
            /\ serial' = [g \in Files |-> IF g \in raced' THEN NoFile ELSE serial[g]]
            BY <2>1 DEF execTerminal, Races
      <3> QED BY <3>1 DEF ToolsInv, Shapes
    <2>2. CASE ~(Meets(f) \/ f \in raced)
      <3>1. raced' = raced /\ serial' = [serial EXCEPT ![f] = text]
            BY <2>2 DEF execTerminal
      <3> QED BY <1>1, <2>2, <3>1 DEF ToolsInv, Shapes
    <2> QED BY <2>1, <2>2
  <1>4. \A d \in Chats : call[d] # Idle /\ call[d].file \notin raced' => call[d].file # f
        BY <1>3 DEF Meets
  <1>5. Shapes'
    <2>1. \A d \in Chats : call'[d].pc = "open" => Applies(call'[d])
          BY <1>1 DEF ToolsInv, Shapes
    <2> QED BY <1>1, <1>2, <1>3, <2>1 DEF ToolsInv, Shapes
  <1>6. Noticed'
        BY <1>1, <1>3 DEF ToolsInv, Noticed
  <1>7. ASSUME NEW d \in Chats, call'[d].pc \in {"open", "fill"}, call'[d].file \notin raced'
        PROVE  /\ call'[d] = call[d] /\ call[d].file \notin raced
               /\ serial'[call[d].file] = serial[call[d].file]
               /\ disk'[call[d].file] = disk[call[d].file]
    <2>1. call[d] # Idle /\ call[d].file \in Files
          BY <1>1, <1>7, CallsAre DEF ToolsInv
    <2>2. call[d].file # f
          BY <1>1, <1>4, <1>7, <2>1
    <2> QED BY <1>1, <1>2, <1>3, <1>7, <2>1, <2>2
  <1>8. Fresh'
        BY <1>7 DEF ToolsInv, Fresh
  <1>9. Pending'
        BY <1>7 DEF ToolsInv, Pending
  <1>10. Serial'
    <2> SUFFICES ASSUME NEW g \in Files, g \notin raced',
                        ~\E d \in Chats : call'[d].pc = "fill" /\ call'[d].file = g
                 PROVE  disk'[g] = serial'[g]
        BY DEF Serial
    <2>1. CASE g = f
          BY <1>2, <1>3, <2>1
    <2>2. CASE g # f
          BY <1>1, <1>2, <1>3, <2>2 DEF ToolsInv, Serial
    <2> QED BY <2>1, <2>2
  <1> QED BY <1>5, <1>6, <1>8, <1>9, <1>10 DEF ToolsInv

\* The process ends; what was half written is given up.
LEMMA EndsStep == ASSUME ToolsInv, Ends PROVE ToolsInv'
  <1>1. /\ readFiles' = {} /\ disk' = disk /\ call' = [c \in Chats |-> Idle]
        /\ raced' = raced \union {call[c].file : c \in {d \in Chats : call[d].pc = "fill"}}
        /\ serial' = [f \in Files |-> IF f \in raced' THEN NoFile ELSE serial[f]]
        BY DEF Ends, Races
  <1>2. \A c \in Chats : call'[c] = Idle
        BY <1>1
  <1>3. raced' \subseteq Files
        BY <1>1, CallsAre DEF ToolsInv, Shapes
  <1>4. Shapes'
        BY <1>1, <1>2, <1>3 DEF ToolsInv, Shapes, Idle
  <1>5. Noticed' /\ Fresh' /\ Pending'
        BY <1>2 DEF Noticed, Fresh, Pending, Idle
  <1>6. Serial'
    <2> SUFFICES ASSUME NEW f \in Files, f \notin raced' PROVE disk'[f] = serial'[f]
        BY DEF Serial
    <2>1. f \notin raced /\ ~\E c \in Chats : call[c].pc = "fill" /\ call[c].file = f
          BY <1>1
    <2> QED BY <1>1, <2>1 DEF ToolsInv, Serial
  <1> QED BY <1>4, <1>5, <1>6 DEF ToolsInv

\* ... and every step keeps it.
LEMMA ToolsStepInv == ToolsInv /\ [ToolsNext]_toolsVars => ToolsInv'
  <1> SUFFICES ASSUME ToolsInv, [ToolsNext]_toolsVars PROVE ToolsInv'
      OBVIOUS
  <1>1. ASSUME NEW c \in Chats, NEW p \in Paths, readFile(c, p) PROVE ToolsInv'
    <2>1. readFiles' \subseteq Paths
          BY <1>1 DEF readFile, ToolsInv, Shapes
    <2> QED BY <1>1, <2>1
            DEF readFile, ToolsInv, Shapes, Noticed, Fresh, Pending, Serial
  <1>2. ASSUME NEW c \in Chats, NEW p \in Paths, NEW text \in Pieces, writeFile(c, p, text)
        PROVE  ToolsInv'
    <2> DEFINE a == [op |-> "write", start |-> 0, end |-> 0, text |-> text]
    <2>1. a \in WriteArgs /\ a.op = "write"
          BY DEF WriteArgs
    <2>2. call[c] = Idle /\ Begin(c, p, a)
          BY <1>2 DEF writeFile
    <2> HIDE DEF a
    <2>3. Applies([args |-> a, pc |-> "open", file |-> FileOf[p], old |-> disk[FileOf[p]]])
          BY <2>1 DEF Applies
    <2> QED BY <2>1, <2>2, <2>3, BeginStep
  <1>3. ASSUME NEW c \in Chats, NEW p \in Paths, NEW a \in EditArgs, editFile(c, p, a)
        PROVE  ToolsInv'
    <2>1. call[c] = Idle /\ Begin(c, p, a)
          BY <1>3 DEF editFile
    <2>2. disk[FileOf[p]] \in Texts
          BY <1>3 DEF editFile, ToolsInv, Shapes
    <2>3. Applies([args |-> a, pc |-> "open", file |-> FileOf[p], old |-> disk[FileOf[p]]])
          BY <1>3, <2>2 DEF editFile, Applies
    <2> QED BY <2>1, <2>3, BeginStep
  <1>4. ASSUME NEW c \in Chats, NEW p \in Paths, NEW a \in EditArgs, editFilePanics(c, p, a)
        PROVE  ToolsInv'
        BY <1>4, EndsStep DEF editFilePanics
  <1>5. ASSUME NEW c \in Chats, Open(c) PROVE ToolsInv'
        BY <1>5, OpenStep
  <1>6. ASSUME NEW c \in Chats, Fill(c) PROVE ToolsInv'
        BY <1>6, FillStep
  <1>7. ASSUME NEW c \in Chats, NEW f \in Files, NEW text \in Contents \union {NoFile},
               execTerminal(c, f, text)
        PROVE  ToolsInv'
        BY <1>7, TerminalStep
  <1>8. CASE Crash
        BY <1>8, EndsStep DEF Crash
  <1>9. CASE UNCHANGED toolsVars
        BY <1>9 DEF toolsVars, ToolsInv, Shapes, Noticed, Fresh, Pending, Serial
  <1> QED BY <1>1, <1>2, <1>3, <1>4, <1>5, <1>6, <1>7, <1>8, <1>9 DEF ToolsNext

---------------------------------------------------------------------------
(* The theorems.                                                           *)

\* The invariant: a call on a file that no other call is on has read what the
\* file holds, and what it writes is what the file would be if every call had
\* run in one step.
THEOREM ToolsInvariant == ToolsSpec => []ToolsInv
  <1>1. ToolsInv /\ [ToolsNext]_toolsVars => ToolsInv'
        BY ToolsStepInv
  <1> QED BY <1>1, ToolsInitInv, PTL DEF ToolsSpec

\* Every value has its shape; what a call will write is a text within the bound.
THEOREM ToolsTypes == ToolsSpec => []ToolsTypeOK
  <1>1. ToolsInv => ToolsTypeOK
    <2> SUFFICES ASSUME ToolsInv PROVE ToolsTypeOK
        OBVIOUS
    <2>1. ASSUME NEW c \in Chats, call[c].pc = "open"
          PROVE  /\ call[c].file \in Files /\ call[c].args \in WriteArgs \union EditArgs
                 /\ call[c].old \in Texts \union {NoFile} /\ Result(call[c]) \in Texts
      <3>1. call[c] \in OpenCalls /\ Applies(call[c])
            BY <2>1, CallsAre DEF ToolsInv
      <3>2. Result(call[c]) \in Texts
            BY <3>1, ResultIsText
      <3> QED BY <3>1, <3>2 DEF OpenCalls
    <2>2. ASSUME NEW c \in Chats, call[c].pc = "fill"
          PROVE  call[c].file \in Files /\ call[c].result \in Texts
          BY <2>2, CallsAre DEF ToolsInv, FillCalls
    <2> QED BY <2>1, <2>2, CallsAre DEF ToolsInv, Shapes, ToolsTypeOK
  <1> QED BY <1>1, ToolsInvariant, PTL

\* edit_file (src/tools.go) writes the file it has read with exactly the lines it
\* was asked to change changed, whatever the file, the operation and the line
\* numbers it accepts.
THEOREM ToolsEdits == ToolsSpec => []EditExact
  <1>1. ToolsInv => EditExact
    <2> SUFFICES ASSUME ToolsInv, NEW c \in Chats, call[c].pc = "open", call[c].args.op # "write"
                 PROVE  Applied(call[c].args, call[c].old, Result(call[c]))
        BY DEF EditExact, Applied
    <2>1. call[c] \in OpenCalls /\ Applies(call[c])
          BY CallsAre DEF ToolsInv
    <2>2. call[c].args \in EditArgs
          BY <2>1 DEF OpenCalls, WriteArgs
    <2>3. Result(call[c]) = Edited(call[c].args, call[c].old)
          BY DEF Result
    <2> QED BY <2>1, <2>2, <2>3, EditsExactly DEF Applies
  <1> QED BY <1>1, ToolsInvariant, PTL

\* Tool calls of different chats on one file are as good as one after the other
\* (src/tools.go), for any number of chats, files and spellings of a path, as
\* long as no two on it overlap and no write is cut off by the end of the process.
THEOREM ToolsSerial == ToolsSpec => []Serial
  <1>1. ToolsInv => Serial
        BY DEF ToolsInv
  <1> QED BY <1>1, ToolsInvariant, PTL
=============================================================================
