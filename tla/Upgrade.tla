------------------------------- MODULE Upgrade -------------------------------
(***************************************************************************)
(* The agent rebuilding itself: cmdUpgrade and cmdRollback of              *)
(* src/cmd_upgrade.go, run by the self_modify tool inside the agent or by  *)
(* hand as a command of their own; the git working tree and the directories*)
(* data/versions/<label> they write; and the marker by which an agent that *)
(* comes up after an upgrade finds the task it has to resume.  And the two *)
(* builds of the supervisor itself (src/cmd/supervisor/main.go), which have*)
(* no smoke test: POST /rebuild, of the tree as it is, and the rollback of *)
(* its tray menu.                                                          *)
(*                                                                         *)
(* A commit is a number, and its content one source.  A label is the short *)
(* hash of a commit.  As the keeper of the process the supervisor is       *)
(* reduced to what it does here: it starts the label it was asked for, the *)
(* current one again, or, when there is no binary, the newest one; the     *)
(* module Supervisor has the rest.                                         *)
(***************************************************************************)
EXTENDS Naturals, FiniteSets

CONSTANTS
    Sources,     \* contents of the source tree
    Good,        \* those whose agent can pass the smoke test
    Source0,     \* the content of commit 1, which runs at first
    None,
    Jobs,        \* builds in progress at the same time: upgrades, rollbacks, rebuilds
    MaxCommits, MaxSaves, MaxBegun   \* bounds on commits, markers saved, jobs begun

ASSUME SourcesAssumption == Good \subseteq Sources /\ Source0 \in Good /\ None \notin Sources
ASSUME BoundsAssumption == MaxCommits \in Nat \ {0} /\ MaxSaves \in Nat /\ MaxBegun \in Nat

VARIABLES
    tree,      \* the content of the working tree
    untracked, \* it differs from HEAD, but only by files git does not track
    head,      \* HEAD
    log,       \* log[c]: the content of commit c
    exe,       \* exe[v]: what data/versions/v/agent.exe was built from
    commit,    \* commit[v]: the hash in data/versions/v/commit.txt, or 0
    posted,    \* labels the supervisor has been asked for
    current,   \* the label the supervisor runs
    running,   \* what the running agent was built from
    job,       \* job[j]: the build j
    begun,     \* number of jobs begun so far
    marker,    \* data/resume.json: the label in it, or 0
    boot,      \* where the resumption of the running agent stands
    told,      \* the label of the resume message that is being sent, or 0
    saves,     \* number of markers saved so far
    resumes,   \* history: number of continuations begun
    pushed,    \* history: a continuation has reached the agent's loop
    cutShort,  \* history: the agent has died between a marker and its continuation,
               \* or its queue was full when that was to be pushed
    untested,  \* history: labels built by the supervisor itself, or while asked for,
               \* in use or in the hands of another job; and those it fell back to
    asIs,      \* history: labels that /rebuild was to build from a changed tree
    disturbed, \* history: the tree or another job moved during a job, or a
               \* checkout took changes of the tree along
    broken     \* history: a job failed or died between commit.txt and its binary, or
               \* after commit.txt of an upgrade; or a commit that failed was taken
               \* for one with nothing to do

git == <<tree, untracked, head, log>>
versions == <<exe, commit>>
supervisor == <<posted, current, running>>
resumption == <<marker, boot, told, saves, resumes, pushed>>
history == <<cutShort, untested, asIs, disturbed, broken>>
vars == <<git, versions, supervisor, job, begun, resumption, history>>

Commits == 1..MaxCommits
Known == {c \in Commits : log[c] # None}

NoJob == [pc |-> "none", kind |-> "upgrade", label |-> 1, sha |-> 0, cli |-> FALSE]
Pcs == {"none", "commit", "checkout", "note", "build", "smoke", "post"}
Kinds == {"upgrade", "rollback", "rebuild", "tray"}   \* cmdUpgrade, cmdRollback,
                                                      \* /rebuild, doRollback

TypeOK ==
    /\ tree \in Sources /\ untracked \in BOOLEAN /\ head \in Commits
    /\ log \in [Commits -> Sources \union {None}] /\ log[head] # None
    /\ exe \in [Commits -> Sources \union {None}]
    /\ commit \in [Commits -> Commits \union {0}]
    /\ posted \subseteq Commits /\ current \in Commits /\ running \in Sources
    /\ job \in [Jobs -> [pc : Pcs, kind : Kinds, label : Commits,
                         sha : Commits \union {0}, cli : BOOLEAN]]
    /\ begun \in 0..MaxBegun
    /\ marker \in Commits \union {0}
    /\ boot \in {"check", "wait", "ready"}
    /\ told \in Commits \union {0}
    /\ saves \in 0..MaxSaves /\ resumes \in 0..MaxSaves
    /\ untested \subseteq Commits /\ asIs \subseteq Commits
    /\ {pushed, cutShort, disturbed, broken} \subseteq BOOLEAN

\* The version that runs has come from an upgrade of an unchanged tree.
Init ==
    /\ tree = Source0 /\ untracked = FALSE /\ head = 1
    /\ log = [c \in Commits |-> IF c = 1 THEN Source0 ELSE None]
    /\ exe = [c \in Commits |-> IF c = 1 THEN Source0 ELSE None]
    /\ commit = [c \in Commits |-> IF c = 1 THEN 1 ELSE 0]
    /\ posted = {} /\ current = 1 /\ running = Source0
    /\ job = [j \in Jobs |-> NoJob] /\ begun = 0
    /\ marker = 0 /\ boot = "check" /\ told = 0
    /\ saves = 0 /\ resumes = 0 /\ pushed = FALSE
    /\ cutShort = FALSE /\ untested = {} /\ asIs = {}
    /\ disturbed = FALSE /\ broken = FALSE

---------------------------------------------------------------------------
(* The working tree.                                                       *)

Busy(j) == job[j].pc # "none"
Dirty == tree # log[head]

\* The agent's own tools, another chat's, or the user change the sources.
Edit(s) ==
    /\ s # tree
    /\ tree' = s
    /\ \/ untracked' = FALSE
       \/ (Dirty => untracked) /\ s # log[head] /\ untracked' = TRUE
    /\ disturbed' = (disturbed \/ \E j \in Jobs : Busy(j))
    /\ UNCHANGED <<head, log, versions, supervisor, job, begun, resumption, cutShort, untested,
                   asIs, broken>>

---------------------------------------------------------------------------
(* Upgrade: commit, commit.txt, build, smoke test, request.                *)

\* The places of jobs are alike: a new one takes any that is free.
Begins(j, how) ==
    /\ job[j].pc = "none" /\ j = (CHOOSE k \in Jobs : job[k].pc = "none")
    /\ begun < MaxBegun
    /\ job' = [job EXCEPT ![j] = how] /\ begun' = begun + 1
    /\ disturbed' = (disturbed \/ \E k \in Jobs : Busy(k))
    /\ UNCHANGED <<git, versions, supervisor, cutShort, untested, broken>>

\* upgrade-stop, or the command: the label is HEAD's unless one is given.
StartUpgrade(j, v, cli) ==
    /\ v \in Known /\ boot = "ready"
    /\ Begins(j, [NoJob EXCEPT !.pc = "commit", !.label = v, !.cli = cli])
    /\ UNCHANGED <<resumption, asIs>>

\* saveResumeMarker: data/resume.json is written.
saveResumeMarker(v) ==
    /\ saves < MaxSaves
    /\ marker' = v /\ saves' = saves + 1

\* upgrade: the marker is saved before anything is tried.
StartUpgradeAndResume(j, v) ==
    /\ v \in Known /\ boot = "ready"
    /\ saveResumeMarker(v)
    /\ Begins(j, [NoJob EXCEPT !.pc = "commit", !.label = v])
    /\ UNCHANGED <<boot, told, resumes, pushed, asIs>>

Goes(j, place) == job' = [job EXCEPT ![j].pc = place]

\* The supervisor's own builds: without a smoke test, and commit.txt comes last.
Own(j) == job[j].kind \in {"rebuild", "tray"}

\* A job that ends early leaves commit.txt without its binary, or the other way round.
Wrote(j) ==
    \/ job[j].kind = "upgrade" /\ job[j].pc \in {"build", "smoke", "post"}
    \/ Own(j) /\ job[j].pc = "note"
Fails(j) ==
    /\ job' = [job EXCEPT ![j] = NoJob]
    /\ broken' = (broken \/ Wrote(j))

\* Faulty variant: commit.txt gets the HEAD the commit started from.
CommitAllParent(j) ==
    /\ job[j].pc = "commit"
    /\ \E c \in Commits \ Known :
          /\ c - 1 \in Known
          /\ log' = [log EXCEPT ![c] = tree] /\ head' = c
          /\ job' = [job EXCEPT ![j].pc = "note", ![j].sha = head]
    /\ untracked' = FALSE
    /\ UNCHANGED <<tree, versions, supervisor, begun, resumption, history>>

\* gitCommitAll.  A commit that exits with an error - nothing to commit, but also
\* a hook or a missing identity - yields HEAD; when git add fails the upgrade
\* goes on without a commit.txt.
CommitAll(j) ==
    /\ job[j].pc = "commit"
    /\ \/ /\ Dirty
          /\ \E c \in Commits \ Known :
                /\ c - 1 \in Known
                /\ log' = [log EXCEPT ![c] = tree] /\ head' = c
                /\ job' = [job EXCEPT ![j].pc = "note", ![j].sha = c]
          /\ untracked' = FALSE
          /\ UNCHANGED broken
       \/ /\ job' = [job EXCEPT ![j].pc = "note", ![j].sha = head]
          /\ broken' = (broken \/ Dirty) /\ untracked' = FALSE
          /\ UNCHANGED <<head, log>>
       \/ /\ Goes(j, "build")
          /\ broken' = TRUE
          /\ UNCHANGED <<head, log, untracked>>
    /\ UNCHANGED <<tree, versions, supervisor, begun, resumption, cutShort, untested, asIs,
                   disturbed>>

\* A failure to write commit.txt goes unnoticed.
WriteCommitTxt(j) ==
    /\ job[j].pc = "note"
    /\ \/ /\ commit' = [commit EXCEPT ![job[j].label] = job[j].sha]
          /\ UNCHANGED broken
       \/ broken' = TRUE /\ UNCHANGED commit
    /\ job' = [job EXCEPT ![j].pc = IF Own(j) THEN "post" ELSE "build", ![j].sha = 0]
    /\ UNCHANGED <<git, exe, supervisor, begun, resumption, cutShort, untested, asIs, disturbed>>

\* Labels that are in use, asked for, or in the hands of another job.
Taken(j) ==
    {current} \union posted \union {job[k].label : k \in {k \in Jobs \ {j} : Busy(k)}}

\* go build -o versions/<label>/agent.exe; a build that fails leaves the file.
Build(j) ==
    /\ job[j].pc = "build"
    /\ exe' = [exe EXCEPT ![job[j].label] = tree]
    /\ untested' = untested \union
                    {v \in {job[j].label} : Own(j) \/ v \in Taken(j)}
    /\ Goes(j, IF Own(j) THEN "note" ELSE "smoke")
    /\ UNCHANGED <<git, commit, supervisor, begun, resumption, cutShort, asIs, disturbed, broken>>

\* Faulty variant: whatever was built is let through.
SmokeTestSkipped(j) ==
    /\ job[j].pc = "smoke"
    /\ Goes(j, "post")
    /\ UNCHANGED <<git, versions, supervisor, begun, resumption, history>>

\* smoke-test: configuration, LLM client, store, Telegram and tools all come up.
Passes(v) == exe[v] \in Good

\* The new binary is run; it may fail for want of a network, too.
SmokeTest(j) ==
    /\ job[j].pc = "smoke"
    /\ Passes(job[j].label)
    /\ Goes(j, "post")
    /\ UNCHANGED <<git, versions, supervisor, begun, resumption, history>>

\* POST /upgrade?v=<label>, or the supervisor's own queue.
Post(j) ==
    /\ job[j].pc = "post"
    /\ posted' = posted \union {job[j].label}
    /\ job' = [job EXCEPT ![j] = NoJob]
    /\ UNCHANGED <<git, versions, current, running, begun, resumption, history>>

\* The build, the smoke test or the request fails, or the process of the job dies.
\* What was done stays done: the commit, the checkout, commit.txt, the binary, and
\* the marker.
JobFails(j) ==
    /\ \/ job[j].pc \in {"build", "smoke", "post"}
       \/ Own(j) /\ job[j].pc = "note"
    /\ Fails(j)
    /\ UNCHANGED <<git, versions, supervisor, begun, resumption, cutShort, untested, asIs,
                   disturbed>>

---------------------------------------------------------------------------
(* Rollback: checkout, build, smoke test, request.                         *)

\* Refused without a commit.txt, and with changes unless forced - of tracked files.
Allowed(v, force) == commit[v] # 0 /\ (force \/ ~Dirty \/ untracked)

StartRollback(j, v, force, cli) ==
    /\ boot = "ready" /\ Allowed(v, force)
    /\ Begins(j, [pc |-> "checkout", kind |-> "rollback", label |-> v, sha |-> commit[v],
                  cli |-> cli])
    /\ UNCHANGED <<resumption, asIs>>

\* Faulty variant: the tree is left as it is.
CheckoutNothing(j) ==
    /\ job[j].pc = "checkout"
    /\ head' = job[j].sha
    /\ Goes(j, "build")
    /\ UNCHANGED <<tree, untracked, log, versions, supervisor, begun, resumption, history>>

\* git checkout carries changes of the tree over, or refuses because of them.
Checkout(j) ==
    /\ job[j].pc = "checkout"
    /\ \/ /\ head' = job[j].sha
          /\ IF Dirty THEN tree' \in Sources ELSE tree' = log[job[j].sha]
          /\ untracked' = (untracked /\ tree' # log[job[j].sha])
          /\ disturbed' = (disturbed \/ Dirty)
          /\ Goes(j, "build")
          /\ UNCHANGED broken
       \/ Fails(j) /\ UNCHANGED <<tree, untracked, head, disturbed>>
    /\ UNCHANGED <<log, versions, supervisor, begun, resumption, cutShort, untested, asIs>>

---------------------------------------------------------------------------
(* The supervisor's own builds; the agent's death does not end them.       *)

\* POST /rebuild: the tree as it is becomes the version of HEAD.
StartRebuild(j) ==
    /\ Begins(j, [pc |-> "build", kind |-> "rebuild", label |-> head, sha |-> head, cli |-> TRUE])
    /\ asIs' = asIs \union {v \in {head} : Dirty}
    /\ UNCHANGED resumption

\* doRollback: a commit of the tray menu is checked out, whatever is in the tree.
StartTrayRollback(j, v) ==
    /\ v \in Known
    /\ Begins(j, [pc |-> "checkout", kind |-> "tray", label |-> v, sha |-> v, cli |-> TRUE])
    /\ UNCHANGED <<resumption, asIs>>

---------------------------------------------------------------------------
(* The process: it dies with the jobs in it, and comes up again.           *)

Dies ==
    /\ job' = [j \in Jobs |-> IF job[j].cli THEN job[j] ELSE NoJob]
    /\ broken' = (broken \/ \E j \in Jobs : ~job[j].cli /\ Wrote(j))
    /\ boot' = "check" /\ told' = 0
    /\ cutShort' = (cutShort \/ told # 0)
    /\ UNCHANGED <<git, versions, begun, resumes, pushed, asIs, disturbed>>

\* The supervisor stops the agent and starts the label it was asked for.
Swap(v) ==
    /\ v \in posted
    /\ posted' = posted \ {v}
    /\ current' = v /\ running' = exe[v]
    /\ Dies /\ UNCHANGED <<marker, saves, untested>>

\* It is asked by hand for a label without a binary, or that of the current one is
\* gone: it starts the newest one there is, whether that passed a test or not.
FallBack(v) ==
    /\ exe[v] # None
    /\ current' = v /\ running' = exe[v]
    /\ untested' = untested \union {v}
    /\ Dies /\ UNCHANGED <<posted, marker, saves>>

\* /restart, the restart action, or a crash: the current label again, from disk.
Restart ==
    /\ running' = exe[current]
    /\ Dies /\ UNCHANGED <<posted, current, marker, saves, untested>>

\* /upgrade: a marker with HEAD, and a clean exit.  Nothing is built.
handleUpgradeResume ==
    /\ boot = "ready"
    /\ saveResumeMarker(head)
    /\ running' = exe[current]
    /\ Dies /\ UNCHANGED <<posted, current, untested>>

---------------------------------------------------------------------------
(* checkResumeMarker.                                                      *)

BootKeeps ==
    UNCHANGED <<git, versions, supervisor, job, begun, saves, untested, asIs, disturbed, broken>>

\* Faulty variant: the marker is removed when everything is done.
CheckMarkerKept ==
    /\ boot = "check"
    /\ boot' = IF marker = 0 THEN "ready" ELSE "wait"
    /\ told' = marker
    /\ resumes' = IF marker = 0 THEN resumes ELSE resumes + 1
    /\ BootKeeps /\ UNCHANGED <<marker, pushed, cutShort>>


\* The marker is read and removed, and the label in it announced as running.
CheckMarker ==
    /\ boot = "check"
    /\ boot' = IF marker = 0 THEN "ready" ELSE "wait"
    /\ told' = marker
    /\ resumes' = IF marker = 0 THEN resumes ELSE resumes + 1
    /\ marker' = 0
    /\ BootKeeps /\ UNCHANGED <<pushed, cutShort>>

\* Two seconds later the continuation is pushed - unless the queue is full.
PushContinuation ==
    /\ boot = "wait"
    /\ boot' = "ready" /\ told' = 0
    /\ \/ pushed' = TRUE /\ UNCHANGED cutShort
       \/ cutShort' = TRUE /\ UNCHANGED pushed
    /\ BootKeeps /\ UNCHANGED <<marker, resumes>>

---------------------------------------------------------------------------
Job(j) ==
    \/ CommitAll(j) \/ WriteCommitTxt(j) \/ Build(j) \/ SmokeTest(j) \/ Post(j)
    \/ JobFails(j) \/ Checkout(j)

Start(j) ==
    \/ \E v \in Commits : \/ \E cli \in BOOLEAN : StartUpgrade(j, v, cli)
                          \/ StartUpgradeAndResume(j, v)
                          \/ \E f, cli \in BOOLEAN : StartRollback(j, v, f, cli)
                          \/ StartTrayRollback(j, v)
    \/ StartRebuild(j)

Boot == CheckMarker \/ PushContinuation

Next ==
    \/ \E s \in Sources : Edit(s)
    \/ \E j \in Jobs : Start(j) \/ Job(j)
    \/ \E v \in Commits : Swap(v) \/ FallBack(v)
    \/ Restart \/ handleUpgradeResume
    \/ Boot

Spec == Init /\ [][Next]_vars

\* The agent comes up, and the supervisor serves what it was asked for (the
\* module Supervisor).  Jobs owe nothing: they may fail.
FairSpec == Spec /\ WF_vars(Boot) /\ WF_vars(\E v \in Commits : Swap(v))

---------------------------------------------------------------------------
(* Properties.                                                             *)

\* What runs under a label that came by upgrades and rollbacks alone has passed its
\* smoke test, whatever dies half way.  Not so a label that the supervisor built
\* itself or fell back to, both without a test; nor one that was built while it was
\* in use, asked for, or in the hands of another job.
RunsTested == running \in Good \/ current \in untested

\* commit.txt names the commit the binary next to it was built from, so that a
\* rollback leads back to it - unless /rebuild took a changed tree for HEAD, a job
\* failed half way, a commit failed unnoticed, somebody moved the tree during a job,
\* or a rollback took changes of the tree along.
CommitTxtExact ==
    \/ disturbed \/ broken
    \/ \A v \in Commits \ asIs :
          /\ exe[v] # None /\ \A j \in Jobs : job[j].label # v \/ ~Busy(j)
          => commit[v] # 0 /\ log[commit[v]] = exe[v]

\* A rollback asks for exactly the commit of the version it goes back to, unless
\* changes of the tree came along: because it was forced, or as untracked files.
RollbackExact ==
    [][\A j \in Jobs :
          Post(j) /\ job[j].kind = "rollback" /\ ~disturbed
          => exe[job[j].label] = log[job[j].sha]]_vars

\* A task is continued at most once for each marker, whatever crashes.
ResumedOnce == resumes + (IF marker # 0 THEN 1 ELSE 0) <= saves


==============================================================================
