---------------------------- MODULE Supervisor ----------------------------
(***************************************************************************)
(* The supervisor process of src/cmd/supervisor/main.go: one loop that     *)
(* picks a version, runs its agent binary, and swaps it on request.        *)
(*                                                                         *)
(* Actors: the loop goroutine (runSupervisor and runOne), the HTTP         *)
(* handlers and tray callbacks that feed it through upgradeCh and          *)
(* next.json, the agent process, builds, and the death and restart of the  *)
(* supervisor process itself.                                              *)
(*                                                                         *)
(* Time is abstracted: an agent may end early (inside crashWindow) or late *)
(* at any moment, and the loop's sleeps are interleaving points.  Errors   *)
(* of os.WriteFile and os.Remove, which the code ignores, do not happen,   *)
(* but the process may die inside the write of current.json.               *)
(***************************************************************************)
EXTENDS Naturals, Sequences, FiniteSets

CONSTANTS
    Versions,      \* version names (commit ids)
    V0,            \* the version the loop starts from when current.json is unreadable
    Dash,          \* currentTag before the loop has set it
    None,          \* no such file, no such binary
    UpgradeCap,    \* capacity of upgradeCh (4 in the code)
    MaxRequests    \* bound on the swap requests of a behaviour

ASSUME V0Assumption    == V0 \in Versions
ASSUME NamesAssumption == Dash \notin Versions /\ None \notin Versions /\ Dash # None
ASSUME CapAssumption   == UpgradeCap \in Nat \ {0}
ASSUME ReqAssumption   == MaxRequests \in Nat

VARIABLES
    curFile,     \* data/current.json
    nextFile,    \* data/next.json
    badFile,     \* data/bad.json: one version, the last one marked
    built,       \* versions with an agent.exe under data/versions
    newest,      \* the one of them whose directory was modified last
    pc,          \* where the loop goroutine stands
    current,     \* local variable current of runSupervisor
    target,      \* local variable target; the version being run in runOne
    swapTo,      \* the version runOne received while the agent was running
    tag,         \* currentTag, what "Restart agent" pushes
    upgradeCh,   \* the buffered channel
    quit,        \* stopCh is closed
    agent,       \* the agent process: "none", "up", or how it ended
    everBad,     \* history: every version markBad was called with
    requests     \* number of swap requests so far

files  == <<curFile, nextFile, badFile, built, newest>>
vars   == <<curFile, nextFile, badFile, built, newest, pc, current, target,
            swapTo, tag, upgradeCh, quit, agent, everBad, requests>>

Names   == Versions \union {Dash}
NoNames == Names \union {None}

\* The points where the loop is inside os.WriteFile(currentFile).
Saving == {"save_boot", "save_fallback", "save_swap"}
PCs    == {"dead", "boot", "top", "drop", "vet", "stat", "missing", "start",
           "wait", "term", "returned"} \union Saving
Ends   == {"ok", "early", "late"}

\* The process is up; handlers and callbacks are served.
Alive == pc # "dead"

TypeOK ==
    /\ {curFile, nextFile} \subseteq NoNames
    /\ badFile \in Versions \union {None}
    /\ built \subseteq Versions
    /\ newest \in built \union {None}
    /\ pc \in PCs
    /\ {current, target, swapTo, tag} \subseteq Names
    /\ upgradeCh \in Seq(Names)
    /\ Len(upgradeCh) <= UpgradeCap
    /\ quit \in BOOLEAN
    /\ agent \in {"none", "up"} \union Ends
    /\ everBad \subseteq Versions
    /\ requests \in 0..MaxRequests

\* A fresh install: build.bat may have seeded v0, and nothing else is there.
Init ==
    /\ curFile = None /\ nextFile = None /\ badFile = None
    /\ built \in {{}, {V0}}
    /\ newest = IF built = {} THEN None ELSE V0
    /\ pc = "dead"
    /\ current = V0 /\ target = V0 /\ swapTo = V0 /\ tag = Dash
    /\ upgradeCh = <<>>
    /\ quit = FALSE
    /\ agent = "none"
    /\ everBad = {}
    /\ requests = 0

---------------------------------------------------------------------------
(* Requests.                                                               *)

\* Faulty variant: a send that does not respect the capacity.
EnqueueAlways(v) == upgradeCh' = Append(upgradeCh, v) /\ UNCHANGED nextFile

\* The select with default of the handlers: the channel, or next.json when it is full.
Enqueue(v) ==
    IF Len(upgradeCh) < UpgradeCap
    THEN upgradeCh' = Append(upgradeCh, v) /\ UNCHANGED nextFile
    ELSE nextFile' = v /\ UNCHANGED upgradeCh

\* POST /upgrade?v=, and the last step of /rebuild and of doRollback.  The
\* handler does not look at data/versions: any name is accepted.
RequestSwap(v) ==
    /\ Alive
    /\ requests < MaxRequests
    /\ requests' = requests + 1
    /\ Enqueue(v)
    /\ UNCHANGED <<curFile, badFile, built, newest, pc, current, target, swapTo,
                   tag, quit, agent, everBad>>

\* The tray item "Restart agent": dropped when the channel is full.
RestartClicked ==
    /\ Alive /\ ~quit
    /\ requests < MaxRequests
    /\ requests' = requests + 1
    /\ upgradeCh' = IF Len(upgradeCh) < UpgradeCap THEN Append(upgradeCh, tag) ELSE upgradeCh
    /\ UNCHANGED <<files, pc, current, target, swapTo, tag, quit, agent, everBad>>

\* A build of v by /rebuild, doRollback, cmdUpgrade or cmdRollback, or an
\* attempt that only touches the directory of a version built earlier.
Build(v) ==
    /\ newest # v
    /\ built' = built \union {v}
    /\ newest' = v
    /\ UNCHANGED <<curFile, nextFile, badFile, pc, current, target, swapTo, tag,
                   upgradeCh, quit, agent, everBad, requests>>

\* The tray item "Quit supervisor": systray.Quit, then onExit closes stopCh.
QuitClicked ==
    /\ Alive /\ ~quit
    /\ quit' = TRUE
    /\ UNCHANGED <<files, pc, current, target, swapTo, tag, upgradeCh, agent,
                   everBad, requests>>

---------------------------------------------------------------------------
(* The loop of runSupervisor.                                              *)

\* What the loop leaves alone in most of its steps.
LoopKeeps == UNCHANGED <<built, newest, quit, requests>>

\* readState(currentFile), with v0 as the default, which is then written.
Boot ==
    /\ pc = "boot"
    /\ IF curFile # None
       THEN current' = curFile /\ tag' = curFile /\ pc' = "top"
       ELSE current' = V0 /\ pc' = "save_boot" /\ UNCHANGED tag
    /\ LoopKeeps
    /\ UNCHANGED <<curFile, nextFile, badFile, target, swapTo, upgradeCh, agent, everBad>>

\* The write of current.json ends.  setVersion follows it at boot and after
\* runOne, and is not called on the fallback path.
SaveCurrent ==
    /\ pc \in Saving
    /\ curFile' = current
    /\ pc' = IF pc = "save_fallback" THEN "start" ELSE "top"
    /\ tag' = IF pc = "save_fallback" THEN tag ELSE current
    /\ LoopKeeps
    /\ UNCHANGED <<nextFile, badFile, current, target, swapTo, upgradeCh, agent, everBad>>

\* Top of the loop: stopCh is closed.
ReturnOnStop ==
    /\ pc = "top" /\ quit
    /\ pc' = "returned"
    /\ LoopKeeps
    /\ UNCHANGED <<curFile, nextFile, badFile, current, target, swapTo, tag,
                   upgradeCh, agent, everBad>>

\* Top of the loop: a queued request, or next.json, or the current version.
\* The Remove of next.json is a later step: a handler may write in between.
Choose ==
    /\ pc = "top" /\ ~quit
    /\ IF upgradeCh # <<>>
       THEN target' = Head(upgradeCh) /\ upgradeCh' = Tail(upgradeCh) /\ pc' = "drop"
       ELSE /\ UNCHANGED upgradeCh
            /\ IF nextFile # None /\ nextFile # current
               THEN target' = nextFile /\ pc' = "drop"
               ELSE target' = current /\ pc' = "vet"
    /\ LoopKeeps
    /\ UNCHANGED <<curFile, nextFile, badFile, current, swapTo, tag, agent, everBad>>

DropNextFile ==
    /\ pc = "drop"
    /\ nextFile' = None
    /\ pc' = "vet"
    /\ LoopKeeps
    /\ UNCHANGED <<curFile, badFile, current, target, swapTo, tag, upgradeCh, agent, everBad>>

\* Faulty variant: bad.json is never consulted.
isBadNever(v) == FALSE

\* isBad: a bad target is replaced by current, which is not looked at again.
isBad(v) == badFile = v

Vet ==
    /\ pc = "vet"
    /\ target' = IF isBad(target) THEN current ELSE target
    /\ pc' = "stat"
    /\ LoopKeeps
    /\ UNCHANGED <<curFile, nextFile, badFile, current, swapTo, tag, upgradeCh, agent, everBad>>

Stat ==
    /\ pc = "stat"
    /\ pc' = IF target \in built THEN "start" ELSE "missing"
    /\ LoopKeeps
    /\ UNCHANGED <<curFile, nextFile, badFile, current, target, swapTo, tag,
                   upgradeCh, agent, everBad>>

\* Faulty variant: no fallback for a missing binary.
FallbackNever ==
    /\ pc = "missing"
    /\ pc' = "top"
    /\ LoopKeeps
    /\ UNCHANGED <<curFile, nextFile, badFile, current, target, swapTo, tag,
                   upgradeCh, agent, everBad>>

\* The directory under data/versions with a binary and the latest change.
latestVersionDir == newest

\* latestVersionDir replaces a missing binary, and becomes current.  When there
\* is none, or it is the target itself (built since Stat), the loop sleeps and
\* starts over: the target is forgotten.
Fallback ==
    /\ pc = "missing"
    /\ IF latestVersionDir \notin {None, target}
       THEN target' = latestVersionDir /\ current' = latestVersionDir /\ pc' = "save_fallback"
       ELSE pc' = "top" /\ UNCHANGED <<target, current>>
    /\ LoopKeeps
    /\ UNCHANGED <<curFile, nextFile, badFile, swapTo, tag, upgradeCh, agent, everBad>>

---------------------------------------------------------------------------
(* runOne.                                                                 *)

\* cmd.Start succeeds, or fails and runOne returns current.
StartOk ==
    /\ pc = "start"
    /\ agent' = "up"
    /\ pc' = "wait"
    /\ LoopKeeps
    /\ UNCHANGED <<curFile, nextFile, badFile, current, target, swapTo, tag,
                   upgradeCh, everBad>>

StartFails ==
    /\ pc = "start"
    /\ pc' = "top"
    /\ tag' = current
    /\ LoopKeeps
    /\ UNCHANGED <<curFile, nextFile, badFile, current, target, swapTo,
                   upgradeCh, agent, everBad>>

\* The agent process ends, by itself or killed from outside; SIGTERM ends it too.
AgentEnds(how) ==
    /\ agent = "up"
    /\ agent' = how
    /\ UNCHANGED <<files, pc, current, target, swapTo, tag, upgradeCh, quit,
                   everBad, requests>>

\* The loop takes the exit: a clean one changes nothing; a crash inside
\* crashWindow marks the target bad, overwriting what bad.json held.
ReapExit ==
    /\ pc = "wait" /\ agent \in Ends
    /\ IF agent = "early"
       THEN badFile' = target /\ everBad' = everBad \union {target}
       ELSE UNCHANGED <<badFile, everBad>>
    /\ agent' = "none"
    /\ pc' = "top"
    /\ tag' = current
    /\ LoopKeeps
    /\ UNCHANGED <<curFile, nextFile, current, target, swapTo, upgradeCh>>

\* Faulty variant: runOne does not listen to upgradeCh.
SwapNever == FALSE

\* The loop takes a request while the agent runs (or has just ended): SIGTERM.
Swap ==
    /\ pc = "wait" /\ upgradeCh # <<>>
    /\ swapTo' = Head(upgradeCh)
    /\ upgradeCh' = Tail(upgradeCh)
    /\ pc' = "term"
    /\ LoopKeeps
    /\ UNCHANGED <<curFile, nextFile, badFile, current, target, tag, agent, everBad>>

\* Faulty variant: the new current version is not written to current.json.
SwappedUnsaved ==
    /\ pc = "term"
    /\ agent' = "none"
    /\ current' = swapTo
    /\ pc' = "top" /\ tag' = swapTo
    /\ LoopKeeps
    /\ UNCHANGED <<curFile, nextFile, badFile, target, swapTo, upgradeCh, everBad>>

\* The agent is gone, within five seconds or killed: runOne returns the new
\* version, which becomes current without isBad or a look at its binary.
Swapped ==
    /\ pc = "term"
    /\ agent' = "none"
    /\ current' = swapTo
    /\ IF swapTo # current
       THEN pc' = "save_swap" /\ UNCHANGED tag
       ELSE pc' = "top" /\ tag' = swapTo
    /\ LoopKeeps
    /\ UNCHANGED <<curFile, nextFile, badFile, target, swapTo, upgradeCh, everBad>>

\* stopCh is closed while the agent runs: it is stopped, and the loop comes
\* to its top once more.
StopAgent ==
    /\ pc = "wait" /\ quit
    /\ agent' = "none"
    /\ pc' = "top"
    /\ tag' = current
    /\ LoopKeeps
    /\ UNCHANGED <<curFile, nextFile, badFile, current, target, swapTo, upgradeCh, everBad>>

---------------------------------------------------------------------------
(* The supervisor process.                                                 *)

\* A crash; or systray.Run returns after Quit and main ends without waiting
\* for the loop goroutine.  The agent, if there is one, goes on.  A write of
\* current.json that is cut off leaves the old content or none.
SupervisorDies ==
    /\ Alive
    /\ pc' = "dead"
    /\ agent' = "none"
    /\ curFile' \in {curFile} \union (IF pc \in Saving THEN {None} ELSE {})
    /\ upgradeCh' = <<>>
    /\ tag' = Dash
    /\ UNCHANGED <<nextFile, badFile, built, newest, current, target, swapTo,
                   quit, everBad, requests>>

SupervisorStarts ==
    /\ pc = "dead"
    /\ pc' = "boot"
    /\ quit' = FALSE
    /\ UNCHANGED <<files, current, target, swapTo, tag, upgradeCh, agent,
                   everBad, requests>>

Loop ==
    \/ Boot \/ SaveCurrent \/ ReturnOnStop \/ Choose \/ DropNextFile \/ Vet
    \/ Stat \/ Fallback \/ StartOk \/ StartFails \/ ReapExit \/ Swap \/ Swapped
    \/ StopAgent

Environment ==
    \/ \E v \in Versions : RequestSwap(v) \/ Build(v)
    \/ RestartClicked \/ QuitClicked
    \/ \E how \in Ends : AgentEnds(how)
    \/ SupervisorDies \/ SupervisorStarts

Next == Loop \/ Environment

Spec == Init /\ [][Next]_vars

\* The loop goroutine is always scheduled, and a binary that exists does not
\* fail to start for ever.  Nothing is assumed of the agent, of the users or of
\* the supervisor's own death.
Fairness == WF_vars(Loop) /\ SF_vars(StartOk)

FairSpec == Spec /\ Fairness

---------------------------------------------------------------------------
(* Properties.                                                             *)

\* What the code guarantees of bad.json: from the moment a target has passed
\* isBad until runOne is done with it, it is the marked version only if it is
\* also the current one, whatever requests, builds and fallbacks came between.
BadOnlyIfCurrent ==
    pc \in {"stat", "missing", "save_fallback", "start", "wait"} =>
        (badFile = target => target = current)

\* Whenever the loop is outside the write itself, current.json names the version
\* the loop would come back to: a supervisor that dies there loses nothing.
PointerDurable ==
    Alive /\ pc \notin Saving \union {"boot"} => curFile = current

\* No request stays in upgradeCh: whether the agent runs on, ends, or fails to
\* start, the loop gets to every queued one, unless the supervisor is stopped.
QueueDrains ==
    (upgradeCh # <<>>) ~> (upgradeCh = <<>> \/ quit \/ ~Alive)

\* "auto-restart on crash" (README.md, Features): as long as there is one binary
\* on disk, an agent runs again, even when the version asked for or the
\* current one is missing or marked bad.
AgentComesBack ==
    (built # {}) ~> (agent = "up" \/ quit \/ ~Alive)

\* README.md, Version Management: "If a version crashes within 20 seconds, it is
\* marked as bad and will not be used again" - read charitably: not as long as
\* another version, never marked, has a binary.
BadNeverUsedAgain ==
    pc = "wait" /\ target \in everBad => built \subseteq everBad

---------------------------------------------------------------------------
(* The inductive strengthening used by SupervisorProofs.                   *)

\* What runOne is called with has a binary, so only real versions are marked bad.
Launchable == pc \in {"save_fallback", "start", "wait"} => target \in built

\* The fallback replaces current together with target.
FallbackIsCurrent == pc = "save_fallback" => target = current

IInv == TypeOK /\ Launchable /\ FallbackIsCurrent /\ BadOnlyIfCurrent /\ PointerDurable

===========================================================================
