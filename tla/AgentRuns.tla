----------------------------- MODULE AgentRuns -----------------------------
(***************************************************************************)
(* Run control of one chat in src/agent.go: the dispatcher (RunLoop), the  *)
(* run registry, the pending queue of src/pending.go, and the Handle       *)
(* goroutines, which run concurrently with the dispatcher and with each    *)
(* other.  Messages reach the dispatcher in any order: Telegram polling    *)
(* and the inject channel may delay, reorder and lose them.                *)
(*                                                                         *)
(* A task is a text that reaches Handle; every task text is sent at most   *)
(* once, so it also names the goroutine started for it.  The transcript is *)
(* reduced to the set of user texts in it: assistant and tool messages of a*)
(* step only matter here because each append writes the whole array back.  *)
(* Database errors do not happen.  The LLM always answers; a tool may not.  *)
(***************************************************************************)
EXTENDS Naturals, SequencesExt

CONSTANTS
    Tasks,        \* user texts that are not handled inside the dispatcher
    Bypass,       \* those that are whitelisted, so not queued (/compress)
    Stop, Abort,  \* the texts /stop and /abort
    Button,       \* a press of an inline button, such as Cancel
    None,
    MaxSteps,     \* the step budget of a run (200 by default)
    MaxRetries    \* retries of an LLM call (4 in the code)

Controls == {Stop, Abort, Button}

ASSUME TasksAssumption ==
    /\ Bypass \subseteq Tasks
    /\ None \notin Tasks
    /\ Controls \intersect Tasks = {}
ASSUME BoundsAssumption == MaxSteps \in Nat \ {0} /\ MaxRetries \in Nat

VARIABLES
    unsent,     \* task texts that have not reached the dispatcher
    queuing,    \* the text sendQueued has announced and not yet added
    pending,    \* the pending queue of the chat
    run,        \* runs[chatID]: the registered run
    pc,         \* pc[t]: where the Handle goroutine of task t stands
    sess,       \* sess[t]: user texts of the goroutine's own Session object
    stored,     \* user texts of the session row in the database
    asked,      \* asked[t]: rs.stop of the run is closed, by /stop or /abort
    step,       \* step[t]: the loop counter i
    attempt,    \* attempt[t]: the retry counter of the LLM call
    accepted,   \* history: texts appended to the transcript of some Handle
    lastReg,    \* history: the run registered last
    raced,      \* history: two Handles overlapped in a way the dispatcher allows
    late        \* history: late[t], LLM calls begun after a stop or an abort

vars == <<unsent, queuing, pending, run, pc, sess, stored, asked, step, attempt,
          accepted, lastReg, raced, late>>

\* A Handle goroutine goes from "none" to "done"; between "registered" and
\* "cleanup" its run is, or was, in the registry.
Before == {"none", "new", "loaded", "saved"}
During == {"registered", "top", "llm", "backoff", "tools", "cap", "cleanup"}
PCs    == Before \union During \union {"done"}

Active(t) == pc[t] \in During
InProgress(t) == pc[t] \notin {"none", "done"}

TypeOK ==
    /\ unsent \subseteq Tasks
    /\ queuing \in Tasks \union {None}
    /\ pending \in Seq(Tasks)
    /\ run \in Tasks \union {None}
    /\ pc \in [Tasks -> PCs]
    /\ sess \in [Tasks -> SUBSET Tasks]
    /\ stored \subseteq Tasks
    /\ asked \in [Tasks -> BOOLEAN]
    /\ step \in [Tasks -> 0..MaxSteps]
    /\ attempt \in [Tasks -> 0..MaxRetries]
    /\ accepted \subseteq Tasks
    /\ lastReg \in Tasks \union {None}
    /\ raced \in BOOLEAN
    /\ late \in [Tasks -> Nat]

Init ==
    /\ unsent = Tasks
    /\ queuing = None /\ pending = <<>>
    /\ run = None
    /\ pc = [t \in Tasks |-> "none"]
    /\ sess = [t \in Tasks |-> {}]
    /\ stored = {}
    /\ asked = [t \in Tasks |-> FALSE]
    /\ step = [t \in Tasks |-> 0]
    /\ attempt = [t \in Tasks |-> 0]
    /\ accepted = {} /\ lastReg = None /\ raced = FALSE
    /\ late = [t \in Tasks |-> 0]

---------------------------------------------------------------------------
(* The dispatcher.                                                         *)

HandlesKeep == UNCHANGED <<run, pc, sess, stored, asked, step, attempt, accepted,
                           lastReg, raced, late>>

\* Faulty variant: the busy check of RunLoop is missing.
BusyNever(m) == FALSE

\* RunLoop queues what arrives while a run is registered, unless it is whitelisted.
Busy(m) == run # None /\ m \notin Bypass

\* /stop and /abort reach the registered run, if there is one.  An abort also
\* cancels the context of the tools; what that does to a tool (ToolCancelled)
\* can happen to it without an abort as well.
Interrupt ==
    /\ asked' = [t \in Tasks |-> asked[t] \/ t = run]
    /\ UNCHANGED <<queuing, run, pc, sess, stored, step, attempt, accepted, lastReg,
                   raced, late>>

\* go a.Handle(chatID, text).
Spawn(t) ==
    /\ pc' = [pc EXCEPT ![t] = "new"]
    /\ raced' = (raced \/ ((t \in Bypass \/ run = None) /\ \E u \in Tasks : InProgress(u)))
    /\ UNCHANGED <<queuing, run, sess, stored, asked, step, attempt, accepted, lastReg, late>>

\* A text from Telegram or from the inject channel.
DispatchText(m) ==
    /\ queuing = None
    /\ unsent' = unsent \ {m}
    /\ UNCHANGED pending
    /\ \/ m \in {Stop, Abort} /\ Interrupt
       \/ m \in unsent /\ Busy(m) /\ queuing' = m /\ HandlesKeep
       \/ m \in unsent /\ ~Busy(m) /\ Spawn(m)

\* The update of a pressed button carries no message, and the dispatcher drops
\* what carries no message before it looks for a button.
DispatchButton(m) ==
    /\ queuing = None
    /\ m = Button
    /\ UNCHANGED vars

\* The end of sendQueued: the text is added after the announcement is sent, and
\* without a second look at the registry.
AddPending ==
    /\ queuing # None
    /\ pending' = Append(pending, queuing)
    /\ queuing' = None
    /\ HandlesKeep /\ UNCHANGED unsent

---------------------------------------------------------------------------
(* The Handle goroutine of task t.                                         *)

\* What the steps of a Handle leave alone in the rest of the process.
OthersKeep == UNCHANGED <<unsent, queuing, raced>>

\* Session.save: the goroutine's copy replaces the whole row.
Save(t) == stored' = sess[t]

\* GetActive: a copy of the row as it is now.
Load(t) ==
    /\ pc[t] = "new"
    /\ sess' = [sess EXCEPT ![t] = stored]
    /\ pc' = [pc EXCEPT ![t] = "loaded"]
    /\ OthersKeep
    /\ UNCHANGED <<pending, run, stored, asked, step, attempt, accepted, lastReg, late>>

AppendUser(t) ==
    /\ pc[t] = "loaded"
    /\ sess' = [sess EXCEPT ![t] = @ \union {t}]
    /\ stored' = sess[t] \union {t}
    /\ accepted' = accepted \union {t}
    /\ pc' = [pc EXCEPT ![t] = "saved"]
    /\ OthersKeep
    /\ UNCHANGED <<pending, run, asked, step, attempt, lastReg, late>>

\* Faulty variant: an entry of an earlier run is not replaced.
RegisterIfNew(t) ==
    /\ pc[t] = "saved"
    /\ run' = IF lastReg = None THEN t ELSE run
    /\ lastReg' = t
    /\ pc' = [pc EXCEPT ![t] = "registered"]
    /\ OthersKeep
    /\ UNCHANGED <<pending, sess, stored, asked, step, attempt, accepted, late>>

\* registerRun, which replaces an entry that is there.
Register(t) ==
    /\ pc[t] = "saved"
    /\ run' = t
    /\ lastReg' = t
    /\ pc' = [pc EXCEPT ![t] = "registered"]
    /\ OthersKeep
    /\ UNCHANGED <<pending, sess, stored, asked, step, attempt, accepted, late>>

\* Faulty variant: the drained messages are not appended.
DrainOnly(t) ==
    /\ pc[t] = "registered"
    /\ pending' = <<>>
    /\ pc' = [pc EXCEPT ![t] = "top"]
    /\ OthersKeep
    /\ UNCHANGED <<run, sess, stored, asked, step, attempt, accepted, lastReg, late>>

\* drainPending, once, before the loop: all pending texts in one append.
DrainPending(t) ==
    /\ pc[t] = "registered"
    /\ IF pending = <<>>
       THEN UNCHANGED <<sess, stored>>
       ELSE /\ sess' = [sess EXCEPT ![t] = @ \union ToSet(pending)]
            /\ stored' = sess[t] \union ToSet(pending)
    /\ accepted' = accepted \union ToSet(pending)
    /\ pending' = <<>>
    /\ pc' = [pc EXCEPT ![t] = "top"]
    /\ OthersKeep
    /\ UNCHANGED <<run, asked, step, attempt, lastReg, late>>

\* One more LLM call of a run that was asked to end counts as late.
CallLLM(t, next) ==
    /\ pc' = [pc EXCEPT ![t] = next]
    /\ late' = IF asked[t] THEN [late EXCEPT ![t] = @ + 1] ELSE late

HandleKeeps == UNCHANGED <<pending, run, sess, asked, accepted, lastReg>>

\* Faulty variant: the loop does not look at rs.stop or at the context.
LoopTopDeaf(t) ==
    /\ pc[t] = "top"
    /\ CallLLM(t, IF step[t] = MaxSteps THEN "cap" ELSE "llm")
    /\ attempt' = [attempt EXCEPT ![t] = 0]
    /\ OthersKeep /\ HandleKeeps
    /\ UNCHANGED <<stored, step>>

\* Top of the loop: the budget first, then stop and abort, then the LLM call.
LoopTop(t) ==
    /\ pc[t] = "top"
    /\ \/ step[t] = MaxSteps /\ CallLLM(t, "cap")
       \/ step[t] < MaxSteps /\ ~asked[t] /\ CallLLM(t, "llm")
       \/ /\ step[t] < MaxSteps /\ asked[t]
          /\ pc' = [pc EXCEPT ![t] = "cleanup"] /\ UNCHANGED late
    /\ attempt' = [attempt EXCEPT ![t] = 0]
    /\ OthersKeep /\ HandleKeeps
    /\ UNCHANGED <<stored, step>>

\* Faulty variant: retries without end.
LLMTransientEndless(t) ==
    /\ pc[t] = "llm"
    /\ pc' = [pc EXCEPT ![t] = IF asked[t] THEN "cleanup" ELSE "backoff"]
    /\ OthersKeep /\ HandleKeeps
    /\ UNCHANGED <<stored, step, attempt, late>>

\* A transient error with retries left: the select returns at once if the run
\* was asked to end, and waits otherwise.
LLMTransient(t) ==
    /\ pc[t] = "llm" /\ attempt[t] < MaxRetries
    /\ pc' = [pc EXCEPT ![t] = IF asked[t] THEN "cleanup" ELSE "backoff"]
    /\ OthersKeep /\ HandleKeeps
    /\ UNCHANGED <<stored, step, attempt, late>>

\* The delay is over; when a stop arrives at the same time the select may take
\* either case.
BackoffEnds(t) ==
    /\ pc[t] = "backoff"
    /\ CallLLM(t, "llm")
    /\ attempt' = [attempt EXCEPT ![t] = @ + 1]
    /\ OthersKeep /\ HandleKeeps
    /\ UNCHANGED <<stored, step>>

BackoffInterrupted(t) ==
    /\ pc[t] = "backoff" /\ asked[t]
    /\ pc' = [pc EXCEPT ![t] = "cleanup"]
    /\ OthersKeep /\ HandleKeeps
    /\ UNCHANGED <<stored, step, attempt, late>>

\* A permanent error, an error after the last retry, or a third empty answer.
LLMGivesUp(t) ==
    /\ pc[t] = "llm"
    /\ pc' = [pc EXCEPT ![t] = "cleanup"]
    /\ OthersKeep /\ HandleKeeps
    /\ UNCHANGED <<stored, step, attempt, late>>

\* A text reply ends the run; tool calls are executed; an empty answer is
\* followed by the next step.  Each is appended to the transcript.
LLMAnswers(t) ==
    /\ pc[t] = "llm"
    /\ Save(t)
    /\ \/ pc' = [pc EXCEPT ![t] = "cleanup"] /\ UNCHANGED step
       \/ pc' = [pc EXCEPT ![t] = "tools"] /\ UNCHANGED step
       \/ pc' = [pc EXCEPT ![t] = "top"] /\ step' = [step EXCEPT ![t] = @ + 1]
    /\ OthersKeep /\ HandleKeeps
    /\ UNCHANGED <<attempt, late>>

\* The tool calls of the step have run, and their results are appended.
ToolsDone(t) ==
    /\ pc[t] = "tools"
    /\ Save(t)
    /\ pc' = [pc EXCEPT ![t] = "top"]
    /\ step' = [step EXCEPT ![t] = @ + 1]
    /\ OthersKeep /\ HandleKeeps
    /\ UNCHANGED <<attempt, late>>

\* A tool returns Canceled (after an abort) or DeadlineExceeded (its own timeout).
ToolCancelled(t) ==
    /\ pc[t] = "tools"
    /\ pc' = [pc EXCEPT ![t] = "cleanup"]
    /\ OthersKeep /\ HandleKeeps
    /\ UNCHANGED <<stored, step, attempt, late>>

\* The budget is used up: one more call, without tools, which may fail.
Summarise(t) ==
    /\ pc[t] = "cap"
    /\ Save(t) \/ UNCHANGED stored
    /\ pc' = [pc EXCEPT ![t] = "cleanup"]
    /\ OthersKeep /\ HandleKeeps
    /\ UNCHANGED <<step, attempt, late>>

\* The goroutine returns: its locals are gone.
Return(t) ==
    /\ pc' = [pc EXCEPT ![t] = "done"]
    /\ sess' = [sess EXCEPT ![t] = {}]
    /\ asked' = [asked EXCEPT ![t] = FALSE]
    /\ step' = [step EXCEPT ![t] = 0]
    /\ attempt' = [attempt EXCEPT ![t] = 0]
    /\ late' = [late EXCEPT ![t] = 0]
    /\ OthersKeep
    /\ UNCHANGED <<pending, stored, accepted, lastReg>>

\* Faulty variant: the entry of the chat is deleted whoever it belongs to.
CleanupAny(t) ==
    /\ pc[t] = "cleanup"
    /\ run' = None
    /\ Return(t)

\* Faulty variant: the deferred cleanup is forgotten.
CleanupNever(t) ==
    /\ pc[t] = "cleanup"
    /\ UNCHANGED run
    /\ Return(t)

\* The deferred cleanup deletes the entry only if it is the run's own.
Cleanup(t) ==
    /\ pc[t] = "cleanup"
    /\ run' = IF run = t THEN None ELSE run
    /\ Return(t)

---------------------------------------------------------------------------
Handle(t) ==
    \/ Load(t) \/ AppendUser(t) \/ Register(t) \/ DrainPending(t) \/ LoopTop(t)
    \/ LLMTransient(t) \/ BackoffEnds(t) \/ BackoffInterrupted(t) \/ LLMGivesUp(t)
    \/ LLMAnswers(t) \/ ToolsDone(t) \/ ToolCancelled(t) \/ Summarise(t) \/ Cleanup(t)

RunLoop == AddPending \/ \E m \in Tasks \union Controls : DispatchText(m) \/ DispatchButton(m)

Next == RunLoop \/ \E t \in Tasks : Handle(t)

Spec == Init /\ [][Next]_vars

\* The dispatcher finishes what it has begun and every started goroutine is
\* scheduled; an LLM call ends by the timeout of its HTTP client.  Nothing ends a
\* tool: terminal waits for whoever holds its output, an MCP call writes to a pipe
\* with a mutex held, a build and git take as long as they take.  The user owes
\* nothing.
Fairness ==
    /\ WF_vars(AddPending)
    /\ \A t \in Tasks : WF_vars(pc[t] # "tools" /\ Handle(t))

FairSpec == Spec /\ Fairness

---------------------------------------------------------------------------
(* Properties.                                                             *)

\* The registry holds the run registered last while it is active, and nothing
\* otherwise - however the runs of a chat overlap and in whatever order they end.
RegistryExact ==
    run = IF lastReg # None /\ Active(lastReg) THEN lastReg ELSE None

\* A text appended to some Handle's transcript is in the database from then on,
\* although every append rewrites the whole row, unless two Handles overlapped
\* in one of the two ways the dispatcher lets them: a whitelisted task, or a
\* task that arrives before the previous one has registered.
KeptUnlessRaced == raced \/ accepted \subseteq stored

\* A text the dispatcher has taken is being queued, is queued, is in the hands of
\* its own Handle, or has been appended to a transcript; it is never dropped in
\* between, and never in two of these places, so it is never processed twice.
Queued(t) == queuing = t \/ t \in ToSet(pending)
InHand(t) == pc[t] \in {"new", "loaded"}

InOnePlace ==
    /\ IsInjective(pending) /\ queuing \notin ToSet(pending)
    /\ \A t \in Tasks \ unsent :
          /\ Queued(t) \/ InHand(t) \/ t \in accepted
          /\ ~(Queued(t) /\ InHand(t))
          /\ t \in accepted => ~Queued(t) /\ ~InHand(t)

\* "/stop: stop the current task after this step": after a stop or an abort a run
\* begins at most two more LLM calls (a retry whose delay ended at the same
\* moment, and the summary when that step was the last of the budget).
StopBoundsWork == \A t \in Tasks : late[t] <= 2

\* A chat stays busy only if a tool does not return: where the tools end, a
\* registered run ends and frees the chat, by whichever way out of Handle.
ToolsEnd == \A t \in Tasks : WF_vars(ToolsDone(t) \/ ToolCancelled(t))

ChatFreeIfToolsEnd == ToolsEnd => ((run # None) ~> (run = None))

\* "/stop: stop the current task" (commands.go) and "no task in progress": without
\* a race, the Handle inside its loop is the one that /stop and /abort reach, from
\* its registration to the very end.
StoppableUnlessRaced == raced \/ \A t \in Tasks : Active(t) => run = t

---------------------------------------------------------------------------
(* The inductive strengthening used by AgentRunsProofs.                    *)

\* Inside the loop there is a step left, and before a retry there is one left.
InBudget ==
    \A t \in Tasks :
        /\ pc[t] \in {"llm", "backoff", "tools"} => step[t] < MaxSteps
        /\ pc[t] = "backoff" => attempt[t] < MaxRetries

\* Without a race the Handles of the chat follow one another ...
Alone == raced \/ \A t, u \in Tasks : InProgress(t) /\ InProgress(u) => t = u

\* ... and the copy of the one in progress is the row of the database.
CopyIsRow ==
    raced \/ \A t \in Tasks : InProgress(t) /\ pc[t] # "new" => sess[t] = stored

\* How many late calls there may have been, by where the run stands.
LateByPlace ==
    \A t \in Tasks :
        /\ ~asked[t] \/ pc[t] \in Before \union {"backoff"} => late[t] = 0
        /\ pc[t] \in {"registered", "top", "llm", "tools"} => late[t] <= 1
        /\ late[t] <= 2

\* A task that has not arrived has no Handle ...
NotStarted == \A t \in unsent : pc[t] = "none"

\* ... and is nowhere else; one whose Handle is past its first append is accepted.
PlaceByPc ==
    /\ \A t \in unsent : t \notin accepted /\ ~Queued(t)
    /\ \A t \in Tasks : pc[t] \notin {"none", "new", "loaded"} => t \in accepted

IInv ==
    /\ TypeOK /\ InBudget /\ NotStarted
    /\ RegistryExact
    /\ Alone /\ CopyIsRow /\ KeptUnlessRaced /\ StoppableUnlessRaced
    /\ LateByPlace
    /\ InOnePlace /\ PlaceByPc

===========================================================================
