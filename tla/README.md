# SMAGo in TLA+

SMAGo is an AI agent that is used over Telegram, edits its own source and swaps
its own binary. This directory holds TLA+ models of the parts of it that are
concurrent, that fail, or that decide what survives; TLC configurations that
check them on small instances; and proofs, checked by TLAPS, of what matters
most for every instance. Paths below are relative to `src/src/` unless they
start with `src/`.

## 1. The system

| component | state | operations | who calls it |
|---|---|---|---|
| Supervisor (`cmd/supervisor/main.go`) | `data/current.json`, `next.json`, `bad.json`, `data/versions/*`; `upgradeCh`, `currentTag`, the agent process | `/upgrade`, `/rebuild`, tray items, the loop, `runOne` | users, the agent's upgrade and rollback commands |
| Telegram client (`telegram.go`) | the update offset | `LongPoll`, sends | the poller, Handle |
| Dispatcher (`agent.go`, `RunLoop`) | run registry `runs`, pending queue, per-chat settings | one update at a time: `/stop`, `/abort`, commands, or a task for `Handle` | the poller's channel, the inject channel |
| Handle (`agent.go`) | its own `Session` copy, the message list for the LLM, step and retry counters | LLM call with retries, tool calls, appends | one goroutine per task, several per chat at once |
| Session store (`session.go`, `dcp_state.go`) | SQLite: `sessions`, `session_active`, `dcp_state` | load, append, create, switch, rename, delete | dispatcher and Handle |
| Context pruning (`dcp*.go`) | `DCPState`: compressed ranges, seen calls, failed calls | compress, merge, deduplicate, purge, nudge | Handle, `/dcp` |
| Tools (`tools.go`) | `readFiles`, files on disk | `terminal`, `read_file`, `write_file`, `edit_file`, `list_dir` | Handle |
| MCP client (`mcp.go`) | `nextID`, `pending`, two pipes | `send`, `readLoop` | tools of several Handles at once |
| Self-upgrade (`cmd_upgrade.go`, `self_modify_tool.go`, `resume*.go`, `git.go`) | the work tree, versions on disk, `resume.json` | commit, build, smoke test, swap request, checkout, resume | a tool call, Telegram commands, start-up |
| Inject and mirror (`inject.go`) | the inject channel, the outbound buffer, waiters | `/inject`, `/mirror`, `Record` | HTTP clients, Handle |

The dispatcher is one goroutine; each task gets a goroutine of its own. What they
share: the registry (under `runMu`), the pending queue (under its own mutex), the
session row (SQLite, no transaction spans a read and a write), the pruning state
of the chat (a pointer), the files on disk, and several maps without any lock. The
supervisor is a process of its own whose loop goroutine is fed by HTTP handlers and
tray callbacks through a buffered channel and a file. An upgrade runs as a process
of its own, or inside the agent that it is about to replace.

What is hard, and what makes each part correct:

* **Supervisor** - it may die at any point, also inside the write of
  `current.json`; requests overflow; binaries are missing; versions crash.
  Correct: no request is stuck, an agent comes back whenever a binary exists, the
  file names what the loop would return to, a bad version is refused.
* **Intake** - a batch of updates is answered as one; answers are lost, channels
  fill, the process restarts. Correct: updates are acted on in order and once, and
  each one Telegram has forgotten is accounted for.
* **Runs of a chat** - the busy check, the registration and the cleanup are
  separate steps of different goroutines; stop and abort may arrive at any of
  them. Correct: the registry names the right run, no text is lost or processed
  twice, a stop ends the work, the chat becomes free again.
* **Sessions** - several copies of one row, a pointer and a pruning state that
  change in separate statements, state that belongs to a session but is kept per
  chat, crashes between two statements. Correct: the pointer names a session,
  texts stay, marks are used in their own session only, a reset sticks.
* **Pruning and the transcript** - indices into one list are used in another one,
  calls of compress fail half-way, a step has several tool calls and is aborted
  between two of them. Correct: the list for the LLM leaves nothing out, replaces
  only what it has elsewhere, and pairs each call with its results.
* **Tools** - a file has several spellings and several writers, and is emptied
  before it is filled. Correct: an edit changes the lines it was asked to, and
  calls that do not overlap have the effect they would have one after the other.
* **MCP** - answers may be late, missing, out of order or nobody's; pipes are
  bounded; calls give up. Correct: an answer reaches its own call or nobody,
  the reader never blocks, the table does not leak, every call ends.
* **Upgrade** - a pipeline of steps with a marker on disk; each may fail, and the
  process is replaced in the middle. Correct: what runs was tested, `commit.txt`
  is true, a rollback leads to its commit, a task is continued once.
* **Mirror** - clients wait on channels that are closed outside the mutex.
  Correct: each message is handed out once, nobody sleeps through one.

`PROJECT.json` lists the hazards at their lines, with the properties that would
catch them; two have none, for the reason noted there.

## 2. What is modelled

A definition that a comment calls a *faulty variant* or *plausible slip* is not
part of a specification: it is the code with a bug in it, put in the place of the
real definition to see that a property notices.

### Supervisor

One action per interruption point of `runSupervisor` and `runOne`: the steps
between two looks at shared state (a channel, a file, the process table) are one
action, and `pc` names the point in between (`boot`, `top`, `drop`, `vet`,
`stat`, `missing`, `start`, `wait`, `term`, and three points inside the write of
`current.json`). The environment requests swaps, clicks tray items, builds
versions (which also moves the directory times `latestVersionDir` looks at),
ends the agent cleanly, early or late, and kills and restarts the supervisor. A
process that dies inside `os.WriteFile` leaves the old content or an unreadable
file, which `readState` takes for none.

Abstractions: time is only early/late; the WriteFile and Remove errors the code
ignores do not happen; `bad.json` and `next.json` are written atomically.

### Intake

The way of a text from Telegram to the dispatcher. Telegram keeps updates until a
request with a higher offset confirms them; `LongPoll` moves the offset past the
whole batch and returns its first message; the poller holds it until its channel
has room; `RunLoop` takes from that channel or from the inject channel. A restart
clears everything but Telegram's own state. An update is its number and its kind.
What happens to a text the dispatcher acts on is `AgentRuns`.

`RunLoop` passes over updates without a message (`agent.go:661`) before the switch
on callback data at 685-725, so no inline button has an effect.

### AgentRuns

The dispatcher and the `Handle` goroutines of one chat. A task text doubles as
the identity of its goroutine. Every read or write of shared state is a step:
load the row, append and write it back, register, drain, check the stop channel,
call the LLM, back off, run tools, clean up. The transcript is the set of user
texts in it, which is enough to see a write that erases another one. `asked`
stands for the closed stop channel and the cancelled context: the code closes
both on `/abort`, and the loop tests both at the same places.

### Sessions and MCSessions

The tables of `session.go` and everything that reads or writes them, one action per
SQL statement whose place among the others matters: the commands `/new`, `/switch`,
`/rename`, `/delete` and `/dcp reset` as the dispatcher runs them (`cmd` is the one
in progress), and overlapping Handles, each with its copy of a row (`copy`) and its
pointer to the pruning state of the chat (`dcp`, into `heap`). Object identity
matters here: a reset puts a new object in the place of the old one, and a Handle
that still holds the old one saves it back at its end. A mark `<<s, n>>` in a
pruning state stands for anything that refers to a message of session `s` by index
and was recorded after `n` resets. A crash may come between any two steps.
`MCSessions` declares the symmetry of the tasks.

### Context, Transcript and MCTranscript

`Context` has no variables: it is what `dcp*.go` computes, one operator per
function, from the messages of a session and a `DCPState` to the list
`buildDCPMessages` returns. A summary is the set of the messages it tells of, so
that a merge or a meta-summary shows what it keeps and what it hides.

`Transcript` is `Handle` as the writer of a session. An action is an answer of
the LLM (text, nothing, calls) or the treatment of one call: compress with its
partial failure, the second compress of a step, an unknown tool or bad
arguments, a tool that returns, fails or is aborted. Recording a call and
returning its result are separate actions, because `/dcp off` and `/dcp on` may
come in between. `request` is `messages` in the code and `upTo` how much of the
session it covered when it was last assembled.

Abstractions: one task at a time (overlaps are in `AgentRuns`); call ids are
unique; token counts are below, between or above the two limits; `ManualMode`
is off; a compress call with an empty topic, an empty summary or no ranges is
one that is refused. The process that a nil call ends stays ended.
`MCTranscript` holds the two constants a configuration cannot write.

The helpers of `Context` are folds and concatenations from the community modules
(`FoldLeft` for the loops of `mergeOverlappingRanges`, `FlattenSeq` for the pieces
`applyCompression` puts together), which keeps them free of recursive operators and
so open to proof.

### Tools and MCTools

`read_file`, `write_file`, `edit_file` and `terminal` of several chats on shared
files. A file is the sequence of lines `strings.Split` yields. A call that writes
takes three steps, as in the code: it reads and edits in memory, `os.WriteFile`
empties the file, and then fills it. Paths are spellings of files, and the table of
read paths goes by the spelling. `Edited` is the line arithmetic, and
`editFilePanics` the case in which it slices past the end. The variable `serial` is
a history: the files as if each call had happened in one step, which is what the
files must be equal to while no two calls on them overlap.

### RemoteCalls and McpClient

`RemoteCalls` is what a caller of `send` may rely on: a call ends once, with the
answer to that very call or with an error. `McpClient` is the implementation:
the mutex, the id counter, the table of channels, the write that blocks with the
mutex held, `readLoop` with its lookup and its send as separate steps, pipes of
bounded size, and a server that may be slow, silent, talkative or gone.
`AnswersAreOwn` is the refinement, through the mapping `CallerSees`.

### Upgrade

Jobs - upgrades and rollbacks - against a work tree that anybody may edit, in the
agent (they die with it) or as a command of their own (`cli`). The steps are those
of `cmdUpgrade` (commit, `commit.txt`, build, smoke test, request) and `cmdRollback`
(checkout, build, smoke test, request), each of which may fail and leave behind
what was done. `git commit` that exits with an error is taken for "nothing to
commit" by the code, and so here; `git checkout` carries local changes along or
refuses. The supervisor is reduced to `Swap` and `Restart`; `marker`, `boot` and
`told` are `resume.json` and what a starting agent does about it.

A commit is a number and its content one source; a label is the short hash of a
commit. Whether a content can pass the smoke test is a fact about it (`Good`).

### Mirror

`Record` and `GET /mirror`. Every section under the mutex is a step; between them
stand the clients that wait, those whose channel is about to be closed (`waking`)
and those that have woken up and not yet drained. A message is its number.

## 3. What is checked

| run | shows | distinct states |
|---|---|---|
| `supervisor` | a version is marked bad only when it was current; `current.json` names what the loop returns to; requests are taken; an agent comes back whenever a binary exists | 189 798 |
| `supervisor_bad` | violation: a version marked bad is run again while another that never failed is at hand | - |
| `agent_runs` | the registry names the run registered last; a taken text is in one place; stop and abort reach the running Handle and bound its further work; the chat becomes free | 35 929 |
| `mcp_client` | the client implements `RemoteCalls`; the pending table is exact; the reader never blocks; every call ends if the server reads | 303 322 |
| `transcript` | the list for the LLM loses nothing, is well formed, shows what was executed; duplicates, purged calls and compressed ranges are what they are taken for | 1 845 885 |
| `transcript_compress` | violation: `compress` is dispatched as an ordinary tool | - |
| `sessions` | the active pointer, the texts of each session and the pruning state under commands, overlapping Handles and crashes | 6 806 460 |
| `upgrade` | what runs was tested; `commit.txt` is true; a rollback asks for its commit; a task is resumed once, and is resumed | 1 467 920 |
| `tools` | `edit_file` changes the lines it was asked to; calls that do not overlap act as if one after the other | 383 156 |
| `intake` | updates are acted on in order and at most once per process; each confirmed update is accounted for and reaches the loop | 724 044 |
| `intake_buttons` | violation: a button press never reaches its handler | - |
| `mirror` | each message is handed out once and in order; nobody sleeps while one waits | 66 531 |

Each configuration says in its first lines what its instance is. Why the bounds
are enough:

* `Supervisor.cfg`: three versions let target, current and newest all differ; a
  channel of one and two requests reach the overflow into `next.json`.
* `Intake.cfg`: four updates make batches of two and more while one is held and one
  waits in a channel of one; two injected texts overflow theirs; one restart.
* `AgentRuns.cfg`: two tasks, one of them whitelisted, overlap in both ways the
  dispatcher allows, and one is queued behind the other; two steps and one retry
  reach each budget's end.
* `Sessions.cfg`: two texts overlap; two names and three rows let a name be used
  again by a later row while a Handle still holds the id of the earlier one.
* `Transcript.cfg`: eight messages hold a call, its failure, a compression and a
  later task, which is what a purge and a wrong duplicate need; three steps end by
  the budget and by the third empty answer; a cap of two is exceeded by one call;
  one toggle falls before, in or after a tool.
* `Tools.cfg`: three lines have a first, a middle and a last one; arguments go one
  beyond; two spellings of one file, two chats.
* `McpClient.cfg`: three calls over pipes of one line each, so that a write blocks,
  an answer waits and a late answer meets a new call; one notification.
* `Upgrade.cfg`: two jobs overlap, two commits, two markers, and one content of
  three fails the smoke test.
* `Mirror.cfg`: three clients, so that two are woken by one message and a third
  arrives in between; four messages overflow a buffer of two twice.

Many properties name what breaks them, and hold otherwise: `raced` (two Handles of a
chat overlapped), `crossed`, `doubled` and `torn` (a command during a Handle, a second
text during one, a crash between two statements of a command), `spoiled` (a label was
built while in use), `disturbed` and `broken` (the tree or another job moved during a
job; a job failed after writing `commit.txt`, or a failed commit was taken for one
with nothing to do), `cutShort` (a death between the marker and its continuation),
`skipped` and `wiped` (updates behind the first of a batch, updates in a channel at a
restart), and in `Transcript` `Filled` (no meta-summary has swallowed messages nobody
summarised) and `Whole` (not even ones summarised by another range), `Torn` (a failed
compress left overlapping ranges), `Dangling` (a call was aborted) and `Cut` (a range
cuts a call from its results). Without any of these guards TLC finds a counterexample
in a few steps, so each is a weakness of the code and not of the model.

The three runs that expect a violation each check what the documentation or a
comment says and the code does not do; `findings` in `PROJECT.json` quotes it.

Types. `supervisor` and `agent_runs` check `TypeOK`, which carries bounds the code
relies on (the capacity of `upgradeCh`, the step and retry budgets). It is proved of
every module with variables (`RemoteCalls` has one and no types of its own); in
`Tools` it is called `ToolsTypeOK`, like the other parts of its specification,
because `ToolsProofs` speaks of two specifications.

Fairness. The loop goroutine of the supervisor and the goroutines of the agent
are scheduled (weak fairness): nothing in Go or in the operating system starves
them for ever. `StartOk` has strong fairness: a binary that exists does not
fail to start each time. LLM calls, tools and timers end by their own
timeouts, which is weak fairness of the Handle that waits for them. In `Upgrade`
the agent comes up and resumes (`Boot`), and the supervisor serves a request
(`Swap`), which is what `QueueDrains` and `AgentComesBack` say of `Supervisor`; jobs
owe nothing, they may fail. In `Intake` the poller passes on what it holds and the
dispatcher's `select` takes from each of its channels (Go chooses among ready cases
at random), while a request to Telegram may fail for ever. Nothing is assumed of
users, of agents' exits, of the supervisor's death, or of MCP servers;
`CallsEndIfServerReads` states its assumption about the server in the property
itself, because without it the claim is false. `Sessions`, `Transcript`, `Tools` and
`Mirror` are checked for safety only.

Deadlock is checked where the configuration does not switch it off: `Supervisor`,
`Sessions`, `Tools`, `Upgrade` and `Mirror` never stop. `AgentRuns`, `McpClient` and
`Intake` end when all their tasks, calls and updates are done, and `Transcript` when
the session is full or the process has ended.

## 4. What is proved

For every value of the constants, from the named assumptions only. In each case TLC
checked the strengthening `IInv` as an invariant before the proof was written.

* `SupervisorProofs`. `IInv` adds two facts to `TypeOK`, `BadOnlyIfCurrent` and
  `PointerDurable`: what `runOne` is called with has a binary (`Launchable`, so
  that only real versions are marked bad), and the fallback sets `current`
  together with `target` (`FallbackIsCurrent`, without which the write in the
  fallback could not be shown to keep `BadOnlyIfCurrent`).
* `AgentRunsProofs`. `IInv` adds the budgets by place (`InBudget`), mutual exclusion
  without a race (`Alone`), equality of the copy and the row for the one Handle
  in progress (`CopyIsRow`), a bound on late calls by place (`LateByPlace`), and
  where a text is by its Handle's place (`PlaceByPc`, `NotStarted`). From it follow
  all the safety properties of the run, `StoppableUnlessRaced` among them.
* `McpClientProofs`. `PendingExact` is inductive because ids are fresh (`FreshIds`).
  That `readLoop` never blocks and that an answer reaches its own call rest on one
  fact: the request of a call, and later its answer, is in at most one place -
  stdin, the server, stdout, the hands of `readLoop`, the call's channel
  (`OnePlace`) - and in none before it is written (`OnlySent`). The refinement is
  proved from it: initial states map to initial states, and each step to a step of
  `RemoteCalls` or a stutter.
* `ToolsProofs`, of `Upgrade`. What runs was tested because whatever may be started
  next was (`StartableTested`) and has a binary (`Built`). `CommitTxtExact` and
  `RollbackExact` follow from what each place of a job implies (`RollbackPlaces`,
  `UpgradePlaces`, `AllExact`, which excepts a label between the writing of
  `commit.txt` and the end of the build), and these are inductive because
  undisturbed jobs do not overlap (`OneJob`).
* `ToolsProofs`, of `Tools`. `EditExact` is the arithmetic of `editFile`: every edit
  that is neither refused nor panics is one splice of the lines it read, whose cut
  lies inside them (`EditIsSplice`), and a splice keeps what is before and behind the
  cut (`Splice`). `Serial` compares the disk with the history; it is inductive with
  what a call under way holds: on a file that no two calls share, the lines it read
  are the history's (`Fresh`), and while it has emptied the file the history has
  what it will fill in (`Pending`). That a file is absent must not look like a text,
  which is `NoFileAssumption`.
* `TranscriptProofs`, of the operators of `Context`. Induction over the turns of a
  loop is stated of a set of numbers (`Induction`), and the function a fold computes
  is shown to exist first (`FoldDef`), so that every statement holds for sequences of
  any length: the sort loses and makes up no range (`SortedIs`), the merge hides
  exactly what was hidden and leaves gaps (`MergedIs`), `applyCompression` leaves each
  message outside the ranges once, in order, at a known place (`ShortenedPlaces`),
  `execCompress` keeps ranges inside the session even when it fails half-way
  (`CompressIs`), deduplication and purging replace contents and move nothing
  (`DedupedIs`, `PurgedIs`), and the reminder moves the entries behind it by one,
  never between a call and its result (`BuiltIs`, `ReminderWellFormed`).
* `TranscriptProofs`, of `Transcript`. `IInv` has, beside the types (`Typed`, which
  keeps every index inside the session it belongs to) and `RequestWellFormed` itself:
  results stand right behind their calls (`ResultsFollow`); while calls are executed
  the session ends with the results of those done so far (`Working`), without which
  `Append` could put a result behind another message; a failure is followed by at
  least as many user messages as turns have passed since (`Aging`, from which
  `PurgedAreOld` follows although the code keeps a turn and a stale index);
  a signature is kept at the index of its first call, and that call has been executed
  (`Recorded`, from which `DuplicateHasOriginal` follows); and no result of a tool is
  missing from the request (`NoneMissed`, which is `ExecutedIsShown` without its
  guard on `pc`). `NothingLost` and `CompressionIsExact` follow from the types and the
  operators' lemmas.
* `MirrorProofs`. `MirrorExact` speaks of the sequence of what was handed out and
  what is buffered. A full buffer loses its head in the middle of that sequence, so
  the induction goes over `Ordered` (both are rising, and the first comes before the
  second) and `Partition` (every message is in one of them or was dropped, and what
  was dropped is older than what is buffered).
* `SessionsProofs`. `ActiveExists` is inductive with the place of a delete
  (`CmdShape`: the pointer has left the row, which is not called default, and until
  the row is gone no rename and no Handle can lead back to it). `TextsKept` needs that
  ids are never used again (`IdsBelow`) and that a Handle that is alone holds the row
  it writes (`CopyIsRow`).
  `InItsSession` and `OwnMarks` rest on where a Handle stands on its way to a session
  (`Settled`, `OnItsWay`), and on marks being made in the active session and dropped
  by every command that leaves it (`OfActive`); `ResetSticksWhenQuiet` on all marks,
  not only the reachable ones, being recent (`SinceReset`).
* `IntakeProofs`. `InOrder` rests on the offset: what the process has seen lies below
  it and what a poll returns does not (`Ordered`); `Accounted` has to be shown of all
  that the next request will confirm, not only of what is confirmed (`Known`).

Preparing these proofs showed two properties of `Transcript` to be true of the small
instance only. `DuplicateHasOriginal` fails where a range takes a call and leaves its
result (now excepted by `Cut`), and `CompressionIsExact` where ranges together tell
of what they hide while one of them does not (its guard is now `Whole`, no longer
`Filled`). The arguments of compress in `MCTranscript` include one that leads there.

With these, every safety property that a passing run checks is also proved. Only
model-checked are the liveness properties (`ENABLED` and fairness are beyond the
prover), and the three violations, which are refuted and not proved.

The assumptions are those the modules name, all of them about constants: sets are
not empty where the code has a first element, bounds are numbers, placeholders are
not values. TLC evaluates them in every run.

## 5. What is not modelled

* Commands that set or print one value (`/model`, `/provider`, `/system`,
  `/maxsteps`, `/shell`, `/verbose`, `/trace`, `/version`, `/gitlog`), configuration
  lookup and logging: assignments without behaviour over time.
* How the dispatcher finds a command's argument. `TrimPrefix` strips `/sw` before
  `/switch` and `/del` before `/delete`, so the long forms leave `itch n` or `ete n`;
  `Sessions` takes what is left as the name. `/delete` without a name asks the user.
* `read_file`'s cut at 50 000 bytes, the diff summary of `edit_file`, and `list_dir`,
  which changes nothing.
* Sending to Telegram, the LLM's HTTP bodies, vision, web search and proxies: one
  request each, without state of their own.
* Markdown, prompts, banners, icons, command lines of shells: formatting.
* Concurrent access to Go maps without a lock, which is fatal in any interleaving and
  needs no exploration.
* What a repeated tool call would answer the second time, and with it whether a
  placeholder hides a newer result.
* Liveness of `Sessions`, `Tools` and `Transcript` beyond `ChatBecomesFree`, which
  covers the way of a Handle to its end; the sessions and tools add no waiting.

Observations that have no run of their own, for a reviewer of the code:

* `next.json` is read at the top of the loop only (`cmd/supervisor/main.go:258-263`):
  a request that overflowed waits until the agent ends.
* "Quit" in the tray ends the supervisor (92-93, 149) and may leave the agent behind.
* A queued text waits for the start of the next task (`agent.go:292`,
  `pending.go:62`): the one drained into is not the run it was queued behind.
* The request is assembled at the start of a task and after its tool calls (273, 414,
  454), not before each call of the LLM, as `src/data/dcp-plan.md:30` has it: a text
  drained at 292 is not in the task's first request.
* A failed result is recorded at the index before its own (447), and so is often not
  purged (`dcp-plan.md:113`).
* `/dcp reset` during a Handle is undone by the Handle's last save (372, 579).
* "Upgrade successful" (`resume_check.go:29`) is announced after a failed upgrade, and
  after a bare `/upgrade`, which builds nothing (`agent.go:589-602`;
  `src/README.md:174`).
* `GET /mirror?wait=1` ignores messages that are already buffered, and may answer
  with an empty list (`inject.go:117-129`).
