----------------------------- MODULE Transcript -----------------------------
(***************************************************************************)
(* Handle (src/agent.go) as the writer of a session: what it appends for   *)
(* each answer of the LLM and each tool call, what it records for the      *)
(* pruning of the context, and when it assembles the request again.  One   *)
(* task runs at a time; tasks follow each other in one session.  /dcp on   *)
(* and /dcp off come from the dispatcher at any moment.                    *)
(*                                                                         *)
(* Overlapping tasks, stop and abort between steps, and retries are in     *)
(* AgentRuns; here they end a task early.                                  *)
(***************************************************************************)
EXTENDS Context

CONSTANTS
    Replies,       \* the sequences of tool calls the LLM may answer with
    CompressArgs,  \* the sequences of ranges it may ask compress for
    Usages,        \* what the usage of an answer may say about the context
    WindowKnown,   \* the model's context window is configured
    DcpToggles,    \* bound on the number of /dcp on and /dcp off
    MaxSteps, MaxMsgs

ASSUME RepliesAssumption ==
    /\ Replies \subseteq Seq(Tools \union {"compress", "malformed"}) \ {<<>>}
    /\ CompressArgs \subseteq Seq(Nat \X Nat)
    /\ Usages \subseteq {"low", "mid", "high"}
    /\ WindowKnown \in BOOLEAN
ASSUME BoundsAssumption == MaxSteps \in Nat \ {0} /\ MaxMsgs \in Nat /\ DcpToggles \in Nat

VARIABLES
    msgs,        \* the session
    dcp,         \* DCPState of the chat
    enabled,     \* cfg.DCP.Enabled
    toggles,     \* number of toggles so far
    pc,          \* where Handle stands; "idle": no task
    step,        \* i
    empties,     \* emptyResponses
    call,        \* the call of the last assistant message that is next or running
    compressed,  \* compressedThisStep
    request,     \* messages, without the system prompt
    upTo         \* the length of the session when request was last assembled

vars == <<msgs, dcp, enabled, toggles, pc, step, empties, call, compressed, request, upTo>>

Calls == (1..MaxMsgs) \X (1..MaxMsgs)
Message ==
    {User, System} \union {Says(cs) : cs \in Replies \union {<<>>}}
    \union {Answer(c, o) : c \in Calls, o \in {"ok", "error", "denied"}}

TypeOK ==
    /\ msgs \in Seq(Message) /\ Len(msgs) <= MaxMsgs
    /\ dcp.ranges \in Seq([from : 1..MaxMsgs, to : 1..MaxMsgs, told : SUBSET (1..MaxMsgs)])
    /\ dcp.seen \in [Tools -> 0..MaxMsgs]
    /\ dcp.errors \subseteq [call : Calls, idx : 1..MaxMsgs, turn : 1..MaxMsgs]
    /\ dcp.turn \in 0..MaxMsgs
    /\ dcp.tokens \in {"low", "mid", "high"}
    /\ dcp.lastNudge \in 0..MaxSteps
    /\ enabled \in BOOLEAN /\ toggles \in 0..DcpToggles
    /\ pc \in {"idle", "llm", "tools", "running", "summary", "dead"}
    /\ step \in 0..MaxSteps /\ empties \in 0..2 /\ call \in 0..MaxMsgs
    /\ compressed \in BOOLEAN
    /\ \A i \in DOMAIN request : request[i].src \in 0..Len(msgs)
    /\ upTo \in 0..Len(msgs)

NewDCPState ==
    [ranges |-> <<>>, seen |-> [t \in Tools |-> 0], errors |-> {}, turn |-> 0,
     tokens |-> "low", lastNudge |-> 0]

Init ==
    /\ msgs = <<>> /\ dcp = NewDCPState
    /\ enabled = TRUE /\ toggles = 0
    /\ pc = "idle" /\ step = 0 /\ empties = 0 /\ call = 0 /\ compressed = FALSE
    /\ request = <<>> /\ upTo = 0

\* The assistant message whose calls are being executed, and the call.
Current  == SelectLastInSeq(msgs, HasCalls)
TheCall  == msgs[Current].calls[call]
Room(n)  == Len(msgs) + n <= MaxMsgs
NextStep == IF step + 1 < MaxSteps THEN "llm" ELSE "summary"

\* messages = a.buildDCPMessages(sess, dcp, s), the session being ms.
Rebuild(ms, d, s) ==
    /\ request' = buildDCPMessages(ms, d, s)
    /\ dcp' = NudgeNoted(d, s)
    /\ upTo' = Len(ms)

(* A task. *)

\* Messages queued meanwhile are appended after the request is assembled.
StartTask ==
    /\ pc = "idle" /\ Room(2)
    /\ LET d == [dcp EXCEPT !.turn = @ + 1, !.tokens = IF WindowKnown THEN "low" ELSE @]
           ms == Append(msgs, User)
       IN  /\ IF enabled
              THEN Rebuild(ms, d, 0)
              ELSE dcp' = d /\ request' = Plain(ms) /\ upTo' = Len(ms)
           /\ \E queued \in {<<>>, <<User>>} : msgs' = ms \o queued
    /\ pc' = "llm" /\ step' = 0 /\ empties' = 0 /\ call' = 0
    /\ UNCHANGED <<enabled, toggles, compressed>>

\* The LLM answers; its usage may name the size of the context.
Answered == \E t \in Usages \union {dcp.tokens} : dcp' = [dcp EXCEPT !.tokens = t]

ReplyText ==
    /\ pc = "llm" /\ Room(1) /\ Answered
    /\ msgs' = Append(msgs, Says(<<>>))
    /\ pc' = "idle" /\ empties' = 0
    /\ UNCHANGED <<enabled, toggles, step, call, compressed, request, upTo>>

\* The third empty answer in a row ends the task; the first two are
\* appended with a reprimand, which the request does not get.
ReplyEmpty ==
    /\ pc = "llm" /\ Answered
    /\ \/ /\ empties = 2
          /\ pc' = "idle" /\ UNCHANGED <<msgs, empties, step>>
       \/ /\ empties < 2 /\ Room(2)
          /\ msgs' = msgs \o <<Says(<<>>), System>>
          /\ empties' = empties + 1
          /\ pc' = NextStep /\ step' = step + 1
    /\ UNCHANGED <<enabled, toggles, call, compressed, request, upTo>>

ReplyCalls ==
    /\ pc = "llm" /\ Answered
    /\ \E cs \in Replies :
           /\ Room(1 + Len(cs))
           /\ msgs' = Append(msgs, Says(cs))
    /\ pc' = "tools" /\ call' = 1 /\ compressed' = FALSE /\ empties' = 0
    /\ UNCHANGED <<enabled, toggles, step, request, upTo>>

\* The LLM fails for good, or the task is stopped or aborted at the loop's head.
TaskEnds ==
    /\ pc \in {"llm", "summary"}
    /\ pc' = "idle"
    /\ UNCHANGED <<msgs, dcp, enabled, toggles, step, empties, call, compressed, request, upTo>>

\* The step budget is used up: one more request, without tools.
Summarise ==
    /\ pc = "summary" /\ Room(1)
    /\ request' = Append(request, Note)
    /\ msgs' = Append(msgs, Says(<<>>))
    /\ pc' = "idle"
    /\ UNCHANGED <<dcp, enabled, toggles, step, empties, call, compressed, upTo>>

(* The tool calls of an answer, one after the other. *)

\* The call has its result: on to the next one, or to the next step.
Result(outcome) ==
    /\ msgs' = Append(msgs, Answer(<<Current, call>>, outcome))
    /\ IF call < Len(msgs[Current].calls)
       THEN call' = call + 1 /\ pc' = "tools" /\ UNCHANGED step
       ELSE call' = 0 /\ pc' = NextStep /\ step' = step + 1
    /\ UNCHANGED <<enabled, toggles, empties>>

Intercepted == pc = "tools" /\ TheCall = "compress" /\ enabled

\* One compression a step.  (compressCount starts again at each step and never
\* gets beyond one, so its limit of three does nothing.)
CompressDenied ==
    /\ Intercepted /\ compressed
    /\ Result("denied")
    /\ UNCHANGED <<dcp, compressed, request, upTo>>

\* Only a compression that succeeds assembles the request again.
Compress ==
    /\ Intercepted /\ ~compressed
    /\ \E args \in CompressArgs :
           LET done == execCompress(dcp.ranges, args, Len(msgs))
               d    == [dcp EXCEPT !.ranges = done.ranges]
           IN  IF done.ok
               THEN Result("ok") /\ compressed' = TRUE /\ Rebuild(msgs', d, step + 1)
               ELSE Result("error") /\ dcp' = d /\ UNCHANGED <<compressed, request, upTo>>

\* compress has a definition for the LLM and no Execute: without the
\* interception the call is one of a nil function, which ends the process.
CompressPanics ==
    /\ pc = "tools" /\ TheCall = "compress" /\ ~enabled
    /\ pc' = "dead"
    /\ UNCHANGED <<msgs, dcp, enabled, toggles, step, empties, call, compressed, request, upTo>>

\* An unknown tool, or arguments that do not parse.
Rejected ==
    /\ pc = "tools" /\ TheCall \in {"malformed"} \union (IF enabled THEN {} ELSE {"compress"})
    /\ Result("error")
    /\ UNCHANGED <<dcp, compressed, request, upTo>>

RecordToolCall(d, t) ==
    IF t \in Protected \/ d.seen[t] # 0 THEN d ELSE [d EXCEPT !.seen[t] = Len(msgs)]

RecordErrorToolCall(d) ==
    [d EXCEPT !.errors = @ \union {[call |-> <<Current, call>>, idx |-> Len(msgs), turn |-> d.turn]}]

RunTool ==
    /\ pc = "tools" /\ TheCall \in Tools
    /\ pc' = "running"
    /\ dcp' = IF enabled THEN RecordToolCall(dcp, TheCall) ELSE dcp
    /\ UNCHANGED <<msgs, enabled, toggles, step, empties, call, compressed, request, upTo>>

\* A plausible slip: with pruning, the request is left to the next task.
ToolReturnsUnseen ==
    /\ pc = "running"
    /\ \E outcome \in {"ok", "error"} :
           /\ dcp' = IF outcome = "error" /\ enabled THEN RecordErrorToolCall(dcp) ELSE dcp
           /\ Result(outcome)
           /\ IF enabled
              THEN UNCHANGED <<request, upTo>>
              ELSE request' = request \o <<Shown(Current), Shown(Len(msgs) + 1)>> /\ UNCHANGED upTo
    /\ UNCHANGED compressed

\* Without pruning, each result goes to the request with a copy of the
\* assistant message.
ToolReturns ==
    /\ pc = "running"
    /\ \E outcome \in {"ok", "error"} :
           LET d == IF outcome = "error" /\ enabled THEN RecordErrorToolCall(dcp) ELSE dcp
           IN  /\ Result(outcome)
               /\ IF enabled
                  THEN Rebuild(msgs', d, step + 1)
                  ELSE /\ request' = request \o <<Shown(Current), Shown(Len(msgs) + 1)>>
                       /\ UNCHANGED <<dcp, upTo>>
    /\ UNCHANGED compressed

\* The task is aborted inside a tool: no result is appended.
ToolCancelled ==
    /\ pc = "running"
    /\ pc' = "idle"
    /\ UNCHANGED <<msgs, dcp, enabled, toggles, step, empties, call, compressed, request, upTo>>

(* The dispatcher. *)

ToggleDcp ==
    /\ toggles < DcpToggles /\ pc # "dead"
    /\ enabled' = ~enabled /\ toggles' = toggles + 1
    /\ dcp' = IF WindowKnown /\ ~enabled THEN [dcp EXCEPT !.tokens = "low"] ELSE dcp
    /\ UNCHANGED <<msgs, pc, step, empties, call, compressed, request, upTo>>

Handle ==
    \/ ReplyText \/ ReplyEmpty \/ ReplyCalls \/ TaskEnds \/ Summarise
    \/ CompressDenied \/ Compress \/ CompressPanics \/ Rejected
    \/ RunTool \/ ToolReturns \/ ToolCancelled

Next == StartTask \/ Handle \/ ToggleDcp

Spec == Init /\ [][Next]_vars

(***************************************************************************)
(* Properties.                                                             *)
(***************************************************************************)

Hidden(ranges) == UNION {ranges[i].from .. ranges[i].to : i \in DOMAIN ranges}

\* Every message that is hidden is told of in a summary ...
Filled(ranges) == Told(ranges) = Hidden(ranges)

\* ... and each range tells of what it hides itself.
Whole(ranges) == \A i \in DOMAIN ranges : ranges[i].told = ranges[i].from .. ranges[i].to

\* A compress call that failed half-way has left ranges as they came.
Torn == dcp.ranges # mergeOverlappingRanges(dcp.ranges)

Executing(i) == pc \in {"tools", "running"} /\ i = Current
Done(i) == {k \in DOMAIN msgs[i].calls :
                     \E j \in DOMAIN msgs : IsTool(msgs[j]) /\ msgs[j].of = <<i, k>>}

\* A task was aborted inside a tool: calls without results stay behind.
Dangling == \E i \in DOMAIN msgs :
    HasCalls(msgs[i]) /\ ~Executing(i) /\ Done(i) # DOMAIN msgs[i].calls

\* A range takes a part of a call and its results only.
Cut == \E i \in DOMAIN msgs :
    LET block == i .. i + Len(msgs[i].calls)
    IN  HasCalls(msgs[i]) /\ block \intersect Hidden(dcp.ranges) \notin {{}, block}

\* The list as it would be assembled now.
View == buildDCPMessages(msgs, dcp, step)

\* What mergeOverlappingRanges and metaSummarize (src/dcp_strategies.go) must
\* come to, whatever failed calls left behind: after a compression the ranges
\* are the maximal runs of the messages summarised so far, in order, or, when
\* those are more than the cap, one range over all of them; and no summary is
\* forgotten.  (Once one range stands for all of them, it hides messages it does
\* not tell of, and a later summary of these is dropped: the guard Whole.)
CompressionIsExact ==
    [][ compressed' /\ ~compressed /\ Whole(dcp.ranges) =>
        LET rs   == dcp'.ranges
            told == Told(rs)
            runs == {i \in told : i + 1 \notin told}
        IN  /\ Told(dcp.ranges) \subseteq told
            /\ IF Cardinality(runs) > Cap
               THEN Len(rs) = 1 /\ Hidden(rs) = Min(told) .. Max(told)
               ELSE /\ Whole(rs)
                    /\ \A i \in 1 .. Len(rs) - 1 : rs[i].to + 1 < rs[i + 1].from ]_vars

\* The list for the model leaves nothing out: as long as no summary spans
\* messages that it does not tell of, each message of the session is shown or
\* told of.  (buildDCPMessages, src/dcp.go)
NothingLost ==
    LET view == View
    IN  Filled(dcp.ranges) => UNION {view[i].told : i \in DOMAIN view} = DOMAIN msgs

\* A result is replaced as a duplicate only if an earlier execution of the
\* same call has a result in the session, although deduplication compares an
\* index of the session with an index of the shortened list.  An execution
\* that was aborted, ranges of a failed compression, and a range that hides a
\* call and not its results, break this.
\* (RecordToolCall, IsDuplicate, src/dcp_strategies.go)
DuplicateHasOriginal ==
    LET view == View
        CallOf(j) == msgs[msgs[j].of[1]].calls[msgs[j].of[2]]
    IN  Torn \/ Dangling \/ Cut \/
        \A i \in DOMAIN view : view[i].shows = "duplicate" /\ RoleOf(view[i], msgs) = "tool" =>
            \E j \in 1 .. view[i].src - 1 : IsTool(msgs[j]) /\ CallOf(j) = CallOf(view[i].src)

\* Only failed results are purged, and only when PurgeTurns tasks have begun
\* since, whatever message the recorded index points to by then.
\* (purgeErrorInputs, src/dcp_strategies.go)
PurgedAreOld ==
    LET view == View
        Later(i) == {j \in view[i].src .. Len(msgs) : msgs[j] = User}
    IN  \A i \in DOMAIN view : view[i].shows = "purged" =>
            Failed(msgs[view[i].src]) /\ Cardinality(Later(i)) >= PurgeTurns

\* A request as the LLM's protocol wants it: the results of an assistant
\* message's calls follow it at once and in order, and there are no others.
WellFormed(list) ==
    \A i \in DOMAIN list : list[i].src # 0 =>
        LET m == msgs[list[i].src]
        IN  /\ HasCalls(m) =>
                 \A k \in DOMAIN m.calls :
                     /\ i + k \in DOMAIN list /\ RoleOf(list[i + k], msgs) = "tool"
                     /\ msgs[list[i + k].src].of = <<list[i].src, k>>
            /\ IsTool(m) => i > m.of[2] /\ list[i - m.of[2]].src = m.of[1]

\* Every result stands behind its call, with only results of that call's message
\* in between.
BehindCalls(list) ==
    \A i \in DOMAIN list : list[i].src # 0 /\ IsTool(msgs[list[i].src]) =>
        \E h \in 1 .. i - 1 :
            /\ list[h].src = msgs[list[i].src].of[1]
            /\ \A g \in h + 1 .. i - 1 :
                   /\ list[g].src # 0 /\ IsTool(msgs[list[g].src])
                   /\ msgs[list[g].src].of[1] = list[h].src

\* The results that are younger than the assembling of the request; their calls.
Since   == {j \in upTo + 1 .. Len(msgs) : IsTool(msgs[j])}
Call(j) == msgs[msgs[j].of[1]].calls[msgs[j].of[2]]

\* They belong to steps of one call that are younger as well.
OneCallSteps == \A j \in Since : msgs[j].of[1] > upTo /\ Len(msgs[msgs[j].of[1]].calls) = 1

\* What the LLM gets, with pruning on or off or switched at any time, and reminders
\* injected anywhere.  No result is without its call; where no task was aborted
\* inside a tool, every call has its results at once and in order.
\* The second part excepts what the code does not do.  The request gets a refusal
\* only when it is assembled again; and without pruning, which does not assemble
\* it, a message with several calls is repeated before each of its results, which
\* no one-call step shows.  Both parts except ranges that cut a call from its
\* results, and a compress call since then, which may have failed and moved ranges.
\* (Handle, src/agent.go:422-459)
RequestWellFormed ==
    pc \in {"llm", "summary"} /\ ~Cut /\ (\A j \in Since : Call(j) # "compress") =>
        /\ BehindCalls(request)
        /\ ~Dangling /\ OneCallSteps => WellFormed(request)

\* What the session has beyond the request never includes the result of a tool
\* that ran: the LLM may miss a queued text, a reprimand or a refusal until the
\* request is assembled again, but it is not asked for the next step without the
\* effects of the last one, however pruning is switched.  (Handle, src/agent.go)
ExecutedIsShown ==
    LET Beyond == {i \in upTo + 1 .. Len(msgs) : \A k \in DOMAIN request : request[k].src # i}
    IN  pc \in {"llm", "summary"} =>
            \A i \in Beyond : IsTool(msgs[i]) => msgs[msgs[i].of[1]].calls[msgs[i].of[2]] \notin Tools

\* The comment at src/tools.go:126 says that the execution of compress is
\* intercepted in Handle: it is never executed as an ordinary tool, which
\* would end the process.
CompressIsIntercepted == pc # "dead"

=============================================================================
