------------------------------ MODULE Context ------------------------------
(***************************************************************************)
(* What the context pruning of src/dcp*.go computes: from the messages of  *)
(* a session and the pruning state of the chat, the list of messages the   *)
(* model is sent (buildDCPMessages).  Operators only; Transcript is the    *)
(* state machine that uses them.                                           *)
(*                                                                         *)
(* Indices start at 1 here and at 0 in the code.  A text is what it is     *)
(* about: a summary is the set of the messages it tells of, a tool result  *)
(* is the call it answers and whether it begins with "error:".  Ids of     *)
(* tool calls are unique: a call is named by the position of its           *)
(* assistant message and its place in it.                                  *)
(***************************************************************************)
EXTENDS Integers, SequencesExt

CONSTANTS
    Tools,           \* name and arguments of a tool call, its signature
    Protected,       \* the signatures of protected tools
    Cap,             \* the number of ranges above which they become one
    PurgeTurns,      \* PurgeErrorsTurns
    NudgeFrequency

ASSUME ToolsAssumption ==
    Protected \subseteq Tools /\ {"compress", "malformed"} \intersect Tools = {}
ASSUME PruningAssumption == {Cap, PurgeTurns, NudgeFrequency} \subseteq Nat \ {0}

(* Messages of a session. *)

User     == [role |-> "user"]
System   == [role |-> "system"]
Says(cs) == [role |-> "assistant", calls |-> cs]   \* cs = <<>>: a text
Answer(call, outcome) == [role |-> "tool", of |-> call, outcome |-> outcome]

IsTool(m)   == m.role = "tool"
HasCalls(m) == m.role = "assistant" /\ m.calls # <<>>
Failed(m)   == m.outcome = "error"

(* Ranges: CompressedRange, of which every one is active. *)

Told(ranges) == UNION {ranges[i].told : i \in DOMAIN ranges}

\* The insertion sort by StartIdx, which keeps the order of equal starts.
InsertByStart(sorted, r) ==
    InsertAt(sorted, 1 + Cardinality({i \in DOMAIN sorted : sorted[i].from <= r.from}), r)

\* A plausible slip: ranges that touch are kept apart.
AbsorbOverlapOnly(merged, r) ==
    IF merged = <<>> \/ r.from > Last(merged).to
    THEN Append(merged, r)
    ELSE IF r.to > Last(merged).to
         THEN [merged EXCEPT ![Len(merged)].to = r.to, ![Len(merged)].told = @ \union r.told]
         ELSE merged

\* One turn of the merging loop.  A range inside the last one leaves no
\* trace of its summary.
Absorb(merged, r) ==
    IF merged = <<>> \/ r.from > Last(merged).to + 1
    THEN Append(merged, r)
    ELSE IF r.to > Last(merged).to
         THEN [merged EXCEPT ![Len(merged)].to = r.to, ![Len(merged)].told = @ \union r.told]
         ELSE merged

mergeOverlappingRanges(ranges) ==
    FoldLeft(Absorb, <<>>, FoldLeft(InsertByStart, <<>>, ranges))

metaSummarize(ranges) ==
    << [ from |-> Min({ranges[i].from : i \in DOMAIN ranges}),
         to   |-> Max({ranges[i].to : i \in DOMAIN ranges}),
         told |-> Told(ranges) ] >>

\* args is the sequence of pairs <<start, end>> of the call.  A range that is
\* refused ends the call: what was added before it stays, unmerged.  A call
\* without ranges, or with arguments that do not parse, adds nothing.
execCompress(ranges, args, sessLen) ==
    LET Valid(i) == 1 <= args[i][1] /\ args[i][1] <= args[i][2] /\ args[i][2] <= sessLen
        refused  == {i \in DOMAIN args : ~Valid(i)}
        accepted == IF refused = {} THEN Len(args) ELSE Min(refused) - 1
        added    == ranges \o [i \in 1..accepted |->
                        [from |-> args[i][1], to |-> args[i][2], told |-> args[i][1] .. args[i][2]]]
        merged   == mergeOverlappingRanges(added)
    IN  IF args = <<>> \/ refused # {}
        THEN [ok |-> FALSE, ranges |-> added]
        ELSE [ok |-> TRUE, ranges |-> IF Len(merged) > Cap THEN metaSummarize(merged) ELSE merged]

(* The list for the model: each entry shows a message of the session, whole  *)
(* or with its content replaced, or is a system message of its own.          *)

Shown(i)      == [src |-> i, shows |-> "own", told |-> {i}]
SummaryOf(r)  == [src |-> 0, shows |-> "summary", told |-> r.told]
Nudge         == [src |-> 0, shows |-> "nudge", told |-> {}]
Note          == [src |-> 0, shows |-> "note", told |-> {}]
RoleOf(item, msgs) == IF item.src = 0 THEN "system" ELSE msgs[item.src].role

Plain(msgs) == [i \in DOMAIN msgs |-> Shown(i)]

\* A plausible slip: the last message of a range is not removed.
removeShort(ranges) == UNION {ranges[i].from .. ranges[i].to - 1 : i \in DOMAIN ranges}

removeSet(ranges) == UNION {ranges[i].from .. ranges[i].to : i \in DOMAIN ranges}

\* A summary stands where its range starts.
applyCompression(msgs, ranges) ==
    LET Summaries(i) == [k \in DOMAIN ranges |->
                            IF ranges[k].from = i THEN <<SummaryOf(ranges[k])>> ELSE <<>>]
        Own(i) == IF i \in removeSet(ranges) THEN <<>> ELSE <<Shown(i)>>
    IN  FlattenSeq([i \in DOMAIN msgs |-> FlattenSeq(Summaries(i)) \o Own(i)])

\* A plausible slip: the first execution counts as a repetition of itself.
IsDuplicateOrFirst(seen, call, idx) ==
    call \in Tools \ Protected /\ seen[call] # 0 /\ seen[call] <= idx

\* seen[call] is the index recorded for the call's first execution, or 0.
IsDuplicate(seen, call, idx) ==
    call \in Tools \ Protected /\ seen[call] # 0 /\ seen[call] < idx

\* An assistant message all of whose calls count as repeated has its content
\* replaced, and with it every tool result before the next assistant message.
deduplicateToolCalls(view, msgs, seen) ==
    LET Repeated(j) ==
            /\ view[j].src # 0 /\ HasCalls(msgs[view[j].src])
            /\ \A k \in DOMAIN msgs[view[j].src].calls :
                   IsDuplicate(seen, msgs[view[j].src].calls[k], j)
        Assistants(i) == {j \in 1..i : RoleOf(view[j], msgs) = "assistant"}
        Replaced(i) ==
            \/ Repeated(i)
            \/ /\ RoleOf(view[i], msgs) = "tool"
               /\ Assistants(i) # {} /\ Repeated(Max(Assistants(i)))
    IN  [i \in DOMAIN view |-> IF Replaced(i) THEN [view[i] EXCEPT !.shows = "duplicate"] ELSE view[i]]

\* A plausible slip: the entry's age is not looked at.
purgeAnyAge(view, msgs, errors, turn) ==
    LET Purged(i) ==
            /\ RoleOf(view[i], msgs) = "tool" /\ view[i].shows = "own"
            /\ \E e \in errors : e.idx = i /\ e.call = msgs[view[i].src].of
    IN  [i \in DOMAIN view |-> IF Purged(i) THEN [view[i] EXCEPT !.shows = "purged"] ELSE view[i]]

\* An entry [call, idx, turn] replaces the message that stands at its index in
\* the list, if that is the result of its call and begins with "error:".
purgeErrorInputs(view, msgs, errors, turn) ==
    LET Purged(i) ==
            /\ RoleOf(view[i], msgs) = "tool" /\ view[i].shows = "own"
            /\ Failed(msgs[view[i].src])
            /\ \E e \in errors : /\ turn - e.turn >= PurgeTurns
                                 /\ e.idx = i /\ e.call = msgs[view[i].src].of
    IN  [i \in DOMAIN view |-> IF Purged(i) THEN [view[i] EXCEPT !.shows = "purged"] ELSE view[i]]

\* CurrentTokens above MaxContextTokens is "high", between the limits "mid".
buildNudge(dcp, step) ==
    \/ dcp.tokens = "high"
    \/ dcp.tokens = "mid" /\ step - dcp.lastNudge >= NudgeFrequency

\* A plausible slip: the messages behind the place are not moved.
injectNudgeOver(view, msgs) ==
    LET users == {i \in DOMAIN view : RoleOf(view[i], msgs) = "user"}
    IN  IF users = {} THEN Append(view, Nudge) ELSE [view EXCEPT ![Max(users)] = Nudge]

\* Before the last user message, or at the end.
injectNudge(view, msgs) ==
    LET users == {i \in DOMAIN view : RoleOf(view[i], msgs) = "user"}
    IN  InsertAt(view, IF users = {} THEN Len(view) + 1 ELSE Max(users), Nudge)

Pruned(msgs, dcp) ==
    LET short   == applyCompression(msgs, dcp.ranges)
        deduped == deduplicateToolCalls(short, msgs, dcp.seen)
    IN  purgeErrorInputs(deduped, msgs, dcp.errors, dcp.turn)

\* The system prompt, which is always the first message, is left out.
buildDCPMessages(msgs, dcp, step) ==
    IF buildNudge(dcp, step) THEN injectNudge(Pruned(msgs, dcp), msgs) ELSE Pruned(msgs, dcp)

\* ... and its effect on the state: LastNudgeStep.
NudgeNoted(dcp, step) == IF buildNudge(dcp, step) THEN [dcp EXCEPT !.lastNudge = step] ELSE dcp
============================================================================
