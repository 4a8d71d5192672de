------------------------------- MODULE Intake -------------------------------
(***************************************************************************)
(* How a text reaches the agent: Telegram's getUpdates and the poller      *)
(* (LongPoll, src/telegram.go), the channel between it and the dispatcher, *)
(* the channel of injected texts (Push), and the dispatcher's own checks   *)
(* (RunLoop, src/agent.go) up to the point where a text is acted on.       *)
(*                                                                         *)
(* Telegram keeps an update until a request with a higher offset confirms  *)
(* it.  The offset lives in the process: after a restart it is zero, and   *)
(* what was not confirmed comes again.                                     *)
(***************************************************************************)
EXTENDS Naturals, Sequences, FiniteSets, SequencesExt, FiniteSetsExt

CONSTANTS
    PollCap, InjectCap,          \* capacities of the two channels (4 and 16)
    MaxUpdates, MaxInjected, MaxRestarts   \* bounds

ASSUME BoundsAssumption ==
    /\ PollCap \in Nat \ {0} /\ InjectCap \in Nat \ {0}
    /\ MaxUpdates \in Nat /\ MaxInjected \in Nat /\ MaxRestarts \in Nat

\* Of a trusted user, but for "stranger"; "other" is a message without a text.
Kinds == {"text", "stranger", "button", "other"}

VARIABLES
    sent,       \* sent[u]: the kind of update u
    confirmed,  \* Telegram has forgotten the updates up to this one
    offset,     \* offset of the Telegram client
    held,       \* the update the poller has to pass on, or 0
    pollCh, inject,
    pushed,     \* number of texts injected so far
    handled,    \* history: updates this process has acted on, in order
    injDone,    \* history: injected texts this process has acted on, in order
    done,       \* history: updates any process has acted on
    skipped,    \* history: updates that came behind the one a poll returned
    wiped,      \* history: confirmed updates that a restart took from the channel
    ignored,    \* history: buttons of trusted users that nothing happened on
    restarts

bot == <<offset, held, pollCh, inject, handled, injDone>>
history == <<done, skipped, wiped, ignored>>
vars == <<sent, confirmed, bot, pushed, history, restarts>>

Updates == 1..Len(sent)
InFlight == ToSet(pollCh) \union ({held} \ {0})

Init ==
    /\ sent = <<>> /\ confirmed = 0
    /\ offset = 0 /\ held = 0 /\ pollCh = <<>> /\ inject = <<>>
    /\ handled = <<>> /\ injDone = <<>>
    /\ pushed = 0
    /\ done = {} /\ skipped = {} /\ wiped = {} /\ ignored = {}
    /\ restarts = 0

---------------------------------------------------------------------------
(* Telegram and the poller.                                                *)

Arrive(kind) ==
    /\ Len(sent) < MaxUpdates
    /\ sent' = Append(sent, kind)
    /\ UNCHANGED <<confirmed, bot, pushed, history, restarts>>

\* What a request with the client's offset confirms.
Confirms == IF offset = 0 THEN confirmed ELSE Max({confirmed, offset - 1})

Wanted(u) == sent[u] # "other"

\* Faulty variant: the offset is the last update's own number.
LongPollAgain ==
    LET batch == Confirms + 1 .. Len(sent)
        wanted == {u \in batch : Wanted(u)} IN
    /\ held = 0 /\ batch # {}
    /\ confirmed' = Confirms
    /\ offset' = Len(sent)
    /\ held' = IF wanted = {} THEN 0 ELSE Min(wanted)
    /\ skipped' = skipped \union (wanted \ {held'})
    /\ UNCHANGED <<sent, pollCh, inject, handled, injDone, pushed, done, wiped, ignored, restarts>>

\* The offset moves past the whole batch, of which one update is returned.
LongPoll ==
    LET batch == Confirms + 1 .. Len(sent)
        wanted == {u \in batch : Wanted(u)} IN
    /\ held = 0 /\ batch # {}
    /\ confirmed' = Confirms
    /\ offset' = Len(sent) + 1
    /\ held' = IF wanted = {} THEN 0 ELSE Min(wanted)
    /\ skipped' = skipped \union (wanted \ {held'})
    /\ UNCHANGED <<sent, pollCh, inject, handled, injDone, pushed, done, wiped, ignored, restarts>>

\* The answer is lost or unreadable, or there is nothing new: the same request
\* again, two seconds later.
LongPollFails ==
    /\ held = 0 /\ confirmed # Confirms
    /\ confirmed' = Confirms
    /\ UNCHANGED <<sent, bot, pushed, history, restarts>>

\* Faulty variant: an update that finds the channel full is dropped.
PassOnOrDrop ==
    /\ held # 0
    /\ pollCh' = IF Len(pollCh) < PollCap THEN Append(pollCh, held) ELSE pollCh
    /\ held' = 0
    /\ UNCHANGED <<sent, confirmed, offset, inject, handled, injDone, pushed, history, restarts>>

\* The poller blocks while the channel is full.
PassOn ==
    /\ held # 0 /\ Len(pollCh) < PollCap
    /\ pollCh' = Append(pollCh, held)
    /\ held' = 0
    /\ UNCHANGED <<sent, confirmed, offset, inject, handled, injDone, pushed, history, restarts>>

---------------------------------------------------------------------------
(* Injected texts, and the dispatcher.                                     *)

\* POST /inject, or the continuation after an upgrade.
Push ==
    /\ pushed < MaxInjected
    /\ pushed' = pushed + 1
    /\ inject' = IF Len(inject) < InjectCap THEN Append(inject, pushed') ELSE inject
    /\ UNCHANGED <<sent, confirmed, offset, held, pollCh, handled, injDone, history, restarts>>

\* An update without a message is passed over - a button's has none of its own -
\* and a stranger is told so; a text is acted on.
RunLoopUpdate ==
    /\ pollCh # <<>>
    /\ LET u == Head(pollCh) IN
       /\ pollCh' = Tail(pollCh)
       /\ handled' = IF sent[u] = "text" THEN Append(handled, u) ELSE handled
       /\ done' = IF sent[u] = "text" THEN done \union {u} ELSE done
       /\ ignored' = IF sent[u] = "button" THEN ignored \union {u} ELSE ignored
    /\ UNCHANGED <<sent, confirmed, offset, held, inject, injDone, pushed, skipped, wiped, restarts>>

\* Faulty variant: while there are updates, injected texts have to wait.
RunLoopInjectLast ==
    /\ inject # <<>> /\ pollCh = <<>> /\ held = 0 /\ Confirms = Len(sent)
    /\ injDone' = Append(injDone, Head(inject))
    /\ inject' = Tail(inject)
    /\ UNCHANGED <<sent, confirmed, offset, held, pollCh, handled, pushed, history, restarts>>

\* Injected texts are trusted.
RunLoopInject ==
    /\ inject # <<>>
    /\ injDone' = Append(injDone, Head(inject))
    /\ inject' = Tail(inject)
    /\ UNCHANGED <<sent, confirmed, offset, held, pollCh, handled, pushed, history, restarts>>

\* The process ends - stopped, swapped, crashed, or told to by a text - and a new
\* one comes up.
Restart ==
    /\ restarts < MaxRestarts
    /\ restarts' = restarts + 1
    /\ offset' = 0 /\ held' = 0 /\ pollCh' = <<>> /\ inject' = <<>>
    /\ handled' = <<>> /\ injDone' = <<>>
    /\ wiped' = wiped \union {u \in InFlight : u <= confirmed}
    /\ UNCHANGED <<sent, confirmed, pushed, done, skipped, ignored>>

Poller == LongPoll \/ LongPollFails \/ PassOn

Next ==
    \/ \E kind \in Kinds : Arrive(kind)
    \/ Poller
    \/ Push \/ RunLoopUpdate \/ RunLoopInject
    \/ Restart

Spec == Init /\ [][Next]_vars

\* The two goroutines go on, and select is fair to both channels.  That a request
\* to Telegram succeeds is owed by nobody.
FairSpec == Spec /\ WF_vars(PassOn) /\ WF_vars(RunLoopUpdate) /\ WF_vars(RunLoopInject)

---------------------------------------------------------------------------
(* Properties.                                                             *)

\* Shapes; the offset is never beyond the update after the last one.
TypeOK ==
    /\ sent \in Seq(Kinds) /\ Len(sent) <= MaxUpdates
    /\ confirmed \in 0..Len(sent) /\ offset \in 0..Len(sent) + 1
    /\ held \in Updates \union {0}
    /\ pollCh \in Seq(Updates) /\ Len(pollCh) <= PollCap
    /\ inject \in Seq(1..MaxInjected) /\ Len(inject) <= InjectCap
    /\ pushed \in 0..MaxInjected /\ restarts \in 0..MaxRestarts
    /\ handled \in Seq(Updates) /\ injDone \in Seq(1..MaxInjected)
    /\ \A us \in {done, skipped, wiped, ignored} : us \subseteq Updates

Increasing(s) == \A i, j \in DOMAIN s : i < j => s[i] < s[j]

\* One process acts on updates in the order they were sent and on none twice,
\* through failed requests and a full channel; and so for injected texts.
InOrder == Increasing(handled \o pollCh) /\ Increasing(injDone \o inject)

\* A trusted user's text that Telegram has forgotten has been acted on or is on
\* its way - unless it came in one batch behind another update, or the process
\* ended while it was on its way.
Accounted ==
    \A u \in 1..confirmed :
        sent[u] = "text" => u \in done \union InFlight \union skipped \union wiped

\* What the poller holds and what is in a channel gets to the dispatcher.
ReachesLoop ==
    /\ \A u \in 1..MaxUpdates : (u \in InFlight) ~> (u \notin InFlight)
    /\ \A n \in 1..MaxInjected : (n \in ToSet(inject)) ~> (n \notin ToSet(inject))

\* "/models: pick a model (inline buttons)" (README.md): a button does something.
ButtonsWork == ignored = {}

=============================================================================
