------------------------------- MODULE Mirror -------------------------------
(***************************************************************************)
(* The mirror of outgoing messages in src/inject.go: Record appends a      *)
(* message and wakes whoever waits; GET /mirror drains the buffer, and with*)
(* wait=1 registers a channel and drains after it was closed, or answers   *)
(* with nothing after thirty seconds.  Every section under the mutex is    *)
(* one step; what happens between two of them is up to the others.         *)
(***************************************************************************)
EXTENDS Naturals, Sequences, FiniteSets, SequencesExt

CONSTANTS
    Clients,      \* requests of debug clients
    Cap,          \* messages kept (200)
    MaxMessages   \* bound on the messages recorded

ASSUME CapAssumption == Cap \in Nat \ {0} /\ MaxMessages \in Nat

VARIABLES
    recorded,   \* number of messages recorded so far; messages are numbered
    outbound,   \* the buffer
    waiters,    \* the clients whose channel is registered
    waking,     \* the channels a Record has taken out and has not closed yet
    client,     \* client[c]: where the request of c stands
    seen,       \* history: seen[c]: number of messages when c registered
    got,        \* history: the messages handed out, in the order of the drains
    dropped     \* history: messages that fell out of the buffer

vars == <<recorded, outbound, waiters, waking, client, seen, got, dropped>>

\* Shapes; the buffer keeps its cap.
TypeOK ==
    /\ recorded \in 0..MaxMessages
    /\ outbound \in Seq(1..MaxMessages) /\ Len(outbound) <= Cap
    /\ waiters \subseteq Clients /\ waking \subseteq Clients
    /\ client \in [Clients -> {"out", "waits", "woken"}]
    /\ seen \in [Clients -> 0..MaxMessages]
    /\ got \in Seq(1..MaxMessages)
    /\ dropped \subseteq 1..MaxMessages

Init ==
    /\ recorded = 0 /\ outbound = <<>>
    /\ waiters = {} /\ waking = {}
    /\ client = [c \in Clients |-> "out"]
    /\ seen = [c \in Clients |-> 0]
    /\ got = <<>> /\ dropped = {}

---------------------------------------------------------------------------
(* Record.                                                                 *)

\* The last cap messages.
Kept(s) == IF Len(s) > Cap THEN SubSeq(s, Len(s) - Cap + 1, Len(s)) ELSE s

\* Faulty variant: one waiter is woken for each message.
RecordWakesOne ==
    /\ recorded < MaxMessages
    /\ recorded' = recorded + 1
    /\ outbound' = Kept(Append(outbound, recorded'))
    /\ dropped' = dropped \union (ToSet(outbound) \ ToSet(outbound'))
    /\ \/ waiters = {} /\ UNCHANGED <<waking, waiters>>
       \/ \E c \in waiters : waking' = waking \union {c} /\ waiters' = waiters \ {c}
    /\ UNCHANGED <<client, seen, got>>

\* Under the mutex: append, trim, and take out the waiters.
Record ==
    /\ recorded < MaxMessages
    /\ recorded' = recorded + 1
    /\ outbound' = Kept(Append(outbound, recorded'))
    /\ dropped' = dropped \union (ToSet(outbound) \ ToSet(outbound'))
    /\ waking' = waking \union waiters
    /\ waiters' = {}
    /\ UNCHANGED <<client, seen, got>>

\* After it, close their channels one by one.
Close(c) ==
    /\ c \in waking
    /\ waking' = waking \ {c}
    /\ client' = [client EXCEPT ![c] = IF @ = "waits" THEN "woken" ELSE @]
    /\ UNCHANGED <<recorded, outbound, waiters, seen, got, dropped>>

---------------------------------------------------------------------------
(* GET /mirror.                                                            *)

\* Faulty variant: the buffer is copied and not emptied.
DrainNot == got' = got \o outbound /\ UNCHANGED outbound

Drain == got' = got \o outbound /\ outbound' = <<>>

\* Without wait.
Get(c) ==
    /\ client[c] = "out"
    /\ Drain
    /\ UNCHANGED <<recorded, waiters, waking, client, seen, dropped>>

\* With wait=1: the buffer is not looked at.
Wait(c) ==
    /\ client[c] = "out" /\ c \notin waking
    /\ client' = [client EXCEPT ![c] = "waits"]
    /\ waiters' = waiters \union {c}
    /\ seen' = [seen EXCEPT ![c] = recorded]
    /\ UNCHANGED <<recorded, outbound, waking, got, dropped>>

\* The first one gets everything, those woken with it nothing.
Woken(c) ==
    /\ client[c] = "woken"
    /\ Drain
    /\ client' = [client EXCEPT ![c] = "out"]
    /\ UNCHANGED <<recorded, waiters, waking, seen, dropped>>

\* Thirty seconds are over, or the client has gone; the channel stays registered
\* and is closed for nobody by the next Record.
GivesUp(c) ==
    /\ client[c] \in {"waits", "woken"}
    /\ client' = [client EXCEPT ![c] = "out"]
    /\ UNCHANGED <<recorded, outbound, waiters, waking, seen, got, dropped>>

Next ==
    \/ Record
    \/ \E c \in Clients : Close(c) \/ Get(c) \/ Wait(c) \/ Woken(c) \/ GivesUp(c)

Spec == Init /\ [][Next]_vars

---------------------------------------------------------------------------
(* Properties.                                                             *)

\* Every message is handed out once and in order, however the requests interleave
\* with Record and with each other; only the oldest ones are lost, when the buffer
\* is full.
MirrorExact ==
    LET all == got \o outbound IN
    /\ \A i, j \in DOMAIN all : i < j => all[i] < all[j]
    /\ ToSet(all) \union dropped = 1..recorded /\ ToSet(all) \intersect dropped = {}
    /\ \A d \in dropped, m \in ToSet(outbound) : d < m

\* Nobody sleeps through a message: a request that waits has been overtaken by a
\* message only if its channel is about to be closed.
NoSleeper ==
    \A c \in Clients : client[c] = "waits" =>
        \/ c \in waking
        \/ c \in waiters /\ recorded = seen[c]

=============================================================================
