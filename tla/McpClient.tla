----------------------------- MODULE McpClient -----------------------------
(***************************************************************************)
(* The MCP client of src/mcp.go: JSON-RPC over the stdin and stdout pipes  *)
(* of a server process.  Tool calls of several Handle goroutines run       *)
(* concurrently; the readLoop goroutine hands each response to the call    *)
(* that waits for its id; c.mu protects nextID, pending and the writes.    *)
(*                                                                         *)
(* The server is a program of somebody else.  It may be slow, answer in    *)
(* any order, not answer, send notifications, stop reading, or exit; it    *)
(* answers a request at most once and sends no requests of its own.        *)
(***************************************************************************)
EXTENDS Naturals, SequencesExt

CONSTANTS
    Calls,        \* the calls of send; each runs once
    None, Failed,
    StdinCap,     \* requests the stdin pipe holds before Write blocks
    StdoutCap,    \* lines the stdout pipe holds before the server blocks
    MaxNotes      \* bound on the notifications of a behaviour

ASSUME NamesAssumption == {None, Failed} \intersect Calls = {} /\ None # Failed
ASSUME CapsAssumption == StdinCap \in Nat \ {0} /\ StdoutCap \in Nat \ {0} /\ MaxNotes \in Nat

VARIABLES
    nextID,     \* c.nextID
    pending,    \* c.pending: pairs of an id and the call whose channel it leads to
    mu,         \* the call that holds c.mu while it writes; None: c.mu is free
    pc,         \* pc[c]: where send stands
    id,         \* id[c]: the id of the call
    chan,       \* chan[c]: the buffered channel of the call, capacity one
    result,     \* result[c]: the call whose answer send returns, or Failed
    rd,         \* where readLoop stands
    line,       \* the line readLoop has read
    target,     \* the call whose channel readLoop has found
    stdin,      \* the pipe to the server
    stdout,     \* the pipe from the server
    owed,       \* requests the server has read and not answered
    alive,      \* the server process has not exited
    notes,      \* number of notifications so far
    answered    \* history: the calls the server has answered

caller == <<nextID, pending, mu, pc, id, chan, result>>
reader == <<rd, line, target>>
server == <<owed, alive, notes, answered>>
vars   == <<caller, reader, stdin, stdout, server>>

\* A request or a response; a notification has no id, which decodes as 0.
Lines == [id : Nat, of : Calls \union {None}]
Note  == [id |-> 0, of |-> None]
Line(c) == [id |-> id[c], of |-> c]

PCs == {"idle", "registered", "writing", "waiting", "leaving", "done"}
Open(c) == pc[c] \in {"registered", "writing", "waiting"}
InPending(c) == Open(c) \/ pc[c] = "leaving"

TypeOK ==
    /\ nextID \in Nat
    /\ pending \subseteq (Nat \ {0}) \X Calls
    /\ mu \in Calls \union {None}
    /\ pc \in [Calls -> PCs]
    /\ id \in [Calls -> Nat]
    /\ chan \in [Calls -> Seq(Lines)]
    /\ \A c \in Calls : Len(chan[c]) <= 1
    /\ result \in [Calls -> Calls \union {None, Failed}]
    /\ rd \in {"reading", "looking", "sending", "gone"}
    /\ line \in Lines
    /\ target \in Calls \union {None}
    /\ stdin \in Seq(Lines)
    /\ stdout \in Seq(Lines)
    /\ owed \subseteq Lines
    /\ alive \in BOOLEAN
    /\ notes \in 0..MaxNotes
    /\ answered \subseteq Calls

\* NewMCPClient: the process is started and readLoop is running.
Init ==
    /\ nextID = 0 /\ pending = {} /\ mu = None
    /\ pc = [c \in Calls |-> "idle"]
    /\ id = [c \in Calls |-> 0]
    /\ chan = [c \in Calls |-> <<>>]
    /\ result = [c \in Calls |-> None]
    /\ rd = "reading" /\ line = Note /\ target = None
    /\ stdin = <<>> /\ stdout = <<>> /\ owed = {}
    /\ alive = TRUE /\ notes = 0 /\ answered = {}

---------------------------------------------------------------------------
(* send.                                                                   *)

\* c.pending[i] = the channel of call c; an entry of the same id is replaced.
Put(i, c) == {p \in pending : p[1] # i} \union {<<i, c>>}

\* Faulty variant: the id is not counted up.
RegisterSameID(c) ==
    /\ pc[c] = "idle" /\ mu = None
    /\ nextID' = 1
    /\ id' = [id EXCEPT ![c] = 1]
    /\ pending' = Put(1, c)
    /\ pc' = [pc EXCEPT ![c] = "registered"]
    /\ UNCHANGED <<mu, chan, result, reader, stdin, stdout, server>>

\* The first critical section: a fresh id and a channel under it.
Register(c) ==
    /\ pc[c] = "idle" /\ mu = None
    /\ nextID' = nextID + 1
    /\ id' = [id EXCEPT ![c] = nextID + 1]
    /\ pending' = Put(nextID + 1, c)
    /\ pc' = [pc EXCEPT ![c] = "registered"]
    /\ UNCHANGED <<mu, chan, result, reader, stdin, stdout, server>>

\* The write is inside a critical section of its own.
BeginWrite(c) ==
    /\ pc[c] = "registered" /\ mu = None
    /\ mu' = c
    /\ pc' = [pc EXCEPT ![c] = "writing"]
    /\ UNCHANGED <<nextID, pending, id, chan, result, reader, stdin, stdout, server>>

\* Faulty variant: c.mu is not unlocked after the write.
EndWriteLocked(c) ==
    /\ pc[c] = "writing"
    /\ \/ /\ alive /\ Len(stdin) < StdinCap
          /\ stdin' = Append(stdin, Line(c))
          /\ pc' = [pc EXCEPT ![c] = "waiting"]
          /\ UNCHANGED result
       \/ /\ ~alive
          /\ pc' = [pc EXCEPT ![c] = "leaving"]
          /\ result' = [result EXCEPT ![c] = Failed]
          /\ UNCHANGED stdin
    /\ UNCHANGED <<nextID, pending, mu, id, chan, reader, stdout, server>>

\* It blocks while the pipe is full, with c.mu held; it fails when the server has gone.
EndWrite(c) ==
    /\ pc[c] = "writing"
    /\ mu' = None
    /\ \/ /\ alive /\ Len(stdin) < StdinCap
          /\ stdin' = Append(stdin, Line(c))
          /\ pc' = [pc EXCEPT ![c] = "waiting"]
          /\ UNCHANGED result
       \/ /\ ~alive
          /\ pc' = [pc EXCEPT ![c] = "leaving"]
          /\ result' = [result EXCEPT ![c] = Failed]
          /\ UNCHANGED stdin
    /\ UNCHANGED <<nextID, pending, id, chan, reader, stdout, server>>

Receive(c) ==
    /\ pc[c] = "waiting" /\ chan[c] # <<>>
    /\ result' = [result EXCEPT ![c] = Head(chan[c]).of]
    /\ chan' = [chan EXCEPT ![c] = Tail(@)]
    /\ pc' = [pc EXCEPT ![c] = "leaving"]
    /\ UNCHANGED <<nextID, pending, mu, id, reader, stdin, stdout, server>>

\* The context is done (/abort, the end of the run) or 120 s have passed, at any
\* moment: also when an answer is on its way or already in the channel.
GiveUp(c) ==
    /\ pc[c] = "waiting"
    /\ result' = [result EXCEPT ![c] = Failed]
    /\ pc' = [pc EXCEPT ![c] = "leaving"]
    /\ UNCHANGED <<nextID, pending, mu, id, chan, reader, stdin, stdout, server>>

\* Faulty variant: the entry is not deleted.
LeaveEntry(c) ==
    /\ pc[c] = "leaving" /\ mu = None
    /\ pc' = [pc EXCEPT ![c] = "done"]
    /\ UNCHANGED <<nextID, pending, mu, id, chan, result, reader, stdin, stdout, server>>

\* The deferred delete.
Leave(c) ==
    /\ pc[c] = "leaving" /\ mu = None
    /\ pending' = {p \in pending : p[1] # id[c]}
    /\ pc' = [pc EXCEPT ![c] = "done"]
    /\ UNCHANGED <<nextID, mu, id, chan, result, reader, stdin, stdout, server>>

---------------------------------------------------------------------------
(* readLoop.                                                               *)

ReadLine ==
    /\ rd = "reading" /\ stdout # <<>>
    /\ line' = Head(stdout)
    /\ stdout' = Tail(stdout)
    /\ rd' = "looking"
    /\ UNCHANGED <<caller, target, stdin, server>>

\* End of file: the loop returns, and nobody tells the calls that wait.
ReadEOF ==
    /\ rd = "reading" /\ stdout = <<>> /\ ~alive
    /\ rd' = "gone"
    /\ UNCHANGED <<caller, line, target, stdin, stdout, server>>

\* The lookup under c.mu; a line whose id nobody waits for is dropped.
Lookup ==
    /\ rd = "looking" /\ mu = None
    /\ \/ \E c \in Calls :
             /\ <<line.id, c>> \in pending
             /\ target' = c
             /\ rd' = "sending"
             /\ UNCHANGED line
       \/ /\ \A c \in Calls : <<line.id, c>> \notin pending
          /\ rd' = "reading"
          /\ line' = Note
          /\ UNCHANGED target
    /\ UNCHANGED <<caller, stdin, stdout, server>>

\* The send into the channel, after c.mu was released: the call may have left.
Deliver ==
    /\ rd = "sending" /\ Len(chan[target]) < 1
    /\ chan' = [chan EXCEPT ![target] = Append(@, line)]
    /\ rd' = "reading" /\ line' = Note /\ target' = None
    /\ UNCHANGED <<nextID, pending, mu, pc, id, result, stdin, stdout, server>>

---------------------------------------------------------------------------
(* The server process.                                                     *)

ServerReads ==
    /\ alive /\ stdin # <<>>
    /\ owed' = owed \union {Head(stdin)}
    /\ stdin' = Tail(stdin)
    /\ UNCHANGED <<caller, reader, stdout, alive, notes, answered>>

ServerAnswers(m) ==
    /\ alive /\ m \in owed /\ Len(stdout) < StdoutCap
    /\ stdout' = Append(stdout, m)
    /\ owed' = owed \ {m}
    /\ answered' = answered \union {m.of}
    /\ UNCHANGED <<caller, reader, stdin, alive, notes>>

ServerNotifies ==
    /\ alive /\ Len(stdout) < StdoutCap /\ notes < MaxNotes
    /\ stdout' = Append(stdout, Note)
    /\ notes' = notes + 1
    /\ UNCHANGED <<caller, reader, stdin, owed, alive, answered>>

ServerExits ==
    /\ alive
    /\ alive' = FALSE
    /\ stdin' = <<>> /\ owed' = {}
    /\ UNCHANGED <<caller, reader, stdout, notes, answered>>

---------------------------------------------------------------------------
send(c) ==
    \/ Register(c) \/ BeginWrite(c) \/ EndWrite(c) \/ Receive(c) \/ GiveUp(c) \/ Leave(c)

readLoop == ReadLine \/ ReadEOF \/ Lookup \/ Deliver

Server ==
    \/ ServerReads \/ ServerNotifies \/ ServerExits
    \/ \E m \in owed : ServerAnswers(m)

Next == readLoop \/ Server \/ \E c \in Calls : send(c)

Spec == Init /\ [][Next]_vars

\* The goroutines are scheduled, and the 120 s timer of a waiting call fires.
\* Nothing is assumed of the server, nor that a call is ever made.
Fairness ==
    /\ WF_vars(readLoop)
    /\ \A c \in Calls : WF_vars(send(c) /\ pc[c] # "idle")

FairSpec == Spec /\ Fairness

---------------------------------------------------------------------------
(* Properties.                                                             *)

\* c.pending holds one entry, under its own id, for each call inside send and for
\* no other: no two calls share an id, and nothing is left behind by a call that
\* timed out or was cancelled.
PendingExact == pending = {<<id[c], c>> : c \in {d \in Calls : InPending(d)}}

\* readLoop never waits for a channel: a response finds it empty, also when the
\* call has timed out meanwhile.  One stuck send would stop every other call.
ReaderNeverBlocks == rd = "sending" => chan[target] = <<>>

\* What callers rely on (RemoteCalls): a late answer, an answer of another call
\* and a notification are never taken for the answer of a call.
CallerSees ==
    [c \in Calls |->
        IF pc[c] = "idle" THEN "idle"
        ELSE IF Open(c) THEN "open"
        ELSE IF result[c] = Failed THEN "failed"
        ELSE IF result[c] = c THEN "ok" ELSE "wrong"]

Rpc == INSTANCE RemoteCalls WITH state <- CallerSees, answered <- answered

AnswersAreOwn == Rpc!Spec

\* With a server that goes on reading its stdin every call ends, whatever else
\* the server does: it may never answer, flood stdout, or exit.
CallsEndIfServerReads ==
    WF_vars(ServerReads) => \A c \in Calls : (pc[c] # "idle") ~> (pc[c] = "done")

===========================================================================
