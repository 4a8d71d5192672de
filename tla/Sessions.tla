------------------------------- MODULE Sessions -------------------------------
(***************************************************************************)
(* The sessions of one chat: the tables of src/session.go, the session     *)
(* commands of the dispatcher in src/agent.go, and the Handle goroutines,  *)
(* each with its own copy of a session and a pointer to the pruning state  *)
(* of the chat.  Every SQL statement whose place among the others matters  *)
(* is a step; a crash may come between any two steps.                      *)
(*                                                                         *)
(* The transcript of a session is the set of user texts in it.  The pruning*)
(* state is the set of its marks: a mark <<s, n>> stands for whatever      *)
(* refers to messages of session s by index (compressed ranges, tool calls *)
(* seen, failed calls) and was made after n resets.  Steps, retries and the*)
(* pending queue of a run are in AgentRuns.                                *)
(***************************************************************************)
EXTENDS Naturals, FiniteSets

CONSTANTS
    Tasks,       \* user texts that reach Handle, each sent at most once
    Names,       \* names of sessions
    Default,     \* the name "default"
    MaxId,       \* bound on the rows ever inserted: the ids are never reused
    MaxResets,   \* bound on the number of /dcp reset
    MaxMarks     \* bound on the different marks there are at a time

ASSUME NamesAssumption == Default \in Names
ASSUME BoundsAssumption == MaxId \in Nat \ {0} /\ MaxResets \in Nat /\ MaxMarks \in Nat
ASSUME TasksAssumption == IsFiniteSet(Tasks) /\ 0 \notin Tasks

Ids == 1..MaxId
Marks == Ids \X (0..MaxResets)

VARIABLES
    rows,      \* table sessions, by id; Absent when there is no such row
    nextId,    \* AUTOINCREMENT
    active,    \* table session_active: an id, or 0
    saved,     \* table dcp_state: the marks
    mem,       \* a.dcpStates[chatID]: a pointer into heap, or 0
    heap,      \* the DCPState objects of the process: their marks
    cmd,       \* the session command the dispatcher is executing
    run,       \* runs[chatID]
    pc,        \* pc[t]: where the Handle goroutine of text t stands
    ptr,       \* ptr[t]: the id GetActiveSessionID has returned
    copy,      \* copy[t]: the Session object: its id and its texts
    dcp,       \* dcp[t]: the goroutine's DCPState pointer, or 0
    resets,    \* number of /dcp reset so far
    meant,     \* history: meant[t], the session active when t was dispatched, until
               \* it is appended
    home,      \* history: home[t], the session t was appended to, or 0
    crossed,   \* history: a command began while a Handle was in progress
    late,      \* history: ... and had looked the default session up to point to it; until
               \* a command sets the pointer without one
    doubled,   \* history: a text was dispatched while a Handle was in progress
    overlapped,\* history: the last saving of the pruning state began during another, or
               \* while somebody had read what was saved and not yet taken it over
    torn       \* history: a crash left a command or a first insert half done

tables == <<rows, nextId, active, saved>>
states == <<mem, heap>>
handles == <<run, pc, ptr, copy, dcp>>
history == <<resets, meant, home, crossed, late, doubled, overlapped, torn>>
vars == <<tables, states, cmd, handles, history>>

Absent == [name |-> Default, texts |-> {}, here |-> FALSE]
Row(n, ts) == [name |-> n, texts |-> ts, here |-> TRUE]
Refs == 1..(Cardinality(Tasks) + 1)

Ended == {"none", "done"}
Loading == {"new", "pointed", "default", "create", "point", "upsert"}
Loaded == {"loaded", "saved", "fetched", "pruned", "running", "storing"}

\* What a command does next, and what for: a change of session, a /rename, a command
\* that only looks for the active session, a /dcp reset.
NoCmd == [op |-> "none", goal |-> "session", name |-> Default, id |-> 0, ref |-> 0]
Ops == {"none", "upsert", "delete", "rename", "reset", "keep", "store"}
Goals == {"session", "rename", "look", "dcp"}

TypeOK ==
    /\ rows \in [Ids -> [name : Names, texts : SUBSET Tasks, here : BOOLEAN]]
    /\ nextId \in 1..(MaxId + 1)
    /\ active \in Ids \union {0}
    /\ saved \subseteq Marks
    /\ mem \in Refs \union {0}
    /\ heap \in [Refs -> SUBSET Marks]
    /\ cmd \in [op : Ops, goal : Goals, name : Names, id : Ids \union {0},
                ref : Refs \union {0}]
    /\ run \in Tasks \union {0}
    /\ pc \in [Tasks -> Ended \union Loading \union Loaded]
    /\ ptr \in [Tasks -> Ids \union {0}]
    /\ copy \in [Tasks -> [id : Ids \union {0}, texts : SUBSET Tasks]]
    /\ dcp \in [Tasks -> Refs \union {0}]
    /\ resets \in 0..MaxResets
    /\ meant \in [Tasks -> Ids \union {0}]
    /\ home \in [Tasks -> Ids \union {0}]
    /\ {crossed, late, doubled, overlapped, torn} \subseteq BOOLEAN

NoCopy == [id |-> 0, texts |-> {}]

Init ==
    /\ rows = [i \in Ids |-> Absent] /\ nextId = 1 /\ active = 0 /\ saved = {}
    /\ mem = 0 /\ heap = [r \in Refs |-> {}]
    /\ cmd = NoCmd /\ run = 0
    /\ pc = [t \in Tasks |-> "none"]
    /\ ptr = [t \in Tasks |-> 0]
    /\ copy = [t \in Tasks |-> NoCopy]
    /\ dcp = [t \in Tasks |-> 0]
    /\ resets = 0 /\ meant = [t \in Tasks |-> 0] /\ home = [t \in Tasks |-> 0]
    /\ crossed = FALSE /\ late = FALSE /\ doubled = FALSE /\ overlapped = FALSE /\ torn = FALSE

---------------------------------------------------------------------------
(* The store.                                                              *)

Present == {i \in Ids : rows[i].here}
Called(n) == {i \in Present : rows[i].name = n}

\* INSERT INTO sessions; UNIQUE(chat_id, name) refuses a name in use.
Insert(n) ==
    /\ Called(n) = {} /\ nextId \in Ids
    /\ rows' = [rows EXCEPT ![nextId] = Row(n, {})]
    /\ nextId' = nextId + 1

\* Session.save updates the row with the copy's id.  An id without a row updates
\* nothing and is no error.
Written(c) == IF rows[c.id].here THEN [rows EXCEPT ![c.id].texts = c.texts] ELSE rows

---------------------------------------------------------------------------
(* The pruning state of the chat.                                          *)

Held == {dcp[t] : t \in Tasks}
Fresh == CHOOSE r \in Refs : r \notin Held

\* An object nobody points to is garbage.
Collected(h, held) == [r \in Refs |-> IF r \in held THEN h[r] ELSE {}]

\* LoadDCPState: what is saved, in a new object.
LoadDCPState(r) == heap' = [heap EXCEPT ![r] = saved]

\* SaveDCPState: the row of the chat is replaced.
SaveDCPState(marks) == saved' = marks

\* Faulty variant: the old object stays.
KeepsOld == mem # 0 /\ UNCHANGED states

\* a.dcpStates[chatID] = NewDCPState().
NewState ==
    /\ mem' = Fresh
    /\ heap' = Collected(heap, Held)

InProgress(t) == pc[t] \notin Ended
Quiet == \A t \in Tasks : ~InProgress(t)

\* The pruning state is being saved: in memory it is set already.  Or it has been
\* read, and is not set yet.
Storing(t) == pc[t] = "storing"
Fetching(t) == pc[t] = "fetched"
Resetting == cmd.op \in {"keep", "store"}

---------------------------------------------------------------------------
(* The dispatcher.  It executes one command at a time, and a session       *)
(* command only while no run of the chat is registered: otherwise the text *)
(* is queued (AgentRuns).  A command's n is what is left of its text when  *)
(* the prefixes are trimmed.  A refused command changes nothing.           *)

Idle == cmd = NoCmd
Free == Idle /\ run = 0

\* A command that arrives while a Handle is in progress crosses it.
Begins ==
    /\ crossed' = (crossed \/ ~Quiet)
    /\ late' = (late \/ \E t \in Tasks : pc[t] = "upsert")
    /\ UNCHANGED <<resets, meant, home, doubled, overlapped, torn>>

\* /new n; without a name the first free new-<k> is taken.  A session of that name is
\* taken as it is.  The pointer is set by a statement of its own (setActiveBySessionName;
\* for a new session twice, to the same id), after a second look at the id, which finds
\* the same row: only the dispatcher renames and deletes.
handleNewSession(n) ==
    /\ Free
    /\ \/ /\ \E i \in Called(n) : cmd' = [NoCmd EXCEPT !.op = "upsert", !.id = i]
          /\ UNCHANGED <<rows, nextId>>
       \/ Insert(n) /\ cmd' = [NoCmd EXCEPT !.op = "upsert", !.id = nextId]
    /\ Begins
    /\ UNCHANGED <<active, saved, states, handles>>

\* /switch n, /sw n: refused when there is no session of that name.  (The GetActive
\* it ends with only reads, as long as the pointer names a row.)
handleSwitchSession(n) ==
    /\ Free
    /\ \E i \in Called(n) : cmd' = [NoCmd EXCEPT !.op = "upsert", !.id = i]
    /\ Begins
    /\ UNCHANGED <<tables, states, handles>>

\* The pointer is set to the id that was looked up.
CmdUpsert ==
    /\ cmd.op = "upsert"
    /\ active' = cmd.id
    /\ cmd' = CASE cmd.goal = "session" -> [NoCmd EXCEPT !.op = "reset"]
                 [] cmd.goal = "rename"  -> [cmd EXCEPT !.op = "rename"]
                 [] OTHER                -> NoCmd
    /\ late' = (late /\ \E t \in Tasks : pc[t] = "upsert")
    /\ UNCHANGED <<rows, nextId, saved, states, handles, resets, meant, home, crossed, doubled,
                   overlapped, torn>>

\* The session GetActive finds: the active one, else the one called default.
Found == IF active # 0 /\ rows[active].here THEN {active} ELSE Called(Default)

\* When it finds none, GetActive inserts a default session and points to it.
GetActiveCreates(goal, n) ==
    /\ Found = {} /\ Insert(Default)
    /\ cmd' = [NoCmd EXCEPT !.op = "upsert", !.goal = goal, !.name = n, !.id = nextId]

\* /rename n: the session GetActive finds is renamed, to a name that is free.  (Without
\* a name the LLM is asked for one.)
handleRenameSession(n) ==
    /\ Free
    /\ n # Default \/ Found # {}
    /\ \/ /\ Called(n) = {}
          /\ \E i \in Found : cmd' = [NoCmd EXCEPT !.op = "rename", !.goal = "rename",
                                                    !.name = n, !.id = i]
          /\ UNCHANGED <<rows, nextId>>
       \/ GetActiveCreates("rename", n)
    /\ Begins
    /\ UNCHANGED <<active, saved, states, handles>>

\* RenameSession: a name that somebody was faster to take is refused.
CmdRename ==
    /\ cmd.op = "rename"
    /\ rows' = IF Called(cmd.name) = {} THEN [rows EXCEPT ![cmd.id].name = cmd.name] ELSE rows
    /\ cmd' = NoCmd
    /\ UNCHANGED <<nextId, active, saved, states, handles, history>>

\* Faulty variant: the row is deleted before the pointer is moved.
DeleteFirst(n) ==
    /\ Free
    /\ n # Default /\ Cardinality(Present) > 1
    /\ \E i \in Called(n) :
          /\ cmd' = [NoCmd EXCEPT !.op = "delete", !.id = i]
          /\ rows' = [rows EXCEPT ![i] = Absent]
    /\ Begins
    /\ UNCHANGED <<nextId, active, saved, states, handles>>

\* /delete n, /del n; without a name, that of the session GetActive finds.  Refused
\* for the default session, the only one, and one that is not there.  When the
\* session is the active one, the pointer first moves to another (the last updated;
\* the times are in seconds and may be equal: any).
DeleteSession(n) ==
    /\ Free
    /\ n # Default /\ Cardinality(Present) > 1
    /\ \E i \in Called(n) :
          /\ cmd' = [NoCmd EXCEPT !.op = "delete", !.id = i]
          /\ IF active = i THEN active' \in Present \ {i} ELSE UNCHANGED active
    /\ Begins
    /\ UNCHANGED <<rows, nextId, saved, states, handles>>

\* /delete without a name and without a session: the default one is created, and
\* that is not deleted.
handleDeleteSession ==
    /\ Free /\ GetActiveCreates("look", Default)
    /\ Begins
    /\ UNCHANGED <<active, saved, states, handles>>

\* DELETE FROM sessions.
CmdDelete ==
    /\ cmd.op = "delete"
    /\ rows' = [rows EXCEPT ![cmd.id] = Absent]
    /\ cmd' = [NoCmd EXCEPT !.op = "reset"]
    /\ UNCHANGED <<nextId, active, saved, states, handles, history>>

\* Faulty variant: the pruning state survives the change of session.
CmdResetForgotten ==
    /\ cmd.op = "reset"
    /\ cmd' = NoCmd
    /\ UNCHANGED <<tables, states, handles, history>>

\* /new, a switch and a delete end with a new pruning state: in memory first, ...
CmdReset ==
    /\ cmd.op = "reset"
    /\ NewState
    /\ cmd' = [NoCmd EXCEPT !.op = "keep"]
    /\ overlapped' = \E t \in Tasks : Storing(t) \/ Fetching(t)
    /\ UNCHANGED <<tables, handles, resets, meant, home, crossed, late, doubled, torn>>

\* ... which is read again, and set again to what was read, ...
CmdKeep ==
    /\ cmd.op = "keep"
    /\ cmd' = [cmd EXCEPT !.op = "store", !.ref = mem]
    /\ UNCHANGED <<tables, states, handles, history>>

\* Faulty variant: the new state is not saved.
CmdStoreNothing ==
    /\ cmd.op = "store"
    /\ heap' = Collected(heap, Held \union {mem})
    /\ cmd' = NoCmd
    /\ resets' = IF cmd.goal = "dcp" THEN resets + 1 ELSE resets
    /\ UNCHANGED <<tables, mem, handles, meant, home, crossed, late, doubled, overlapped, torn>>

\* ... and then saved.
CmdStore ==
    /\ cmd.op = "store"
    /\ SaveDCPState(heap[cmd.ref])
    /\ heap' = Collected(heap, Held \union {mem})
    /\ cmd' = NoCmd
    /\ resets' = IF cmd.goal = "dcp" THEN resets + 1 ELSE resets
    /\ UNCHANGED <<rows, nextId, active, mem, handles, meant, home, crossed, late, doubled,
                   overlapped, torn>>

\* /dcp reset, which is whitelisted: it is executed during a run too.
DcpReset ==
    /\ Idle /\ resets < MaxResets
    /\ NewState
    /\ cmd' = [NoCmd EXCEPT !.op = "keep", !.goal = "dcp"]
    /\ crossed' = (crossed \/ ~Quiet)
    /\ overlapped' = \E t \in Tasks : Storing(t) \/ Fetching(t)
    /\ UNCHANGED <<tables, handles, resets, meant, home, late, doubled, torn>>

\* A text for Handle.  While a run is registered it is queued instead.
Dispatch(t) ==
    /\ Free /\ pc[t] = "none"
    /\ pc' = [pc EXCEPT ![t] = "new"]
    /\ meant' = [meant EXCEPT ![t] = active]
    /\ doubled' = (doubled \/ ~Quiet)
    /\ UNCHANGED <<tables, states, cmd, run, ptr, copy, dcp, resets, home, crossed, late, overlapped, torn>>

---------------------------------------------------------------------------
(* The Handle goroutine of text t.                                         *)

Goes(t, place) == pc' = [pc EXCEPT ![t] = place]

\* Faulty variant: always the session called default.
ReadPointerNever(t) ==
    /\ pc[t] = "new"
    /\ Goes(t, "default")
    /\ UNCHANGED <<tables, states, cmd, run, ptr, copy, dcp, history>>

\* GetActiveSessionID.
ReadPointer(t) ==
    /\ pc[t] = "new"
    /\ ptr' = [ptr EXCEPT ![t] = active]
    /\ Goes(t, IF active = 0 THEN "default" ELSE "pointed")
    /\ UNCHANGED <<tables, states, cmd, run, copy, dcp, history>>

\* Faulty variant: the messages are not read.
TakesEmpty(t, i) ==
    /\ copy' = [copy EXCEPT ![t] = [id |-> i, texts |-> {}]]
    /\ ptr' = [ptr EXCEPT ![t] = 0]
    /\ Goes(t, "loaded")
    /\ UNCHANGED <<tables, states, cmd, run, dcp, history>>

Takes(t, i) ==
    /\ copy' = [copy EXCEPT ![t] = [id |-> i, texts |-> rows[i].texts]]
    /\ ptr' = [ptr EXCEPT ![t] = 0]
    /\ Goes(t, "loaded")
    /\ UNCHANGED <<tables, states, cmd, run, dcp, history>>

\* The row of the pointer; without one, the session called default.
ReadRow(t) ==
    /\ pc[t] = "pointed"
    /\ \/ rows[ptr[t]].here /\ Takes(t, ptr[t])
       \/ /\ ~rows[ptr[t]].here
          /\ Goes(t, "default")
          /\ ptr' = [ptr EXCEPT ![t] = 0]
          /\ UNCHANGED <<tables, states, cmd, run, copy, dcp, history>>

\* LoadOrCreate("default").
LoadDefault(t) ==
    /\ pc[t] = "default"
    /\ \/ \E i \in Called(Default) : Takes(t, i)
       \/ /\ Called(Default) = {}
          /\ Goes(t, "create")
          /\ UNCHANGED <<tables, states, cmd, run, ptr, copy, dcp, history>>

\* The insert fails when another goroutine was faster, and Handle with it.
CreateDefault(t) ==
    /\ pc[t] = "create"
    /\ \/ Insert(Default) /\ Goes(t, "point")
       \/ Called(Default) # {} /\ Goes(t, "done") /\ UNCHANGED <<rows, nextId>>
    /\ UNCHANGED <<active, saved, states, cmd, run, ptr, copy, dcp, history>>

\* setActiveBySessionName: a default renamed in between is not found, and the error
\* dropped.  Otherwise its id is ...
PointDefault(t) ==
    /\ pc[t] = "point"
    /\ \/ \E i \in Called(Default) : ptr' = [ptr EXCEPT ![t] = i] /\ Goes(t, "upsert")
       \/ Called(Default) = {} /\ Goes(t, "default") /\ UNCHANGED ptr
    /\ UNCHANGED <<tables, states, cmd, run, copy, dcp, history>>

\* ... made the pointer, whatever has become of that session.
UpsertDefault(t) ==
    /\ pc[t] = "upsert"
    /\ active' = ptr[t]
    /\ ptr' = [ptr EXCEPT ![t] = 0]
    /\ Goes(t, "default")
    /\ UNCHANGED <<rows, nextId, saved, states, cmd, run, copy, dcp, history>>

\* The user's text is appended and the whole transcript written.
AppendText(t) ==
    /\ pc[t] = "loaded"
    /\ LET c == [copy[t] EXCEPT !.texts = @ \union {t}]
       IN  copy' = [copy EXCEPT ![t] = c] /\ rows' = Written(c)
    /\ home' = [home EXCEPT ![t] = copy[t].id] /\ meant' = [meant EXCEPT ![t] = 0]
    /\ Goes(t, "saved")
    /\ UNCHANGED <<nextId, active, saved, states, cmd, run, ptr, dcp, resets, crossed, late,
                   doubled, overlapped, torn>>

\* getDCPState: the object in memory, or a new one with what is saved, ...
GetState(t) ==
    /\ pc[t] = "saved"
    /\ \/ /\ mem # 0
          /\ dcp' = [dcp EXCEPT ![t] = mem]
          /\ Goes(t, "pruned") /\ UNCHANGED heap
       \/ /\ mem = 0
          /\ dcp' = [dcp EXCEPT ![t] = Fresh] /\ LoadDCPState(Fresh)
          /\ Goes(t, "fetched")
    /\ UNCHANGED <<tables, mem, cmd, run, ptr, copy, history>>

\* ... which becomes the state of the chat, whatever that is by now.
SetState(t) ==
    /\ Fetching(t)
    /\ mem' = dcp[t]
    /\ heap' = Collected(heap, Held \union {cmd.ref})
    /\ Goes(t, "pruned")
    /\ UNCHANGED <<tables, cmd, run, ptr, copy, dcp, history>>

\* The first request is assembled, and the run is registered.
Register(t) ==
    /\ pc[t] = "pruned"
    /\ run' = t
    /\ Goes(t, "running")
    /\ UNCHANGED <<tables, states, cmd, ptr, copy, dcp, history>>

\* Messages are appended, so the row is written; with a tool call the state records
\* it, or compresses a range.
Append(t) ==
    /\ pc[t] = "running"
    /\ \/ LET mark == <<copy[t].id, resets>> IN
          /\ Cardinality(saved \union UNION {heap[r] : r \in Refs} \union {mark}) <= MaxMarks
          /\ heap' = [heap EXCEPT ![dcp[t]] = @ \union {mark}]
       \/ UNCHANGED heap
    /\ rows' = Written(copy[t])
    /\ UNCHANGED <<nextId, active, saved, mem, cmd, handles, history>>

\* saveDCPState, after a reply or when a tool was cancelled: this goroutine's state
\* becomes the state of the chat ...
Keep(t) ==
    /\ pc[t] = "running"
    /\ mem' = dcp[t]
    /\ heap' = Collected(heap, Held \union {cmd.ref})
    /\ Goes(t, "storing")
    /\ overlapped' = (Resetting \/ \E u \in Tasks : Storing(u) \/ Fetching(u))
    /\ UNCHANGED <<tables, cmd, run, ptr, copy, dcp, resets, meant, home, crossed, late, doubled,
                   torn>>

Return(t) ==
    /\ Goes(t, "done")
    /\ run' = IF run = t THEN 0 ELSE run
    /\ copy' = [copy EXCEPT ![t] = NoCopy]
    /\ dcp' = [dcp EXCEPT ![t] = 0]
    /\ heap' = Collected(heap, {mem, cmd.ref} \union {dcp[u] : u \in Tasks \ {t}})
    /\ UNCHANGED <<rows, nextId, active, mem, cmd, ptr, resets, meant, home, crossed, late,
                   doubled, overlapped, torn>>

\* ... and is saved; the Handle is over.
Reply(t) ==
    /\ Storing(t)
    /\ SaveDCPState(heap[dcp[t]])
    /\ Return(t)

\* An error of the LLM, or a stop or an abort seen at the top of the loop: the
\* state is not saved.
EndUnsaved(t) == pc[t] = "running" /\ Return(t) /\ UNCHANGED saved

Handle(t) ==
    \/ ReadPointer(t) \/ ReadRow(t) \/ LoadDefault(t) \/ CreateDefault(t)
    \/ PointDefault(t) \/ UpsertDefault(t) \/ AppendText(t) \/ GetState(t) \/ SetState(t)
    \/ Register(t) \/ Append(t) \/ Keep(t) \/ Reply(t) \/ EndUnsaved(t)

\* The process ends and is started again: only the tables survive.
Crash ==
    /\ torn' = (torn \/ ~Idle \/ \E t \in Tasks : pc[t] \in {"point", "upsert"})
    /\ mem' = 0 /\ heap' = [r \in Refs |-> {}] /\ cmd' = NoCmd /\ run' = 0
    /\ pc' = [t \in Tasks |-> IF pc[t] = "none" THEN "none" ELSE "done"]
    /\ ptr' = [t \in Tasks |-> 0]
    /\ copy' = [t \in Tasks |-> NoCopy]
    /\ dcp' = [t \in Tasks |-> 0]
    /\ meant' = [t \in Tasks |-> 0]
    /\ overlapped' = FALSE
    /\ UNCHANGED <<tables, resets, home, crossed, late, doubled>>

Command ==
    \/ \E n \in Names : \/ handleNewSession(n) \/ handleSwitchSession(n)
                       \/ handleRenameSession(n) \/ DeleteSession(n)
    \/ handleDeleteSession
    \/ CmdUpsert \/ CmdRename \/ CmdDelete
    \/ DcpReset \/ CmdReset \/ CmdKeep \/ CmdStore

Next == Command \/ Crash \/ \E t \in Tasks : Dispatch(t) \/ Handle(t)

Spec == Init /\ [][Next]_vars

---------------------------------------------------------------------------
(* Properties.                                                             *)

\* The pointer of the chat never names a session that is not there, although a
\* delete moves the pointer and removes the row in two statements, with crashes
\* and inserts of a default session in between.  It takes a session command that
\* begins after a Handle has looked up the default session it created, and before it
\* points to it; and the next command that sets the pointer makes it good.
ActiveExists == late \/ active = 0 \/ rows[active].here

\* The pruning state is per chat, the indices in it per session: a Handle prunes
\* only with marks made in its own session.  It takes a command or a second text
\* during a Handle, or a crash between the statements of a command, to break it.
OwnMarks ==
    \/ crossed \/ doubled \/ torn
    \/ \A t \in Tasks : pc[t] \in {"pruned", "running"} =>
          \A m \in heap[dcp[t]] : m[1] = copy[t].id

\* What a restart finds is part of what the process had in memory - a crash may
\* forget marks, and brings none back that a switch, a delete or a reset has dropped
\* - but for a crash between the statements of a saving, and from the moment a saving
\* overlaps another one (a /dcp reset and the last save of a Handle, or those of two
\* Handles), or a first load of what is saved, to the next saving that does not.
RestartOnlyForgets ==
    \/ overlapped \/ Resetting \/ mem = 0
    \/ \E t \in Tasks : Storing(t)
    \/ saved \subseteq heap[mem]

\* "DCP state reset - compressed ranges cleared": unless a Handle was in progress
\* when a command began, nothing from before the reset comes back once it is saved.
ResetSticksWhenQuiet ==
    crossed \/ \A m \in saved \union (IF mem = 0 THEN {} ELSE heap[mem]) : m[2] = resets

\* A text that was appended stays in its session for as long as that session is
\* there - through switches, renames, deletes of others, and crashes - unless a
\* second text was dispatched meanwhile.
TextsKept ==
    doubled \/ \A t \in Tasks :
        home[t] # 0 => LET r == rows[home[t]] IN r.here => t \in r.texts

\* A text goes to the session that was active when it was dispatched, unless
\* there was none, or a command crossed it.
InItsSession ==
    crossed \/ doubled \/ \A t \in Tasks :
        pc[t] = "loaded" /\ meant[t] # 0 => copy[t].id = meant[t]

==============================================================================
