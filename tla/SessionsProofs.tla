---------------------------- MODULE SessionsProofs ----------------------------
(***************************************************************************)
(* The safety properties of Sessions, for any texts, names and bounds.     *)
(*                                                                         *)
(* The pointer, the texts and the two properties of the pruning state each *)
(* rest on facts of their own: the pointer on what a command and a Handle  *)
(* have looked up (CmdShape, LookedUp), what is saved on who is saving     *)
(* (Savings).  That a Handle stays in its session, and prunes with marks of*)
(* that session only, rests on where it stands on its way to the session   *)
(* (OnItsWay, Settled), as long as it is alone (Alone) and meets no command*)
(* (Uncrossed).                                                            *)
(*                                                                         *)
(* Each action is first restated as what it does, entry by entry (the      *)
(* ...Does predicates, StepDoes); that each fact of the invariant is kept  *)
(* is proved from these.                                                   *)
(***************************************************************************)
EXTENDS Sessions, TLAPS, FiniteSetTheorems

USE NamesAssumption, BoundsAssumption, TasksAssumption

\* What a Handle has in its hands at each place.
Hands ==
    \A t \in Tasks :
        /\ pc[t] \in {"pointed", "upsert"} => ptr[t] # 0
        /\ pc[t] \in Loaded => copy[t].id # 0
        /\ pc[t] \in {"fetched", "pruned", "running", "storing"} <=> dcp[t] # 0

\* Ids are not used again, so what remembers one never meets a new row.
IdsBelow ==
    /\ \A i \in Ids : rows[i].here => i < nextId
    /\ \A t \in Tasks : copy[t].id < nextId /\ home[t] < nextId

NamesUnique == \A i, j \in Present : rows[i].name = rows[j].name => i = j

\* A command has what its next step needs.  A delete has moved the pointer away, and
\* nobody moves it back.
CmdShape ==
    /\ cmd.op = "none" => Idle
    /\ cmd.op \in {"delete", "upsert", "rename"} => cmd.id # 0 /\ rows[cmd.id].here
    /\ cmd.op = "delete" => rows[cmd.id].name # Default /\ (late \/ cmd.id # active)
    /\ cmd.op \in {"delete", "reset"} => cmd.goal = "session"
    /\ cmd.op = "rename" => cmd.goal = "rename"
    /\ Resetting => mem # 0
    /\ cmd.ref # 0 <=> cmd.op = "store"
    /\ cmd.goal = "dcp" => Resetting /\ resets < MaxResets

\* So has a Handle that looked the default session up, unless a command came since.
LookedUp ==
    late \/ \A t \in Tasks : pc[t] = "upsert" =>
        rows[ptr[t]].here /\ (cmd.op = "delete" => ptr[t] # cmd.id)

Alone == doubled \/ \A t, u \in Tasks : InProgress(t) /\ InProgress(u) => t = u
Uncrossed == crossed \/ (~late /\ (Idle \/ Quiet))

\* A Handle that is alone has the row of its session in its hands.
CopyIsRow ==
    doubled \/ \A t \in Tasks : pc[t] \in Loaded /\ rows[copy[t].id].here
                                => copy[t].texts = rows[copy[t].id].texts

\* A text dispatched for a session is on its way to it.
Settled ==
    crossed \/ doubled \/ \A t \in Tasks : InProgress(t) /\ meant[t] # 0 =>
        /\ meant[t] = active
        /\ pc[t] \notin {"default", "create", "point", "upsert"}
        /\ pc[t] = "pointed" => ptr[t] = active
        /\ pc[t] \in Loaded => copy[t].id = active

\* And so is one dispatched when the chat had no session.
OnItsWay ==
    crossed \/ doubled \/ torn \/
        /\ active = 0 => \/ Present = {} \/ cmd.op = "upsert"
                         \/ \E t \in Tasks : pc[t] \in {"point", "upsert"}
        /\ \A t \in Tasks :
              /\ pc[t] = "pointed" => ptr[t] = active
              /\ pc[t] = "default" => active \in Called(Default) \/ (active = 0 /\ Present = {})
              /\ pc[t] = "create" => active = 0 /\ Present = {}
              /\ pc[t] = "point" => active = 0 /\ Called(Default) # {}
              /\ pc[t] = "upsert" => active = 0 /\ ptr[t] \in Called(Default)
              /\ pc[t] \in Loaded => copy[t].id = active

\* Without an overlap, only one has the pruning state in hand while it saves it, and
\* what a Handle has read is what is saved.
Savings ==
    overlapped \/
        /\ \A t \in Tasks : Storing(t) => dcp[t] = mem /\ ~Resetting
        /\ \A t, u \in Tasks : Storing(t) => ~Fetching(u)
        /\ \A t \in Tasks : Fetching(t) => ~Resetting /\ saved \subseteq heap[dcp[t]]
        /\ \A t, u \in Tasks : Storing(t) /\ Storing(u) => t = u
        /\ cmd.op = "store" => cmd.ref = mem

\* All marks there are, in memory and saved.
AllMarks == saved \union UNION {heap[r] : r \in Refs}

QuietHeap == crossed \/ ~Resetting \/ \A r \in Refs : heap[r] = {}
SinceReset == crossed \/ \A m \in AllMarks : m[2] = resets
OfActive ==
    crossed \/ doubled \/ torn \/
        /\ Idle \/ cmd.goal # "session" => \A m \in AllMarks : m[1] = active
        /\ cmd.goal \in {"rename", "look"} /\ cmd.op = "upsert" => active = 0

IInv == /\ TypeOK /\ Hands /\ IdsBelow /\ NamesUnique /\ CmdShape /\ LookedUp /\ Alone
        /\ Uncrossed /\ ActiveExists /\ CopyIsRow /\ TextsKept /\ Settled /\ OnItsWay
        /\ Savings /\ RestartOnlyForgets /\ QuietHeap /\ SinceReset /\ OfActive

---------------------------------------------------------------------------
(* What the actions do.                                                    *)

RowType == [name : Names, texts : SUBSET Tasks, here : BOOLEAN]
CopyType == [id : Ids \union {0}, texts : SUBSET Tasks]
CmdType == [op : Ops, goal : Goals, name : Names, id : Ids \union {0}, ref : Refs \union {0}]
Places == Ended \union Loading \union Loaded

\* A row is added under an id that was never used and a name that is free.
Inserted(n) ==
    /\ nextId \in Ids /\ nextId' = nextId + 1 /\ ~rows[nextId].here
    /\ rows' \in [Ids -> RowType]
    /\ rows'[nextId].here /\ rows'[nextId].name = n /\ rows'[nextId].texts = {}
    /\ \A i \in Ids : i # nextId => rows'[i] = rows[i]
    /\ \A i \in Ids : rows[i].here => rows[i].name # n

\* Row k gets the name n, which was free.
RenamedTo(n, k) ==
    /\ k \in Ids /\ rows[k].here /\ rows'[k].name = n
    /\ rows' \in [Ids -> RowType]
    /\ \A i \in Ids : rows'[i].here = rows[i].here /\ rows'[i].texts = rows[i].texts
    /\ \A i \in Ids : i # k => rows'[i] = rows[i]
    /\ \A i \in Ids : rows[i].here => rows[i].name # n

\* The texts of one row are written, if it is there.
Wrote(i, texts) ==
    /\ i \in Ids /\ rows' \in [Ids -> RowType]
    /\ \A k \in Ids : rows'[k].here = rows[k].here /\ rows'[k].name = rows[k].name
    /\ \A k \in Ids : k # i => rows'[k] = rows[k]
    /\ rows[i].here => rows'[i].texts = texts

\* A Handle moves, and the others stay.
Moved(t, place) ==
    /\ pc' \in [Tasks -> Places] /\ pc'[t] = place
    /\ \A u \in Tasks : u # t => pc'[u] = pc[u]

\* The id in another's hands does not change.
Points(t) ==
    /\ ptr' \in [Tasks -> Ids \union {0}]
    /\ \A u \in Tasks : u # t => ptr'[u] = ptr[u]

\* Nor does the session in its hands.
Copies(t) ==
    /\ copy' \in [Tasks -> CopyType]
    /\ \A u \in Tasks : u # t => copy'[u] = copy[u]

\* Only objects somebody holds are kept.
Kept(held) ==
    /\ heap' \in [Refs -> SUBSET Marks]
    /\ \A r \in Refs : heap'[r] = IF r \in held THEN heap[r] ELSE {}

\* What the dispatcher does next.
Goal(op, goal, ref) ==
    cmd' \in CmdType /\ cmd'.op = op /\ cmd'.goal = goal /\ cmd'.ref = ref

\* The commands.
Begun == Idle /\ run = 0 /\ Begins /\ UNCHANGED <<saved, states, handles>>

InsertDoes ==
    /\ Begun /\ UNCHANGED active
    /\ \E n \in Names :
          /\ Inserted(n)
          /\ cmd'.id = nextId
          /\ \/ Goal("upsert", "session", 0)
             \/ /\ Goal("upsert", "rename", 0) \/ Goal("upsert", "look", 0)
                /\ active = 0 \/ ~rows[active].here

StartDoes ==
    /\ Begun /\ UNCHANGED <<rows, nextId, active>>
    /\ Goal("upsert", "session", 0) \/ Goal("rename", "rename", 0)
    /\ cmd'.id \in Ids /\ rows[cmd'.id].here

DeleteDoes ==
    /\ Begun /\ UNCHANGED <<rows, nextId>> /\ Goal("delete", "session", 0)
    /\ cmd'.id \in Ids /\ rows[cmd'.id].here /\ rows[cmd'.id].name # Default
    /\ active' # cmd'.id
    /\ active' = active \/ (active' \in Ids /\ rows[active'].here)

UpsertDoes ==
    /\ cmd.op = "upsert" /\ cmd.id \in Ids /\ rows[cmd.id].here /\ active' = cmd.id
    /\ late' = (late /\ \E t \in Tasks : pc[t] = "upsert")
    /\ \/ cmd.goal = "session" /\ Goal("reset", "session", 0)
       \/ cmd.goal = "rename" /\ Goal("rename", "rename", 0) /\ cmd'.id = cmd.id
       \/ cmd.goal = "look" /\ cmd' = NoCmd
    /\ UNCHANGED <<rows, nextId, saved, states, handles, resets, meant, home, crossed, doubled,
                   overlapped, torn>>

RenameDoes ==
    /\ cmd.op = "rename" /\ cmd.goal = "rename" /\ cmd' = NoCmd
    /\ rows' = rows \/ \E n \in Names, k \in Ids : RenamedTo(n, k)
    /\ UNCHANGED <<nextId, active, saved, states, handles, history>>

GoneDoes ==
    /\ cmd.op = "delete" /\ Goal("reset", "session", 0)
    /\ rows' \in [Ids -> RowType]
    /\ \A i \in Ids : IF i = cmd.id THEN ~rows'[i].here ELSE rows'[i] = rows[i]
    /\ UNCHANGED <<nextId, active, saved, states, handles, history>>

NewStateDoes ==
    /\ \/ cmd.op = "reset" /\ crossed' = crossed /\ Goal("keep", "session", 0)
       \/ /\ Idle /\ resets < MaxResets /\ crossed' = (crossed \/ ~Quiet)
          /\ Goal("keep", "dcp", 0)
    /\ mem' \in Refs \ Held /\ Kept(Held)
    /\ overlapped' = \E t \in Tasks : Storing(t) \/ Fetching(t)
    /\ UNCHANGED <<tables, handles, resets, meant, home, late, doubled, torn>>

KeepDoes ==
    /\ cmd.op = "keep" /\ Goal("store", cmd.goal, mem)
    /\ UNCHANGED <<tables, states, handles, history>>

StoreDoes ==
    /\ cmd.op = "store" /\ cmd.ref \in Refs /\ saved' = heap[cmd.ref] /\ cmd' = NoCmd
    /\ Kept(Held \union {mem})
    /\ resets' = IF cmd.goal = "dcp" THEN resets + 1 ELSE resets
    /\ UNCHANGED <<rows, nextId, active, mem, handles, meant, home, crossed, late, doubled,
                   overlapped, torn>>

DispatchDoes(t) ==
    /\ Idle /\ run = 0 /\ pc[t] = "none" /\ Moved(t, "new")
    /\ meant' \in [Tasks -> Ids \union {0}] /\ meant'[t] = active
    /\ \A u \in Tasks : u # t => meant'[u] = meant[u]
    /\ doubled' = (doubled \/ ~Quiet)
    /\ UNCHANGED <<tables, states, cmd, run, ptr, copy, dcp, resets, home, crossed, late,
                   overlapped, torn>>

\* The Handle of text t: its way to the session, ...
WalkDoes(t) ==
    /\ \/ pc[t] = "new" /\ active = 0 /\ Moved(t, "default")
       \/ pc[t] = "new" /\ active # 0 /\ Moved(t, "pointed") /\ ptr'[t] = active
       \/ pc[t] = "pointed" /\ ~rows[ptr[t]].here /\ Moved(t, "default")
       \/ pc[t] = "default" /\ Called(Default) = {} /\ Moved(t, "create")
       \/ pc[t] = "create" /\ Called(Default) # {} /\ Moved(t, "done")
       \/ pc[t] = "point" /\ Called(Default) = {} /\ Moved(t, "default")
       \/ pc[t] = "point" /\ ptr'[t] \in Called(Default) /\ Moved(t, "upsert")
    /\ Points(t)
    /\ UNCHANGED <<tables, states, cmd, run, copy, dcp, history>>

Took(t, i) == rows[i].here /\ copy'[t].id = i /\ copy'[t].texts = rows[i].texts

TakeDoes(t) ==
    /\ \/ pc[t] = "pointed" /\ ptr[t] \in Ids /\ Took(t, ptr[t])
       \/ pc[t] = "default" /\ \E i \in Ids : rows[i].name = Default /\ Took(t, i)
    /\ Copies(t) /\ Points(t) /\ Moved(t, "loaded")
    /\ UNCHANGED <<tables, states, cmd, run, dcp, history>>

CreateDoes(t) ==
    /\ pc[t] = "create" /\ Inserted(Default) /\ Moved(t, "point")
    /\ UNCHANGED <<active, saved, states, cmd, run, ptr, copy, dcp, history>>

SetDoes(t) ==
    /\ pc[t] = "upsert" /\ ptr[t] \in Ids /\ active' = ptr[t]
    /\ Moved(t, "default") /\ Points(t)
    /\ UNCHANGED <<rows, nextId, saved, states, cmd, run, copy, dcp, history>>

\* ... and what it does there.
AppendDoes(t) ==
    /\ pc[t] = "loaded" /\ Moved(t, "saved")
    /\ Wrote(copy[t].id, copy[t].texts \union {t})
    /\ Copies(t) /\ copy'[t].id = copy[t].id /\ copy'[t].texts = copy[t].texts \union {t}
    /\ home' \in [Tasks -> Ids \union {0}] /\ home'[t] = copy[t].id
    /\ meant' \in [Tasks -> Ids \union {0}] /\ meant'[t] = 0
    /\ \A u \in Tasks : u # t => home'[u] = home[u] /\ meant'[u] = meant[u]
    /\ UNCHANGED <<nextId, active, saved, states, cmd, run, ptr, dcp, resets, crossed, late,
                   doubled, overlapped, torn>>

GetDoes(t) ==
    /\ pc[t] = "saved" /\ dcp' \in [Tasks -> Refs \union {0}]
    /\ \A u \in Tasks : u # t => dcp'[u] = dcp[u]
    /\ \/ mem # 0 /\ Moved(t, "pruned") /\ dcp'[t] = mem /\ UNCHANGED heap
       \/ /\ mem = 0 /\ Moved(t, "fetched") /\ dcp'[t] \in Refs \ Held
          /\ heap' \in [Refs -> SUBSET Marks]
          /\ \A r \in Refs : heap'[r] = IF r = dcp'[t] THEN saved ELSE heap[r]
    /\ UNCHANGED <<tables, mem, cmd, run, ptr, copy, history>>

PutDoes(t) ==
    /\ Fetching(t) /\ Moved(t, "pruned")
    /\ mem' = dcp[t] /\ dcp[t] \in Refs /\ Kept(Held \union {cmd.ref})
    /\ UNCHANGED <<tables, cmd, run, ptr, copy, dcp, history>>

RegisterDoes(t) ==
    /\ pc[t] = "pruned" /\ run' = t /\ Moved(t, "running")
    /\ UNCHANGED <<tables, states, cmd, ptr, copy, dcp, history>>

WriteDoes(t) ==
    /\ pc[t] = "running" /\ Wrote(copy[t].id, copy[t].texts)
    /\ heap' \in [Refs -> SUBSET Marks]
    /\ \A r \in Refs : heap[r] \subseteq heap'[r]
    /\ \A r \in Refs : \A m \in heap'[r] :
          m \in heap[r] \/ (m[1] = copy[t].id /\ m[2] = resets)
    /\ UNCHANGED <<nextId, active, saved, mem, cmd, handles, history>>

KeepsDoes(t) ==
    /\ pc[t] = "running" /\ Moved(t, "storing")
    /\ mem' = dcp[t] /\ dcp[t] \in Refs /\ Kept(Held \union {cmd.ref})
    /\ overlapped' = (Resetting \/ \E u \in Tasks : Storing(u) \/ Fetching(u))
    /\ UNCHANGED <<tables, cmd, run, ptr, copy, dcp, resets, meant, home, crossed, late,
                   doubled, torn>>

EndDoes(t) ==
    /\ \/ pc[t] = "running" /\ UNCHANGED saved
       \/ pc[t] = "storing" /\ dcp[t] \in Refs /\ saved' = heap[dcp[t]]
    /\ Moved(t, "done") /\ run' \in {0, run}
    /\ Copies(t) /\ copy'[t].id = 0
    /\ dcp' \in [Tasks -> Refs \union {0}] /\ dcp'[t] = 0
    /\ \A u \in Tasks : u # t => dcp'[u] = dcp[u]
    /\ Kept({mem, cmd.ref} \union {dcp[u] : u \in Tasks \ {t}})
    /\ UNCHANGED <<rows, nextId, active, mem, cmd, ptr, resets, meant, home, crossed, late,
                   doubled, overlapped, torn>>

HandleDoes(t) ==
    \/ DispatchDoes(t) \/ WalkDoes(t) \/ TakeDoes(t) \/ CreateDoes(t) \/ SetDoes(t)
    \/ AppendDoes(t) \/ GetDoes(t) \/ PutDoes(t) \/ RegisterDoes(t) \/ WriteDoes(t) \/ KeepsDoes(t)
    \/ EndDoes(t)

StepDoes ==
    \/ InsertDoes \/ StartDoes \/ DeleteDoes \/ UpsertDoes \/ RenameDoes
    \/ GoneDoes \/ NewStateDoes \/ KeepDoes \/ StoreDoes \/ Crash \/ UNCHANGED vars
    \/ \E t \in Tasks : HandleDoes(t)

\* There is an object nobody points to.
LEMMA FreshIsNew == TypeOK => Fresh \in Refs /\ Fresh \notin Held
  <1> SUFFICES ASSUME TypeOK PROVE Fresh \in Refs /\ Fresh \notin Held
      OBVIOUS
  <1>1. Cardinality(Tasks) \in Nat
        BY FS_CardinalityType
  <1>2. IsFiniteSet(Refs) /\ Cardinality(Refs) = Cardinality(Tasks) + 1
        BY <1>1, FS_Interval DEF Refs
  <1>3. dcp \in Surjection(Tasks, Held)
        BY DEF Surjection, Held, TypeOK
  <1>4. IsFiniteSet(Held) /\ Cardinality(Held) <= Cardinality(Tasks)
        BY <1>3, FS_Surjection
  <1>5. ~(Refs \subseteq Held)
    <2> SUFFICES ASSUME Refs \subseteq Held PROVE FALSE
        OBVIOUS
    <2>1. Cardinality(Refs) <= Cardinality(Held) /\ Cardinality(Held) \in Nat
          BY <1>4, FS_Subset, FS_CardinalityType
    <2> QED BY <1>1, <1>2, <1>4, <2>1
  <1>6. \E r \in Refs : r \notin Held
        BY <1>5
  <1> QED BY <1>6 DEF Fresh

\* Going on to the next place moves one Handle and no other.
LEMMA GoesOn ==
    ASSUME TypeOK, NEW t \in Tasks, NEW place \in Places, Goes(t, place)
    PROVE  Moved(t, place)
        BY DEF TypeOK, Goes, Places, Moved

\* INSERT makes a row under an id that no row had;
LEMMA InsertRow ==
    ASSUME TypeOK, IdsBelow, NEW n \in Names, Insert(n)
    PROVE  Inserted(n)
  <1>1. Row(n, {}) \in RowType /\ Row(n, {}).here /\ Row(n, {}).name = n /\ Row(n, {}).texts = {}
        BY DEF Row, RowType
  <1>2. rows \in [Ids -> RowType] /\ nextId \in Nat
        BY DEF TypeOK, RowType
  <1>3. nextId \in Ids /\ nextId' = nextId + 1 /\ rows' = [rows EXCEPT ![nextId] = Row(n, {})]
        BY DEF Insert
  <1>4. ~rows[nextId].here
        BY <1>2, <1>3 DEF IdsBelow
  <1>5. \A i \in Ids : rows[i].here => rows[i].name # n
        BY DEF Insert, Called, Present
  <1> QED BY <1>1, <1>2, <1>3, <1>4, <1>5 DEF Inserted

\* UPDATE changes the texts of one row, if it is still there;
LEMMA WriteRow ==
    ASSUME TypeOK, NEW c \in CopyType, c.id \in Ids, rows' = Written(c)
    PROVE  Wrote(c.id, c.texts)
  <1>1. rows \in [Ids -> RowType]
        BY DEF TypeOK, RowType
  <1>2. CASE rows[c.id].here
    <2>1. rows' = [rows EXCEPT ![c.id].texts = c.texts]
          BY <1>2 DEF Written
    <2>2. c.texts \in SUBSET Tasks
          BY DEF CopyType
    <2> QED BY <1>1, <1>2, <2>1, <2>2 DEF RowType, Wrote
  <1>3. CASE ~rows[c.id].here
        BY <1>1, <1>3 DEF Written, Wrote
  <1> QED BY <1>2, <1>3

\* a Handle takes its copy of one row;
LEMMA TakeRow ==
    ASSUME TypeOK, NEW t \in Tasks, NEW i \in Ids, rows[i].here, Takes(t, i)
    PROVE  /\ Took(t, i) /\ Copies(t) /\ Points(t) /\ Moved(t, "loaded")
           /\ UNCHANGED <<tables, states, cmd, run, dcp, history>>
  <1>1. [id |-> i, texts |-> rows[i].texts] \in CopyType
        BY DEF TypeOK, CopyType
  <1>2. copy \in [Tasks -> CopyType]
        BY DEF TypeOK, CopyType
  <1>3. Moved(t, "loaded")
        BY GoesOn DEF Takes, Places, Loaded
  <1>4. copy' = [copy EXCEPT ![t] = [id |-> i, texts |-> rows[i].texts]]
        BY DEF Takes
  <1>5. Points(t)
        BY DEF Takes, TypeOK, Points
  <1>6. /\ copy'[t].id = i /\ copy'[t].texts = rows[i].texts /\ copy' \in [Tasks -> CopyType]
        /\ \A u \in Tasks : u # t => copy'[u] = copy[u]
        BY <1>1, <1>2, <1>4
  <1> QED BY <1>3, <1>5, <1>6 DEF Takes, Took, Copies

\* and garbage is collected.
LEMMA Collects ==
    ASSUME TypeOK, NEW held, heap' = Collected(heap, held)
    PROVE  Kept(held)
        BY DEF TypeOK, Collected, Kept

\* What the dispatcher does.
LEMMA CommandSteps == IInv /\ Command => StepDoes
  <1> SUFFICES ASSUME TypeOK, IdsBelow, CmdShape, Command PROVE StepDoes
      BY DEF IInv
  <1>t. /\ cmd \in CmdType /\ rows \in [Ids -> RowType] /\ NoCmd \in CmdType
        /\ active \in Ids \union {0} /\ mem \in Refs \union {0}
        BY DEF TypeOK, CmdType, RowType, NoCmd, Ops, Goals
  <1> USE DEF CmdType, NoCmd, Ops, Goals, Goal
  <1>1. ASSUME NEW n \in Names, NEW goal \in {"rename", "look"}, GetActiveCreates(goal, n),
               Begins, Free, UNCHANGED <<active, saved, states, handles>>
        PROVE  InsertDoes
    <2>1. Inserted(Default)
          BY <1>1, InsertRow DEF GetActiveCreates
    <2>2. cmd' = [NoCmd EXCEPT !.op = "upsert", !.goal = goal, !.name = n, !.id = nextId]
          BY <1>1 DEF GetActiveCreates
    <2>3. cmd'.id = nextId /\ (Goal("upsert", "rename", 0) \/ Goal("upsert", "look", 0))
          BY <1>1, <2>1, <2>2 DEF Inserted
    <2>4. active = 0 \/ ~rows[active].here
          BY <1>1 DEF GetActiveCreates, Found
    <2> QED BY <1>1, <2>1, <2>3, <2>4 DEF InsertDoes, Begun, Free
  <1>2. ASSUME NEW n \in Names, handleNewSession(n) PROVE StepDoes
    <2>1. Begun /\ UNCHANGED active
          BY <1>2 DEF handleNewSession, Begun, Free
    <2>2. ASSUME NEW i \in Called(n), cmd' = [NoCmd EXCEPT !.op = "upsert", !.id = i],
                 UNCHANGED <<rows, nextId>>
          PROVE  StepDoes
      <3>1. i \in Ids /\ rows[i].here
            BY DEF Called, Present
      <3>2. Goal("upsert", "session", 0) /\ cmd'.id = i
            BY <2>2, <3>1
      <3> QED BY <2>1, <2>2, <3>1, <3>2 DEF StartDoes, StepDoes
    <2>3. CASE Insert(n) /\ cmd' = [NoCmd EXCEPT !.op = "upsert", !.id = nextId]
      <3>1. Inserted(n)
            BY <2>3, InsertRow
      <3>2. Goal("upsert", "session", 0) /\ cmd'.id = nextId
            BY <2>3, <3>1 DEF Inserted
      <3> QED BY <2>1, <3>1, <3>2 DEF InsertDoes, StepDoes
    <2> QED BY <1>2, <2>2, <2>3 DEF handleNewSession
  <1>3. ASSUME NEW n \in Names, handleSwitchSession(n) PROVE StepDoes
    <2>1. PICK i \in Ids : rows[i].here /\ cmd' = [NoCmd EXCEPT !.op = "upsert", !.id = i]
          BY <1>3 DEF handleSwitchSession, Called, Present
    <2>2. Goal("upsert", "session", 0) /\ cmd'.id = i
          BY <2>1
    <2> QED BY <1>3, <2>1, <2>2
            DEF handleSwitchSession, Free, Begun, StartDoes, StepDoes, tables
  <1>4. ASSUME NEW n \in Names, handleRenameSession(n) PROVE StepDoes
    <2>1. Free /\ Begins /\ UNCHANGED <<active, saved, states, handles>>
          BY <1>4 DEF handleRenameSession
    <2>2. ASSUME NEW i \in Found, UNCHANGED <<rows, nextId>>,
                 cmd' = [NoCmd EXCEPT !.op = "rename", !.goal = "rename", !.name = n, !.id = i]
          PROVE  StepDoes
      <3>1. i \in Ids /\ rows[i].here
            BY <1>t DEF Found, Called, Present
      <3>2. Goal("rename", "rename", 0) /\ cmd'.id = i
            BY <2>2, <3>1
      <3> QED BY <2>1, <2>2, <3>1, <3>2 DEF Free, Begun, StartDoes, StepDoes
    <2>3. CASE GetActiveCreates("rename", n)
          BY <1>1, <2>1, <2>3 DEF StepDoes
    <2> QED BY <1>4, <2>2, <2>3 DEF handleRenameSession
  <1>5. ASSUME NEW n \in Names, DeleteSession(n) PROVE StepDoes
    <2>1. PICK i \in Ids : /\ rows[i].here /\ rows[i].name = n
                            /\ cmd' = [NoCmd EXCEPT !.op = "delete", !.id = i]
                            /\ IF active = i THEN active' \in Present \ {i} ELSE UNCHANGED active
          BY <1>5 DEF DeleteSession, Called, Present
    <2>2. Goal("delete", "session", 0) /\ cmd'.id = i
          BY <2>1
    <2>3. n # Default /\ Begun /\ UNCHANGED <<rows, nextId>>
          BY <1>5 DEF DeleteSession, Begun, Free
    <2> QED BY <2>1, <2>2, <2>3 DEF DeleteDoes, StepDoes, Present
  <1>6. CASE handleDeleteSession
        BY <1>1, <1>6 DEF handleDeleteSession, StepDoes
  <1>7. CASE CmdUpsert
    <2>1. /\ cmd.op = "upsert" /\ active' = cmd.id
          /\ late' = (late /\ \E t \in Tasks : pc[t] = "upsert")
          /\ UNCHANGED <<rows, nextId, saved, states, handles, resets, meant, home, crossed,
                         doubled, overlapped, torn>>
          BY <1>7 DEF CmdUpsert
    <2>2. cmd.id \in Ids /\ rows[cmd.id].here /\ cmd.ref = 0 /\ cmd.goal # "dcp"
          BY <1>t, <2>1 DEF CmdShape, Resetting
    <2>3. \/ cmd.goal = "session" /\ cmd' = [NoCmd EXCEPT !.op = "reset"]
          \/ cmd.goal = "rename" /\ cmd' = [cmd EXCEPT !.op = "rename"]
          \/ cmd.goal = "look" /\ cmd' = NoCmd
          BY <1>t, <1>7, <2>2 DEF CmdUpsert
    <2>4. \/ cmd.goal = "session" /\ Goal("reset", "session", 0)
          \/ cmd.goal = "rename" /\ Goal("rename", "rename", 0) /\ cmd'.id = cmd.id
          \/ cmd.goal = "look" /\ cmd' = NoCmd
          BY <1>t, <2>2, <2>3
    <2> QED BY <2>1, <2>2, <2>4 DEF UpsertDoes, StepDoes
  <1>8. CASE CmdRename
    <2>1. cmd.op = "rename" /\ cmd' = NoCmd
          /\ UNCHANGED <<nextId, active, saved, states, handles, history>>
          BY <1>8 DEF CmdRename
    <2>2. cmd.id \in Ids /\ rows[cmd.id].here /\ cmd.goal = "rename" /\ cmd.name \in Names
          BY <1>t, <2>1 DEF CmdShape
    <2>3. CASE Called(cmd.name) = {}
      <3>1. \A i \in Ids : rows[i].here => rows[i].name # cmd.name
            BY <2>3 DEF Called, Present
      <3>2. rows' = [rows EXCEPT ![cmd.id].name = cmd.name]
            BY <1>8, <2>3 DEF CmdRename
      <3>3. RenamedTo(cmd.name, cmd.id)
            BY <1>t, <2>2, <3>1, <3>2 DEF RenamedTo, RowType
      <3> QED BY <2>1, <2>2, <3>3 DEF RenameDoes, StepDoes
    <2>4. CASE Called(cmd.name) # {}
          BY <1>8, <2>1, <2>2, <2>4 DEF CmdRename, RenameDoes, StepDoes
    <2> QED BY <2>3, <2>4
  <1>9. CASE CmdDelete
    <2>1. /\ cmd.op = "delete" /\ rows' = [rows EXCEPT ![cmd.id] = Absent]
          /\ Goal("reset", "session", 0)
          /\ UNCHANGED <<nextId, active, saved, states, handles, history>>
          BY <1>9 DEF CmdDelete
    <2>2. Absent \in RowType /\ ~Absent.here
          BY DEF Absent, RowType
    <2> QED BY <1>t, <2>1, <2>2 DEF GoneDoes, StepDoes
  <1>10. ASSUME NewState PROVE mem' \in Refs \ Held /\ Kept(Held)
        BY <1>10, FreshIsNew, Collects DEF NewState
  <1>11. CASE CmdReset
        BY <1>10, <1>11 DEF CmdReset, NewStateDoes, StepDoes, history
  <1>12. CASE DcpReset
        BY <1>10, <1>12 DEF DcpReset, NewStateDoes, StepDoes, history
  <1>13. CASE CmdKeep
    <2>1. cmd.op = "keep" /\ cmd' = [cmd EXCEPT !.op = "store", !.ref = mem]
          /\ UNCHANGED <<tables, states, handles, history>>
          BY <1>13 DEF CmdKeep
    <2>2. Goal("store", cmd.goal, mem)
          BY <1>t, <2>1
    <2> QED BY <2>1, <2>2 DEF KeepDoes, StepDoes
  <1>14. CASE CmdStore
    <2>1. cmd.ref \in Refs
          BY <1>t, <1>14 DEF CmdStore, CmdShape
    <2>2. Kept(Held \union {mem})
          BY <1>14, Collects DEF CmdStore
    <2> QED BY <1>14, <2>1, <2>2 DEF CmdStore, SaveDCPState, StoreDoes, StepDoes
  <1> HIDE DEF CmdType, NoCmd, Ops, Goals, Goal
  <1> QED BY <1>2, <1>3, <1>4, <1>5, <1>6, <1>7, <1>8, <1>9, <1>11, <1>12, <1>13, <1>14
          DEF Command

\* What a Handle does.
LEMMA HandleSteps ==
    ASSUME IInv, NEW t \in Tasks, Dispatch(t) \/ Handle(t)
    PROVE  HandleDoes(t)
  <1>i. TypeOK /\ Hands /\ IdsBelow
        BY DEF IInv
  <1>t. /\ rows \in [Ids -> RowType] /\ ptr \in [Tasks -> Ids \union {0}]
        /\ copy \in [Tasks -> CopyType] /\ dcp \in [Tasks -> Refs \union {0}]
        /\ meant \in [Tasks -> Ids \union {0}] /\ home \in [Tasks -> Ids \union {0}]
        /\ heap \in [Refs -> SUBSET Marks] /\ saved \subseteq Marks
        /\ mem \in Refs \union {0} /\ active \in Ids \union {0} /\ resets \in 0..MaxResets
        BY <1>i DEF TypeOK, RowType, CopyType
  <1>g. ASSUME NEW place \in Places, Goes(t, place) PROVE Moved(t, place)
        BY <1>g, <1>i, GoesOn
  <1>p. /\ "new" \in Places /\ "pointed" \in Places /\ "default" \in Places /\ "create" \in Places
        /\ "point" \in Places /\ "upsert" \in Places /\ "loaded" \in Places /\ "saved" \in Places
        /\ "fetched" \in Places /\ "pruned" \in Places /\ "running" \in Places /\ "storing" \in Places
        /\ "done" \in Places
        BY DEF Places, Loading, Loaded, Ended
  <1>1. CASE Dispatch(t)
    <2>1. meant' = [meant EXCEPT ![t] = active] /\ Moved(t, "new")
          BY <1>1, <1>g, <1>p DEF Dispatch, Goes
    <2> QED BY <1>1, <1>t, <2>1 DEF Dispatch, Free, DispatchDoes, HandleDoes
  <1>2. CASE ReadPointer(t)
    <2>1. Points(t) /\ ptr'[t] = active
          BY <1>2, <1>t DEF ReadPointer, Points
    <2>2. IF active = 0 THEN Moved(t, "default") ELSE Moved(t, "pointed")
          BY <1>2, <1>g, <1>p DEF ReadPointer
    <2> QED BY <1>2, <2>1, <2>2 DEF ReadPointer, WalkDoes, HandleDoes
  <1>3. CASE ReadRow(t)
    <2>1. pc[t] = "pointed" /\ ptr[t] \in Ids
          BY <1>3, <1>i, <1>t DEF ReadRow, Hands
    <2>2. CASE rows[ptr[t]].here /\ Takes(t, ptr[t])
          BY <2>1, <2>2, <1>i, TakeRow DEF TakeDoes, HandleDoes
    <2>3. CASE ~rows[ptr[t]].here
      <3>1. Goes(t, "default") /\ ptr' = [ptr EXCEPT ![t] = 0]
            /\ UNCHANGED <<tables, states, cmd, run, copy, dcp, history>>
            BY <1>3, <2>3 DEF ReadRow
      <3>2. Moved(t, "default")
            BY <3>1, <1>g, <1>p
      <3> QED BY <2>1, <2>3, <3>1, <3>2, <1>t DEF Points, WalkDoes, HandleDoes
    <2> QED BY <1>3, <2>2, <2>3 DEF ReadRow
  <1>4. CASE LoadDefault(t)
    <2>1. pc[t] = "default"
          BY <1>4 DEF LoadDefault
    <2>2. ASSUME NEW i \in Called(Default), Takes(t, i) PROVE HandleDoes(t)
      <3>1. i \in Ids /\ rows[i].here /\ rows[i].name = Default
            BY DEF Called, Present
      <3> QED BY <2>1, <2>2, <3>1, <1>i, TakeRow DEF TakeDoes, HandleDoes
    <2>3. CASE /\ Called(Default) = {} /\ Goes(t, "create")
               /\ UNCHANGED <<tables, states, cmd, run, ptr, copy, dcp, history>>
          BY <2>1, <2>3, <1>g, <1>p, <1>t DEF Points, WalkDoes, HandleDoes
    <2> QED BY <1>4, <2>2, <2>3 DEF LoadDefault
  <1>5. CASE CreateDefault(t)
    <2>1. pc[t] = "create" /\ UNCHANGED <<active, saved, states, cmd, run, ptr, copy, dcp, history>>
          BY <1>5 DEF CreateDefault
    <2>2. CASE Insert(Default) /\ Goes(t, "point")
          BY <2>1, <2>2, <1>g, <1>p, <1>i, InsertRow DEF CreateDoes, HandleDoes
    <2>3. CASE Called(Default) # {} /\ Goes(t, "done") /\ UNCHANGED <<rows, nextId>>
          BY <2>1, <2>3, <1>g, <1>p, <1>t DEF Points, WalkDoes, HandleDoes, tables
    <2> QED BY <1>5, <2>2, <2>3 DEF CreateDefault
  <1>6. CASE PointDefault(t)
    <2>1. pc[t] = "point" /\ UNCHANGED <<tables, states, cmd, run, copy, dcp, history>>
          BY <1>6 DEF PointDefault
    <2>2. ASSUME NEW i \in Called(Default), ptr' = [ptr EXCEPT ![t] = i], Goes(t, "upsert")
          PROVE  HandleDoes(t)
      <3>1. i \in Ids
            BY DEF Called, Present
      <3>2. Points(t) /\ ptr'[t] = i
            BY <2>2, <3>1, <1>t DEF Points
      <3> QED BY <2>1, <2>2, <3>2, <1>g, <1>p DEF WalkDoes, HandleDoes
    <2>3. CASE Called(Default) = {} /\ Goes(t, "default") /\ UNCHANGED ptr
          BY <2>1, <2>3, <1>g, <1>p, <1>t DEF Points, WalkDoes, HandleDoes
    <2> QED BY <1>6, <2>2, <2>3 DEF PointDefault
  <1>7. CASE UpsertDefault(t)
    <2>1. pc[t] = "upsert" /\ ptr[t] \in Ids
          BY <1>7, <1>i, <1>t DEF UpsertDefault, Hands
    <2>2. Moved(t, "default") /\ Points(t)
          BY <1>7, <1>g, <1>p, <1>t DEF UpsertDefault, Points
    <2> QED BY <1>7, <2>1, <2>2 DEF UpsertDefault, SetDoes, HandleDoes
  <1>8. CASE AppendText(t)
    <2>1. copy[t].id \in Ids /\ pc[t] = "loaded"
          BY <1>8, <1>i, <1>t DEF AppendText, Hands, Loaded, CopyType
    <2>2. [copy[t] EXCEPT !.texts = @ \union {t}] \in CopyType
          BY <1>t DEF CopyType
    <2>3. PICK c \in CopyType :
             /\ c = [copy[t] EXCEPT !.texts = @ \union {t}]
             /\ copy' = [copy EXCEPT ![t] = c] /\ rows' = Written(c)
          BY <1>8, <2>2 DEF AppendText
    <2>4. c.id = copy[t].id /\ c.texts = copy[t].texts \union {t}
          BY <1>t, <2>3 DEF CopyType
    <2>5. Wrote(copy[t].id, copy[t].texts \union {t})
      <3>1. c.id \in Ids
            BY <2>1, <2>4
      <3>2. Wrote(c.id, c.texts)
            BY <1>i, <2>3, <3>1, WriteRow
      <3> QED BY <2>4, <3>2
    <2>6. Moved(t, "saved")
          BY <1>8, <1>g, <1>p DEF AppendText
    <2>7. /\ copy' \in [Tasks -> CopyType] /\ copy'[t] = c
          /\ \A u \in Tasks : u # t => copy'[u] = copy[u]
          BY <1>t, <2>3
    <2>8. /\ home' = [home EXCEPT ![t] = copy[t].id] /\ meant' = [meant EXCEPT ![t] = 0]
          /\ UNCHANGED <<nextId, active, saved, states, cmd, run, ptr, dcp, resets, crossed, late,
                         doubled, overlapped, torn>>
          BY <1>8 DEF AppendText
    <2>9. /\ home' \in [Tasks -> Ids \union {0}] /\ home'[t] = copy[t].id
          /\ meant' \in [Tasks -> Ids \union {0}] /\ meant'[t] = 0
          /\ \A u \in Tasks : u # t => home'[u] = home[u] /\ meant'[u] = meant[u]
          BY <1>t, <2>1, <2>8
    <2>10. AppendDoes(t)
          BY <2>1, <2>4, <2>5, <2>6, <2>7, <2>8, <2>9 DEF AppendDoes, Copies
    <2> QED BY <2>10 DEF HandleDoes
  <1>9. CASE GetState(t)
    <2>1. pc[t] = "saved" /\ UNCHANGED <<tables, mem, cmd, run, ptr, copy, history>>
          BY <1>9 DEF GetState
    <2>2. CASE mem # 0
      <3>1. dcp' = [dcp EXCEPT ![t] = mem] /\ UNCHANGED heap /\ Moved(t, "pruned")
            BY <1>9, <2>2, <1>g, <1>p DEF GetState
      <3> QED BY <1>t, <2>1, <2>2, <3>1 DEF GetDoes, HandleDoes
    <2>3. CASE mem = 0
      <3>1. PICK r \in Refs : /\ r \notin Held /\ dcp' = [dcp EXCEPT ![t] = r]
                              /\ heap' = [heap EXCEPT ![r] = saved]
            BY <1>i, FreshIsNew, <1>9, <2>3 DEF GetState, LoadDCPState
      <3>2. /\ heap' \in [Refs -> SUBSET Marks]
            /\ \A s \in Refs : heap'[s] = IF s = r THEN saved ELSE heap[s]
            BY <1>t, <3>1
      <3>3. /\ dcp' \in [Tasks -> Refs \union {0}] /\ dcp'[t] = r
            /\ \A u \in Tasks : u # t => dcp'[u] = dcp[u]
            BY <1>t, <3>1
      <3>4. Moved(t, "fetched")
            BY <1>9, <2>3, <1>g, <1>p DEF GetState
      <3> QED BY <2>1, <2>3, <3>1, <3>2, <3>3, <3>4 DEF GetDoes, HandleDoes
    <2> QED BY <2>2, <2>3
  <1>10. CASE SetState(t)
    <2>1. Fetching(t) /\ dcp[t] \in Refs /\ Moved(t, "pruned")
          BY <1>10, <1>g, <1>p, <1>i, <1>t DEF SetState, Fetching, Hands
    <2>2. Kept(Held \union {cmd.ref})
          BY <1>10, <1>i, Collects DEF SetState
    <2> QED BY <1>10, <2>1, <2>2 DEF SetState, PutDoes, HandleDoes
  <1>11. CASE Register(t)
        BY <1>11, <1>g, <1>p DEF Register, RegisterDoes, HandleDoes
  <1>12. CASE Append(t)
    <2>1. pc[t] = "running" /\ copy[t] \in CopyType /\ copy[t].id \in Ids /\ dcp[t] \in Refs
          BY <1>12, <1>i, <1>t DEF Append, Hands, Loaded, CopyType
    <2>2. Wrote(copy[t].id, copy[t].texts)
          BY <1>12, <1>i, <2>1, WriteRow DEF Append
    <2>3. /\ heap' \in [Refs -> SUBSET Marks]
          /\ \A r \in Refs : heap[r] \subseteq heap'[r]
          /\ \A r \in Refs : \A m \in heap'[r] :
                m \in heap[r] \/ (m[1] = copy[t].id /\ m[2] = resets)
      <3>1. PICK mark : mark = <<copy[t].id, resets>>
            OBVIOUS
      <3>2. mark \in Marks /\ mark[1] = copy[t].id /\ mark[2] = resets
            BY <1>t, <2>1, <3>1 DEF Marks
      <3>3. heap' = heap \/ heap' = [heap EXCEPT ![dcp[t]] = heap[dcp[t]] \union {mark}]
            BY <1>12, <3>1 DEF Append
      <3> QED BY <1>t, <2>1, <3>2, <3>3
    <2>4. UNCHANGED <<nextId, active, saved, mem, cmd, handles, history>>
          BY <1>12 DEF Append
    <2>5. WriteDoes(t)
          BY <2>1, <2>2, <2>3, <2>4 DEF WriteDoes
    <2> QED BY <2>5 DEF HandleDoes
  <1>13. CASE Keep(t)
    <2>1. pc[t] = "running" /\ dcp[t] \in Refs /\ Moved(t, "storing")
          BY <1>13, <1>g, <1>p, <1>i, <1>t DEF Keep, Hands
    <2>2. Kept(Held \union {cmd.ref})
          BY <1>13, <1>i, Collects DEF Keep
    <2> QED BY <1>13, <2>1, <2>2 DEF Keep, KeepsDoes, HandleDoes
  <1>14. ASSUME Return(t), \/ pc[t] = "running" /\ UNCHANGED saved
                           \/ pc[t] = "storing" /\ dcp[t] \in Refs /\ saved' = heap[dcp[t]]
         PROVE  HandleDoes(t)
    <2>1. Moved(t, "done")
          BY <1>14, <1>g, <1>p DEF Return
    <2>2. NoCopy \in CopyType /\ NoCopy.id = 0
          BY DEF NoCopy, CopyType
    <2>3. /\ copy' = [copy EXCEPT ![t] = NoCopy] /\ dcp' = [dcp EXCEPT ![t] = 0]
          /\ UNCHANGED <<rows, nextId, active, mem, cmd, ptr, resets, meant, home, crossed, late,
                         doubled, overlapped, torn>>
          /\ run' \in {0, run}
          BY <1>14 DEF Return
    <2>4. /\ copy' \in [Tasks -> CopyType] /\ copy'[t].id = 0
          /\ dcp' \in [Tasks -> Refs \union {0}] /\ dcp'[t] = 0
          /\ \A u \in Tasks : u # t => copy'[u] = copy[u] /\ dcp'[u] = dcp[u]
          BY <1>t, <2>2, <2>3
    <2>5. Kept({mem, cmd.ref} \union {dcp[u] : u \in Tasks \ {t}})
          BY <1>14, <1>i, Collects DEF Return
    <2>6. EndDoes(t)
          BY <1>14, <2>1, <2>3, <2>4, <2>5 DEF EndDoes, Copies
    <2> QED BY <2>6 DEF HandleDoes
  <1>15. CASE Reply(t)
        BY <1>14, <1>15, <1>i, <1>t DEF Reply, Storing, SaveDCPState, Hands
  <1>16. CASE EndUnsaved(t)
        BY <1>14, <1>16 DEF EndUnsaved
  <1> QED BY <1>1, <1>2, <1>3, <1>4, <1>5, <1>6, <1>7, <1>8, <1>9, <1>11, <1>12, <1>13, <1>15,
             <1>16, <1>10 DEF Handle

LEMMA Steps == IInv /\ [Next]_vars => StepDoes
  <1> SUFFICES ASSUME IInv, [Next]_vars PROVE StepDoes
      OBVIOUS
  <1>1. ASSUME NEW t \in Tasks, Dispatch(t) \/ Handle(t) PROVE StepDoes
        BY <1>1, HandleSteps DEF StepDoes
  <1> QED BY <1>1, CommandSteps DEF Next, StepDoes

\* A reset that meets a Handle is remembered.
LEMMA ResetMeets ==
    ASSUME Uncrossed, NewStateDoes
    PROVE  crossed' \/ (~late' /\ Quiet')
  <1>1. cmd.op = "reset" => ~Idle
        BY DEF Idle, NoCmd
  <1>2. late' = late /\ (Quiet' <=> Quiet)
        BY DEF NewStateDoes, Quiet, InProgress, handles
  <1>3. CASE cmd.op = "reset" /\ crossed' = crossed
        BY <1>1, <1>2, <1>3 DEF Uncrossed
  <1>4. CASE crossed' = (crossed \/ ~Quiet)
        BY <1>2, <1>4 DEF Uncrossed
  <1> QED BY <1>3, <1>4 DEF NewStateDoes

---------------------------------------------------------------------------
(* Each fact is kept.                                                      *)

\* Shapes.
LEMMA TypeStep == IInv /\ StepDoes => TypeOK'
  <1> SUFFICES ASSUME IInv, StepDoes PROVE TypeOK'
      OBVIOUS
  <1> USE DEF IInv, TypeOK, tables, states, handles, history, Ids, Marks, NoCopy, NoCmd, Ops,
             Goals, RowType, CopyType, CmdType, Places, Refs, Ended, Loading, Loaded,
             CmdShape, Resetting
  <1>1. CASE InsertDoes
        BY <1>1 DEF InsertDoes, Begun, Begins, Inserted, Goal
  <1>2. CASE StartDoes
        BY <1>2 DEF StartDoes, Begun, Begins, Goal
  <1>3. CASE DeleteDoes
        BY <1>3 DEF DeleteDoes, Begun, Begins, Goal
  <1>4. CASE UpsertDoes
        BY <1>4 DEF UpsertDoes, Goal
  <1>5. CASE RenameDoes
        BY <1>5 DEF RenameDoes, RenamedTo
  <1>6. CASE GoneDoes
        BY <1>6 DEF GoneDoes, Goal
  <1>7. CASE NewStateDoes
        BY <1>7 DEF NewStateDoes, Kept, Goal
  <1>8. CASE KeepDoes
        BY <1>8 DEF KeepDoes, Goal
  <1>9. CASE StoreDoes
        BY <1>9 DEF StoreDoes, Kept
  <1>10. CASE Crash
        BY <1>10 DEF Crash
  <1>11. ASSUME NEW t \in Tasks, DispatchDoes(t) PROVE TypeOK'
        BY <1>11 DEF DispatchDoes, Moved
  <1>12. ASSUME NEW t \in Tasks, WalkDoes(t) PROVE TypeOK'
        BY <1>12 DEF WalkDoes, Moved, Points
  <1>13. ASSUME NEW t \in Tasks, TakeDoes(t) PROVE TypeOK'
        BY <1>13 DEF TakeDoes, Took, Copies, Moved, Points
  <1>14. ASSUME NEW t \in Tasks, CreateDoes(t) PROVE TypeOK'
        BY <1>14 DEF CreateDoes, Moved, Inserted
  <1>15. ASSUME NEW t \in Tasks, SetDoes(t) PROVE TypeOK'
        BY <1>15 DEF SetDoes, Moved, Points
  <1>16. ASSUME NEW t \in Tasks, AppendDoes(t) PROVE TypeOK'
        BY <1>16 DEF AppendDoes, Copies, Moved, Wrote
  <1>17. ASSUME NEW t \in Tasks, GetDoes(t) PROVE TypeOK'
        BY <1>17 DEF GetDoes, Moved
  <1>18. ASSUME NEW t \in Tasks, PutDoes(t) PROVE TypeOK'
        BY <1>18 DEF PutDoes, Moved, Kept, Fetching
  <1>19. ASSUME NEW t \in Tasks, RegisterDoes(t) PROVE TypeOK'
        BY <1>19 DEF RegisterDoes, Moved
  <1>20. ASSUME NEW t \in Tasks, WriteDoes(t) PROVE TypeOK'
        BY <1>20 DEF WriteDoes, Wrote
  <1>21. ASSUME NEW t \in Tasks, KeepsDoes(t) PROVE TypeOK'
        BY <1>21 DEF KeepsDoes, Moved, Kept
  <1>22. ASSUME NEW t \in Tasks, EndDoes(t) PROVE TypeOK'
        BY <1>22 DEF EndDoes, Copies, Moved, Kept
  <1>23. CASE UNCHANGED vars
        BY <1>23 DEF vars
  <1> HIDE DEF IInv, TypeOK, tables, states, handles, history, Ids, Marks, NoCopy, NoCmd,
              Ops, Goals, RowType, CopyType, CmdType, Places, Refs, Ended, Loading, Loaded,
              CmdShape, Resetting
  <1> QED BY <1>1, <1>2, <1>3, <1>4, <1>5, <1>6, <1>7, <1>8, <1>9, <1>10, <1>11, <1>12,
             <1>13, <1>14, <1>15, <1>16, <1>17, <1>18, <1>19, <1>20, <1>21, <1>22, <1>23 DEF
             StepDoes, HandleDoes

\* A pointer, a copy and a pruning state are in a Handle's hands where it uses them.
LEMMA HandsStep == IInv /\ StepDoes => Hands'
  <1> SUFFICES ASSUME IInv, StepDoes PROVE Hands'
      OBVIOUS
  <1> USE DEF IInv, TypeOK, tables, states, handles, history, Hands, Loading, Loaded, Ended,
             Refs, Ids, Places, NoCopy, Called, Present, CopyType
  <1>1. CASE InsertDoes
        BY <1>1 DEF InsertDoes, Begun, Begins, Inserted, Goal
  <1>2. CASE StartDoes
        BY <1>2 DEF StartDoes, Begun, Begins, Goal
  <1>3. CASE DeleteDoes
        BY <1>3 DEF DeleteDoes, Begun, Begins, Goal
  <1>4. CASE UpsertDoes
        BY <1>4 DEF UpsertDoes, Goal
  <1>5. CASE RenameDoes
        BY <1>5 DEF RenameDoes, RenamedTo
  <1>6. CASE GoneDoes
        BY <1>6 DEF GoneDoes, Goal
  <1>7. CASE NewStateDoes
        BY <1>7 DEF NewStateDoes, Kept, Goal
  <1>8. CASE KeepDoes
        BY <1>8 DEF KeepDoes, Goal
  <1>9. CASE StoreDoes
        BY <1>9 DEF StoreDoes, Kept
  <1>10. CASE Crash
        BY <1>10 DEF Crash
  <1>11. ASSUME NEW t \in Tasks, DispatchDoes(t) PROVE Hands'
        BY <1>11 DEF DispatchDoes, Moved
  <1>12. ASSUME NEW t \in Tasks, WalkDoes(t) PROVE Hands'
        BY <1>12 DEF WalkDoes, Moved, Points
  <1>13. ASSUME NEW t \in Tasks, TakeDoes(t) PROVE Hands'
        BY <1>13 DEF TakeDoes, Took, Copies, Moved, Points
  <1>14. ASSUME NEW t \in Tasks, CreateDoes(t) PROVE Hands'
        BY <1>14 DEF CreateDoes, Moved, Inserted
  <1>15. ASSUME NEW t \in Tasks, SetDoes(t) PROVE Hands'
        BY <1>15 DEF SetDoes, Moved, Points
  <1>16. ASSUME NEW t \in Tasks, AppendDoes(t) PROVE Hands'
        BY <1>16 DEF AppendDoes, Copies, Moved, Wrote
  <1>17. ASSUME NEW t \in Tasks, GetDoes(t) PROVE Hands'
        BY <1>17 DEF GetDoes, Moved
  <1>18. ASSUME NEW t \in Tasks, PutDoes(t) PROVE Hands'
        BY <1>18 DEF PutDoes, Moved, Kept, Fetching
  <1>19. ASSUME NEW t \in Tasks, RegisterDoes(t) PROVE Hands'
        BY <1>19 DEF RegisterDoes, Moved
  <1>20. ASSUME NEW t \in Tasks, WriteDoes(t) PROVE Hands'
        BY <1>20 DEF WriteDoes, Wrote
  <1>21. ASSUME NEW t \in Tasks, KeepsDoes(t) PROVE Hands'
        BY <1>21 DEF KeepsDoes, Moved, Kept
  <1>22. ASSUME NEW t \in Tasks, EndDoes(t) PROVE Hands'
        BY <1>22, SMTT(20) DEF EndDoes, Copies, Moved, Kept
  <1>23. CASE UNCHANGED vars
        BY <1>23 DEF vars
  <1> HIDE DEF IInv, TypeOK, tables, states, handles, history, Hands, Loading, Loaded, Ended,
              Refs, Ids, Places, NoCopy, Called, Present, CopyType
  <1> QED BY <1>1, <1>2, <1>3, <1>4, <1>5, <1>6, <1>7, <1>8, <1>9, <1>10, <1>11, <1>12,
             <1>13, <1>14, <1>15, <1>16, <1>17, <1>18, <1>19, <1>20, <1>21, <1>22, <1>23 DEF
             StepDoes, HandleDoes

\* The next id is beyond all others.
LEMMA IdsStep == IInv /\ StepDoes => IdsBelow'
  <1> SUFFICES ASSUME IInv, StepDoes PROVE IdsBelow'
      OBVIOUS
  <1> USE DEF IInv, TypeOK, tables, states, handles, history, IdsBelow, Ids, CopyType,
             NoCopy, Hands, Loaded
  <1>1. CASE InsertDoes
    <2>1. nextId \in Nat /\ nextId' = nextId + 1 /\ UNCHANGED <<copy, home>>
          BY <1>1 DEF InsertDoes, Inserted, Begun, Begins
    <2>2. \A i \in Ids : i \in Nat /\ (rows'[i].here => i < nextId \/ i = nextId)
          BY <1>1 DEF InsertDoes, Inserted
    <2>3. \A u \in Tasks : /\ copy[u].id \in Nat /\ home[u] \in Nat
                            /\ copy[u].id < nextId /\ home[u] < nextId
          OBVIOUS
    <2>4. \A i \in Nat : i < nextId \/ i = nextId => i < nextId'
          BY <2>1
    <2>5. \A i \in Ids : rows'[i].here => i < nextId'
          BY <2>2, <2>4
    <2>6. \A u \in Tasks : copy'[u].id < nextId' /\ home'[u] < nextId'
          BY <2>1, <2>3, <2>4
    <2> QED BY <2>5, <2>6
  <1>2. CASE StartDoes
        BY <1>2 DEF StartDoes, Begun, Begins, Goal
  <1>3. CASE DeleteDoes
        BY <1>3 DEF DeleteDoes, Begun, Begins, Goal
  <1>4. CASE UpsertDoes
        BY <1>4 DEF UpsertDoes, Goal
  <1>5. CASE RenameDoes
        BY <1>5 DEF RenameDoes, RenamedTo
  <1>6. CASE GoneDoes
        BY <1>6 DEF GoneDoes, Goal
  <1>7. CASE NewStateDoes
        BY <1>7 DEF NewStateDoes, Kept, Goal
  <1>8. CASE KeepDoes
        BY <1>8 DEF KeepDoes, Goal
  <1>9. CASE StoreDoes
        BY <1>9 DEF StoreDoes, Kept
  <1>10. CASE Crash
        BY <1>10 DEF Crash
  <1>11. ASSUME NEW t \in Tasks, DispatchDoes(t) PROVE IdsBelow'
        BY <1>11 DEF DispatchDoes, Moved
  <1>12. ASSUME NEW t \in Tasks, WalkDoes(t) PROVE IdsBelow'
        BY <1>12 DEF WalkDoes, Moved, Points
  <1>13. ASSUME NEW t \in Tasks, TakeDoes(t) PROVE IdsBelow'
    <2>1. PICK i \in Ids : rows[i].here /\ copy'[t].id = i
          BY <1>13 DEF TakeDoes, Took
    <2>2. /\ \A u \in Tasks : u # t => copy'[u] = copy[u]
          /\ UNCHANGED <<rows, nextId, home>>
          BY <1>13 DEF TakeDoes, Copies
    <2> QED BY <2>1, <2>2
  <1>14. ASSUME NEW t \in Tasks, CreateDoes(t) PROVE IdsBelow'
    <2>1. nextId \in Nat /\ nextId' = nextId + 1 /\ UNCHANGED <<copy, home>>
          BY <1>14 DEF CreateDoes, Inserted
    <2>2. \A i \in Ids : i \in Nat /\ (rows'[i].here => i < nextId \/ i = nextId)
          BY <1>14 DEF CreateDoes, Inserted
    <2>3. \A u \in Tasks : /\ copy[u].id \in Nat /\ home[u] \in Nat
                            /\ copy[u].id < nextId /\ home[u] < nextId
          BY SMTT(20)
    <2>4. \A i \in Nat : i < nextId \/ i = nextId => i < nextId'
          BY <2>1
    <2>5. \A i \in Ids : rows'[i].here => i < nextId'
          BY <2>2, <2>4
    <2>6. \A u \in Tasks : copy'[u].id < nextId' /\ home'[u] < nextId'
          BY <2>1, <2>3, <2>4
    <2> QED BY <2>5, <2>6
  <1>15. ASSUME NEW t \in Tasks, SetDoes(t) PROVE IdsBelow'
        BY <1>15 DEF SetDoes, Moved, Points
  <1>16. ASSUME NEW t \in Tasks, AppendDoes(t) PROVE IdsBelow'
        BY <1>16 DEF AppendDoes, Copies, Moved, Wrote
  <1>17. ASSUME NEW t \in Tasks, GetDoes(t) PROVE IdsBelow'
        BY <1>17 DEF GetDoes, Moved
  <1>18. ASSUME NEW t \in Tasks, PutDoes(t) PROVE IdsBelow'
        BY <1>18 DEF PutDoes, Moved, Kept, Fetching
  <1>19. ASSUME NEW t \in Tasks, RegisterDoes(t) PROVE IdsBelow'
        BY <1>19 DEF RegisterDoes, Moved
  <1>20. ASSUME NEW t \in Tasks, WriteDoes(t) PROVE IdsBelow'
        BY <1>20 DEF WriteDoes, Wrote
  <1>21. ASSUME NEW t \in Tasks, KeepsDoes(t) PROVE IdsBelow'
        BY <1>21 DEF KeepsDoes, Moved, Kept
  <1>22. ASSUME NEW t \in Tasks, EndDoes(t) PROVE IdsBelow'
    <2>1. /\ copy'[t].id = 0 /\ \A u \in Tasks : u # t => copy'[u] = copy[u]
          /\ UNCHANGED <<rows, nextId, home>>
          BY <1>22 DEF EndDoes, Copies
    <2>2. 0 < nextId
          OBVIOUS
    <2> QED BY <2>1, <2>2
  <1>23. CASE UNCHANGED vars
        BY <1>23 DEF vars
  <1> HIDE DEF IInv, TypeOK, tables, states, handles, history, IdsBelow, Ids, CopyType,
              NoCopy, Hands, Loaded
  <1> QED BY <1>1, <1>2, <1>3, <1>4, <1>5, <1>6, <1>7, <1>8, <1>9, <1>10, <1>11, <1>12,
             <1>13, <1>14, <1>15, <1>16, <1>17, <1>18, <1>19, <1>20, <1>21, <1>22, <1>23 DEF
             StepDoes, HandleDoes

\* UNIQUE(chat_id, name).
LEMMA NamesStep == IInv /\ StepDoes => NamesUnique'
  <1> SUFFICES ASSUME IInv, StepDoes PROVE NamesUnique'
      OBVIOUS
  <1> USE DEF IInv, TypeOK, tables, states, handles, history, NamesUnique, Present, RowType
  <1>1. CASE InsertDoes
        BY <1>1 DEF InsertDoes, Begun, Begins, Inserted, Goal
  <1>2. CASE StartDoes
        BY <1>2 DEF StartDoes, Begun, Begins, Goal
  <1>3. CASE DeleteDoes
        BY <1>3 DEF DeleteDoes, Begun, Begins, Goal
  <1>4. CASE UpsertDoes
        BY <1>4 DEF UpsertDoes, Goal
  <1>5. CASE RenameDoes
    <2>1. CASE rows' = rows
          BY <2>1
    <2>2. ASSUME NEW n \in Names, NEW k \in Ids, RenamedTo(n, k) PROVE NamesUnique'
      <3>1. \A i \in Present' : i \in Present
            BY <2>2 DEF RenamedTo
      <3>2. SUFFICES ASSUME NEW i \in Present', NEW j \in Present', rows'[i].name = rows'[j].name
                     PROVE  i = j
            OBVIOUS
      <3>3. CASE i # k /\ j # k
            BY <2>2, <3>1, <3>2, <3>3 DEF RenamedTo
      <3>4. CASE i = k /\ j # k
            BY <2>2, <3>1, <3>2, <3>4 DEF RenamedTo
      <3>5. CASE i # k /\ j = k
            BY <2>2, <3>1, <3>2, <3>5 DEF RenamedTo
      <3> QED BY <3>3, <3>4, <3>5
    <2> QED BY <1>5, <2>1, <2>2 DEF RenameDoes
  <1>6. CASE GoneDoes
        BY <1>6 DEF GoneDoes, Goal
  <1>7. CASE NewStateDoes
        BY <1>7 DEF NewStateDoes, Kept, Goal
  <1>8. CASE KeepDoes
        BY <1>8 DEF KeepDoes, Goal
  <1>9. CASE StoreDoes
        BY <1>9 DEF StoreDoes, Kept
  <1>10. CASE Crash
        BY <1>10 DEF Crash
  <1>11. ASSUME NEW t \in Tasks, DispatchDoes(t) PROVE NamesUnique'
        BY <1>11 DEF DispatchDoes, Moved
  <1>12. ASSUME NEW t \in Tasks, WalkDoes(t) PROVE NamesUnique'
        BY <1>12 DEF WalkDoes, Moved, Points
  <1>13. ASSUME NEW t \in Tasks, TakeDoes(t) PROVE NamesUnique'
        BY <1>13 DEF TakeDoes, Took, Copies, Moved, Points
  <1>14. ASSUME NEW t \in Tasks, CreateDoes(t) PROVE NamesUnique'
        BY <1>14 DEF CreateDoes, Moved, Inserted
  <1>15. ASSUME NEW t \in Tasks, SetDoes(t) PROVE NamesUnique'
        BY <1>15 DEF SetDoes, Moved, Points
  <1>16. ASSUME NEW t \in Tasks, AppendDoes(t) PROVE NamesUnique'
        BY <1>16 DEF AppendDoes, Copies, Moved, Wrote
  <1>17. ASSUME NEW t \in Tasks, GetDoes(t) PROVE NamesUnique'
        BY <1>17 DEF GetDoes, Moved
  <1>18. ASSUME NEW t \in Tasks, PutDoes(t) PROVE NamesUnique'
        BY <1>18 DEF PutDoes, Moved, Kept, Fetching
  <1>19. ASSUME NEW t \in Tasks, RegisterDoes(t) PROVE NamesUnique'
        BY <1>19 DEF RegisterDoes, Moved
  <1>20. ASSUME NEW t \in Tasks, WriteDoes(t) PROVE NamesUnique'
        BY <1>20 DEF WriteDoes, Wrote
  <1>21. ASSUME NEW t \in Tasks, KeepsDoes(t) PROVE NamesUnique'
        BY <1>21 DEF KeepsDoes, Moved, Kept
  <1>22. ASSUME NEW t \in Tasks, EndDoes(t) PROVE NamesUnique'
        BY <1>22 DEF EndDoes, Copies, Moved, Kept
  <1>23. CASE UNCHANGED vars
        BY <1>23 DEF vars
  <1> HIDE DEF IInv, TypeOK, tables, states, handles, history, NamesUnique, Present, RowType
  <1> QED BY <1>1, <1>2, <1>3, <1>4, <1>5, <1>6, <1>7, <1>8, <1>9, <1>10, <1>11, <1>12,
             <1>13, <1>14, <1>15, <1>16, <1>17, <1>18, <1>19, <1>20, <1>21, <1>22, <1>23 DEF
             StepDoes, HandleDoes

\* A command finds what it looked up: no rename and no insert meets the row that is
\* being deleted, and nobody else deletes one.
LEMMA CmdStep == IInv /\ StepDoes => CmdShape'
  <1> SUFFICES ASSUME IInv, StepDoes PROVE CmdShape'
      OBVIOUS
  <1> USE DEF IInv, TypeOK, tables, states, handles, history, CmdShape, LookedUp, Idle,
             NoCmd, Resetting, Ids, Refs, RowType, CmdType
  <1>1. CASE InsertDoes
        BY <1>1 DEF InsertDoes, Begun, Begins, Inserted, Goal
  <1>2. CASE StartDoes
        BY <1>2 DEF StartDoes, Begun, Begins, Goal
  <1>3. CASE DeleteDoes
        BY <1>3 DEF DeleteDoes, Begun, Begins, Goal
  <1>4. CASE UpsertDoes
        BY <1>4 DEF UpsertDoes, Goal
  <1>5. CASE RenameDoes
        BY <1>5 DEF RenameDoes, RenamedTo
  <1>6. CASE GoneDoes
        BY <1>6 DEF GoneDoes, Goal
  <1>7. CASE NewStateDoes
        BY <1>7 DEF NewStateDoes, Kept, Goal
  <1>8. CASE KeepDoes
        BY <1>8 DEF KeepDoes, Goal
  <1>9. CASE StoreDoes
        BY <1>9 DEF StoreDoes, Kept
  <1>10. CASE Crash
        BY <1>10 DEF Crash
  <1>11. ASSUME NEW t \in Tasks, DispatchDoes(t) PROVE CmdShape'
        BY <1>11 DEF DispatchDoes, Moved
  <1>12. ASSUME NEW t \in Tasks, WalkDoes(t) PROVE CmdShape'
        BY <1>12 DEF WalkDoes, Moved, Points
  <1>13. ASSUME NEW t \in Tasks, TakeDoes(t) PROVE CmdShape'
        BY <1>13 DEF TakeDoes, Took, Copies, Moved, Points
  <1>14. ASSUME NEW t \in Tasks, CreateDoes(t) PROVE CmdShape'
        BY <1>14 DEF CreateDoes, Moved, Inserted
  <1>15. ASSUME NEW t \in Tasks, SetDoes(t) PROVE CmdShape'
        BY <1>15 DEF SetDoes, Moved, Points
  <1>16. ASSUME NEW t \in Tasks, AppendDoes(t) PROVE CmdShape'
        BY <1>16 DEF AppendDoes, Copies, Moved, Wrote
  <1>17. ASSUME NEW t \in Tasks, GetDoes(t) PROVE CmdShape'
        BY <1>17 DEF GetDoes, Moved
  <1>18. ASSUME NEW t \in Tasks, PutDoes(t) PROVE CmdShape'
        BY <1>18 DEF PutDoes, Moved, Kept, Fetching
  <1>19. ASSUME NEW t \in Tasks, RegisterDoes(t) PROVE CmdShape'
        BY <1>19 DEF RegisterDoes, Moved
  <1>20. ASSUME NEW t \in Tasks, WriteDoes(t) PROVE CmdShape'
        BY <1>20 DEF WriteDoes, Wrote
  <1>21. ASSUME NEW t \in Tasks, KeepsDoes(t) PROVE CmdShape'
        BY <1>21 DEF KeepsDoes, Moved, Kept
  <1>22. ASSUME NEW t \in Tasks, EndDoes(t) PROVE CmdShape'
        BY <1>22 DEF EndDoes, Copies, Moved, Kept
  <1>23. CASE UNCHANGED vars
        BY <1>23 DEF vars
  <1> HIDE DEF IInv, TypeOK, tables, states, handles, history, CmdShape, LookedUp, Idle,
              NoCmd, Resetting, Ids, Refs, RowType, CmdType
  <1> QED BY <1>1, <1>2, <1>3, <1>4, <1>5, <1>6, <1>7, <1>8, <1>9, <1>10, <1>11, <1>12,
             <1>13, <1>14, <1>15, <1>16, <1>17, <1>18, <1>19, <1>20, <1>21, <1>22, <1>23 DEF
             StepDoes, HandleDoes

\* Only a delete removes a row, and one that begins after a Handle looked it up is late.
LEMMA LookedUpStep == IInv /\ StepDoes => LookedUp'
  <1> SUFFICES ASSUME IInv, StepDoes PROVE LookedUp'
      OBVIOUS
  <1> USE DEF IInv, TypeOK, tables, states, handles, history, LookedUp, CmdShape, Hands,
             Idle, NoCmd, Called, Present, Ids, Loading, Loaded, Ended, RowType
  <1>1. CASE InsertDoes
        BY <1>1 DEF InsertDoes, Begun, Begins, Inserted, Goal
  <1>2. CASE StartDoes
        BY <1>2 DEF StartDoes, Begun, Begins, Goal
  <1>3. CASE DeleteDoes
        BY <1>3 DEF DeleteDoes, Begun, Begins, Goal
  <1>4. CASE UpsertDoes
        BY <1>4 DEF UpsertDoes, Goal
  <1>5. CASE RenameDoes
        BY <1>5 DEF RenameDoes, RenamedTo
  <1>6. CASE GoneDoes
        BY <1>6 DEF GoneDoes, Goal
  <1>7. CASE NewStateDoes
        BY <1>7 DEF NewStateDoes, Kept, Goal
  <1>8. CASE KeepDoes
        BY <1>8 DEF KeepDoes, Goal
  <1>9. CASE StoreDoes
        BY <1>9 DEF StoreDoes, Kept
  <1>10. CASE Crash
        BY <1>10 DEF Crash
  <1>11. ASSUME NEW t \in Tasks, DispatchDoes(t) PROVE LookedUp'
        BY <1>11 DEF DispatchDoes, Moved
  <1>12. ASSUME NEW t \in Tasks, WalkDoes(t) PROVE LookedUp'
    <2>1. /\ \A u \in Tasks : pc'[u] = "upsert" => \/ pc[u] = "upsert" /\ ptr'[u] = ptr[u]
                                                 \/ ptr'[u] \in Called(Default)
          /\ UNCHANGED <<rows, cmd, late>>
          BY <1>12 DEF WalkDoes, Moved, Points
    <2>2. \A i \in Called(Default) : rows[i].here /\ (cmd.op = "delete" => i # cmd.id)
          OBVIOUS
    <2> QED BY <2>1, <2>2
  <1>13. ASSUME NEW t \in Tasks, TakeDoes(t) PROVE LookedUp'
    <2>1. /\ \A u \in Tasks : pc'[u] = "upsert" => pc[u] = "upsert" /\ ptr'[u] = ptr[u]
          /\ UNCHANGED <<rows, cmd, late>>
          BY <1>13 DEF TakeDoes, Moved, Points
    <2> QED BY <2>1
  <1>14. ASSUME NEW t \in Tasks, CreateDoes(t) PROVE LookedUp'
        BY <1>14 DEF CreateDoes, Moved, Inserted
  <1>15. ASSUME NEW t \in Tasks, SetDoes(t) PROVE LookedUp'
    <2>1. /\ \A u \in Tasks : pc'[u] = "upsert" => pc[u] = "upsert" /\ ptr'[u] = ptr[u]
          /\ UNCHANGED <<rows, cmd, late>>
          BY <1>15 DEF SetDoes, Moved, Points
    <2> QED BY <2>1
  <1>16. ASSUME NEW t \in Tasks, AppendDoes(t) PROVE LookedUp'
        BY <1>16 DEF AppendDoes, Copies, Moved, Wrote
  <1>17. ASSUME NEW t \in Tasks, GetDoes(t) PROVE LookedUp'
        BY <1>17 DEF GetDoes, Moved
  <1>18. ASSUME NEW t \in Tasks, PutDoes(t) PROVE LookedUp'
        BY <1>18 DEF PutDoes, Moved, Kept, Fetching
  <1>19. ASSUME NEW t \in Tasks, RegisterDoes(t) PROVE LookedUp'
        BY <1>19 DEF RegisterDoes, Moved
  <1>20. ASSUME NEW t \in Tasks, WriteDoes(t) PROVE LookedUp'
        BY <1>20 DEF WriteDoes, Wrote
  <1>21. ASSUME NEW t \in Tasks, KeepsDoes(t) PROVE LookedUp'
        BY <1>21 DEF KeepsDoes, Moved, Kept
  <1>22. ASSUME NEW t \in Tasks, EndDoes(t) PROVE LookedUp'
        BY <1>22 DEF EndDoes, Copies, Moved, Kept
  <1>23. CASE UNCHANGED vars
        BY <1>23 DEF vars
  <1> HIDE DEF IInv, TypeOK, tables, states, handles, history, LookedUp, CmdShape, Hands,
              Idle, NoCmd, Called, Present, Ids, Loading, Loaded, Ended, RowType
  <1> QED BY <1>1, <1>2, <1>3, <1>4, <1>5, <1>6, <1>7, <1>8, <1>9, <1>10, <1>11, <1>12,
             <1>13, <1>14, <1>15, <1>16, <1>17, <1>18, <1>19, <1>20, <1>21, <1>22, <1>23 DEF
             StepDoes, HandleDoes

\* A second text during a Handle is remembered ...
LEMMA AloneStep == IInv /\ StepDoes => Alone'
  <1> SUFFICES ASSUME IInv, StepDoes PROVE Alone'
      OBVIOUS
  <1> USE DEF IInv, Alone, Quiet, InProgress, Ended, Loading, Loaded, TypeOK, tables, states,
             handles, history
  <1>1. CASE InsertDoes
        BY <1>1 DEF InsertDoes, Begun, Begins, Inserted, Goal
  <1>2. CASE StartDoes
        BY <1>2 DEF StartDoes, Begun, Begins, Goal
  <1>3. CASE DeleteDoes
        BY <1>3 DEF DeleteDoes, Begun, Begins, Goal
  <1>4. CASE UpsertDoes
        BY <1>4 DEF UpsertDoes, Goal
  <1>5. CASE RenameDoes
        BY <1>5 DEF RenameDoes, RenamedTo
  <1>6. CASE GoneDoes
        BY <1>6 DEF GoneDoes, Goal
  <1>7. CASE NewStateDoes
        BY <1>7 DEF NewStateDoes, Kept, Goal
  <1>8. CASE KeepDoes
        BY <1>8 DEF KeepDoes, Goal
  <1>9. CASE StoreDoes
        BY <1>9 DEF StoreDoes, Kept
  <1>10. CASE Crash
        BY <1>10 DEF Crash
  <1>11. ASSUME NEW t \in Tasks, DispatchDoes(t) PROVE Alone'
        BY <1>11 DEF DispatchDoes, Moved
  <1>12. ASSUME NEW t \in Tasks, WalkDoes(t) PROVE Alone'
        BY <1>12 DEF WalkDoes, Moved, Points
  <1>13. ASSUME NEW t \in Tasks, TakeDoes(t) PROVE Alone'
        BY <1>13 DEF TakeDoes, Took, Copies, Moved, Points
  <1>14. ASSUME NEW t \in Tasks, CreateDoes(t) PROVE Alone'
        BY <1>14 DEF CreateDoes, Moved, Inserted
  <1>15. ASSUME NEW t \in Tasks, SetDoes(t) PROVE Alone'
        BY <1>15 DEF SetDoes, Moved, Points
  <1>16. ASSUME NEW t \in Tasks, AppendDoes(t) PROVE Alone'
        BY <1>16 DEF AppendDoes, Copies, Moved, Wrote
  <1>17. ASSUME NEW t \in Tasks, GetDoes(t) PROVE Alone'
        BY <1>17 DEF GetDoes, Moved
  <1>18. ASSUME NEW t \in Tasks, PutDoes(t) PROVE Alone'
        BY <1>18 DEF PutDoes, Moved, Kept, Fetching
  <1>19. ASSUME NEW t \in Tasks, RegisterDoes(t) PROVE Alone'
        BY <1>19 DEF RegisterDoes, Moved
  <1>20. ASSUME NEW t \in Tasks, WriteDoes(t) PROVE Alone'
        BY <1>20 DEF WriteDoes, Wrote
  <1>21. ASSUME NEW t \in Tasks, KeepsDoes(t) PROVE Alone'
        BY <1>21 DEF KeepsDoes, Moved, Kept
  <1>22. ASSUME NEW t \in Tasks, EndDoes(t) PROVE Alone'
        BY <1>22 DEF EndDoes, Copies, Moved, Kept
  <1>23. CASE UNCHANGED vars
        BY <1>23 DEF vars
  <1> HIDE DEF IInv, Alone, Quiet, InProgress, Ended, Loading, Loaded, TypeOK, tables,
              states, handles, history
  <1> QED BY <1>1, <1>2, <1>3, <1>4, <1>5, <1>6, <1>7, <1>8, <1>9, <1>10, <1>11, <1>12,
             <1>13, <1>14, <1>15, <1>16, <1>17, <1>18, <1>19, <1>20, <1>21, <1>22, <1>23 DEF
             StepDoes, HandleDoes

\* ... and a command during one.
LEMMA UncrossedStep == IInv /\ StepDoes => Uncrossed'
  <1> SUFFICES ASSUME IInv, StepDoes PROVE Uncrossed'
      OBVIOUS
  <1> USE DEF IInv, Uncrossed, Quiet, InProgress, Ended, Loading, Loaded, Idle, NoCmd, Free,
             TypeOK, tables, states, handles, history
  <1>1. CASE InsertDoes
        BY <1>1 DEF InsertDoes, Begun, Begins, Inserted, Goal
  <1>2. CASE StartDoes
        BY <1>2 DEF StartDoes, Begun, Begins, Goal
  <1>3. CASE DeleteDoes
        BY <1>3 DEF DeleteDoes, Begun, Begins, Goal
  <1>4. CASE UpsertDoes
        BY <1>4 DEF UpsertDoes, Goal
  <1>5. CASE RenameDoes
        BY <1>5 DEF RenameDoes, RenamedTo
  <1>6. CASE GoneDoes
        BY <1>6 DEF GoneDoes, Goal
  <1>7. CASE NewStateDoes
    <2>1. Uncrossed
          OBVIOUS
    <2> HIDE DEF Quiet, Idle, Uncrossed, IInv
    <2> QED BY <1>7, <2>1, ResetMeets DEF Uncrossed
  <1>8. CASE KeepDoes
        BY <1>8 DEF KeepDoes, Goal
  <1>9. CASE StoreDoes
        BY <1>9 DEF StoreDoes, Kept
  <1>10. CASE Crash
        BY <1>10 DEF Crash
  <1>11. ASSUME NEW t \in Tasks, DispatchDoes(t) PROVE Uncrossed'
        BY <1>11 DEF DispatchDoes, Moved
  <1>12. ASSUME NEW t \in Tasks, WalkDoes(t) PROVE Uncrossed'
        BY <1>12 DEF WalkDoes, Moved, Points
  <1>13. ASSUME NEW t \in Tasks, TakeDoes(t) PROVE Uncrossed'
        BY <1>13 DEF TakeDoes, Took, Copies, Moved, Points
  <1>14. ASSUME NEW t \in Tasks, CreateDoes(t) PROVE Uncrossed'
        BY <1>14 DEF CreateDoes, Moved, Inserted
  <1>15. ASSUME NEW t \in Tasks, SetDoes(t) PROVE Uncrossed'
        BY <1>15 DEF SetDoes, Moved, Points
  <1>16. ASSUME NEW t \in Tasks, AppendDoes(t) PROVE Uncrossed'
        BY <1>16 DEF AppendDoes, Copies, Moved, Wrote
  <1>17. ASSUME NEW t \in Tasks, GetDoes(t) PROVE Uncrossed'
        BY <1>17 DEF GetDoes, Moved
  <1>18. ASSUME NEW t \in Tasks, PutDoes(t) PROVE Uncrossed'
        BY <1>18 DEF PutDoes, Moved, Kept, Fetching
  <1>19. ASSUME NEW t \in Tasks, RegisterDoes(t) PROVE Uncrossed'
        BY <1>19 DEF RegisterDoes, Moved
  <1>20. ASSUME NEW t \in Tasks, WriteDoes(t) PROVE Uncrossed'
        BY <1>20 DEF WriteDoes, Wrote
  <1>21. ASSUME NEW t \in Tasks, KeepsDoes(t) PROVE Uncrossed'
        BY <1>21 DEF KeepsDoes, Moved, Kept
  <1>22. ASSUME NEW t \in Tasks, EndDoes(t) PROVE Uncrossed'
        BY <1>22 DEF EndDoes, Copies, Moved, Kept
  <1>23. CASE UNCHANGED vars
        BY <1>23 DEF vars
  <1> HIDE DEF IInv, Uncrossed, Quiet, InProgress, Ended, Loading, Loaded, Idle, NoCmd, Free,
              TypeOK, tables, states, handles, history
  <1> QED BY <1>1, <1>2, <1>3, <1>4, <1>5, <1>6, <1>7, <1>8, <1>9, <1>10, <1>11, <1>12,
             <1>13, <1>14, <1>15, <1>16, <1>17, <1>18, <1>19, <1>20, <1>21, <1>22, <1>23 DEF
             StepDoes, HandleDoes

\* A delete has moved the pointer away, and no one else points to what was deleted.
LEMMA ActiveStep == IInv /\ StepDoes => ActiveExists'
  <1> SUFFICES ASSUME IInv, StepDoes PROVE ActiveExists'
      OBVIOUS
  <1> USE DEF IInv, TypeOK, tables, states, handles, history, ActiveExists, CmdShape,
             LookedUp, Ids, RowType, NoCmd, Idle
  <1>1. CASE InsertDoes
        BY <1>1 DEF InsertDoes, Begun, Begins, Inserted, Goal
  <1>2. CASE StartDoes
        BY <1>2 DEF StartDoes, Begun, Begins, Goal
  <1>3. CASE DeleteDoes
        BY <1>3 DEF DeleteDoes, Begun, Begins, Goal
  <1>4. CASE UpsertDoes
        BY <1>4 DEF UpsertDoes, Goal
  <1>5. CASE RenameDoes
        BY <1>5 DEF RenameDoes, RenamedTo
  <1>6. CASE GoneDoes
        BY <1>6 DEF GoneDoes, Goal
  <1>7. CASE NewStateDoes
        BY <1>7 DEF NewStateDoes, Kept, Goal
  <1>8. CASE KeepDoes
        BY <1>8 DEF KeepDoes, Goal
  <1>9. CASE StoreDoes
        BY <1>9 DEF StoreDoes, Kept
  <1>10. CASE Crash
        BY <1>10 DEF Crash
  <1>11. ASSUME NEW t \in Tasks, DispatchDoes(t) PROVE ActiveExists'
        BY <1>11 DEF DispatchDoes, Moved
  <1>12. ASSUME NEW t \in Tasks, WalkDoes(t) PROVE ActiveExists'
        BY <1>12 DEF WalkDoes, Moved, Points
  <1>13. ASSUME NEW t \in Tasks, TakeDoes(t) PROVE ActiveExists'
        BY <1>13 DEF TakeDoes, Took, Copies, Moved, Points
  <1>14. ASSUME NEW t \in Tasks, CreateDoes(t) PROVE ActiveExists'
        BY <1>14 DEF CreateDoes, Moved, Inserted
  <1>15. ASSUME NEW t \in Tasks, SetDoes(t) PROVE ActiveExists'
        BY <1>15 DEF SetDoes, Moved, Points
  <1>16. ASSUME NEW t \in Tasks, AppendDoes(t) PROVE ActiveExists'
        BY <1>16 DEF AppendDoes, Copies, Moved, Wrote
  <1>17. ASSUME NEW t \in Tasks, GetDoes(t) PROVE ActiveExists'
        BY <1>17 DEF GetDoes, Moved
  <1>18. ASSUME NEW t \in Tasks, PutDoes(t) PROVE ActiveExists'
        BY <1>18 DEF PutDoes, Moved, Kept, Fetching
  <1>19. ASSUME NEW t \in Tasks, RegisterDoes(t) PROVE ActiveExists'
        BY <1>19 DEF RegisterDoes, Moved
  <1>20. ASSUME NEW t \in Tasks, WriteDoes(t) PROVE ActiveExists'
        BY <1>20 DEF WriteDoes, Wrote
  <1>21. ASSUME NEW t \in Tasks, KeepsDoes(t) PROVE ActiveExists'
        BY <1>21 DEF KeepsDoes, Moved, Kept
  <1>22. ASSUME NEW t \in Tasks, EndDoes(t) PROVE ActiveExists'
        BY <1>22 DEF EndDoes, Copies, Moved, Kept
  <1>23. CASE UNCHANGED vars
        BY <1>23 DEF vars
  <1> HIDE DEF IInv, TypeOK, tables, states, handles, history, ActiveExists, CmdShape,
              LookedUp, Ids, RowType, NoCmd, Idle
  <1> QED BY <1>1, <1>2, <1>3, <1>4, <1>5, <1>6, <1>7, <1>8, <1>9, <1>10, <1>11, <1>12,
             <1>13, <1>14, <1>15, <1>16, <1>17, <1>18, <1>19, <1>20, <1>21, <1>22, <1>23 DEF
             StepDoes, HandleDoes

\* Nobody else writes the row of a Handle that is alone.
LEMMA CopyStep == IInv /\ StepDoes => CopyIsRow'
  <1> SUFFICES ASSUME IInv, StepDoes PROVE CopyIsRow'
      OBVIOUS
  <1> USE DEF IInv, TypeOK, tables, states, handles, history, CopyIsRow, Alone, InProgress,
             Hands, IdsBelow, Ids, Ended, Loading, Loaded, RowType, CopyType
  <1>1. CASE InsertDoes
        BY <1>1 DEF InsertDoes, Begun, Begins, Inserted, Goal
  <1>2. CASE StartDoes
        BY <1>2 DEF StartDoes, Begun, Begins, Goal
  <1>3. CASE DeleteDoes
        BY <1>3 DEF DeleteDoes, Begun, Begins, Goal
  <1>4. CASE UpsertDoes
        BY <1>4 DEF UpsertDoes, Goal
  <1>5. CASE RenameDoes
        BY <1>5 DEF RenameDoes, RenamedTo
  <1>6. CASE GoneDoes
        BY <1>6 DEF GoneDoes, Goal
  <1>7. CASE NewStateDoes
        BY <1>7 DEF NewStateDoes, Kept, Goal
  <1>8. CASE KeepDoes
        BY <1>8 DEF KeepDoes, Goal
  <1>9. CASE StoreDoes
        BY <1>9 DEF StoreDoes, Kept
  <1>10. CASE Crash
        BY <1>10 DEF Crash
  <1>11. ASSUME NEW t \in Tasks, DispatchDoes(t) PROVE CopyIsRow'
        BY <1>11 DEF DispatchDoes, Moved
  <1>12. ASSUME NEW t \in Tasks, WalkDoes(t) PROVE CopyIsRow'
        BY <1>12 DEF WalkDoes, Moved, Points
  <1>13. ASSUME NEW t \in Tasks, TakeDoes(t) PROVE CopyIsRow'
        BY <1>13, SMTT(20) DEF TakeDoes, Took, Copies, Moved, Points
  <1>14. ASSUME NEW t \in Tasks, CreateDoes(t) PROVE CopyIsRow'
        BY <1>14 DEF CreateDoes, Moved, Inserted
  <1>15. ASSUME NEW t \in Tasks, SetDoes(t) PROVE CopyIsRow'
        BY <1>15 DEF SetDoes, Moved, Points
  <1>16. ASSUME NEW t \in Tasks, AppendDoes(t) PROVE CopyIsRow'
    <2>1. /\ Wrote(copy[t].id, copy[t].texts \union {t}) /\ UNCHANGED doubled /\ pc[t] = "loaded"
          /\ copy'[t].id = copy[t].id /\ copy'[t].texts = copy[t].texts \union {t}
          /\ \A u \in Tasks : u # t => pc'[u] = pc[u]
          BY <1>16 DEF AppendDoes, Moved
    <2>2. SUFFICES ASSUME ~doubled, NEW u \in Tasks, pc'[u] \in Loaded, rows'[copy'[u].id].here
                   PROVE  copy'[u].texts = rows'[copy'[u].id].texts
          BY <2>1
    <2>3. u = t
          BY <2>1, <2>2
    <2>4. rows[copy[t].id].here
          BY <2>1, <2>2, <2>3 DEF Wrote
    <2> QED BY <2>1, <2>3, <2>4 DEF Wrote
  <1>17. ASSUME NEW t \in Tasks, GetDoes(t) PROVE CopyIsRow'
        BY <1>17 DEF GetDoes, Moved
  <1>18. ASSUME NEW t \in Tasks, PutDoes(t) PROVE CopyIsRow'
        BY <1>18 DEF PutDoes, Moved, Kept, Fetching
  <1>19. ASSUME NEW t \in Tasks, RegisterDoes(t) PROVE CopyIsRow'
        BY <1>19 DEF RegisterDoes, Moved
  <1>20. ASSUME NEW t \in Tasks, WriteDoes(t) PROVE CopyIsRow'
    <2>1. Wrote(copy[t].id, copy[t].texts) /\ UNCHANGED <<handles, history>> /\ pc[t] = "running"
          BY <1>20 DEF WriteDoes
    <2>2. SUFFICES ASSUME ~doubled, NEW u \in Tasks, pc[u] \in Loaded, rows'[copy[u].id].here
                   PROVE  copy[u].texts = rows'[copy[u].id].texts
          BY <2>1
    <2>3. u = t
          BY <2>1, <2>2
    <2>4. rows[copy[t].id].here
          BY <2>1, <2>2, <2>3 DEF Wrote
    <2> QED BY <2>1, <2>3, <2>4 DEF Wrote
  <1>21. ASSUME NEW t \in Tasks, KeepsDoes(t) PROVE CopyIsRow'
        BY <1>21 DEF KeepsDoes, Moved, Kept
  <1>22. ASSUME NEW t \in Tasks, EndDoes(t) PROVE CopyIsRow'
        BY <1>22 DEF EndDoes, Copies, Moved, Kept
  <1>23. CASE UNCHANGED vars
        BY <1>23 DEF vars
  <1> HIDE DEF IInv, TypeOK, tables, states, handles, history, CopyIsRow, Alone, InProgress,
              Hands, IdsBelow, Ids, Ended, Loading, Loaded, RowType, CopyType
  <1> QED BY <1>1, <1>2, <1>3, <1>4, <1>5, <1>6, <1>7, <1>8, <1>9, <1>10, <1>11, <1>12,
             <1>13, <1>14, <1>15, <1>16, <1>17, <1>18, <1>19, <1>20, <1>21, <1>22, <1>23 DEF
             StepDoes, HandleDoes

\* So its writes keep the texts that are there.
LEMMA TextsStep == IInv /\ StepDoes => TextsKept'
  <1> SUFFICES ASSUME IInv, StepDoes PROVE TextsKept'
      OBVIOUS
  <1> USE DEF IInv, TypeOK, tables, states, handles, history, TextsKept, CopyIsRow, Hands,
             IdsBelow, Ids, Ended, Loading, Loaded, RowType, CopyType
  <1>1. CASE InsertDoes
        BY <1>1 DEF InsertDoes, Begun, Begins, Inserted, Goal
  <1>2. CASE StartDoes
        BY <1>2 DEF StartDoes, Begun, Begins, Goal
  <1>3. CASE DeleteDoes
        BY <1>3 DEF DeleteDoes, Begun, Begins, Goal
  <1>4. CASE UpsertDoes
        BY <1>4 DEF UpsertDoes, Goal
  <1>5. CASE RenameDoes
        BY <1>5 DEF RenameDoes, RenamedTo
  <1>6. CASE GoneDoes
        BY <1>6 DEF GoneDoes, Goal
  <1>7. CASE NewStateDoes
        BY <1>7 DEF NewStateDoes, Kept, Goal
  <1>8. CASE KeepDoes
        BY <1>8 DEF KeepDoes, Goal
  <1>9. CASE StoreDoes
        BY <1>9 DEF StoreDoes, Kept
  <1>10. CASE Crash
        BY <1>10 DEF Crash
  <1>11. ASSUME NEW t \in Tasks, DispatchDoes(t) PROVE TextsKept'
        BY <1>11 DEF DispatchDoes, Moved
  <1>12. ASSUME NEW t \in Tasks, WalkDoes(t) PROVE TextsKept'
        BY <1>12 DEF WalkDoes, Moved, Points
  <1>13. ASSUME NEW t \in Tasks, TakeDoes(t) PROVE TextsKept'
        BY <1>13 DEF TakeDoes, Took, Copies, Moved, Points
  <1>14. ASSUME NEW t \in Tasks, CreateDoes(t) PROVE TextsKept'
        BY <1>14 DEF CreateDoes, Moved, Inserted
  <1>15. ASSUME NEW t \in Tasks, SetDoes(t) PROVE TextsKept'
        BY <1>15 DEF SetDoes, Moved, Points
  <1>16. ASSUME NEW t \in Tasks, AppendDoes(t) PROVE TextsKept'
    <2>1. /\ Wrote(copy[t].id, copy[t].texts \union {t}) /\ UNCHANGED doubled /\ pc[t] = "loaded"
          /\ home'[t] = copy[t].id /\ home' \in [Tasks -> Ids \union {0}]
          /\ \A u \in Tasks : u # t => home'[u] = home[u]
          BY <1>16 DEF AppendDoes
    <2>2. SUFFICES ASSUME ~doubled, NEW u \in Tasks, home'[u] # 0, rows'[home'[u]].here
                   PROVE  u \in rows'[home'[u]].texts
          BY <2>1
    <2>3. home'[u] \in Ids /\ rows[home'[u]].here
          BY <2>1, <2>2 DEF Wrote
    <2>4. u = t \/ u \in rows[home'[u]].texts
          BY <2>1, <2>2, <2>3
    <2>5. CASE home'[u] = copy[t].id
          BY <2>1, <2>2, <2>3, <2>4, <2>5 DEF Wrote
    <2>6. CASE home'[u] # copy[t].id
          BY <2>1, <2>3, <2>4, <2>6 DEF Wrote
    <2> QED BY <2>5, <2>6
  <1>17. ASSUME NEW t \in Tasks, GetDoes(t) PROVE TextsKept'
        BY <1>17 DEF GetDoes, Moved
  <1>18. ASSUME NEW t \in Tasks, PutDoes(t) PROVE TextsKept'
        BY <1>18 DEF PutDoes, Moved, Kept, Fetching
  <1>19. ASSUME NEW t \in Tasks, RegisterDoes(t) PROVE TextsKept'
        BY <1>19 DEF RegisterDoes, Moved
  <1>20. ASSUME NEW t \in Tasks, WriteDoes(t) PROVE TextsKept'
    <2>1. Wrote(copy[t].id, copy[t].texts) /\ UNCHANGED <<handles, history>> /\ pc[t] = "running"
          BY <1>20 DEF WriteDoes
    <2>2. SUFFICES ASSUME ~doubled, NEW u \in Tasks, home[u] # 0, rows'[home[u]].here
                   PROVE  u \in rows'[home[u]].texts
          BY <2>1
    <2>3. home[u] \in Ids /\ rows[home[u]].here /\ u \in rows[home[u]].texts
          BY <2>1, <2>2 DEF Wrote
    <2>4. CASE home[u] = copy[t].id
          BY <2>1, <2>2, <2>3, <2>4 DEF Wrote
    <2>5. CASE home[u] # copy[t].id
          BY <2>1, <2>3, <2>5 DEF Wrote
    <2> QED BY <2>4, <2>5
  <1>21. ASSUME NEW t \in Tasks, KeepsDoes(t) PROVE TextsKept'
        BY <1>21 DEF KeepsDoes, Moved, Kept
  <1>22. ASSUME NEW t \in Tasks, EndDoes(t) PROVE TextsKept'
        BY <1>22 DEF EndDoes, Copies, Moved, Kept
  <1>23. CASE UNCHANGED vars
        BY <1>23 DEF vars
  <1> HIDE DEF IInv, TypeOK, tables, states, handles, history, TextsKept, CopyIsRow, Hands,
              IdsBelow, Ids, Ended, Loading, Loaded, RowType, CopyType
  <1> QED BY <1>1, <1>2, <1>3, <1>4, <1>5, <1>6, <1>7, <1>8, <1>9, <1>10, <1>11, <1>12,
             <1>13, <1>14, <1>15, <1>16, <1>17, <1>18, <1>19, <1>20, <1>21, <1>22, <1>23 DEF
             StepDoes, HandleDoes

\* Without a command the pointer stays, and its row.
LEMMA SettledStep == IInv /\ StepDoes => Settled'
  <1> SUFFICES ASSUME IInv, StepDoes PROVE Settled'
      OBVIOUS
  <1> USE DEF IInv, TypeOK, tables, states, handles, history, Settled, Uncrossed, Alone,
             ActiveExists, Quiet, InProgress, Hands, Ended, Loading, Loaded, Idle, NoCmd,
             Ids, Called, Present
  <1>1. CASE InsertDoes
        BY <1>1 DEF InsertDoes, Begun, Begins, Inserted, Goal
  <1>2. CASE StartDoes
        BY <1>2 DEF StartDoes, Begun, Begins, Goal
  <1>3. CASE DeleteDoes
        BY <1>3 DEF DeleteDoes, Begun, Begins, Goal
  <1>4. CASE UpsertDoes
        BY <1>4 DEF UpsertDoes, Goal
  <1>5. CASE RenameDoes
        BY <1>5 DEF RenameDoes, RenamedTo
  <1>6. CASE GoneDoes
        BY <1>6 DEF GoneDoes, Goal
  <1>7. CASE NewStateDoes
        BY <1>7 DEF NewStateDoes, Kept, Goal
  <1>8. CASE KeepDoes
        BY <1>8 DEF KeepDoes, Goal
  <1>9. CASE StoreDoes
        BY <1>9 DEF StoreDoes, Kept
  <1>10. CASE Crash
        BY <1>10 DEF Crash
  <1>11. ASSUME NEW t \in Tasks, DispatchDoes(t) PROVE Settled'
        BY <1>11 DEF DispatchDoes, Moved
  <1>12. ASSUME NEW t \in Tasks, WalkDoes(t) PROVE Settled'
        BY <1>12 DEF WalkDoes, Moved, Points
  <1>13. ASSUME NEW t \in Tasks, TakeDoes(t) PROVE Settled'
        BY <1>13, SMTT(20) DEF TakeDoes, Took, Copies, Moved, Points
  <1>14. ASSUME NEW t \in Tasks, CreateDoes(t) PROVE Settled'
        BY <1>14 DEF CreateDoes, Moved, Inserted
  <1>15. ASSUME NEW t \in Tasks, SetDoes(t) PROVE Settled'
    <2>1. /\ pc[t] = "upsert" /\ UNCHANGED <<history>> /\ pc'[t] = "default"
          /\ \A u \in Tasks : u # t => pc'[u] = pc[u]
          BY <1>15 DEF SetDoes, Moved
    <2>2. SUFFICES ASSUME ~crossed, ~doubled, NEW u \in Tasks, InProgress(u)', meant[u] # 0
                   PROVE  FALSE
          BY <2>1
    <2>3. u = t
          BY <2>1, <2>2
    <2> QED BY <2>1, <2>2, <2>3
  <1>16. ASSUME NEW t \in Tasks, AppendDoes(t) PROVE Settled'
        BY <1>16 DEF AppendDoes, Copies, Moved, Wrote
  <1>17. ASSUME NEW t \in Tasks, GetDoes(t) PROVE Settled'
        BY <1>17 DEF GetDoes, Moved
  <1>18. ASSUME NEW t \in Tasks, PutDoes(t) PROVE Settled'
        BY <1>18 DEF PutDoes, Moved, Kept, Fetching
  <1>19. ASSUME NEW t \in Tasks, RegisterDoes(t) PROVE Settled'
        BY <1>19 DEF RegisterDoes, Moved
  <1>20. ASSUME NEW t \in Tasks, WriteDoes(t) PROVE Settled'
        BY <1>20 DEF WriteDoes, Wrote
  <1>21. ASSUME NEW t \in Tasks, KeepsDoes(t) PROVE Settled'
        BY <1>21 DEF KeepsDoes, Moved, Kept
  <1>22. ASSUME NEW t \in Tasks, EndDoes(t) PROVE Settled'
        BY <1>22 DEF EndDoes, Copies, Moved, Kept
  <1>23. CASE UNCHANGED vars
        BY <1>23 DEF vars
  <1> HIDE DEF IInv, TypeOK, tables, states, handles, history, Settled, Uncrossed, Alone,
              ActiveExists, Quiet, InProgress, Hands, Ended, Loading, Loaded, Idle, NoCmd,
              Ids, Called, Present
  <1> QED BY <1>1, <1>2, <1>3, <1>4, <1>5, <1>6, <1>7, <1>8, <1>9, <1>10, <1>11, <1>12,
             <1>13, <1>14, <1>15, <1>16, <1>17, <1>18, <1>19, <1>20, <1>21, <1>22, <1>23 DEF
             StepDoes, HandleDoes

\* A Handle that finds no session makes one and points to it.
LEMMA OnItsWayStep == IInv /\ StepDoes => OnItsWay'
  <1> SUFFICES ASSUME IInv, StepDoes PROVE OnItsWay'
      OBVIOUS
  <1> USE DEF IInv, TypeOK, tables, states, handles, history, OnItsWay, Uncrossed, Alone,
             ActiveExists, Quiet, InProgress, Hands, CmdShape, Ended, Loading, Loaded, Idle,
             NoCmd, Ids, Called, Present, RowType
  <1>1. CASE InsertDoes
        BY <1>1 DEF InsertDoes, Begun, Begins, Inserted, Goal
  <1>2. CASE StartDoes
        BY <1>2 DEF StartDoes, Begun, Begins, Goal
  <1>3. CASE DeleteDoes
    <2>1. UNCHANGED <<rows, handles>> /\ crossed' = (crossed \/ ~Quiet)
          BY <1>3 DEF DeleteDoes, Begun, Begins
    <2>2. Idle /\ Present # {} /\ UNCHANGED <<doubled, torn>>
          BY <1>3 DEF DeleteDoes, Begun, Begins
    <2>3. SUFFICES ASSUME ~crossed, Quiet, ~doubled, ~torn PROVE OnItsWay'
          BY <2>1, <2>2
    <2>4. active # 0
          BY <2>2, <2>3
    <2>5. active' # 0
          BY <1>3, <2>4 DEF DeleteDoes
    <2> QED BY <2>1, <2>3, <2>5
  <1>4. CASE UpsertDoes
    <2>1. crossed \/ Quiet
          BY <1>4 DEF UpsertDoes
    <2>2. active' # 0 /\ UNCHANGED <<handles, crossed>>
          BY <1>4 DEF UpsertDoes
    <2> QED BY <2>1, <2>2
  <1>5. CASE RenameDoes
    <2>1. crossed \/ Quiet
          BY <1>5 DEF RenameDoes
    <2>2. \A i \in Ids : rows'[i].here = rows[i].here
          BY <1>5 DEF RenameDoes, RenamedTo
    <2>3. cmd.op = "rename" /\ UNCHANGED <<active, handles, history>>
          BY <1>5 DEF RenameDoes
    <2>4. Present' = Present
          BY <2>2
    <2> QED BY <2>1, <2>3, <2>4
  <1>6. CASE GoneDoes
    <2>1. crossed \/ Quiet
          BY <1>6 DEF GoneDoes
    <2>2. cmd.op = "delete" /\ UNCHANGED <<active, handles, history>>
          BY <1>6 DEF GoneDoes
    <2>3. cmd.id \in Present
          BY <2>2
    <2>4. crossed \/ doubled \/ torn \/ active # 0
          BY <2>1, <2>2, <2>3
    <2> QED BY <2>1, <2>2, <2>4
  <1>7. CASE NewStateDoes
        BY <1>7 DEF NewStateDoes, Kept, Goal
  <1>8. CASE KeepDoes
        BY <1>8 DEF KeepDoes, Goal
  <1>9. CASE StoreDoes
        BY <1>9 DEF StoreDoes, Kept
  <1>10. CASE Crash
        BY <1>10 DEF Crash
  <1>11. ASSUME NEW t \in Tasks, DispatchDoes(t) PROVE OnItsWay'
        BY <1>11 DEF DispatchDoes, Moved
  <1>12. ASSUME NEW t \in Tasks, WalkDoes(t) PROVE OnItsWay'
    <2>1. /\ UNCHANGED <<tables, states, cmd, run, copy, dcp, history>>
          /\ \A u \in Tasks : u # t => pc'[u] = pc[u] /\ ptr'[u] = ptr[u]
          BY <1>12 DEF WalkDoes, Moved, Points
    <2>2. SUFFICES ASSUME ~crossed, ~doubled, ~torn PROVE OnItsWay'
          BY <2>1
    <2>3. InProgress(t) \/ pc[t] = "new"
          BY <1>12 DEF WalkDoes
    <2>4. \A u \in Tasks : u # t => ~InProgress(u) /\ ~InProgress(u)'
          BY <2>1, <2>2, <2>3
    <2>5. Idle
          BY <2>2, <2>3
    <2>6. active = 0 \/ rows[active].here
          BY <2>2
    <2>7. active = 0 => Present = {} \/ pc[t] \in {"point", "upsert"}
          BY <2>2, <2>4, <2>5
    <2>8. /\ pc'[t] = "pointed" => ptr'[t] = active
          /\ pc'[t] = "default" => active \in Called(Default) \/ (active = 0 /\ Present = {})
          /\ pc'[t] = "create" => active = 0 /\ Present = {}
          /\ pc'[t] \notin {"point"} \union Loaded
          /\ pc'[t] = "upsert" => active = 0 /\ ptr'[t] \in Called(Default)
          BY <1>12, <2>2, <2>6, <2>7 DEF WalkDoes, Moved
    <2>9. active = 0 => Present = {} \/ pc'[t] \in {"point", "upsert"}
          BY <1>12, <2>2, <2>7 DEF WalkDoes, Moved
    <2>10. Called(Default)' = Called(Default) /\ Present' = Present
          BY <2>1
    <2> QED BY <2>1, <2>4, <2>8, <2>9, <2>10
  <1>13. ASSUME NEW t \in Tasks, TakeDoes(t) PROVE OnItsWay'
    <2>1. /\ UNCHANGED <<tables, states, cmd, run, dcp, history>> /\ pc'[t] = "loaded"
          /\ \A u \in Tasks : u # t => pc'[u] = pc[u] /\ ptr'[u] = ptr[u]
          BY <1>13 DEF TakeDoes, Moved, Points
    <2>2. SUFFICES ASSUME ~crossed, ~doubled, ~torn PROVE OnItsWay'
          BY <2>1
    <2>3. InProgress(t)
          BY <1>13 DEF TakeDoes
    <2>4. \A u \in Tasks : u # t => ~InProgress(u) /\ ~InProgress(u)'
          BY <2>1, <2>2, <2>3
    <2>5. copy'[t].id = active
      <3>1. CASE pc[t] = "pointed" /\ ptr[t] \in Ids /\ Took(t, ptr[t])
            BY <2>2, <3>1 DEF Took
      <3>2. ASSUME pc[t] = "default", NEW i \in Ids, rows[i].name = Default, Took(t, i)
            PROVE  copy'[t].id = active
        <4>1. i \in Present
              BY <3>2 DEF Took
        <4>2. active \in Present /\ rows[active].name = Default
              BY <2>2, <3>2, <4>1
        <4>3. i = active
              BY <3>2, <4>1, <4>2 DEF NamesUnique
        <4> QED BY <3>2, <4>3 DEF Took
      <3> QED BY <1>13, <3>1, <3>2 DEF TakeDoes
    <2>6. active = 0 => Present = {}
          BY <1>13, <2>2, <2>3, <2>4 DEF TakeDoes
    <2>7. Present' = Present
          BY <2>1
    <2> QED BY <2>1, <2>4, <2>5, <2>6, <2>7
  <1>14. ASSUME NEW t \in Tasks, CreateDoes(t) PROVE OnItsWay'
        BY <1>14 DEF CreateDoes, Moved, Inserted
  <1>15. ASSUME NEW t \in Tasks, SetDoes(t) PROVE OnItsWay'
        BY <1>15 DEF SetDoes, Moved, Points
  <1>16. ASSUME NEW t \in Tasks, AppendDoes(t) PROVE OnItsWay'
        BY <1>16 DEF AppendDoes, Copies, Moved, Wrote
  <1>17. ASSUME NEW t \in Tasks, GetDoes(t) PROVE OnItsWay'
        BY <1>17 DEF GetDoes, Moved
  <1>18. ASSUME NEW t \in Tasks, PutDoes(t) PROVE OnItsWay'
        BY <1>18 DEF PutDoes, Moved, Kept, Fetching
  <1>19. ASSUME NEW t \in Tasks, RegisterDoes(t) PROVE OnItsWay'
        BY <1>19 DEF RegisterDoes, Moved
  <1>20. ASSUME NEW t \in Tasks, WriteDoes(t) PROVE OnItsWay'
        BY <1>20 DEF WriteDoes, Wrote
  <1>21. ASSUME NEW t \in Tasks, KeepsDoes(t) PROVE OnItsWay'
        BY <1>21 DEF KeepsDoes, Moved, Kept
  <1>22. ASSUME NEW t \in Tasks, EndDoes(t) PROVE OnItsWay'
        BY <1>22 DEF EndDoes, Copies, Moved, Kept
  <1>23. CASE UNCHANGED vars
        BY <1>23 DEF vars
  <1> HIDE DEF IInv, TypeOK, tables, states, handles, history, OnItsWay, Uncrossed, Alone,
              ActiveExists, Quiet, InProgress, Hands, CmdShape, Ended, Loading, Loaded,
              Idle, NoCmd, Ids, Called, Present, RowType
  <1> QED BY <1>1, <1>2, <1>3, <1>4, <1>5, <1>6, <1>7, <1>8, <1>9, <1>10, <1>11, <1>12,
             <1>13, <1>14, <1>15, <1>16, <1>17, <1>18, <1>19, <1>20, <1>21, <1>22, <1>23 DEF
             StepDoes, HandleDoes

\* An overlap is noticed by whoever comes second.
LEMMA SavingsStep == IInv /\ StepDoes => Savings'
  <1> SUFFICES ASSUME IInv, StepDoes PROVE Savings'
      OBVIOUS
  <1> USE DEF IInv, TypeOK, tables, states, handles, history, Savings, CmdShape, Hands,
             Storing, Fetching, Resetting, Idle, NoCmd, Loading, Loaded, Ended, Refs, Held
  <1>1. CASE InsertDoes
        BY <1>1 DEF InsertDoes, Begun, Begins, Inserted, Goal
  <1>2. CASE StartDoes
        BY <1>2 DEF StartDoes, Begun, Begins, Goal
  <1>3. CASE DeleteDoes
        BY <1>3 DEF DeleteDoes, Begun, Begins, Goal
  <1>4. CASE UpsertDoes
        BY <1>4 DEF UpsertDoes, Goal
  <1>5. CASE RenameDoes
        BY <1>5 DEF RenameDoes, RenamedTo
  <1>6. CASE GoneDoes
        BY <1>6 DEF GoneDoes, Goal
  <1>7. CASE NewStateDoes
    <2>1. SUFFICES ASSUME ~overlapped' PROVE Savings'
          OBVIOUS
    <2>2. \A u \in Tasks : ~Storing(u)' /\ ~Fetching(u)'
          BY <1>7, <2>1 DEF NewStateDoes
    <2>3. cmd'.op # "store"
          BY <1>7 DEF NewStateDoes, Goal
    <2> QED BY <2>2, <2>3
  <1>8. CASE KeepDoes
        BY <1>8 DEF KeepDoes, Goal
  <1>9. CASE StoreDoes
    <2>1. SUFFICES ASSUME ~overlapped PROVE Savings'
          BY <1>9 DEF StoreDoes
    <2>2. Resetting /\ ~Resetting' /\ cmd'.op # "store" /\ UNCHANGED <<pc, dcp, mem>>
          BY <1>9 DEF StoreDoes
    <2>3. \A u \in Tasks : ~Storing(u) /\ ~Fetching(u)
          BY <2>1, <2>2
    <2> QED BY <2>2, <2>3
  <1>10. CASE Crash
        BY <1>10 DEF Crash
  <1>11. ASSUME NEW t \in Tasks, DispatchDoes(t) PROVE Savings'
        BY <1>11 DEF DispatchDoes, Moved
  <1>12. ASSUME NEW t \in Tasks, WalkDoes(t) PROVE Savings'
    <2>1. /\ \A u \in Tasks : (Storing(u)' => Storing(u)) /\ (Fetching(u)' => Fetching(u))
          /\ UNCHANGED <<saved, mem, heap, dcp, cmd, overlapped>>
          BY <1>12 DEF WalkDoes, Moved
    <2> QED BY <2>1
  <1>13. ASSUME NEW t \in Tasks, TakeDoes(t) PROVE Savings'
    <2>1. /\ \A u \in Tasks : (Storing(u)' => Storing(u)) /\ (Fetching(u)' => Fetching(u))
          /\ UNCHANGED <<saved, mem, heap, dcp, cmd, overlapped>>
          BY <1>13 DEF TakeDoes, Moved
    <2> QED BY <2>1
  <1>14. ASSUME NEW t \in Tasks, CreateDoes(t) PROVE Savings'
    <2>1. /\ \A u \in Tasks : (Storing(u)' => Storing(u)) /\ (Fetching(u)' => Fetching(u))
          /\ UNCHANGED <<saved, mem, heap, dcp, cmd, overlapped>>
          BY <1>14 DEF CreateDoes, Moved
    <2> QED BY <2>1
  <1>15. ASSUME NEW t \in Tasks, SetDoes(t) PROVE Savings'
    <2>1. /\ \A u \in Tasks : (Storing(u)' => Storing(u)) /\ (Fetching(u)' => Fetching(u))
          /\ UNCHANGED <<saved, mem, heap, dcp, cmd, overlapped>>
          BY <1>15 DEF SetDoes, Moved
    <2> QED BY <2>1
  <1>16. ASSUME NEW t \in Tasks, AppendDoes(t) PROVE Savings'
    <2>1. /\ \A u \in Tasks : (Storing(u)' => Storing(u)) /\ (Fetching(u)' => Fetching(u))
          /\ UNCHANGED <<saved, mem, heap, dcp, cmd, overlapped>>
          BY <1>16 DEF AppendDoes, Moved
    <2> QED BY <2>1
  <1>17. ASSUME NEW t \in Tasks, GetDoes(t) PROVE Savings'
    <2>1. /\ \A u \in Tasks : /\ Storing(u)' => Storing(u) /\ dcp'[u] = dcp[u]
                              /\ u # t => (Fetching(u)' => Fetching(u)) /\ dcp'[u] = dcp[u]
          /\ UNCHANGED <<mem, cmd, overlapped, saved>>
          BY <1>17 DEF GetDoes, Moved
    <2>2. SUFFICES ASSUME ~overlapped PROVE Savings'
          BY <2>1
    <2>3. CASE mem # 0
      <3>1. ~Fetching(t)' /\ UNCHANGED heap
            BY <1>17, <2>3 DEF GetDoes, Moved
      <3> QED BY <2>1, <2>2, <3>1
    <2>4. CASE mem = 0
      <3>1. ~Resetting /\ \A u \in Tasks : ~Storing(u)
            BY <2>2, <2>4
      <3>2. saved \subseteq heap'[dcp'[t]]
            BY <1>17, <2>4 DEF GetDoes
      <3>3. \A u \in Tasks : u # t => heap'[dcp[u]] = heap[dcp[u]] \/ dcp[u] = 0
            BY <1>17, <2>4 DEF GetDoes
      <3> QED BY <2>1, <2>2, <3>1, <3>2, <3>3
    <2> QED BY <2>3, <2>4
  <1>18. ASSUME NEW t \in Tasks, PutDoes(t) PROVE Savings'
    <2>1. /\ \A u \in Tasks : (Storing(u)' => Storing(u)) /\ (Fetching(u)' => Fetching(u))
          /\ UNCHANGED <<dcp, cmd, overlapped, saved>>
          BY <1>18 DEF PutDoes, Moved
    <2>2. SUFFICES ASSUME ~overlapped PROVE Savings'
          BY <2>1
    <2>3. ~Resetting /\ \A u \in Tasks : ~Storing(u)
          BY <1>18, <2>2 DEF PutDoes
    <2>4. \A u \in Tasks : dcp[u] # 0 => heap'[dcp[u]] = heap[dcp[u]]
          BY <1>18 DEF PutDoes, Kept
    <2> QED BY <2>1, <2>2, <2>3, <2>4
  <1>19. ASSUME NEW t \in Tasks, RegisterDoes(t) PROVE Savings'
    <2>1. /\ \A u \in Tasks : (Storing(u)' => Storing(u)) /\ (Fetching(u)' => Fetching(u))
          /\ UNCHANGED <<saved, mem, heap, dcp, cmd, overlapped>>
          BY <1>19 DEF RegisterDoes, Moved
    <2> QED BY <2>1
  <1>20. ASSUME NEW t \in Tasks, WriteDoes(t) PROVE Savings'
    <2>1. /\ UNCHANGED <<saved, mem, pc, dcp, cmd, overlapped>>
          /\ \A u \in Tasks : dcp[u] # 0 => heap[dcp[u]] \subseteq heap'[dcp[u]]
          BY <1>20 DEF WriteDoes
    <2> QED BY <2>1
  <1>21. ASSUME NEW t \in Tasks, KeepsDoes(t) PROVE Savings'
    <2>1. CASE overlapped'
          BY <2>1
    <2>2. CASE ~overlapped'
      <3>1. ~Resetting /\ \A u \in Tasks : ~Storing(u) /\ ~Fetching(u)
            BY <1>21, <2>2 DEF KeepsDoes
      <3>2. \A u \in Tasks : (Storing(u)' => u = t) /\ ~Fetching(u)'
            BY <1>21, <3>1 DEF KeepsDoes, Moved
      <3>3. mem' = dcp'[t] /\ UNCHANGED cmd
            BY <1>21 DEF KeepsDoes
      <3> QED BY <3>1, <3>2, <3>3
    <2> QED BY <2>1, <2>2
  <1>22. ASSUME NEW t \in Tasks, EndDoes(t) PROVE Savings'
    <2>1. \A u \in Tasks : /\ Storing(u)' => Storing(u) /\ u # t /\ dcp'[u] = dcp[u]
                           /\ Fetching(u)' => Fetching(u) /\ u # t /\ dcp'[u] = dcp[u]
          BY <1>22 DEF EndDoes, Moved
    <2>2. UNCHANGED <<mem, cmd, overlapped>>
          BY <1>22 DEF EndDoes
    <2>3. \A u \in Tasks : u # t /\ dcp[u] # 0 => heap'[dcp[u]] = heap[dcp[u]]
          BY <1>22 DEF EndDoes, Kept
    <2>4. SUFFICES ASSUME ~overlapped PROVE Savings'
          BY <2>2
    <2>5. CASE pc[t] = "running" /\ UNCHANGED saved
          BY <2>1, <2>2, <2>3, <2>4, <2>5
    <2>6. CASE Storing(t)
      <3>1. \A u \in Tasks : ~Fetching(u)
            BY <2>4, <2>6
      <3> QED BY <2>1, <2>2, <2>4, <3>1
    <2> QED BY <1>22, <2>5, <2>6 DEF EndDoes
  <1>23. CASE UNCHANGED vars
        BY <1>23 DEF vars
  <1> HIDE DEF IInv, TypeOK, tables, states, handles, history, Savings, CmdShape, Hands,
              Storing, Fetching, Resetting, Idle, NoCmd, Loading, Loaded, Ended, Refs, Held
  <1> QED BY <1>1, <1>2, <1>3, <1>4, <1>5, <1>6, <1>7, <1>8, <1>9, <1>10, <1>11, <1>12,
             <1>13, <1>14, <1>15, <1>16, <1>17, <1>18, <1>19, <1>20, <1>21, <1>22, <1>23 DEF
             StepDoes, HandleDoes

\* Saving writes what is in memory, and marks are only added to it.
LEMMA RestartStep == IInv /\ StepDoes => RestartOnlyForgets'
  <1> SUFFICES ASSUME IInv, StepDoes PROVE RestartOnlyForgets'
      OBVIOUS
  <1> USE DEF IInv, TypeOK, tables, states, handles, history, RestartOnlyForgets, Savings,
             CmdShape, Hands, Storing, Fetching, Resetting, Idle, NoCmd, Loading, Loaded,
             Ended, Refs, Held
  <1>1. CASE InsertDoes
        BY <1>1 DEF InsertDoes, Begun, Begins, Inserted, Goal
  <1>2. CASE StartDoes
        BY <1>2 DEF StartDoes, Begun, Begins, Goal
  <1>3. CASE DeleteDoes
        BY <1>3 DEF DeleteDoes, Begun, Begins, Goal
  <1>4. CASE UpsertDoes
        BY <1>4 DEF UpsertDoes, Goal
  <1>5. CASE RenameDoes
        BY <1>5 DEF RenameDoes, RenamedTo
  <1>6. CASE GoneDoes
        BY <1>6 DEF GoneDoes, Goal
  <1>7. CASE NewStateDoes
        BY <1>7 DEF NewStateDoes, Kept, Goal
  <1>8. CASE KeepDoes
        BY <1>8 DEF KeepDoes, Goal
  <1>9. CASE StoreDoes
        BY <1>9 DEF StoreDoes, Kept
  <1>10. CASE Crash
        BY <1>10 DEF Crash
  <1>11. ASSUME NEW t \in Tasks, DispatchDoes(t) PROVE RestartOnlyForgets'
        BY <1>11 DEF DispatchDoes, Moved
  <1>12. ASSUME NEW t \in Tasks, WalkDoes(t) PROVE RestartOnlyForgets'
        BY <1>12 DEF WalkDoes, Moved, Points
  <1>13. ASSUME NEW t \in Tasks, TakeDoes(t) PROVE RestartOnlyForgets'
        BY <1>13 DEF TakeDoes, Took, Copies, Moved, Points
  <1>14. ASSUME NEW t \in Tasks, CreateDoes(t) PROVE RestartOnlyForgets'
        BY <1>14 DEF CreateDoes, Moved, Inserted
  <1>15. ASSUME NEW t \in Tasks, SetDoes(t) PROVE RestartOnlyForgets'
        BY <1>15 DEF SetDoes, Moved, Points
  <1>16. ASSUME NEW t \in Tasks, AppendDoes(t) PROVE RestartOnlyForgets'
        BY <1>16 DEF AppendDoes, Copies, Moved, Wrote
  <1>17. ASSUME NEW t \in Tasks, GetDoes(t) PROVE RestartOnlyForgets'
    <2>1. UNCHANGED <<saved, mem, cmd, overlapped>>
          BY <1>17 DEF GetDoes
    <2>2. \A u \in Tasks : Storing(u) => Storing(u)'
          BY <1>17 DEF GetDoes, Moved
    <2>3. mem # 0 => heap' = heap
          BY <1>17 DEF GetDoes
    <2> QED BY <2>1, <2>2, <2>3
  <1>18. ASSUME NEW t \in Tasks, PutDoes(t) PROVE RestartOnlyForgets'
    <2>1. UNCHANGED <<saved, overlapped>> /\ mem' = dcp[t]
          BY <1>18 DEF PutDoes
    <2>2. overlapped \/ saved \subseteq heap[dcp[t]]
          BY <1>18 DEF PutDoes
    <2>3. heap'[dcp[t]] = heap[dcp[t]]
          BY <1>18 DEF PutDoes, Kept
    <2> QED BY <2>1, <2>2, <2>3
  <1>19. ASSUME NEW t \in Tasks, RegisterDoes(t) PROVE RestartOnlyForgets'
        BY <1>19 DEF RegisterDoes, Moved
  <1>20. ASSUME NEW t \in Tasks, WriteDoes(t) PROVE RestartOnlyForgets'
        BY <1>20 DEF WriteDoes, Wrote
  <1>21. ASSUME NEW t \in Tasks, KeepsDoes(t) PROVE RestartOnlyForgets'
        BY <1>21 DEF KeepsDoes, Moved, Kept
  <1>22. ASSUME NEW t \in Tasks, EndDoes(t) PROVE RestartOnlyForgets'
        BY <1>22 DEF EndDoes, Copies, Moved, Kept
  <1>23. CASE UNCHANGED vars
        BY <1>23 DEF vars
  <1> HIDE DEF IInv, TypeOK, tables, states, handles, history, RestartOnlyForgets, Savings,
              CmdShape, Hands, Storing, Fetching, Resetting, Idle, NoCmd, Loading, Loaded,
              Ended, Refs, Held
  <1> QED BY <1>1, <1>2, <1>3, <1>4, <1>5, <1>6, <1>7, <1>8, <1>9, <1>10, <1>11, <1>12,
             <1>13, <1>14, <1>15, <1>16, <1>17, <1>18, <1>19, <1>20, <1>21, <1>22, <1>23 DEF
             StepDoes, HandleDoes

\* When no Handle holds an object, a reset leaves none.
LEMMA QuietStep == IInv /\ StepDoes => QuietHeap'
  <1> SUFFICES ASSUME IInv, StepDoes PROVE QuietHeap'
      OBVIOUS
  <1> USE DEF IInv, TypeOK, tables, states, handles, history, QuietHeap, Uncrossed, Quiet,
             InProgress, Hands, Resetting, CmdShape, Idle, NoCmd, Loading, Loaded, Ended,
             Refs, Held
  <1>1. CASE InsertDoes
        BY <1>1 DEF InsertDoes, Begun, Begins, Inserted, Goal
  <1>2. CASE StartDoes
        BY <1>2 DEF StartDoes, Begun, Begins, Goal
  <1>3. CASE DeleteDoes
        BY <1>3 DEF DeleteDoes, Begun, Begins, Goal
  <1>4. CASE UpsertDoes
        BY <1>4 DEF UpsertDoes, Goal
  <1>5. CASE RenameDoes
        BY <1>5 DEF RenameDoes, RenamedTo
  <1>6. CASE GoneDoes
        BY <1>6 DEF GoneDoes, Goal
  <1>7. CASE NewStateDoes
    <2>1. CASE crossed'
          BY <2>1
    <2>2. CASE ~crossed'
      <3>1. Uncrossed
            OBVIOUS
      <3>2. Quiet'
        <4> HIDE DEF Quiet, Uncrossed, IInv
        <4> QED BY <1>7, <2>2, <3>1, ResetMeets
      <3>3. UNCHANGED pc
            BY <1>7 DEF NewStateDoes
      <3>4. \A u \in Tasks : dcp[u] = 0
            BY <3>2, <3>3
      <3> QED BY <1>7, <3>4 DEF NewStateDoes, Kept
    <2> QED BY <2>1, <2>2
  <1>8. CASE KeepDoes
        BY <1>8 DEF KeepDoes, Goal
  <1>9. CASE StoreDoes
        BY <1>9 DEF StoreDoes, Kept
  <1>10. CASE Crash
        BY <1>10 DEF Crash
  <1>11. ASSUME NEW t \in Tasks, DispatchDoes(t) PROVE QuietHeap'
        BY <1>11 DEF DispatchDoes, Moved
  <1>12. ASSUME NEW t \in Tasks, WalkDoes(t) PROVE QuietHeap'
        BY <1>12 DEF WalkDoes, Moved, Points
  <1>13. ASSUME NEW t \in Tasks, TakeDoes(t) PROVE QuietHeap'
        BY <1>13 DEF TakeDoes, Took, Copies, Moved, Points
  <1>14. ASSUME NEW t \in Tasks, CreateDoes(t) PROVE QuietHeap'
        BY <1>14 DEF CreateDoes, Moved, Inserted
  <1>15. ASSUME NEW t \in Tasks, SetDoes(t) PROVE QuietHeap'
        BY <1>15 DEF SetDoes, Moved, Points
  <1>16. ASSUME NEW t \in Tasks, AppendDoes(t) PROVE QuietHeap'
        BY <1>16 DEF AppendDoes, Copies, Moved, Wrote
  <1>17. ASSUME NEW t \in Tasks, GetDoes(t) PROVE QuietHeap'
        BY <1>17 DEF GetDoes, Moved
  <1>18. ASSUME NEW t \in Tasks, PutDoes(t) PROVE QuietHeap'
        BY <1>18 DEF PutDoes, Moved, Kept, Fetching
  <1>19. ASSUME NEW t \in Tasks, RegisterDoes(t) PROVE QuietHeap'
        BY <1>19 DEF RegisterDoes, Moved
  <1>20. ASSUME NEW t \in Tasks, WriteDoes(t) PROVE QuietHeap'
        BY <1>20, SMTT(20) DEF WriteDoes, Wrote
  <1>21. ASSUME NEW t \in Tasks, KeepsDoes(t) PROVE QuietHeap'
        BY <1>21 DEF KeepsDoes, Moved, Kept
  <1>22. ASSUME NEW t \in Tasks, EndDoes(t) PROVE QuietHeap'
        BY <1>22 DEF EndDoes, Copies, Moved, Kept
  <1>23. CASE UNCHANGED vars
        BY <1>23 DEF vars
  <1> HIDE DEF IInv, TypeOK, tables, states, handles, history, QuietHeap, Uncrossed, Quiet,
              InProgress, Hands, Resetting, CmdShape, Idle, NoCmd, Loading, Loaded, Ended,
              Refs, Held
  <1> QED BY <1>1, <1>2, <1>3, <1>4, <1>5, <1>6, <1>7, <1>8, <1>9, <1>10, <1>11, <1>12,
             <1>13, <1>14, <1>15, <1>16, <1>17, <1>18, <1>19, <1>20, <1>21, <1>22, <1>23 DEF
             StepDoes, HandleDoes

\* A reset that met no Handle leaves no marks.
LEMMA ResetStep == IInv /\ StepDoes => SinceReset'
  <1> SUFFICES ASSUME IInv, StepDoes PROVE SinceReset'
      OBVIOUS
  <1> USE DEF IInv, TypeOK, tables, states, handles, history, SinceReset, AllMarks,
             QuietHeap, CmdShape, Resetting, Refs, Marks, Ids
  <1>1. CASE InsertDoes
        BY <1>1 DEF InsertDoes, Begun, Begins, Inserted, Goal
  <1>2. CASE StartDoes
        BY <1>2 DEF StartDoes, Begun, Begins, Goal
  <1>3. CASE DeleteDoes
        BY <1>3 DEF DeleteDoes, Begun, Begins, Goal
  <1>4. CASE UpsertDoes
        BY <1>4 DEF UpsertDoes, Goal
  <1>5. CASE RenameDoes
        BY <1>5 DEF RenameDoes, RenamedTo
  <1>6. CASE GoneDoes
        BY <1>6 DEF GoneDoes, Goal
  <1>7. CASE NewStateDoes
        BY <1>7 DEF NewStateDoes, Kept, Goal
  <1>8. CASE KeepDoes
        BY <1>8 DEF KeepDoes, Goal
  <1>9. CASE StoreDoes
    <2>1. SUFFICES ASSUME ~crossed, NEW m \in AllMarks' PROVE m[2] = resets'
          BY <1>9 DEF StoreDoes
    <2>2. \A r \in Refs : heap[r] = {}
          BY <1>9, <2>1 DEF StoreDoes
    <2>3. saved' = {} /\ \A r \in Refs : heap'[r] = {}
          BY <1>9, <2>2 DEF StoreDoes, Kept
    <2>4. AllMarks' = {}
          BY <2>3
    <2> QED BY <2>1, <2>4
  <1>10. CASE Crash
        BY <1>10 DEF Crash
  <1>11. ASSUME NEW t \in Tasks, DispatchDoes(t) PROVE SinceReset'
        BY <1>11 DEF DispatchDoes, Moved
  <1>12. ASSUME NEW t \in Tasks, WalkDoes(t) PROVE SinceReset'
        BY <1>12 DEF WalkDoes, Moved, Points
  <1>13. ASSUME NEW t \in Tasks, TakeDoes(t) PROVE SinceReset'
        BY <1>13 DEF TakeDoes, Took, Copies, Moved, Points
  <1>14. ASSUME NEW t \in Tasks, CreateDoes(t) PROVE SinceReset'
        BY <1>14 DEF CreateDoes, Moved, Inserted
  <1>15. ASSUME NEW t \in Tasks, SetDoes(t) PROVE SinceReset'
        BY <1>15 DEF SetDoes, Moved, Points
  <1>16. ASSUME NEW t \in Tasks, AppendDoes(t) PROVE SinceReset'
        BY <1>16 DEF AppendDoes, Copies, Moved, Wrote
  <1>17. ASSUME NEW t \in Tasks, GetDoes(t) PROVE SinceReset'
    <2>1. AllMarks' \subseteq AllMarks
      <3>1. UNCHANGED saved /\ \A r \in Refs : heap'[r] = heap[r] \/ heap'[r] = saved
            BY <1>17 DEF GetDoes
      <3> QED BY <3>1 DEF AllMarks
    <2>2. UNCHANGED <<resets, crossed>>
          BY <1>17 DEF GetDoes
    <2> HIDE DEF AllMarks
    <2> QED BY <2>1, <2>2
  <1>18. ASSUME NEW t \in Tasks, PutDoes(t) PROVE SinceReset'
    <2>1. AllMarks' \subseteq AllMarks
      <3>1. UNCHANGED saved /\ \A r \in Refs : heap'[r] = heap[r] \/ heap'[r] = {}
            BY <1>18 DEF PutDoes, Kept
      <3>2. \A r \in Refs : heap'[r] \subseteq AllMarks
            BY <3>1
      <3> QED BY <3>1, <3>2
    <2>2. UNCHANGED <<resets, crossed>>
          BY <1>18 DEF PutDoes
    <2> HIDE DEF AllMarks
    <2> QED BY <2>1, <2>2
  <1>19. ASSUME NEW t \in Tasks, RegisterDoes(t) PROVE SinceReset'
        BY <1>19 DEF RegisterDoes, Moved
  <1>20. ASSUME NEW t \in Tasks, WriteDoes(t) PROVE SinceReset'
        BY <1>20 DEF WriteDoes, Wrote
  <1>21. ASSUME NEW t \in Tasks, KeepsDoes(t) PROVE SinceReset'
    <2>1. AllMarks' \subseteq AllMarks
      <3>1. UNCHANGED saved /\ \A r \in Refs : heap'[r] = heap[r] \/ heap'[r] = {}
            BY <1>21 DEF KeepsDoes, Kept
      <3>2. \A r \in Refs : heap'[r] \subseteq AllMarks
            BY <3>1
      <3> QED BY <3>1, <3>2
    <2>2. UNCHANGED <<resets, crossed>>
          BY <1>21 DEF KeepsDoes
    <2> HIDE DEF AllMarks
    <2> QED BY <2>1, <2>2
  <1>22. ASSUME NEW t \in Tasks, EndDoes(t) PROVE SinceReset'
    <2>1. AllMarks' \subseteq AllMarks
      <3>1. /\ saved' = saved \/ (dcp[t] \in Refs /\ saved' = heap[dcp[t]])
            /\ \A r \in Refs : heap'[r] = heap[r] \/ heap'[r] = {}
            BY <1>22 DEF EndDoes, Kept
      <3>2. saved' \subseteq AllMarks
            BY <3>1
      <3>3. \A r \in Refs : heap'[r] \subseteq AllMarks
            BY <3>1
      <3> QED BY <3>2, <3>3
    <2>2. UNCHANGED <<resets, crossed>>
          BY <1>22 DEF EndDoes
    <2> HIDE DEF AllMarks
    <2> QED BY <2>1, <2>2
  <1>23. CASE UNCHANGED vars
        BY <1>23 DEF vars
  <1> HIDE DEF IInv, TypeOK, tables, states, handles, history, SinceReset, AllMarks,
              QuietHeap, CmdShape, Resetting, Refs, Marks, Ids
  <1> QED BY <1>1, <1>2, <1>3, <1>4, <1>5, <1>6, <1>7, <1>8, <1>9, <1>10, <1>11, <1>12,
             <1>13, <1>14, <1>15, <1>16, <1>17, <1>18, <1>19, <1>20, <1>21, <1>22, <1>23 DEF
             StepDoes, HandleDoes

\* Marks are made in the active session, and a command that leaves it drops them.
LEMMA MarksStep == IInv /\ StepDoes => OfActive'
  <1> SUFFICES ASSUME IInv, StepDoes PROVE OfActive'
      OBVIOUS
  <1> USE DEF IInv, TypeOK, tables, states, handles, history, OfActive, AllMarks, QuietHeap,
             OnItsWay, Uncrossed, ActiveExists, CmdShape, Quiet, InProgress, Resetting,
             Idle, NoCmd, Goals, CmdType, Refs, Marks, Ids, Loading, Loaded, Ended
  <1>1. CASE InsertDoes
        BY <1>1 DEF InsertDoes, Begun, Begins, Inserted, Goal
  <1>2. CASE StartDoes
        BY <1>2 DEF StartDoes, Begun, Begins, Goal
  <1>3. CASE DeleteDoes
        BY <1>3 DEF DeleteDoes, Begun, Begins, Goal
  <1>4. CASE UpsertDoes
    <2>1. UNCHANGED <<saved, heap, crossed, doubled, torn>>
          BY <1>4 DEF UpsertDoes
    <2>2. CASE cmd.goal = "session"
          BY <1>4, <2>1, <2>2 DEF UpsertDoes, Goal
    <2>3. CASE cmd.goal \in {"rename", "look"}
      <3>1. SUFFICES ASSUME ~crossed, ~doubled, ~torn PROVE OfActive'
            BY <2>1
      <3>2. active = 0 /\ \A m \in AllMarks : m[1] = active
            BY <1>4, <2>3, <3>1 DEF UpsertDoes
      <3>3. \A m \in AllMarks : m[1] # 0
            OBVIOUS
      <3>4. AllMarks' = {}
            BY <2>1, <3>2, <3>3
      <3>5. cmd'.op \notin {"point", "upsert"}
            BY <1>4 DEF UpsertDoes, Goal
      <3> QED BY <3>4, <3>5
    <2> QED BY <1>4, <2>2, <2>3 DEF UpsertDoes
  <1>5. CASE RenameDoes
        BY <1>5 DEF RenameDoes, RenamedTo
  <1>6. CASE GoneDoes
        BY <1>6 DEF GoneDoes, Goal
  <1>7. CASE NewStateDoes
    <2>1. AllMarks' \subseteq AllMarks
      <3>1. UNCHANGED saved /\ \A r \in Refs : heap'[r] = heap[r] \/ heap'[r] = {}
            BY <1>7 DEF NewStateDoes, Kept
      <3>2. \A r \in Refs : heap'[r] \subseteq AllMarks
            BY <3>1
      <3> QED BY <3>1, <3>2
    <2>2. UNCHANGED <<active, doubled, torn>> /\ (crossed => crossed') /\ cmd'.op = "keep"
          BY <1>7 DEF NewStateDoes, Goal
    <2>3. cmd'.goal = "session" \/ (Idle /\ cmd'.goal = "dcp")
          BY <1>7 DEF NewStateDoes, Goal
    <2> HIDE DEF AllMarks
    <2> QED BY <2>1, <2>2, <2>3
  <1>8. CASE KeepDoes
        BY <1>8 DEF KeepDoes, Goal
  <1>9. CASE StoreDoes
        BY <1>9 DEF StoreDoes, Kept
  <1>10. CASE Crash
        BY <1>10 DEF Crash
  <1>11. ASSUME NEW t \in Tasks, DispatchDoes(t) PROVE OfActive'
        BY <1>11 DEF DispatchDoes, Moved
  <1>12. ASSUME NEW t \in Tasks, WalkDoes(t) PROVE OfActive'
        BY <1>12 DEF WalkDoes, Moved, Points
  <1>13. ASSUME NEW t \in Tasks, TakeDoes(t) PROVE OfActive'
        BY <1>13 DEF TakeDoes, Took, Copies, Moved, Points
  <1>14. ASSUME NEW t \in Tasks, CreateDoes(t) PROVE OfActive'
        BY <1>14 DEF CreateDoes, Moved, Inserted
  <1>15. ASSUME NEW t \in Tasks, SetDoes(t) PROVE OfActive'
    <2>1. crossed \/ Idle
          BY <1>15 DEF SetDoes
    <2>2. crossed \/ doubled \/ torn \/ (active = 0 /\ \A m \in AllMarks : m[1] = active)
          BY <1>15, <2>1 DEF SetDoes
    <2>3. \A m \in AllMarks : m[1] # 0
          OBVIOUS
    <2>4. UNCHANGED <<saved, heap, cmd, history>>
          BY <1>15 DEF SetDoes
    <2> QED BY <2>1, <2>2, <2>3, <2>4
  <1>16. ASSUME NEW t \in Tasks, AppendDoes(t) PROVE OfActive'
        BY <1>16 DEF AppendDoes, Copies, Moved, Wrote
  <1>17. ASSUME NEW t \in Tasks, GetDoes(t) PROVE OfActive'
    <2>1. AllMarks' \subseteq AllMarks
      <3>1. UNCHANGED saved /\ \A r \in Refs : heap'[r] = heap[r] \/ heap'[r] = saved
            BY <1>17 DEF GetDoes
      <3>2. \A r \in Refs : heap'[r] \subseteq AllMarks
            BY <3>1
      <3> QED BY <3>1, <3>2
    <2>2. UNCHANGED <<active, cmd, history>>
          BY <1>17 DEF GetDoes
    <2> HIDE DEF AllMarks
    <2> QED BY <2>1, <2>2
  <1>18. ASSUME NEW t \in Tasks, PutDoes(t) PROVE OfActive'
    <2>1. AllMarks' \subseteq AllMarks
      <3>1. UNCHANGED saved /\ \A r \in Refs : heap'[r] = heap[r] \/ heap'[r] = {}
            BY <1>18 DEF PutDoes, Kept
      <3>2. \A r \in Refs : heap'[r] \subseteq AllMarks
            BY <3>1
      <3> QED BY <3>1, <3>2
    <2>2. UNCHANGED <<active, cmd, crossed, doubled, torn>>
          BY <1>18 DEF PutDoes
    <2> HIDE DEF AllMarks
    <2> QED BY <2>1, <2>2
  <1>19. ASSUME NEW t \in Tasks, RegisterDoes(t) PROVE OfActive'
        BY <1>19 DEF RegisterDoes, Moved
  <1>20. ASSUME NEW t \in Tasks, WriteDoes(t) PROVE OfActive'
        BY <1>20 DEF WriteDoes, Wrote
  <1>21. ASSUME NEW t \in Tasks, KeepsDoes(t) PROVE OfActive'
    <2>1. AllMarks' \subseteq AllMarks
      <3>1. UNCHANGED saved /\ \A r \in Refs : heap'[r] = heap[r] \/ heap'[r] = {}
            BY <1>21 DEF KeepsDoes, Kept
      <3>2. \A r \in Refs : heap'[r] \subseteq AllMarks
            BY <3>1
      <3> QED BY <3>1, <3>2
    <2>2. UNCHANGED <<active, cmd, crossed, doubled, torn>>
          BY <1>21 DEF KeepsDoes
    <2> HIDE DEF AllMarks
    <2> QED BY <2>1, <2>2
  <1>22. ASSUME NEW t \in Tasks, EndDoes(t) PROVE OfActive'
    <2>1. AllMarks' \subseteq AllMarks
      <3>1. /\ saved' = saved \/ (dcp[t] \in Refs /\ saved' = heap[dcp[t]])
            /\ \A r \in Refs : heap'[r] = heap[r] \/ heap'[r] = {}
            BY <1>22 DEF EndDoes, Kept
      <3>2. saved' \subseteq AllMarks
            BY <3>1
      <3>3. \A r \in Refs : heap'[r] \subseteq AllMarks
            BY <3>1
      <3> QED BY <3>2, <3>3
    <2>2. UNCHANGED <<active, cmd, crossed, doubled, torn>>
          BY <1>22 DEF EndDoes
    <2> HIDE DEF AllMarks
    <2> QED BY <2>1, <2>2
  <1>23. CASE UNCHANGED vars
        BY <1>23 DEF vars
  <1> HIDE DEF IInv, TypeOK, tables, states, handles, history, OfActive, AllMarks, QuietHeap,
              OnItsWay, Uncrossed, ActiveExists, CmdShape, Quiet, InProgress, Resetting,
              Idle, NoCmd, Goals, CmdType, Refs, Marks, Ids, Loading, Loaded, Ended
  <1> QED BY <1>1, <1>2, <1>3, <1>4, <1>5, <1>6, <1>7, <1>8, <1>9, <1>10, <1>11, <1>12,
             <1>13, <1>14, <1>15, <1>16, <1>17, <1>18, <1>19, <1>20, <1>21, <1>22, <1>23 DEF
             StepDoes, HandleDoes

---------------------------------------------------------------------------
(* The theorems.                                                           *)

\* The facts above hold in every reachable state.
THEOREM SessionsInvariant == Spec => []IInv
  <1>1. Init => IInv
    <2> SUFFICES ASSUME Init PROVE IInv
        OBVIOUS
    <2> USE DEF Init, Ids, Refs, Absent, NoCopy, NoCmd, InProgress, Ended, Loading, Loaded, Ops,
               Goals
    <2>1. TypeOK
      <3>1. rows \in [Ids -> [name : Names, texts : SUBSET Tasks, here : BOOLEAN]]
            OBVIOUS
      <3>2. /\ heap \in [Refs -> SUBSET Marks] /\ mem \in Refs \union {0}
            /\ pc \in [Tasks -> Ended \union Loading \union Loaded]
            /\ copy \in [Tasks -> [id : Ids \union {0}, texts : SUBSET Tasks]]
            OBVIOUS
      <3>3. cmd \in [op : Ops, goal : Goals, name : Names, id : Ids \union {0},
                     ref : Refs \union {0}]
            OBVIOUS
      <3>4. nextId \in 1..(MaxId + 1) /\ resets \in 0..MaxResets
            OBVIOUS
      <3>5. /\ active \in Ids \union {0} /\ saved \subseteq Marks /\ run \in Tasks \union {0}
            /\ ptr \in [Tasks -> Ids \union {0}] /\ dcp \in [Tasks -> Refs \union {0}]
            /\ meant \in [Tasks -> Ids \union {0}] /\ home \in [Tasks -> Ids \union {0}]
            /\ {crossed, late, doubled, overlapped, torn} \subseteq BOOLEAN
            OBVIOUS
      <3> QED BY <3>1, <3>2, <3>3, <3>4, <3>5 DEF TypeOK
    <2>2. Hands /\ IdsBelow
          BY DEF Hands, IdsBelow
    <2>3. NamesUnique /\ CmdShape /\ LookedUp
          BY DEF NamesUnique, CmdShape, LookedUp, Present, Idle, Resetting
    <2>4. Alone /\ Uncrossed
          BY DEF Alone, Uncrossed, Quiet
    <2>5. ActiveExists /\ CopyIsRow /\ TextsKept
          BY DEF ActiveExists, CopyIsRow, TextsKept
    <2>6. Settled /\ OnItsWay
          BY DEF Settled, OnItsWay, Present
    <2>7. Savings /\ RestartOnlyForgets /\ QuietHeap
          BY DEF Savings, RestartOnlyForgets, QuietHeap, Storing, Resetting
    <2>8. SinceReset /\ OfActive
          BY DEF SinceReset, OfActive, AllMarks
    <2> QED BY <2>1, <2>2, <2>3, <2>4, <2>5, <2>6, <2>7, <2>8 DEF IInv
  <1>2. IInv /\ [Next]_vars => IInv'
    <2> SUFFICES ASSUME IInv, StepDoes PROVE IInv'
        BY Steps
    <2>1. TypeOK' /\ Hands' /\ IdsBelow' /\ NamesUnique' /\ CmdShape' /\ LookedUp'
          BY TypeStep, HandsStep, IdsStep, NamesStep, CmdStep, LookedUpStep
    <2>2. Alone' /\ Uncrossed' /\ ActiveExists' /\ CopyIsRow' /\ TextsKept'
          BY AloneStep, UncrossedStep, ActiveStep, CopyStep, TextsStep
    <2>3. Settled' /\ OnItsWay' /\ Savings' /\ RestartOnlyForgets'
          BY SettledStep, OnItsWayStep, SavingsStep, RestartStep
    <2>4. QuietHeap' /\ SinceReset' /\ OfActive'
          BY QuietStep, ResetStep, MarksStep
    <2> QED BY <2>1, <2>2, <2>3, <2>4 DEF IInv
  <1> QED BY <1>1, <1>2, PTL DEF Spec

\* Types.
THEOREM SessionsTypes == Spec => []TypeOK
  <1>1. IInv => TypeOK
        BY DEF IInv
  <1> QED BY <1>1, SessionsInvariant, PTL

\* The pointer of the chat names a session that is there, or none.
THEOREM SessionsActive == Spec => []ActiveExists
  <1>1. IInv => ActiveExists
        BY DEF IInv
  <1> QED BY <1>1, SessionsInvariant, PTL

\* A Handle that meets no command and no second text prunes with marks made in its
\* own session.
THEOREM SessionsOwnMarks == Spec => []OwnMarks
  <1>1. IInv => OwnMarks
    <2> SUFFICES ASSUME IInv, ~crossed, ~doubled, ~torn,
                        NEW t \in Tasks, pc[t] \in {"pruned", "running"}, NEW m \in heap[dcp[t]]
                 PROVE  m[1] = copy[t].id
        BY DEF OwnMarks
    <2>1. dcp[t] \in Refs
          BY DEF IInv, TypeOK, Hands
    <2>2. ~Quiet
          BY DEF Quiet, InProgress, Ended
    <2>3. Idle
          BY <2>2 DEF IInv, Uncrossed
    <2>4. m \in AllMarks
          BY <2>1 DEF AllMarks
    <2>5. m[1] = active
          BY <2>3, <2>4 DEF IInv, OfActive
    <2>6. copy[t].id = active
          BY DEF IInv, OnItsWay, Loaded
    <2> QED BY <2>5, <2>6
  <1> QED BY <1>1, SessionsInvariant, PTL

\* A restart brings back no mark that memory had dropped.
THEOREM SessionsRestart == Spec => []RestartOnlyForgets
  <1>1. IInv => RestartOnlyForgets
        BY DEF IInv
  <1> QED BY <1>1, SessionsInvariant, PTL

\* After a reset that met no Handle, no earlier mark comes back.
THEOREM SessionsReset == Spec => []ResetSticksWhenQuiet
  <1>1. IInv => ResetSticksWhenQuiet
    <2> SUFFICES ASSUME IInv, ~crossed, NEW m \in saved \union (IF mem = 0 THEN {} ELSE heap[mem])
                 PROVE  m[2] = resets
        BY DEF ResetSticksWhenQuiet
    <2>1. mem # 0 => mem \in Refs
          BY DEF IInv, TypeOK
    <2>2. m \in AllMarks
          BY <2>1 DEF AllMarks
    <2> QED BY <2>2 DEF IInv, SinceReset
  <1> QED BY <1>1, SessionsInvariant, PTL

\* A text stays in the session it was appended to.
THEOREM SessionsTexts == Spec => []TextsKept
  <1>1. IInv => TextsKept
        BY DEF IInv
  <1> QED BY <1>1, SessionsInvariant, PTL

\* A text goes to the session that was active when it was dispatched.
THEOREM SessionsHome == Spec => []InItsSession
  <1>1. IInv => InItsSession
    <2> SUFFICES ASSUME IInv, ~crossed, ~doubled, NEW t \in Tasks, pc[t] = "loaded", meant[t] # 0
                 PROVE  copy[t].id = meant[t]
        BY DEF InItsSession
    <2>1. InProgress(t)
          BY DEF InProgress, Ended, Loaded
    <2> QED BY <2>1 DEF IInv, Settled, Loaded
  <1> QED BY <1>1, SessionsInvariant, PTL

=============================================================================
