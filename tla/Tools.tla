-------------------------------- MODULE Tools --------------------------------
(***************************************************************************)
(* The file tools of src/tools.go: read_file, write_file, edit_file and    *)
(* terminal, called by the Handles of several chats at once on one         *)
(* directory, with one table of the paths that were read.                  *)
(*                                                                         *)
(* A file is its lines as strings.Split yields them: at least one, and the *)
(* empty file is one empty line.  A call that writes does so in steps,     *)
(* between which other calls run: an edit reads the file, os.WriteFile     *)
(* empties it and then fills it.                                           *)
(***************************************************************************)
EXTENDS Naturals, Sequences

CONSTANTS
    Chats,       \* each runs one tool call at a time
    Files, Paths,
    FileOf,      \* resolvePath: a file has several spellings
    Lines, Blank,
    MaxLines,    \* bound on the lines of a file
    Pieces,      \* what calls write or insert
    Contents,    \* what files hold at first, and what commands make of them
    NoFile

ASSUME LinesAssumption == Blank \in Lines
ASSUME PathsAssumption == FileOf \in [Paths -> Files]
ASSUME MaxLinesAssumption == MaxLines \in Nat \ {0}
ASSUME ContentsAssumption ==
    \A text \in Pieces \union Contents :
        Len(text) \in 1..MaxLines /\ text \in [1..Len(text) -> Lines]

VARIABLES
    disk,        \* disk[f]: the lines of file f, or NoFile
    readFiles,   \* the paths that were read, by any chat
    call,        \* call[c]: the call of chat c that is about to write
    serial,      \* history: the files as if every call had run in one step
    raced        \* history: files with two calls at a time, or a write cut off

toolsVars == <<disk, readFiles, call, serial, raced>>

Texts == UNION {[1..n -> Lines] : n \in 1..MaxLines}
Empty == <<Blank>>

ASSUME NoFileAssumption == NoFile \notin Texts

Idle == [pc |-> "idle"]

\* The arguments of edit_file, as far as its action looks at them.
EditArgs ==
    [op : {"replace"}, start : 0..MaxLines + 1, end : 0..MaxLines + 1, text : Pieces]
    \union [op : {"delete"}, start : 0..MaxLines + 1, end : 0..MaxLines + 1, text : {Empty}]
    \union [op : {"insert"}, start : 0..MaxLines + 1, end : {0}, text : Pieces]
WriteArgs == [op : {"write"}, start : {0}, end : {0}, text : Pieces]

ToolsInit ==
    /\ disk \in [Files -> Contents \union {NoFile}]
    /\ readFiles = {}
    /\ call = [c \in Chats |-> Idle]
    /\ serial = disk
    /\ raced = {}

---------------------------------------------------------------------------
(* The line arithmetic of edit_file.                                       *)

\* strings.Join and back: no lines at all are the empty file.
Joined(lines) == IF lines = <<>> THEN Empty ELSE lines

From(lines, k) == SubSeq(lines, k, Len(lines))   \* Go's lines[k-1:]

\* end defaults to start; delete clamps it, replace does not.
Last(a, n) ==
    LET end == IF a.end = 0 THEN a.start ELSE a.end
    IN  IF a.op = "delete" /\ end > n THEN n ELSE end

\* The calls that return an error and leave everything as it is.
Refused(a, n) ==
    IF a.op = "insert"
    THEN a.start > n
    ELSE a.start < 1 \/ a.start > n \/ Last(a, n) < a.start

\* replace slices the lines from an end beyond the last one.
Panics(a, n) == a.op = "replace" /\ Last(a, n) > n

\* Faulty variant: the line after the last one is lost, too.
EditedTooFar(a, lines) ==
    Joined(CASE a.op = "replace" ->
                  SubSeq(lines, 1, a.start - 1) \o a.text \o From(lines, Last(a, Len(lines)) + 2)
             [] a.op = "delete" ->
                  SubSeq(lines, 1, a.start - 1) \o From(lines, Last(a, Len(lines)) + 2)
             [] a.op = "insert" ->
                  SubSeq(lines, 1, a.start) \o a.text \o From(lines, a.start + 1))

Edited(a, lines) ==
    Joined(CASE a.op = "replace" ->
                  SubSeq(lines, 1, a.start - 1) \o a.text \o From(lines, Last(a, Len(lines)) + 1)
             [] a.op = "delete" ->
                  SubSeq(lines, 1, a.start - 1) \o From(lines, Last(a, Len(lines)) + 1)
             [] a.op = "insert" ->
                  SubSeq(lines, 1, a.start) \o a.text \o From(lines, a.start + 1))

---------------------------------------------------------------------------
(* The tools.                                                              *)

\* What the call writes.
Result(k) == IF k.args.op = "write" THEN k.args.text ELSE Edited(k.args, k.old)

WasRead(p) == p \in readFiles

\* A call begins on a file on which another one is under way.
Meets(f) == \E c \in Chats : call[c] # Idle /\ call[c].file = f

\* From now on nothing is said of the files fs.
Races(fs) ==
    /\ raced' = raced \union fs
    /\ serial' = [f \in Files |-> IF f \in raced' THEN NoFile ELSE serial[f]]

readFile(c, p) ==
    /\ call[c] = Idle /\ disk[FileOf[p]] # NoFile
    /\ readFiles' = readFiles \union {p}
    /\ UNCHANGED <<disk, call, serial, raced>>

Begin(c, p, a) ==
    /\ call' = [call EXCEPT ![c] = [args |-> a, pc |-> "open", file |-> FileOf[p],
                                    old |-> disk[FileOf[p]]]]
    /\ Races({f \in {FileOf[p]} : Meets(f)})
    /\ UNCHANGED <<disk, readFiles>>

\* Only what was read by this spelling of its path can be written - also when it
\* has been deleted since.
writeFile(c, p, text) ==
    /\ call[c] = Idle /\ WasRead(p)
    /\ Begin(c, p, [op |-> "write", start |-> 0, end |-> 0, text |-> text])

\* The file is read again, and edited in memory.
editFile(c, p, a) ==
    LET lines == disk[FileOf[p]] IN
    /\ call[c] = Idle /\ WasRead(p) /\ lines # NoFile
    /\ ~Refused(a, Len(lines)) /\ ~Panics(a, Len(lines))
    /\ Len(Edited(a, lines)) <= MaxLines
    /\ Begin(c, p, a)

\* From here on the call counts as having happened.
Counts(c) ==
    LET f == call[c].file   a == call[c].args IN
    /\ serial' = [serial EXCEPT ![f] =
          IF f \in raced THEN @ ELSE IF a.op = "write" THEN a.text ELSE Edited(a, @)]
    /\ call' = [call EXCEPT ![c] = [pc |-> "fill", file |-> f, result |-> Result(call[c])]]
    /\ UNCHANGED <<readFiles, raced>>

\* Faulty variant: the file is opened without emptying it.
OpenInPlace(c) ==
    /\ call[c].pc = "open"
    /\ disk' = [disk EXCEPT ![call[c].file] = IF @ = NoFile THEN Empty ELSE @]
    /\ Counts(c)

\* os.WriteFile opens the file, which empties it ...
Open(c) ==
    /\ call[c].pc = "open"
    /\ disk' = [disk EXCEPT ![call[c].file] = Empty]
    /\ Counts(c)

\* ... and writes from its beginning: what another call has written there in the
\* meantime stays where it is longer.
Fill(c) ==
    /\ call[c].pc = "fill"
    /\ disk' = [disk EXCEPT ![call[c].file] =
          IF @ = NoFile THEN NoFile ELSE call[c].result \o From(@, Len(call[c].result) + 1)]
    /\ call' = [call EXCEPT ![c] = Idle]
    /\ UNCHANGED <<readFiles, serial, raced>>

\* terminal: the command creates, changes or deletes a file.
execTerminal(c, f, text) ==
    /\ call[c] = Idle /\ text # disk[f]
    /\ disk' = [disk EXCEPT ![f] = text]
    /\ IF Meets(f) \/ f \in raced
       THEN Races({f})
       ELSE serial' = [serial EXCEPT ![f] = text] /\ UNCHANGED raced
    /\ UNCHANGED <<readFiles, call>>

\* The process ends: the table of read paths is gone, and what was being written
\* stays half written.
Ends ==
    /\ readFiles' = {}
    /\ call' = [c \in Chats |-> Idle]
    /\ Races({call[c].file : c \in {d \in Chats : call[d].pc = "fill"}})
    /\ UNCHANGED disk

\* It is stopped or swapped by the supervisor, ...
Crash == Ends

\* ... or an edit panics.
editFilePanics(c, p, a) ==
    /\ call[c] = Idle /\ WasRead(p) /\ disk[FileOf[p]] # NoFile
    /\ ~Refused(a, Len(disk[FileOf[p]])) /\ Panics(a, Len(disk[FileOf[p]]))
    /\ Ends

ToolsNext ==
    \/ \E c \in Chats, p \in Paths :
          \/ readFile(c, p)
          \/ \E text \in Pieces : writeFile(c, p, text)
          \/ \E a \in EditArgs : editFile(c, p, a) \/ editFilePanics(c, p, a)
    \/ \E c \in Chats : Open(c) \/ Fill(c)
    \/ \E c \in Chats, f \in Files, text \in Contents \union {NoFile} : execTerminal(c, f, text)
    \/ Crash

ToolsSpec == ToolsInit /\ [][ToolsNext]_toolsVars

---------------------------------------------------------------------------
(* Properties.                                                             *)

\* Shapes; what a call will write is a file, too.
ToolsTypeOK ==
    /\ disk \in [Files -> Texts \union {NoFile}]
    /\ readFiles \subseteq Paths
    /\ \A c \in Chats :
          \/ call[c] = Idle
          \/ /\ call[c].pc = "open" /\ call[c].file \in Files
             /\ call[c].args \in WriteArgs \union EditArgs
             /\ call[c].old \in Texts \union {NoFile}
             /\ Result(call[c]) \in Texts
          \/ call[c].pc = "fill" /\ call[c].file \in Files /\ call[c].result \in Texts
    /\ serial \in [Files -> Texts \union {NoFile}]
    /\ raced \subseteq Files

\* What an edit is about to write, said line by line: the lines before its first
\* and after its last one are those of the file, in their order, and between them
\* stands exactly the new text; an emptied file is one empty line.
EditExact ==
    \A c \in Chats : (call[c].pc = "open" /\ call[c].args.op # "write") =>
        LET a == call[c].args   old == call[c].old   new == Result(call[c])
            head == IF a.op = "insert" THEN a.start ELSE a.start - 1
            end == IF a.end < a.start THEN a.start ELSE a.end
            tail == {i \in 1..Len(old) : i > (IF a.op = "insert" THEN a.start ELSE end)}
            gap == IF a.op = "delete" THEN 0 ELSE Len(a.text)
            shift == Len(new) - Len(old)
        IN  \/ /\ a.op = "delete" /\ head = 0 /\ tail = {}
               /\ new = Empty
            \/ /\ \A i \in 1..head : new[i] = old[i]
               /\ \A i \in tail : new[i + shift] = old[i]
               /\ \A i \in 1..gap : new[head + i] = a.text[i]
               /\ \A i \in 1..Len(new) : i <= head + gap \/ i - shift \in tail

\* Calls that do not overlap are as good as one after the other: a file that no
\* call is writing holds what they have made of it in their order - through
\* commands, deletions, two spellings of a path and restarts - unless two calls on
\* it overlapped, or the process ended inside a write.
Serial ==
    \A f \in Files :
        \/ f \in raced
        \/ \E c \in Chats : call[c].pc = "fill" /\ call[c].file = f
        \/ disk[f] = serial[f]

=============================================================================
