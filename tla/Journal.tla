------------------------------- MODULE Journal -------------------------------
(***************************************************************************)
(* The event log of one terminal, index.jsonl, and the questions asked of   *)
(* it (internal/journal, and the note helpers of internal/cli/commands.go). *)
(* An event carries the fields those questions read: its type, its command   *)
(* id (0: none), the raw.log offset, the exit (the index of the completion   *)
(* mark the exit code was read from; Aborted for cmd_end(-1)), the timestamp *)
(* the writer stamped and, for a note, which note it is.                     *)
(***************************************************************************)
EXTENDS Integers, Sequences

EventTypes == {"cmd_start", "cmd_end", "note", "sent"}

Aborted == -1
NoNote == 0

CmdStart(id, offset, ts) ==
    [type |-> "cmd_start", id |-> id, offset |-> offset, exit |-> 0, ts |-> ts, note |-> NoNote]

CmdEnd(id, offset, exit, ts) ==
    [type |-> "cmd_end", id |-> id, offset |-> offset, exit |-> exit, ts |-> ts, note |-> NoNote]

NoteEvent(note, ts) ==
    [type |-> "note", id |-> 0, offset |-> 0, exit |-> 0, ts |-> ts, note |-> note]

SentEvent(ts) ==
    [type |-> "sent", id |-> 0, offset |-> 0, exit |-> 0, ts |-> ts, note |-> NoNote]

-----------------------------------------------------------------------------
\* Is cmd id number i of the log followed by its cmd_end?
EndedAfter(log, i) ==
    \E k \in i + 1 .. Len(log) : log[k].type = "cmd_end" /\ log[k].id = log[i].id

\* Positions of the cmd_start events whose completion is not recorded.
Unended(log) == {i \in 1 .. Len(log) : log[i].type = "cmd_start" /\ ~EndedAfter(log, i)}

\* PendingCmd: the position of the most recent one, 0 when there is none.
PendingCmd(log) ==
    IF Unended(log) = {} THEN 0
    ELSE CHOOSE i \in Unended(log) : \A k \in Unended(log) : k <= i

\* The largest command id in the log, 0 when it holds no command.
HighestId(log) ==
    CHOOSE m \in {0} \cup {log[i].id : i \in 1 .. Len(log)} :
        \A i \in 1 .. Len(log) : log[i].id <= m

NextCmdID(log) == HighestId(log) + 1

-----------------------------------------------------------------------------
\* Does event ev close the notes older than it?
ActsOn(ev) == ev.type \in {"cmd_end", "sent"}

\* unseenNotes: the notes stamped after the agent last acted on the terminal.
UnseenNotes(log) ==
    {log[i].note : i \in {n \in 1 .. Len(log) :
        /\ log[n].type = "note"
        /\ \A k \in 1 .. Len(log) : ActsOn(log[k]) => log[n].ts > log[k].ts}}

\* notesArrivedSince: the notes appended after the first baseline events.
NotesArrivedSince(log, baseline) ==
    {log[i].note : i \in {n \in baseline + 1 .. Len(log) : log[n].type = "note"}}

\* Every note the log holds.
NotesIn(log) == NotesArrivedSince(log, 0)

=============================================================================
