----------------------------- MODULE RunProtocol -----------------------------
(***************************************************************************)
(* One shell terminal shared by the processes that drive it:                *)
(*   - `pairmux run` processes (Agents), under the terminal's write lock;    *)
(*   - `pairmux send` processes (Senders), under its send lock;              *)
(*   - `pairmux note` processes, one per note, under no lock;                *)
(*   - `pairmux peek`, which only reads;                                     *)
(*   - a human typing in the pane, and the shell with its foreground command.*)
(* They meet in the event log (index.jsonl, module Journal), in the pane's   *)
(* input line, and in raw.log, where the shell's marks tell a run that its   *)
(* command is over (module Completion).                                      *)
(*                                                                          *)
(* Reads and the step that uses them are one action where nothing another    *)
(* process does in between can change what the step does.                    *)
(***************************************************************************)
EXTENDS Completion, Journal, FiniteSets

CONSTANTS
    Agents,     \* pairmux run processes
    Senders,    \* pairmux send processes
    NumNotes,   \* bound: notes left by humans, 1 .. NumNotes
    MaxCmds,    \* bound: commands started
    Worlds,     \* the circumstances to consider, records of World
    None

(***************************************************************************)
(* A world is the kind of shell (bash 3.2 is "hooks-noC"), what may go wrong  *)
(* around it, and, as bounds, how many lines a human enters in the pane, how  *)
(* many sends and how many notes there are.                                  *)
(* "crash": a run or send process is killed (Ctrl-C, MCP cancellation).      *)
(* "fail": a mux call fails.  "io": appending an event of a run fails.       *)
(* "timeout": run's deadline passes, or its terminal waits at a prompt.      *)
(* "mid": a human's line may reach the shell ahead of a run's.               *)
(* "slow-prompt": the shell may take longer than the 250ms grace period from *)
(* one command's D to the next one's C.                                      *)
(* "eats": a foreground program may read a run's line as its own input.      *)
(* "unreadable": raw.log is there and may not be opened for reading, so that *)
(* a wait returns an error (journal.go:73-88).                               *)
(***************************************************************************)
EnvKinds == {"crash", "fail", "io", "timeout", "mid", "slow-prompt", "eats",
             "unreadable"}

World ==
    [shell : {"hooks", "hooks-noC", "sentinel"}, env : SUBSET EnvKinds, humanLines : Nat,
     sends : Nat, notes : Nat]

ASSUME RunAssumption ==
    /\ NumNotes \in Nat /\ MaxCmds \in Nat
    /\ \A w \in Worlds : w \in World
    /\ None \notin Agents \cup Senders

Notes == 1 .. NumNotes

VARIABLES
    world,      \* where this terminal is; it does not change
    log,        \* index.jsonl
    clock,      \* the last timestamp stamped
    writeLock,  \* holder of write.lock, or None
    pc,         \* [Agents -> where its run is]
    run,        \* [Agents -> its local state]
    sendLock,   \* holder of send.lock, or None
    spc,        \* [Senders -> where its send is]
    sends,      \* sends begun
    marks,      \* the marks of raw.log
    line,       \* what was typed in the pane since the last Enter
    queue,      \* lines entered, not read by anybody yet (<<>> is a blank one)
    fg,         \* the line the shell is executing, or <<>>
    humanLines, \* lines the human entered
    stamp,      \* [Notes -> timestamp of the note, 0 before it is stamped]
    delivered,  \* history: [Notes -> in which envelope it was surfaced]
    excused     \* history: notes whose loss has a known cause

logVars == <<log, clock>>
runVars == <<writeLock, pc, run>>
sendVars == <<sendLock, spc, sends>>
paneVars == <<marks, line, queue, fg>>
noteVars == <<stamp, delivered, excused>>
vars == <<world, logVars, runVars, sendVars, paneVars, humanLines, noteVars>>

Shell == world.shell
Env == world.env

\* A piece of typed text, by whom: a line is a sequence of pieces, <<>> is blank.
RunPiece(id) == [who |-> "run", id |-> id]
SendPiece(s) == [who |-> "send", id |-> s]
HumanPiece == [who |-> "human", id |-> 0]

Pieces(l) == {l[i] : i \in 1 .. Len(l)}
HasRun(l) == \E p \in Pieces(l) : p.who = "run"

NoRun == [id |-> 0, offset |-> 0, base |-> 0, notes |-> {}, mark |-> 0]

Init ==
    /\ world \in Worlds
    /\ log = <<>> /\ clock = 0
    /\ writeLock = None /\ pc = [a \in Agents |-> "idle"] /\ run = [a \in Agents |-> NoRun]
    /\ sendLock = None /\ spc = [s \in Senders |-> "idle"] /\ sends = 0
    /\ marks = <<>> /\ line = <<>> /\ queue = <<>> /\ fg = <<>>
    /\ humanLines = 0
    /\ stamp = [n \in Notes |-> 0]
    /\ delivered = [n \in Notes |-> "none"]
    /\ excused = {}

(***************************************************************************)
(* AppendEvent stamps the event and appends it in one write.  For a run or a *)
(* send nothing tells the stamp and the write apart; a note's are two steps. *)
(***************************************************************************)
Now == clock + 1

AppendEvent(ev) == log' = Append(log, ev) /\ clock' = Now

Goto(a, l) == pc' = [pc EXCEPT ![a] = l]

\* The deferred release: whatever path run leaves by, the lock is freed.
Leave(a) ==
    /\ Goto(a, "idle")
    /\ run' = [run EXCEPT ![a] = NoRun]
    /\ writeLock' = None

\* The completion of the command sent at offset, established by the marks.
Completed(offset) ==
    IF Shell = "sentinel" THEN FirstSentinel(marks, offset) ELSE CorrelatedD(marks, offset)

\* The completion held back, to be accepted when the grace or the wait is over.
Held(offset) == IF Shell = "sentinel" THEN 0 ELSE HeldD(marks, offset)

\* The notes a run that is past its baseline would still put in an envelope.
HeldNotes(a) ==
    CASE pc[a] \in {"settle", "start", "record", "literal", "enter", "wait"} ->
            run[a].notes \cup NotesArrivedSince(log, run[a].base)
      [] pc[a] \in {"end", "emit"} -> run[a].notes
      [] OTHER -> {}

Surface(ns, how) ==
    delivered' = [n \in Notes |-> IF n \in ns /\ delivered[n] # "done" THEN how ELSE delivered[n]]

-----------------------------------------------------------------------------
(* pairmux run *)

\* Slip: any process may take the lock.
AcquireHeldLock(a) ==
    /\ pc[a] = "idle" /\ NextCmdID(log) <= MaxCmds
    /\ writeLock' = a
    /\ Goto(a, "baseline")
    /\ UNCHANGED <<logVars, run, sendVars, paneVars, humanLines, noteVars>>

\* Another holder is E_BUSY: the process leaves without having done anything.
AcquireWriteLock(a) ==
    /\ pc[a] = "idle" /\ NextCmdID(log) <= MaxCmds
    /\ writeLock = None
    /\ writeLock' = a
    /\ Goto(a, "baseline")
    /\ UNCHANGED <<logVars, run, sendVars, paneVars, humanLines, noteVars>>

\* Slip: only the notes that arrive from here on.
BaselineOnly(a) ==
    /\ pc[a] = "baseline"
    /\ run' = [run EXCEPT ![a].base = Len(log)]
    /\ Goto(a, "settle")
    /\ UNCHANGED <<logVars, writeLock, sendVars, paneVars, humanLines, noteVars>>

NotesBaseline(a) ==
    /\ pc[a] = "baseline"
    /\ run' = [run EXCEPT ![a].base = Len(log), ![a].notes = UnseenNotes(log)]
    /\ Goto(a, "settle")
    /\ UNCHANGED <<logVars, writeLock, sendVars, paneVars, humanLines, noteVars>>

(***************************************************************************)
(* Lazy settlement, with a zero timeout: the deadline has passed when the    *)
(* one scan is done, so a held D is taken - unless the terminal looks like   *)
(* it is waiting for input, which is asked first.                            *)
(***************************************************************************)
NothingPending(a) ==
    /\ pc[a] = "settle" /\ PendingCmd(log) = 0
    /\ Goto(a, "start")
    /\ UNCHANGED <<logVars, writeLock, run, sendVars, paneVars, humanLines, noteVars>>

\* The wait of a settlement said done, with mark m; a failed append is ignored.
SettleAs(a, m) ==
    /\ \/ AppendEvent(CmdEnd(log[PendingCmd(log)].id, m, m, Now))
       \/ "io" \in Env /\ UNCHANGED logVars
    /\ Goto(a, "start")
    /\ UNCHANGED <<writeLock, run, sendVars, paneVars, humanLines, noteVars>>

\* Slip: a pending command is taken to be over.
SettleBlindly(a) == pc[a] = "settle" /\ PendingCmd(log) # 0 /\ SettleAs(a, 0)

Settle(a) ==
    /\ pc[a] = "settle" /\ PendingCmd(log) # 0
    /\ LET offset == log[PendingCmd(log)].offset
           m == IF Completed(offset) # 0 THEN Completed(offset) ELSE Held(offset)
       IN  m # 0 /\ SettleAs(a, m)

(***************************************************************************)
(* The wait returned an error, which is dropped: what is looked at is the    *)
(* zero RunResult, whose outcome is done, with exit code 0 at offset 0.      *)
(***************************************************************************)
SettleUnread(a) ==
    /\ "unreadable" \in Env
    /\ pc[a] = "settle" /\ PendingCmd(log) # 0
    /\ SettleAs(a, 0)

StillRunning(a) ==
    /\ pc[a] = "settle" /\ PendingCmd(log) # 0
    /\ Completed(log[PendingCmd(log)].offset) = 0
    /\ Leave(a)
    /\ UNCHANGED <<logVars, sendVars, paneVars, humanLines, noteVars>>

\* The command's id and the offset its output starts at, read before it is recorded.
NumberCommand(a) ==
    /\ pc[a] = "start"
    /\ run' = [run EXCEPT ![a].id = NextCmdID(log), ![a].offset = Len(marks)]
    /\ Goto(a, "record")
    /\ UNCHANGED <<logVars, writeLock, sendVars, paneVars, humanLines, noteVars>>

\* cmd_start is not appended: nothing is sent, the notes are not surfaced.
StartFails(a) ==
    /\ "io" \in Env
    /\ pc[a] = "record"
    /\ excused' = excused \cup (HeldNotes(a) \ UnseenNotes(log))
    /\ Leave(a)
    /\ UNCHANGED <<logVars, sendVars, paneVars, humanLines, stamp, delivered>>

RecordStart(a) ==
    /\ pc[a] = "record"
    /\ AppendEvent(CmdStart(run[a].id, run[a].offset, Now))
    /\ Goto(a, "literal")
    /\ UNCHANGED <<writeLock, run, sendVars, paneVars, humanLines, noteVars>>

SendLiteral(a) ==
    /\ pc[a] = "literal"
    /\ line' = Append(line, RunPiece(run[a].id))
    /\ Goto(a, "enter")
    /\ UNCHANGED <<logVars, writeLock, run, sendVars, marks, queue, fg, humanLines, noteVars>>

SendEnter(a) ==
    /\ pc[a] = "enter"
    /\ queue' = Append(queue, line) /\ line' = <<>>
    /\ Goto(a, "wait")
    /\ UNCHANGED <<logVars, writeLock, run, sendVars, marks, fg, humanLines, noteVars>>

\* Slip: the command that was not dispatched stays pending.
AbortSilently(a) ==
    /\ "fail" \in Env
    /\ pc[a] \in {"literal", "enter"}
    /\ excused' = excused \cup HeldNotes(a)
    /\ Leave(a)
    /\ UNCHANGED <<logVars, sendVars, paneVars, humanLines, stamp, delivered>>

\* A failed mux call: cmd_end(-1), and an error envelope without notes.
Abort(a) ==
    /\ "fail" \in Env
    /\ pc[a] \in {"literal", "enter"}
    /\ \/ AppendEvent(CmdEnd(run[a].id, Len(marks), Aborted, Now))
       \/ "io" \in Env /\ UNCHANGED logVars
    /\ excused' = excused \cup HeldNotes(a)
    /\ Leave(a)
    /\ UNCHANGED <<sendVars, paneVars, humanLines, stamp, delivered>>

(***************************************************************************)
(* The completion is established and the notes that arrived meanwhile are    *)
(* merged in, before the end is recorded.                                    *)
(***************************************************************************)
Finish(a, m) ==
    /\ pc[a] = "wait"
    /\ m # 0
    /\ run' = [run EXCEPT ![a].mark = m, ![a].notes = HeldNotes(a)]
    /\ Goto(a, "end")
    /\ UNCHANGED <<logVars, writeLock, sendVars, paneVars, humanLines, noteVars>>

WaitDone(a) == Finish(a, Completed(run[a].offset))

(***************************************************************************)
(* 250ms after the held D was read no C has followed.  A shell that marks C  *)
(* has one coming as soon as it reads the next line; unless it is slow, the  *)
(* period only runs out when there is no such line.                          *)
(***************************************************************************)
GraceOver(a) ==
    /\ \/ Shell = "hooks-noC" \/ "slow-prompt" \in Env
       \/ fg = <<>> /\ queue = <<>>
    /\ Finish(a, Held(run[a].offset))

\* Timeout, or the terminal waits at a prompt: no event, an envelope with notes.
GiveUp(a) ==
    /\ "timeout" \in Env
    /\ pc[a] = "wait"
    /\ Completed(run[a].offset) = 0
    /\ Surface(HeldNotes(a), "shown")
    /\ Leave(a)
    /\ UNCHANGED <<logVars, sendVars, paneVars, humanLines, stamp, excused>>

\* At the deadline a held D is a completion.
DeadlineTakesHeld(a) ==
    /\ "timeout" \in Env
    /\ Completed(run[a].offset) = 0
    /\ Finish(a, Held(run[a].offset))

\* The wait returned an error: no event, and an error envelope without notes.
WaitFails(a) ==
    /\ "unreadable" \in Env
    /\ pc[a] = "wait"
    /\ excused' = excused \cup (HeldNotes(a) \ UnseenNotes(log))
    /\ Leave(a)
    /\ UNCHANGED <<logVars, sendVars, paneVars, humanLines, stamp, delivered>>

RecordEnd(a) ==
    /\ pc[a] = "end"
    /\ \/ AppendEvent(CmdEnd(run[a].id, run[a].mark, run[a].mark, Now))
       \/ "io" \in Env /\ UNCHANGED logVars
    /\ Goto(a, "emit")
    /\ UNCHANGED <<writeLock, run, sendVars, paneVars, humanLines, noteVars>>

Emit(a) ==
    /\ pc[a] = "emit"
    /\ Surface(run[a].notes, "done")
    /\ Leave(a)
    /\ UNCHANGED <<logVars, sendVars, paneVars, humanLines, stamp, excused>>

\* The flock dies with the process, and so does what it was about to print.
CrashRun(a) ==
    /\ "crash" \in Env
    /\ pc[a] # "idle"
    /\ excused' = excused \cup (HeldNotes(a) \ UnseenNotes(log))
    /\ Leave(a)
    /\ UNCHANGED <<logVars, sendVars, paneVars, humanLines, stamp, delivered>>

-----------------------------------------------------------------------------
(* pairmux send: text, then Enter, then the sent event; no write lock *)

SGoto(s, l) == spc' = [spc EXCEPT ![s] = l]

SendLeave(s) == SGoto(s, "idle") /\ sendLock' = None

\* Slip: any process may take the send lock.
AcquireHeldSendLock(s) ==
    /\ spc[s] = "idle" /\ sends < world.sends
    /\ sendLock' = s /\ sends' = sends + 1
    /\ SGoto(s, "text")
    /\ UNCHANGED <<logVars, runVars, paneVars, humanLines, noteVars>>

AcquireSendLock(s) ==
    /\ spc[s] = "idle" /\ sends < world.sends
    /\ sendLock = None
    /\ sendLock' = s /\ sends' = sends + 1
    /\ SGoto(s, "text")
    /\ UNCHANGED <<logVars, runVars, paneVars, humanLines, noteVars>>

SendText(s) ==
    /\ spc[s] = "text"
    /\ line' = Append(line, SendPiece(s))
    /\ SGoto(s, "enter")
    /\ UNCHANGED <<logVars, runVars, sendLock, sends, marks, queue, fg, humanLines, noteVars>>

SendKeys(s) ==
    /\ spc[s] = "enter"
    /\ queue' = Append(queue, line) /\ line' = <<>>
    /\ SGoto(s, "sent")
    /\ UNCHANGED <<logVars, runVars, sendLock, sends, marks, fg, humanLines, noteVars>>

\* The sent event closes every note before it, read or not.
RecordSent(s) ==
    /\ spc[s] = "sent"
    /\ AppendEvent(SentEvent(Now))
    /\ excused' = excused \cup UnseenNotes(log)
    /\ SendLeave(s)
    /\ UNCHANGED <<runVars, sends, paneVars, humanLines, stamp, delivered>>

SendFails(s) ==
    /\ \/ spc[s] \in {"text", "enter"} /\ "fail" \in Env
       \/ spc[s] # "idle" /\ "crash" \in Env
    /\ SendLeave(s)
    /\ UNCHANGED <<logVars, runVars, sends, paneVars, humanLines, noteVars>>

-----------------------------------------------------------------------------
(* pairmux note and pairmux peek *)

StampNote(n) ==
    /\ n <= world.notes /\ stamp[n] = 0
    /\ clock' = Now
    /\ stamp' = [stamp EXCEPT ![n] = Now]
    /\ UNCHANGED <<log, runVars, sendVars, paneVars, humanLines, delivered, excused>>

(***************************************************************************)
(* The note is in the log, too late for an envelope that was already put     *)
(* together, or with a stamp older than an event that closes notes.          *)
(***************************************************************************)
TooLate(n) ==
    \/ \E a \in Agents : pc[a] = "end"
    \/ \E i \in 1 .. Len(log) : ActsOn(log[i]) /\ log[i].ts > stamp[n]

AppendNote(n) ==
    /\ stamp[n] # 0 /\ n \notin NotesIn(log)
    /\ log' = Append(log, NoteEvent(n, stamp[n]))
    /\ excused' = IF TooLate(n) THEN excused \cup {n} ELSE excused
    /\ UNCHANGED <<clock, runVars, sendVars, paneVars, humanLines, stamp, delivered>>

Peek ==
    /\ \E n \in UnseenNotes(log) : delivered[n] = "none"
    /\ Surface(UnseenNotes(log), "shown")
    /\ UNCHANGED <<logVars, runVars, sendVars, paneVars, humanLines, stamp, excused>>

-----------------------------------------------------------------------------
(* The pane: the shell, its foreground command, and a human typing *)

Mark(kind, l) == [kind |-> kind, by |-> l]

\* The shell takes up line l: a blank one only earns another prompt.
Execute(l) ==
    \/ /\ l = <<>>
       /\ marks' = IF Shell = "sentinel" THEN marks ELSE Append(marks, Mark("D", l))
       /\ UNCHANGED fg
    \/ /\ l # <<>>
       /\ marks' = IF Shell = "hooks" THEN Append(marks, Mark("C", l)) ELSE marks
       /\ fg' = l

ShellReads ==
    /\ fg = <<>> /\ queue # <<>>
    /\ Execute(Head(queue))
    /\ queue' = Tail(queue)
    /\ UNCHANGED <<logVars, runVars, sendVars, line, humanLines, noteVars>>

\* The sentinel is printed by the suffix of a run's own line, D by every prompt.
CommandEnds ==
    /\ fg # <<>>
    /\ marks' = CASE Shell # "sentinel" -> Append(marks, Mark("D", fg))
                  [] Shell = "sentinel" /\ HasRun(fg) -> Append(marks, Mark("S", fg))
                  [] OTHER -> marks
    /\ fg' = <<>>
    /\ UNCHANGED <<logVars, runVars, sendVars, line, queue, humanLines, noteVars>>

CommandReads ==
    /\ fg # <<>> /\ queue # <<>>
    /\ HasRun(Head(queue)) => "eats" \in Env
    /\ queue' = Tail(queue)
    /\ UNCHANGED <<logVars, runVars, sendVars, marks, line, fg, humanLines, noteVars>>

\* A run's offset is taken and the shell has not read its line yet.
RunOnItsWay ==
    \E a \in Agents :
        \/ pc[a] \in {"record", "literal", "enter"}
        \/ pc[a] = "wait" /\ \E i \in 1 .. Len(queue) : RunPiece(run[a].id) \in Pieces(queue[i])

HumanEnters(text) ==
    /\ humanLines < world.humanLines
    /\ humanLines' = humanLines + 1
    /\ \/ \* at an idle prompt, with no run's line on its way
          /\ ~RunOnItsWay
          /\ fg = <<>> /\ queue = <<>> /\ line = <<>>
          /\ Execute(text)
          /\ UNCHANGED <<line, queue>>
       \/ \* at any moment
          /\ "mid" \in Env
          /\ queue' = Append(queue, line \o text)
          /\ line' = <<>>
          /\ UNCHANGED <<marks, fg>>
    /\ UNCHANGED <<logVars, runVars, sendVars, noteVars>>

-----------------------------------------------------------------------------
RunStep(a) ==
    \/ AcquireWriteLock(a) \/ NotesBaseline(a) \/ NothingPending(a)
    \/ Settle(a) \/ SettleUnread(a) \/ StillRunning(a)
    \/ NumberCommand(a) \/ StartFails(a) \/ RecordStart(a)
    \/ SendLiteral(a) \/ SendEnter(a) \/ Abort(a)
    \/ WaitDone(a) \/ GraceOver(a) \/ GiveUp(a) \/ DeadlineTakesHeld(a) \/ WaitFails(a)
    \/ RecordEnd(a) \/ Emit(a)

SendStep(s) ==
    AcquireSendLock(s) \/ SendText(s) \/ SendKeys(s) \/ RecordSent(s)

Step ==
    \/ \E a \in Agents : RunStep(a) \/ CrashRun(a)
    \/ \E s \in Senders : SendStep(s) \/ SendFails(s)
    \/ \E n \in Notes : StampNote(n) \/ AppendNote(n)
    \/ Peek
    \/ ShellReads \/ CommandEnds \/ CommandReads
    \/ HumanEnters(<<HumanPiece>>) \/ HumanEnters(<<>>)

Next == Step /\ UNCHANGED world

Spec == Init /\ [][Next]_vars

(***************************************************************************)
(* Runs keep being asked for and go on once begun, the shell reads its input *)
(* and every command ends.  Sends, notes and humans owe nothing.             *)
(***************************************************************************)
Fairness ==
    /\ \A a \in Agents : WF_vars(RunStep(a) /\ UNCHANGED world)
    /\ WF_vars(ShellReads /\ UNCHANGED world) /\ WF_vars(CommandEnds /\ UNCHANGED world)

FairSpec == Spec /\ Fairness

-----------------------------------------------------------------------------
Lines == Seq({RunPiece(id) : id \in 1 .. MaxCmds} \cup {SendPiece(s) : s \in Senders}
             \cup {HumanPiece})

Events == [type : EventTypes, id : 0 .. MaxCmds, offset : Nat, exit : Nat \cup {Aborted},
           ts : Nat, note : Notes \cup {NoNote}]

RunState == [id : 0 .. MaxCmds, offset : Nat, base : Nat, notes : SUBSET Notes, mark : Nat]

RunLabels == {"idle", "baseline", "settle", "start", "record", "literal", "enter", "wait",
              "end", "emit"}

TypeOK ==
    /\ world \in Worlds
    /\ log \in Seq(Events) /\ clock \in Nat
    /\ writeLock \in Agents \cup {None}
    /\ pc \in [Agents -> RunLabels] /\ run \in [Agents -> RunState]
    /\ sendLock \in Senders \cup {None}
    /\ spc \in [Senders -> {"idle", "text", "enter", "sent"}]
    /\ sends \in 0 .. world.sends
    /\ marks \in Seq([kind : MarkKinds, by : Lines])
    /\ line \in Lines /\ queue \in Seq(Lines) /\ fg \in Lines
    /\ humanLines \in 0 .. world.humanLines
    /\ stamp \in [Notes -> Nat]
    /\ delivered \in [Notes -> {"none", "shown", "done"}]
    /\ excused \subseteq Notes

(***************************************************************************)
(* Command ids are never reused, whichever process computed them, with       *)
(* whatever crashes in between: `log --cmd N` names one command.             *)
(***************************************************************************)
CmdIdsUnique ==
    \A i, k \in 1 .. Len(log) :
        log[i].type = "cmd_start" /\ log[k].type = "cmd_start" /\ log[i].id = log[k].id => i = k

(***************************************************************************)
(* A command ends at most once, after it started, although three code paths  *)
(* of two processes may record its end: its own run, that run's abort, and a *)
(* later run's settlement.  And a run starts its command only when every     *)
(* earlier one has its end recorded, unless recording it failed.             *)
(***************************************************************************)
EndsMatchStarts ==
    /\ \A k \in 1 .. Len(log) : log[k].type = "cmd_end" =>
           /\ \E i \in 1 .. k - 1 : log[i].type = "cmd_start" /\ log[i].id = log[k].id
           /\ \A m \in 1 .. Len(log) : log[m].type = "cmd_end" /\ log[m].id = log[k].id => m = k
    /\ "io" \notin Env => Cardinality(Unended(log)) <= 1

(***************************************************************************)
(* The log is a record of the commands: each has an id of its own, and the   *)
(* end that belongs to it.                                                   *)
(***************************************************************************)
LogIsARecord == CmdIdsUnique /\ EndsMatchStarts

(***************************************************************************)
(* The end recorded for a command was read from a mark its own line caused,  *)
(* so the exit code and the output region are its own.  "a human running     *)
(* commands in the same pane cannot spoof completion" (commands.go:563-564). *)
(***************************************************************************)
OwnCompletion ==
    \A k \in 1 .. Len(log) :
        log[k].type = "cmd_end" /\ log[k].exit > 0 =>
            RunPiece(log[k].id) \in Pieces(marks[log[k].exit].by)

\* Is the text of command id still to be entered, to be read, or executing?
Outstanding(id) ==
    \E l \in {line, fg} \cup {queue[i] : i \in 1 .. Len(queue)} : RunPiece(id) \in Pieces(l)

(***************************************************************************)
(* A run that finds a command pending goes on to its own only when that one  *)
(* is over: "Settle it if it has since finished; refuse if it is genuinely   *)
(* still running" (commands.go:394-395) - however it came to settle it, and  *)
(* whether or not the end could be recorded.  Not so if raw.log cannot be    *)
(* read: cmdRun drops the error of that wait (commands.go:398), and records  *)
(* exit 0 for a command that may go on.                                      *)
(***************************************************************************)
GoesOnBehindNone ==
    \A a \in Agents :
        /\ "unreadable" \notin Env
        /\ pc[a] = "settle" /\ pc'[a] = "start" /\ PendingCmd(log) # 0
        => ~Outstanding(log[PendingCmd(log)].id)

SettledIsOver == [][GoesOnBehindNone]_vars

(***************************************************************************)
(* What peek, ls and wait call idle has finished: DeriveStatus on a pending  *)
(* command, "the command has finished (settlement is merely pending)"        *)
(* (detect/wait.go:402-403) - unless a human runs commands beside a shell    *)
(* with hooks, whose D may be the one that is found.                         *)
(***************************************************************************)
Mode == IF Shell = "sentinel" THEN "sentinel" ELSE "hooks"

IdleIsOver ==
    Shell = "sentinel" \/ world.humanLines = 0 =>
    LET p == PendingCmd(log)
    IN  p # 0 /\ ScanForMark(marks, log[p].offset, Mode) => ~Outstanding(log[p].id)

(***************************************************************************)
(* A note in the log is still unseen, was surfaced in an envelope, or is in  *)
(* the hands of a run that will surface it: a note left while a command runs *)
(* "must surface in this envelope" (commands.go:465-466).                    *)
(***************************************************************************)
Lost == {n \in NotesIn(log) :
            /\ delivered[n] = "none" /\ n \notin UnseenNotes(log)
            /\ \A a \in Agents : n \notin HeldNotes(a)}

NoNoteLost == Lost = {}

(***************************************************************************)
(* The only ways to lose a note: it was appended between the moment a run    *)
(* put its envelope together and that run's cmd_end, or its stamp is older   *)
(* than an event that closes notes; the run that held it aborted, died or    *)
(* failed to read raw.log after an event had closed it; or a send            *)
(* acknowledged it unread.  In particular neither settlement nor a recorded  *)
(* end loses one.  And a note that a finished run surfaced is not surfaced   *)
(* again: "(and only this one)" (commands.go:466), unless that run could not *)
(* append its cmd_end, which is what closes the note.                        *)
(***************************************************************************)
NoteLossExplained ==
    /\ Lost \subseteq excused
    /\ "io" \notin Env => \A n \in UnseenNotes(log) : delivered[n] # "done"

(***************************************************************************)
(* Two sends never make a line that is neither's (journal.go:351-352), as    *)
(* long as none dies or fails between its text and its Enter.                *)
(***************************************************************************)
SendLinesPure ==
    Env \cap {"crash", "fail"} = {} =>
    \A l \in {fg} \cup {queue[i] : i \in 1 .. Len(queue)} \cup {marks[i].by : i \in 1 .. Len(marks)} :
        Cardinality({p \in Pieces(l) : p.who = "send"}) <= 1

(***************************************************************************)
(* A command that was started is recorded as ended, by its run or by a later *)
(* one, whatever timeouts and failed dispatches come between: none leaves    *)
(* the terminal refusing runs for ever.  A run that is killed does, and one  *)
(* whose appends fail.  (The last of the bounded number of commands has no   *)
(* later run.)                                                               *)
(***************************************************************************)
Has(type, id) == \E i \in 1 .. Len(log) : log[i].type = type /\ log[i].id = id

StartedIsEnded ==
    Shell = "hooks" /\ Env \subseteq {"fail", "timeout"} => \A id \in 1 .. MaxCmds - 1 : Has("cmd_start", id) ~> Has("cmd_end", id)

=============================================================================
