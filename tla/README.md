# TLA+ verification of pairmux

pairmux lets AI agents drive terminals and hand them to humans. It is a set of short-lived command
processes (`pairmux new`, `run`, `send`, `wait`, `note`, `kill`, `prune`, ...), a long-lived server
that owns the terminals (tmux, or pairmux's own built-in one), an MCP server that runs the commands
on behalf of an agent, and humans who type into the same terminals. Almost nothing of it is
sequential: what makes it right is the order in which these parties touch a few shared files, queues
and a pane. This directory holds TLA+ models of those protocols, the instances TLC checks, and
proofs about them that TLAPS checks.

Paths below are under `src/internal/`.

## 1. The system

| Component | State it keeps | Operations | Modelled in |
| --- | --- | --- | --- |
| Event log (`journal/journal.go`) | `index.jsonl` (events), write lock, send lock | append, next command id, pending command, unseen notes, both locks | `Journal`, `RunProtocol` |
| Completion (`detect/wait.go`, `await.go`) | position in `raw.log`, held mark, deadlines | correlate marks, one scan, poll loop, settle | `Completion`, `CompletionWatch` |
| `run`, `send`, `note`, `peek` (`cli/commands.go`) | the process itself, plus the log | settle, start, dispatch, wait, record, abort | `RunProtocol` |
| `new`, `kill`, `prune` (`cli/commands.go`, `cli/prune.go`, `state/`) | state directory, `.prev` archive, name reservation, panes | reserve, archive, prepare, open, name, give up, kill, prune | `NameLifecycle` |
| Endpoint (`muxd/server.go`, `client.go`, `lockfile_*.go`) | lock file, socket file | acquire, yield, serve, shut down; ping, spawn | `Endpoint`, `EndpointLock` |
| Built-in server (`muxd/server.go`) | list of panes, connections, closing | accept, new-window, kill-window, kill-server, idle exit, drain | `MuxServer` |
| Pane and attached humans (`muxd/server.go`, `attach_server.go`) | screen size, per-human backlog, input queue | read output, push, redraw, resize, attach, detach, write input, finish | `MuxPane` |
| MCP server (`mcpserver/`) | lifecycle, in-flight ids, queue, workers, subprocesses | receive, refuse, queue, cancel, complete, terminate, stop | `McpServer` |
| `wait` (`cli/wait.go`) | what each target looked like when armed | arm, poll, hand off | `WaitCommand` |
| Terminal emulator (`vt/`) | two buffers, cursor, modes, history; a sequence cut by a read | feed, resize, render; what it forwards and replies | `VtScreen`, `VtSoundness`, `VtParser`, `VtRender`, `VtOperations`, `Terminal` |
| OSC scanner (`detect/scanner.go`) | parser state across reads | feed | `Scanner`, `LogFollower`, `Terminal` |
| State resolution (`state/state.go`) | none | names, endpoints, namespaces | only one name (`NameLifecycle`) |
| Output shaping, prompts (`shape/`, `output/`, `Classify`) | none | text | not modelled |
| tmux, PTY, shell hooks, notify, doctor, update | external | external | not modelled, or as the environment |

How they interact. A `run` takes the write lock of its terminal, settles a command that an earlier
run left pending, appends `cmd_start`, types the command into the pane through the multiplexer, and
polls `raw.log` until the shell's marks (OSC 133 C and D, or a sentinel) say that the command is over;
then it appends `cmd_end`. A `send` types under another lock, a `note` appends under none, and `peek`,
`ls` and `wait` derive a status from log and marks without any lock. The built-in server appends what
the program prints to `raw.log`, draws it on a virtual screen, and hands it to the humans attached, less
what their terminals must not see; a human who attaches or resizes gets that screen repainted. The
server exits when idle and is spawned again by whichever command finds none, which is what the endpoint
lock is for.

What is hard here: several processes between any two steps of a `run`; a command that a dead or
timed-out process left behind; marks in `raw.log` whose author is unknown; files that are renamed,
unlinked and recreated by name under a process that holds them open; a human's terminal that cannot
keep up; a program that does not read its input; shutdown racing with creation; results racing with
cancellations; two terminals, the virtual one and a human's, that must go on agreeing on a stream one
of them gets with pieces cut out. `PROJECT.json` lists each of these hazards at its line, with the
properties about it.

## 2. The modules

`Completion` and `Journal` are pure: operators on a sequence of marks and on a sequence of events.
`CompletionWatch`, `RunProtocol` and `WaitCommand` extend them. `Bytes`, `VtScreen`, `VtRender`,
`VtParser` are pure too, each built on the ones before it, and `Terminal` puts them together; so is
`Scanner`, built on `Bytes`. `LogFollower` is about those who use it and is part of `Terminal`. The other
modules stand alone: each is one component and what it meets of the others is its environment. `Endpoint`
is the abstract specification that `EndpointLock` implements. `MC_*` modules give TLC small instances.
`EndpointLock_proofs`, `McpServer_proofs`, `MuxPane_proofs`, `MuxServer_proofs`, `RunProtocol_proofs` and
`VtOperations_proofs` prove theorems about the module they are named after; `Commands_proofs` about two,
`WaitCommand` and `NameLifecycle`, and `Detection_proofs` about `CompletionWatch` and `LogFollower`
(which is why `WaitSpec` and the like have names of their own). Definitions introduced by `\* Slip:` are
not part of any model: each is the definition below it with a plausible bug, used to see that a property
notices.

**Completion, CompletionWatch.** `marks` is what the scanner finds in `raw.log`; a mark is its kind.
The loops' variables are the code's: `off` (how far was scanned), `seenC`, `held` (a D without C, or a
sentinel without its boundary, kept for its grace period). `Read` feeds the next chunk, of any length;
the `check` actions are the code's tests in the code's order. Time is three booleans that become TRUE.

**RunProtocol.** One shell terminal. `log` is `index.jsonl`, `clock` stamps it; `pc[a]` is where
`cmdRun` of process `a` is, `run[a]` its local variables. `line`, `queue`, `fg` are the terminal: the
input line being typed, the lines entered and not yet read, the one whose command runs. A line is a
sequence of pieces, each of which says who typed it, so that a mark knows whose line caused it. A
`World` says what may go wrong (`crash`, `fail`: a mux call fails, `io`: an append fails, `timeout`,
`mid`: a human types at any moment and not only at an idle prompt, `unreadable`: `raw.log` may not be
opened for reading) and which shell it is. A wait on an unreadable `raw.log` returns an error and the zero
`RunResult`. `run` leaves with the error of its own wait (`WaitFails`) and drops that of a settlement's,
so it goes on as if the pending command were done (`SettleUnread`).

**WaitCommand.** One `wait` on one terminal; it writes nothing, so several targets are several
instances polled in turn. `w` holds the fields of `waitTarget` and where the command is; each read of
`armWaitTarget` and of `pollWaitTarget` is an action, so that the terminal moves between any two.
`out` is `raw.log` as marks and as what its last line is read from; whether a question is recognised by
its wording, by the terminal's echo being off, or only inferred after a silence is part of the `World`.
That the state check is due at most once a second is not modelled: `quiet` may become TRUE late.

**Endpoint, EndpointLock.** `Endpoint` has one owner or none, who serves clients from some time on and
leaves, in good order or not. In `EndpointLock` files are inodes: `path` is the inode the lock path
names, `fd[p]` the one process `p` has open. Every step of `acquireEndpointLock` and of the shutdown is
an action; Windows deletes the file after it closes it, Unix unlinks it first.

**VtScreen, VtSoundness, VtOperations.** A screen is a record with the fields of `vt.Screen`; each
operation of `screen.go` is an operator from screen to screen. A glyph is a name and stands for its
class: ASCII characters for themselves, one wide character, one combining mark, ZWJ, VS16, a regional
indicator, a line-drawing character. A history line also remembers whether it scrolled or was cleared
there; the code keeps a count of the former. `VtSoundness` declares the screen as a variable, `scr`, and
states what must hold of it. `VtOperations` is the state machine in which any operation may come next
with any argument: what the parser can ask for, and nothing of how it is asked. Its `Resize` lets the
history lines that a taller screen pulls back come out as any rows an emulator may print.

**VtParser, VtRender.** `Feed` is the parser byte by byte: what it draws, forwards to the
human's terminal, takes out of the stream, and answers to the program. Names of bytes stand for control
codes and for the two halves of a UTF-8 sequence. `Render` is the repaint as bytes.

**Scanner, LogFollower.** `Scan` is the scanner of `raw.log` byte by byte, with its states and its partial
match of a boundary; `MarksIn` is the reference: where a complete mark stands in a log, looked up without
a state machine. In `LogFollower` a program writes pieces of bytes and any number of followers (a run, a
wait, whoever derives a status) each begin at an offset and read on in pieces of their own: `from` is
the offset, `scanner` the `Scanner` of each, whose `marks` collect what its `Feed` returned.

**Terminal.** One program's output on its three ways: the log and its followers (`LogFollower`, whose
variables change by its own actions only), the virtual screen, and the terminal of an attached human,
which is the same parser fed with what was forwarded. `scr` is the
screen and `par` its parser, together `pane.scr`. A `World` is a screen size and the pieces of output a
program may write in it.

**MuxServer.** One action per critical section of `s.mu`. Terminals are named after the connection
that created them; `term[p].phase` is running, exited, finishing, gone. `caller` are the goroutines
that may begin a shutdown, `finishing` is the one that drains.

**MuxPane.** Output is counted: chunk n says that everything up to n was printed and a rendered
screen says it at once; `cl[c].view` is how far a human's screen has come and `torn` remembers a frame
that did not continue it. `input` is the queue with its byte count and the goroutine that writes it.

**McpServer.** The loop, the workers, the queue and completions channels, and for each call its
subprocess as leader and group. The client sends any message at any time.

**NameLifecycle.** One name. `dir` and `prev` say whose journal is at the path and in the archive;
`pc[c]` is where `cmdNew` of `c` is, `killer` and `pruner` what those commands saw when they resolved
the name. It is the built-in backend's order (the journal is opened before the program starts); with
tmux the pipe is attached one call later, which adds no step that changes these files.

## 3. What is checked

| Run | Question | States |
| --- | --- | --- |
| `MC_CompletionWatch` | Does a loop that scans incrementally report what one scan of the whole would, in the order of precedence the code claims, and does it always report? | 9k |
| `MC_RunProtocol_log` | Two runs and two sends, everything failing: is the log well formed, are notes lost only in the listed ways and surfaced once? | 981k |
| `MC_RunProtocol_own` | Is a recorded end the command's own, is idle never said too early, is every command ended? | 32k |
| `MC_RunProtocol_lostnote` | *violated*: a note left while a command runs "must surface" | |
| `MC_EndpointLock` | Three servers, two clients, two inodes, Unix and Windows, crashes | 151k |
| `MC_MuxPane` | Slow, resizing, leaving humans; input to a program that does not read | 78k |
| `MC_MuxPane_exit` | *violated*: whoever is told of the exit has seen the last screen | |
| `MC_MuxServer` | Create, kill and kill-server racing with idle, signal, accept failure, hung programs | 334k |
| `MC_McpServer` | Three calls, two with one id, two workers, cancellation and stop at any moment | 214k |
| `MC_NameLifecycle` | Three creates that fail or are killed at any step, a kill and a prune of one name | 531k |
| `MC_WaitCommand` | Is what a wait returns true, and does what it is for end it, wherever between its reads it comes? | 144k |
| `MC_Terminal` | Ten worlds of output: is the screen sound, does a repaint reproduce it, does the human's terminal keep up, do the cuts of reads matter, and do two followers of the log, beginning and reading anywhere, find every mark and agree? | 406k |

Each property is stated in words above its definition. The important ones:

- *LogIsARecord* (`CmdIdsUnique` and `EndsMatchStarts`): the log is a well-formed record although three
  code paths of two processes may write a command's end. *OwnCompletion*: the mark an end was read from
  was caused by that command's own line. *IdleIsOver*: nothing is called over while its text is still to
  be entered, read or executing. *SettledIsOver*: no run goes on behind a command of which that is still
  so, by whatever step it came to settle it (limit 15 is the exception). *NoteLossExplained*: `excused`
  collects the notes lost in the ways the code allows; no other is, and none is surfaced by two finished
  runs. *StartedIsEnded* is the liveness side.
- *ChunksDoNotMatter*: the loop's state is a function of what was consumed. *VerdictIsRight*: which
  verdict may be given on what, and what outranks what.
- *ImplementsEndpoint* (a refinement: at most one server per endpoint, clients answered by its owner
  only), *SocketIsTheOwners*: in spite of unlinked and recreated files. *SpawnedIsServed*: a client that
  spawned a server gets one.
- *NoTornView*: a human's screen is contiguous. *CatchesUp*: no wakeup of their writer is lost.
  *InputInOrder*: the input reaches the program in the order accepted and the byte count is exact.
- *IdleLosesNothing, ListedIsDrained, TableIsTrue*: an exit loses no request and no output.
- *IdNamesItsCall*: an id reused while its first call is under way is matched to the right call.
  *AnsweredOnce*: one answer, and none after a cancellation. *NothingSurvives*, *CallsEnd*, *StopEnds*.
- *DoneIsNew, WakesUp*: `--done` reports nothing older than the wait and misses nothing newer, although
  the baseline, the status and the pending command are read one after the other. *AnsweredIsOver*: a
  handoff is not reported as answered while the program asks.
- *OneTerminal, LiveJournalIsKept, FailedLeavesNoPane, HistoryIsKept*: a name is one terminal with its
  own journal, and failures cost neither a running program nor a history.
- *ScreenInvariants, OnlyScrolledLinesReturn*: no sequence of output and resizes leaves half of a wide
  glyph, a wrap pending off the last column or a position outside the screen, or brings cleared lines back.
  *RedrawRepaints*: the screen survives being written out as bytes and read again, with everything that
  decides how the next output is drawn. *HumanKeepsUp*: output that is forwarded with pieces cut out and
  repaints put in keeps the human's terminal equal to the virtual one, from any state in which they are
  equal; a repaint makes them equal from any state. *QueriesStayInside*: the human's terminal is never
  asked anything, never leaves its alternate screen and is never left inside a sequence.
  *SplitsDoNotMatter*: a piece fed whole or byte by byte draws, forwards and answers the same.
- *MarksAreRight*, which joins two. *EveryMarkIsFound*: the marks a scanner has found are those of the
  bytes it has read, wherever it began and however the reads cut them. *FollowersAgree*: whoever reads
  the whole of a mark that another found has found it too; so run, wait and status go by the same marks.
  (Boundaries that overlap are counted from where a scan began.)

### What the violated runs show

- **A lost note** (`NoNoteLost`). `run` merges the notes that arrived and then appends `cmd_end`; a
  note appended in between is older than the end and so counts as seen, and no envelope has it.
- **The last screen** (`LastScreenShown`). The backlog of a human is dropped, to be replaced by a
  redraw, after their writer looked at the redraw flag; the exit frame it then takes ends the writer
  with the redraw still owed.

## 4. Bounds, and why they are enough

- Two `run` processes are enough for one to leave a command that another settles while a third
  command follows it: `MaxCmds` is 2 or 3 and the processes are reused. Two sends make a mixed line if
  any two can. One note and its stamp relate to one event each. `Worlds` splits what may go wrong,
  since all of it at once with notes, sends and humans is out of reach (a note beside runs whose appends
  fail, and one while `raw.log` cannot be read, are worlds of their own); the union of the worlds covers
  each kind of failure with each kind of writer it shares state with.
- Five marks hold two full prompt cycles with a held mark between them, with every way of cutting
  them into reads.
- Three server processes: an owner that leaves, a starter that holds the unlinked file, and one that
  creates the new one. Two inodes are always free to be reused at the worst moment.
- A backlog of one frame overflows at once; two chunks are a gap or a repeat. A queue of one message
  refuses the second.
- Two connections are a create and a kill, or a request and a shutdown.
- Three calls: two that share an id and a third that fills the queue of one.
- A wait: four items of output hold a command's C, a question, an echoed keystroke and the newline (or
  two questions and two newlines), and a completion before, between or after the wait's reads; six hold
  a second question with a keystroke. What happens after the wait has returned is not followed.
- Three creators: one that left something behind and two that race for it.
- The worlds of `Terminal` have two to four columns and one to three rows (ten columns where tab stops
  are the subject), one or two history lines, and three or four pieces (two where there are twenty-odd of
  them): a wide glyph in the last column, its halves at a margin, a scroll that overflows the history and a
  resize below and above it all happen within that. The limits on a sequence's length (`MaxCSI`,
  `MaxString`, in the code 512 and 65536 bytes) are a dozen bytes, so that a piece or two
  exceed them. The human comes before the first piece: what they see when they come later is what
  `RedrawRepaints` says of every screen. `VtOperations_proofs` has none of these bounds.
- Three pieces written to a log: an escape sequence that is cut off, what would end it and a second one,
  or a boundary that begins inside another. A `PayloadCap` of 7 (160 in the code) is exceeded by two of
  them. The boundary is four bytes that repeat after two, the code's is nine that repeat after
  three; `Detection_proofs` has none of these bounds.

## 5. Fairness

Goroutines and processes that run keep running: weak fairness of each internal step (the loops poll,
the workers work, the accept loop accepts, a signalled writer wakes). A clock passes a grace period.
A subprocess that got SIGKILL dies; one that got no signal need not end. A program owes nothing: it
need not print, read its input or exit, except where the statement is that a command which ends is
recorded as ended (`RunProtocol`, `CommandEnds`). No human owes anything. Deadlock checking is off in
every module but `EndpointLock`: the others really stop, when every command has returned and the
bounded number of inputs is used up. `Terminal` and `VtOperations` promise safety only and assume no
fairness.

## 6. What is proved

`EndpointLock_proofs`, for any sets of processes, clients and inodes, on Unix and Windows:
`TypeCorrect`, `MutualExclusion` (`OneOwner`), `LockFileStays` (`OwnerHasPath`), `SocketInvariant`
(`SocketIsTheOwners`), with `LockInvariant` behind the first three.

`OneOwner` is not inductive: a process that has the lock of some inode may be about to compare it with
the path, and nothing in `OneOwner` says that another holder cannot pass the same comparison. The
inductive `LockInv` adds: a locked inode has one holder (`OneHolder`); who is past the comparison has
the path's inode, or unlinked it itself (`HolderHasFile`, `OwnerHasPath`); and the states of a Windows
shutdown, in which the lock is given up before the file is deleted (`ClosedOnWindows`). Two owners would
both have the inode the path names, hence the same one, which has one holder. The lemmas go action by
action; `SocketIsTheOwners` is inductive relative to `LockInv`, since only owners touch the socket file.
The only assumption is `EndpointAssumption` (`None` is neither a process nor an inode, platforms are
known); inodes may be reused freely.

`Refinement` (`ImplementsEndpoint`) says that two files and any number of processes make the abstract
`Endpoint`: `Owners` maps to its owner and `Answering` to its server. Each action of `EndpointLock` is a
step of `Endpoint` or a stutter; `LockInv` gives what that needs, that nobody owns the endpoint when
somebody comes to own it.

`RunProtocol_proofs`, for any numbers of runs, sends, notes and commands and any set of worlds (so also
for runs that are killed, mux calls, appends and reads that fail, timeouts and humans typing): `TypeCorrect`,
`IdsUnique` (`CmdIdsUnique`) and `EndsMatch` (`EndsMatchStarts`), with `LogWellFormed` behind them, and
`LogRecord` (`LogIsARecord`), which joins the two.

Neither property is inductive: a run reads the log, computes its id, and appends `cmd_start` in later
steps; nothing in `CmdIdsUnique` says that the id is still free by then, and nothing in
`EndsMatchStarts` that the command whose end a run is about to record is still pending. `RunInv` adds
what the write lock gives its holder (`RunOK`): the id it computed is the next one of the log as it now
is; its own command is among the pending ones until it has recorded the end; no command is pending when
it starts its own, unless an append failed. And it says of the log that ids start at 1 and that only
commands have one (`WellFormed`), so that notes and sent events, which any process appends under no
lock or another one, cannot move the next id. The proof first says what each kind of append does to a
well-formed log (`AppendOther`, `AppendStart`, `AppendEnd`); then a step is either one of somebody who
leaves the runs alone (`QuietStep`) or one of the lock's holder, all other runs being outside
(`OthersIdle`). The only assumption is `RunAssumption`. Type correctness is part of the same induction:
that an id stays within the commands there are needs `RunOK`.

`SendsKeepTheirLines` (`SendLinesPure`) rests on the send lock. `PureInv` says what holding it means: a
piece of a send is in the input line only while that send is between its text and its Enter, and only
one is (`StaysPure`, with one lemma for what is typed, `TypedPieces`, and one for what Enter moves on,
`EnteredStep`). As the property does, the theorem leaves out worlds in which a send dies or fails in
between: the next one then finds its text in the line.

`NotesAreAccountedFor` (`NoteLossExplained`) has its own strengthening, `NoteInv`. A note counts as seen
by its stamp, so the proof first needs that stamps come from a clock that gives none twice (`Stamps`),
and what each kind of append makes of the unseen notes (`NoteAppended`, `StartAppended`,
`ClosingAppended`). `RunNotes` then says, for each place a run can be in, which unseen notes it has in
its hands: all of them from its baseline to the merge, all but the excused ones from the merge to
`cmd_end`, none of its own after it. The step of the lock's holder (`RunKeepsNotes`) is the long case.
Writing it down showed that the second half of the property is false where appends fail: a `cmd_end`
that is not recorded closes nothing (limit 14). The property now says so, and a world of
`MC_RunProtocol_log` has such failures.

`CompletionIsOwn` (`OwnCompletion`), `IdleHasFinished` (`IdleIsOver`) and `SettlementIsLate`
(`SettledIsOver`) say whose completion is recorded. They are about the worlds of `Sure`, for the
properties do not hold in every world (limits 2, 3, 7 and 15): sentinel mode, with humans typing, sends
entering, runs killed and programs reading lines at any moment; every kind of shell where only runs use
the pane, with crashes, timeouts, failing appends and slow prompts; and a shell that marks C beside a
human who enters lines at an idle prompt, where only appends fail. In none of them does a mux call
or a read of `raw.log` fail, and in the last two nobody sends. `SettlementIsLate` is about every step by
which a run goes on from a pending command; that in these worlds only `Settle`, which found a mark, is
such a step is part of its proof. `MC_RunProtocol_own` also checks worlds with hooks in which mux calls
fail: what an aborted run left in the line is no longer a command's that is not over, and these worlds
stay with TLC.

`OverAt` is the mark that ended a command, 0 while it is unfinished. `OwnInv` says that only the last
command may be unfinished (`CommandsOwn`), that a command was ended by a line that held its text, and a
recorded end was read from that mark (`EndsOwn`); that the text of runs in the pane is an unfinished
command's (`PiecesOwn`), all in one line (`OneLine`); and, for each place a run can be in, that the pane
holds nothing of a run's and every command is over before its own starts (`RunOwn`). In sentinel mode
this is inductive: only a line with a run's text prints a sentinel. Beside hooks every line that ends
prints a D, and `HookInv` adds that an unfinished command has a C after its offset exactly while its
text executes, so that the D of a human's line ends nobody's. A D that is held because no C is seen is
then never a command's while it is unfinished (`RightMark`): alone (`AloneInv`) there is no such D, and
beside a human (`BesideInv`) the run of the unfinished command has its text in the pane, so that neither
the grace period runs out nor another run settles. A mark that is appended leaves the mark that ended a
command where it was (`EndMarkAppended`) and ends the unfinished one if its line held the text
(`OwnMarked`), no other (`OwnNotMarked`).

`Detection_proofs`, for any set of waits, streams of any length and any cut into polls:
`OneScanOrMany` (`ChunksDoNotMatter`), `WatchReportsRight` (`VerdictIsRight`) and `WatchTypeOK`. The
only assumption is `WatchAssumption`.

`CompletionIn`, `HeldIn` and `CodeIn` are what one scan of the first n marks finds, and `Scanned(v, n)`
says that the state v of a loop is that of this scan. One mark more keeps it (`ObserveStep`, a lemma for
each of the three modes, from what one mark more makes of the first correlated D, the first sentinel and
the first boundary: `FirstStays`, `CorrelatedMore`, `BoundedMore`). That a whole read keeps it is an
induction over the marks of the read, which is done by the least mark at which it would fail
(`LeastExists`, from the well-foundedness of `<`), and so is that the recursive function in `ObserveAll`
exists (`FollowsExists`). `WatchInv` carries it from poll to poll. Once a loop has returned, its verdict
stays right because only timers and the shell move, and the marks it has read stay the marks they are
(`ReadsNothing`).

`Detection_proofs` also, for any boundary that is not empty, any payload cap, any pieces of output, any
reads and any set of followers: `FollowersKnowTheLog` (`EveryMarkIsFound`), `FollowersAgreeAlways`
(`FollowersAgree`), `FollowersReadRight` (`MarksAreRight`) and `FollowTypeCorrect`. They are about
`FollowSpec`; a step of `Terminal` is one of its steps or leaves the log and its followers alone. The
assumptions are `ScannerAssumption` and `FollowerAssumption`.

That a scanner knows the marks of what it read is not kept by its next byte alone: which mark that byte
completes depends on the sequence it is in and on the match under way. `HasRead` says both in terms of the
stretch read so far. `InSequence`: the scanner is in the OSC that is open at the end of the stretch, which
there is at most one of (`OneIsOpen`), has its start and collected its payload. `IsMatch`: `bnd` is the
longest beginning of the boundary that the stretch ends with and that no boundary already taken overlaps.
One more byte keeps all of it (`ByteStep`). For the sequence there is one lemma for each state. For the
boundary, the longest match after a mismatch is found by falling back within the boundary itself, since
what was seen so far is a beginning of it (`FallsBack`); that the occurrences taken from the left are
those the scanner takes as it goes is `StartsAfter`, and that there is only one way to take them
`LeftmostUnique`. A whole read is an induction over its bytes by the least one that fails (`ScanReads`).
`FollowersAgree` then is about logs, not scanners: an OSC is in a stretch if and only if its bytes are, and
so in every stretch that reaches from its start to its end (`SameOsc`).

`MuxServer_proofs`, for any finite set of connections with any requests: `IdleExitLosesNothing`
(`IdleLosesNothing`), `ServerTableIsTrue` (`TableIsTrue`), `ServerDrainsWhatItListed`
(`ListedIsDrained`), `ServerStaysClosed` (a shutdown that has begun is never undone, and nothing is
listed any more) and `ServerTypeOK`. The only assumption is
`ServerAssumption`: the connections are finitely many, and are no replies and no names of goroutines.

That an idle exit loses nothing depends on the counter `s.conns`: it is zero only if nobody is inside a
handler because it is the number of those who are (`IsCounted`, an equation with a cardinality; that the
connection between `Accept` and its count is outside it is limit 5). Nor do `TableIsTrue` and
`ListedIsDrained` say who answers for a terminal that is no longer listed. In `ServerInv` somebody does
for each that runs: the table, the shutdown's list, the kill that took it off, or the connection that
starts it (`Answerable`); a kill found a terminal that was listed and has taken it off before it waits
(`Killers`); there is one shutdown, whose list leaves nothing in the table (`OneShutdown`); and an idle
one found nobody, so that who comes later is refused (`IdleAlone`).

`Commands_proofs`, for any circumstances of a wait and any length of `raw.log`: `WaitReportsNew`
(`DoneIsNew`), `WaitAnsweredIsOver` (`AnsweredIsOver`, about steps) and `WaitTypeCorrect`. The only assumption
about the first and the last is `WaitAssumption`. The second holds for worlds in which the program asks
at most once, or in words that are recognised and with answers that are not echoed (`CanBeTold`); these
are the ones `MC_WaitCommand` checks, and beyond them the property is false (limit 10).

`DoneIsNew` speaks of a result; what it depends on is an offset chosen many steps before.
`WatchesNew` follows it: between the status and the choice, a command that is still pending and was
derived as running has no D before the wait's baseline, since the status was derived after the baseline
was taken and no later command becomes pending at an earlier offset; after it, the wait watches from
there or from its baseline. `NoneDone` is needed only below the baseline, which is what makes it survive
whatever is written meanwhile. `AnsweredIsOver` rests on `HandoffInv`. For a program that asks once, an
answer is looked for only after the question was seen (`SeenAsking`), so nothing is left to ask, and a
newline behind the place that is scanned from means that it is not asking (`AsksOnce`). For one that asks
in known words without echo, the question is the last thing in `raw.log` while it asks (`QuestionShows`),
and the verdict finds it pending (`PendingIsPrinted`).

`Commands_proofs` also, for any set of processes that create a name, with or without crashes and
prunes: `NameIsOneTerminal` (`OneTerminal`), `NameKeepsLiveJournal` (`LiveJournalIsKept`),
`NameFailureLeavesNoPane` (`FailedLeavesNoPane`), `NameKeepsHistory` (`HistoryIsKept`, about steps) and
`NameLifecycleTypeOK`. The only assumption is `LifecycleAssumption`.

`OneTerminal` is not inductive: it does not say that a create that found no terminal of the name is
still right when it names its own. `NameInv` does: who is at work holds the reservation (`WorkersHold`),
nothing live has the name between the finding and the naming (`NothingLive`), and what is at the path and
in the archive at each step in between (`PlacesCleared`, `JournalInPlace`), unless a prune that saw nothing
alive removed it (`PrunerSawNone`, limit 6).

`VtOperations_proofs`, for any `MaxDim` and `MaxComb`, any glyphs, renditions and character sets, and any
sequence of operations with any arguments on a screen of any size and any history limit:
`InductiveScreen`, `ScreenIsAlwaysInOrder` (`ScreenInvariants`) and `ClearedStaysCleared`
(`OnlyScrolledLinesReturn`). The only assumption is `ScreenAssumption`: the two limits are numbers.

Neither property is inductive. That halves of wide glyphs come in pairs is kept by a split only if a
cell is one of three kinds; `ScreenInvariants` does not say that a saved cursor is a position that a
restore can clamp, nor that the count of scrolled lines is a natural number; and a full history drops its
oldest line while the count goes on, so the newest lines within the count, rather than the count, are
what must have scrolled. `Good` adds all this, field by field (`Geometry`, `Cursor`, `Margins`, `Stops`,
`Saves`, `Sheets`, `History`). The argument goes upward. For a row, replacing the cells of a range by
ones that are no halves is safe exactly if no glyph reaches over its ends (`ReplacedRow`), which is why
each edit splits the glyphs at its ends first (`SplitHalfRow`); insertion, deletion, printing and
refitting follow. Rows make a buffer; scrolling moves rows and feeds the history (`PushHistory`). Then
there is one lemma for each operation, and one for each action of `VtOperations` that collects them
(`StepGood`). A resize is the hardest: between its steps the cursor and the margins may be outside the
screen, so `ResizeColsLoose` and `ResizeRowsLoose` use a weaker invariant
(`Loose`) from which `ConfinedGood` leads back to `Good`.

The theorems are about the operators `Terminal` applies to `scr`, from `VtScreen`. That the parser asks
for nothing but these operations, and that the history lines it pulls back are drawn as rows an emulator
may print, is not proved (the parser is recursive); `MC_Terminal` checks the same two properties on the
screens the parser makes.

`McpServer_proofs`, for any sets of calls, ids and workers and any capacities of the two queues:
`IdsNameCalls` (`IdNamesItsCall`), `NobodySurvives` (`NothingSurvives`) and `CallsAreAnsweredOnce`
(`AnsweredOnce`), with `PoolInvariant` behind them. The only assumption is `McpAssumption`.

That an id names the call it is in flight for is not inductive: were a call in two places of the pool,
its first result would free the id while the second still used it. `PoolInv` says that it is in at most
one of the queue, a worker and the channel of results (`Once`); that what is in the pool was sent and has
no answer yet (`Unanswered`), which is what a result about to be answered needs for `AnsweredOnce`; that
what is in flight was sent under its id (`Known`); and, for the end, that workers leave only once the loop
has ended and have left when Serve returns (`Leaving`), while a subprocess that lives has the worker that
runs it (`Reaped`). The proof gathers the places a call can be in (`PoolIs`); steps that move no call keep
all of them (`PlacesKept`), and the moves (from the queue to a worker, from a worker to the results, from
the results to the client) have a lemma each.

`MuxPane_proofs`, for any set of clients, any backlog and queue size and any set of worlds (so also any
amount of output, input and resizing): `ContiguousViews` (`NoTornView`), `InputArrivesInOrder`
(`InputInOrder`) and `TypeCorrect`, with `PaneInvariant` behind them. The only assumption is
`PaneAssumption`, in which the backlog is positive: a screen and the exit frame behind it must fit.

`NoTornView` speaks of what is on the screens, and a frame that tears one was queued many steps before.
`Sound` therefore says of one client what holds of all that is on its way: each frame follows the one
before it (`Chain`), from what the human sees over what the writer has in hand to what is queued, and
all of them lead to what is recorded, unless a redraw is owed (`Contiguous`); and an exit frame is the
last (`Ended`). Where a client can be in its life (`Placed`) is needed because a chunk is handed to
members only: who is no member, left or was told of the end is owed nothing. The two lemmas that carry
the argument are about sequences of frames, one more at the end (`ChainAppend`) and the first one written
(`ChainTail`); then there is one lemma for each thing done to a client under its lock, and one for each
action. `InputSound` numbers the messages in the writer's hand and in the queue on from those written.

What stays with TLC:

- Liveness, and so every `~>` above: the provers know neither fairness nor `ENABLED`.
- The other properties of `Terminal`: the parser and the repaint are recursive operators, of which the provers
  know nothing. What `VtOperations_proofs` proves of the operations does not depend on them.
- What `Split` and `Number` make of a payload: recursive functions over its bytes. `MarkOf` is the same
  operator in the scanner and in `MarksIn`, so the proofs need no more of it than that it is a function of
  the payload and the offsets.
- `OwnCompletion`, `IdleIsOver` and `SettledIsOver` where mux calls fail.

## 7. Limits

Places where the code does less than one might expect; the properties are stated so that these cases,
and only these, are excepted.

1. A `run` that is killed after `cmd_start` leaves its command pending; if its text was never entered
   the terminal refuses runs until the status derives otherwise. `StartedIsEnded` is stated without
   `crash`.
2. A human whose line overtakes the command `run` types (both are in the pane's queue) writes a mark
   after the run's offset: it is taken for the run's own. `OwnCompletion` is checked for humans who
   type at an idle prompt, or at any moment in sentinel mode.
3. `peek`, `ls` and `wait` derive idle from any mark after the offset of the pending command, so they
   say idle too early while a human's command runs (`IdleIsOver` excepts it).
4. With a shell that writes no C (bash 3.2), a prompt is looked for before a D that is held is taken at
   the deadline (`detect/await.go:456`): a command that finished may be reported as awaiting input.
5. A connection that was accepted and is not yet counted when the idle server exits is refused, and may
   get no reply at all if the process ends first. `IdleLosesNothing` counts it as refused.
6. A prune that resolved a name before a create of it, and removes after it, removes the new
   terminal's journal; a create killed before it names its pane leaves a program no command lists; a
   history is displaced by the empty journal of a create that failed; and a kill may append its note to
   the journal of the next terminal of the name. None is excluded by a lock.
7. After a timeout, settlement takes a lone D at its zero deadline (`detect/await.go:463`): the D of a
   human's command that ran while the run's own line was still unread settles that line. `SettledIsOver`
   is checked, for a shell with hooks, in worlds with timeouts or with a human, not both (and where
   `raw.log` can be read, limit 15).
8. A terminal that is started before a shutdown and registered after it ended is neither killed nor
   drained (`muxd/server.go:523`); `ListedIsDrained` is about terminals that were listed.
9. An answer given between the status and the end of the journal that `armAnswered` reads cannot end a
   handoff: no newline follows it. A completion, a note or the timeout does. `WakesUp` promises no more.
10. The first newline after a question counts as the human's Enter for the rest of a wait
   (`cli/wait.go:421-429`): if the program rejects the answer, the next question may be reported as
   answered while its answer is being typed, once the answer is echoed or if the wording rules do not
   know its words. `AnsweredIsOver` is stated for the other cases: one question, or known words and no
   echo.
11. A repaint cannot reproduce every screen (`Replayable`): a glyph drawn on its own after a ZWJ, or next
   to a lone flag half, joins it; a VS16 widens what it could not where it was first printed; and a
   restored cursor can be outside the scroll region in origin mode (`vt/screen.go:846`), where no
   cursor movement reaches. Nor does a repaint carry the saved cursor, the tab stops and the glyph REP
   repeats. `HumanKeepsUp` says what is kept otherwise.
12. A query that is taken out of the stream makes the virtual terminal forget the glyph REP would repeat
   (`vt/parser.go:409-415`); the human's terminal, which never saw the query, does not forget it.
13. `vt/parser.go:44-47` says that the forwarded stream never ends in the middle of a sequence. A string
   that an escape sequence breaks off is forwarded without an end, and a sequence longer than the caps
   passes as it comes, unfiltered (`vt/parser.go:31-40`). `QueriesStayInside` and `HumanKeepsUp` except
   these two cases (`loose`). A character that the program leaves unfinished is shown by the human's
   terminal with the next byte.
14. `run` ignores a failure to append `cmd_end` (`cli/commands.go:468`). The notes its envelope surfaced are
   then not closed, and the next run surfaces them again; `NoteLossExplained` says "only this one" for
   worlds in which appends do not fail.
15. `run` drops the error of a settlement's wait (`cli/commands.go:398`). If `raw.log` is there and cannot
   be opened or statted (no permission, no file descriptor left; `journal/journal.go:73-88`), the wait
   returns the zero `RunResult`, whose outcome is `OutcomeDone` (`detect/wait.go:15`): `cmd_end` with exit 0
   and offset 0 is recorded for a command that may still be executing, and the next command is typed behind
   it, although `cli/commands.go:394-395` says "refuse if it is genuinely still running". This is
   `SettleUnread`. `SettledIsOver` excepts these worlds by name. `OwnCompletion`, which is about ends read
   from a mark, and `IdleIsOver` are checked in worlds without it as well: the settled command's late D may
   then be taken for the next one's. That the log stays a record of the commands with one pending at most,
   and that no note is lost but in the listed ways, holds there too and is checked and proved
   (`LogIsARecord`, `NoteLossExplained`). The error of `PendingCmd` is ignored likewise
   (`cli/commands.go:397`): an `index.jsonl` that cannot be read there and can be read again for the next id
   makes `run` pass over a pending command. That is not modelled; the log is always read.
16. Abstractions that could hide something: `CompletionWatch` and `RunProtocol` take marks as atomic (that
   the scanner finds them is `EveryMarkIsFound`, of `LogFollower`); an append to the log is atomic or
   fails (a torn line is not modelled); text of a `run` and a `send` that interleave within one line is a
   line of both (no lock is shared); directories are removed and renamed in one step; each connection of
   the server carries one request; a mux call that fails has not delivered its text (one that times out
   may have); `send` always ends with Enter; the errors of `Poll` and `ReadRange` in `CompletionWatch` and
   `WaitCommand` are not modelled; cancelling a subprocess is the Unix way, which kills its group (on
   Windows only the child is killed); once a prune has removed something `HistoryIsKept` says nothing
   more. In the terminal emulator a UTF-8 character is two bytes, the width table is the few glyphs that
   stand for its classes, the cap on combining marks counts glyphs (bytes in the code), an exit code is a
   plain number (`strconv.Atoi` also takes signs and refuses large ones), titles are ASCII and replies are
   told apart by kind only.

## 8. Plan

Done: the core (`Journal`, `Completion`, `CompletionWatch`, `RunProtocol`, `WaitCommand`), the built-in
multiplexer (`EndpointLock` with its abstract `Endpoint`, `MuxServer`, `MuxPane`), the terminal emulator
with its parser and repaint, the mark scanner and its followers, the MCP server, the lifecycle of a name,
and the proofs about the endpoint, the event log with its notes and completions and the lines of sends,
the wait loops, the scanner, the screen, the MCP server, the built-in server, the pane and its humans,
the names, and `wait`.

Left, in this order:

1. `CompletionWatch` composed with `LogFollower`: a loop on the marks of its own scanner.
2. `Resolution`: names, panes and directories over several endpoints and nested layers
   (`state/state.go`, `kill --all`).
3. The key encoder and the protocol frames as pure operators with reference definitions.

Theorems to come: `OwnCompletion` where mux calls fail (the text of an aborted run then shares a line with
the next run's).
