--------------------------- MODULE CompletionWatch ---------------------------
(***************************************************************************)
(* The loop that waits for one command's completion (internal/detect):      *)
(* waitCompletionCorrelated and waitCompletion for `run`, and the            *)
(* CompletionWatcher that `wait` polls from its own loop.  All three keep    *)
(* the same state across polls - how far raw.log was scanned, whether a C    *)
(* was seen, the completion held back for its grace period - and scan every  *)
(* byte once, in whatever chunks the polls happen to find.                   *)
(*                                                                          *)
(* Time is three booleans that only become TRUE: the grace period of a held  *)
(* mark has run out, the caller's deadline has passed, and raw.log has been  *)
(* silent long enough for Classify to call a prompt.                         *)
(***************************************************************************)
EXTENDS Completion

CONSTANTS
    Waits,          \* the waits to consider, records of Wait
    InitMarks,      \* how many marks may be there before the wait starts
    MaxMarks        \* bound: marks raw.log may hold

(***************************************************************************)
(* mode: "bounded" is a sentinel with a boundary.  prompt: the wait stops at *)
(* a prompt (WaitCommand, WaitCommandCorrelated).  deadline: it may give up; *)
(* the CompletionWatcher does neither.                                       *)
(***************************************************************************)
Wait == [mode : {"hooks", "sentinel", "bounded"}, prompt : BOOLEAN, deadline : BOOLEAN]

ASSUME WatchAssumption ==
    /\ Waits \subseteq Wait
    /\ InitMarks \in Nat /\ MaxMarks \in Nat /\ InitMarks <= MaxMarks

VARIABLES
    how,        \* which wait this is
    marks,      \* raw.log from the command's send offset on
    off,        \* how many of them the loop has consumed
    seenC,      \* a C mark was consumed
    held,       \* index of the held completion, 0 for none
    graceUp,    \* the grace period of the held completion has run out
    pastDeadline,
    quiet,      \* raw.log has been silent long enough for Classify
    pc,         \* "read", "check" or "returned"
    result

vars == <<how, marks, off, seenC, held, graceUp, pastDeadline, quiet, pc, result>>

Mode == how.mode

Kinds == IF Mode = "hooks" THEN {"C", "D"} ELSE {"S", "B"}

NoResult == [outcome |-> "none", at |-> 0, code |-> 0]

\* doneResult: the region ends at mark "at", the exit code is that of mark "code".
Done(at, code) == [outcome |-> "done", at |-> at, code |-> code]

Init ==
    /\ how \in Waits
    /\ \E n \in 0 .. InitMarks : marks \in [1 .. n -> [kind : Kinds]]
    /\ off = 0 /\ seenC = FALSE /\ held = 0 /\ graceUp = FALSE
    /\ pastDeadline \in (IF how.deadline THEN BOOLEAN ELSE {FALSE})
    /\ quiet \in BOOLEAN
    /\ pc = "read"
    /\ result = NoResult

(***************************************************************************)
(* The effect of one mark on the loop's state w = [seenC, held, result].     *)
(* Once there is a result the rest of the chunk is not looked at.            *)
(***************************************************************************)
ObserveHooks(w, i) ==
    CASE marks[i].kind = "C" /\ ~w.seenC -> [w EXCEPT !.seenC = TRUE, !.held = 0]
      [] marks[i].kind = "D" /\ w.seenC -> [w EXCEPT !.result = Done(i, i)]
      [] marks[i].kind = "D" /\ ~w.seenC /\ w.held = 0 -> [w EXCEPT !.held = i]
      [] OTHER -> w

ObserveSentinel(w, i) ==
    IF marks[i].kind = "S" THEN [w EXCEPT !.result = Done(i, i)] ELSE w

ObserveBounded(w, i) ==
    CASE marks[i].kind = "S" /\ w.held = 0 -> [w EXCEPT !.held = i]
      [] marks[i].kind = "B" /\ w.held # 0 -> [w EXCEPT !.result = Done(i, w.held)]
      [] OTHER -> w

Observe(w, i) ==
    IF w.result # NoResult THEN w
    ELSE CASE Mode = "hooks" -> ObserveHooks(w, i)
           [] Mode = "sentinel" -> ObserveSentinel(w, i)
           [] Mode = "bounded" -> ObserveBounded(w, i)

\* What the marks first .. last make of it, one after the other.
ObserveAll(w, first, last) ==
    LET After[i \in first - 1 .. last] == IF i < first THEN w ELSE Observe(After[i - 1], i)
    IN  After[last]

\* Slip: each read starts without what the earlier ones saw.
FeedAfresh(w, first, last) == ObserveAll([w EXCEPT !.seenC = FALSE, !.held = 0], first, last)

Feed(w, first, last) == ObserveAll(w, first, last)

\* One read: everything raw.log gained since the last one.
Read ==
    /\ pc = "read"
    /\ LET w == Feed([seenC |-> seenC, held |-> held, result |-> NoResult], off + 1, Len(marks))
       IN  /\ seenC' = w.seenC /\ held' = w.held /\ result' = w.result
           /\ graceUp' = (graceUp /\ w.held = held)
           /\ pc' = IF w.result = NoResult THEN "check" ELSE "returned"
    /\ off' = Len(marks)
    /\ UNCHANGED <<how, marks, pastDeadline, quiet>>

Return(r) == result' = r /\ pc' = "returned"

LoopUnchanged == UNCHANGED <<how, marks, off, seenC, held, graceUp, pastDeadline, quiet>>

(***************************************************************************)
(* After the read the loop looks at the held completion, the prompt and the  *)
(* deadline, in that order.  A held sentinel is due at the deadline too,     *)
(* ahead of the prompt, and keeps the prompt from being looked at; a held D  *)
(* does neither.                                                             *)
(***************************************************************************)
DueAtDeadline == held # 0 /\ pastDeadline  \* Slip: the grace period is not looked at.

DueAtOnce == held # 0  \* Slip: no grace period.

HeldDue == held # 0 /\ (graceUp \/ (Mode # "hooks" /\ pastDeadline))

AcceptHeld ==
    /\ pc = "check" /\ HeldDue
    /\ Return(Done(held, held))
    /\ LoopUnchanged

\* Slip: the held sentinel does not keep the prompt from being looked at.
PromptFirst ==
    /\ pc = "check" /\ ~HeldDue
    /\ how.prompt /\ quiet
    /\ Return([outcome |-> "awaiting-input", at |-> 0, code |-> 0])
    /\ LoopUnchanged

SeePrompt ==
    /\ pc = "check" /\ ~HeldDue
    /\ how.prompt /\ quiet
    /\ Mode = "hooks" \/ held = 0
    /\ Return([outcome |-> "awaiting-input", at |-> 0, code |-> 0])
    /\ LoopUnchanged

GiveUp ==
    /\ pc = "check" /\ ~HeldDue /\ pastDeadline
    /\ Return(IF held # 0 THEN Done(held, held)
              ELSE [outcome |-> "timeout", at |-> 0, code |-> 0])
    /\ LoopUnchanged

PollAgain ==
    /\ pc = "check" /\ ~HeldDue /\ ~pastDeadline
    /\ pc' = "read"
    /\ UNCHANGED result /\ LoopUnchanged

Check == AcceptHeld \/ SeePrompt \/ GiveUp \/ PollAgain

\* The shell (or a human in the pane) writes another mark.
Emit ==
    /\ Len(marks) < MaxMarks
    /\ \E k \in Kinds : marks' = Append(marks, [kind |-> k])
    /\ quiet' = FALSE
    /\ UNCHANGED <<how, off, seenC, held, graceUp, pastDeadline, pc, result>>

GraceElapses ==
    /\ held # 0 /\ ~graceUp
    /\ graceUp' = TRUE
    /\ UNCHANGED <<how, marks, off, seenC, held, pastDeadline, quiet, pc, result>>

DeadlinePasses ==
    /\ how.deadline /\ ~pastDeadline
    /\ pastDeadline' = TRUE
    /\ UNCHANGED <<how, marks, off, seenC, held, graceUp, quiet, pc, result>>

(***************************************************************************)
(* Classify needs refineQuiet (800ms) of silence.  A mark written during the *)
(* wait is read within a poll and its grace period (250ms, 500ms for a       *)
(* boundary) is over before that.                                            *)
(***************************************************************************)
Quiesces ==
    /\ ~quiet /\ off = Len(marks) /\ (held # 0 => graceUp)
    /\ quiet' = TRUE
    /\ UNCHANGED <<how, marks, off, seenC, held, graceUp, pastDeadline, pc, result>>

Next == Read \/ Check \/ Emit \/ GraceElapses \/ DeadlinePasses \/ Quiesces

(***************************************************************************)
(* The loop keeps polling and the clock keeps running; the shell and the     *)
(* deadline owe nothing.                                                     *)
(***************************************************************************)
Fairness == WF_vars(Read) /\ WF_vars(Check) /\ WF_vars(GraceElapses)

Spec == Init /\ [][Next]_vars /\ Fairness

-----------------------------------------------------------------------------
TypeOK ==
    /\ how \in Waits
    /\ marks \in Seq([kind : Kinds]) /\ Len(marks) <= MaxMarks
    /\ off \in 0 .. Len(marks) /\ held \in 0 .. off
    /\ seenC \in BOOLEAN /\ graceUp \in BOOLEAN
    /\ pastDeadline \in BOOLEAN /\ quiet \in BOOLEAN
    /\ pc \in {"read", "check", "returned"}
    /\ result \in [outcome : {"none", "done", "timeout", "awaiting-input"},
                   at : 0 .. Len(marks), code : 0 .. Len(marks)]

Seen == SubSeq(marks, 1, off)

\* What one scan of everything consumed so far would find complete.
SeenCompletion ==
    CASE Mode = "hooks" -> CorrelatedD(Seen, 0)
      [] Mode = "sentinel" -> FirstSentinel(Seen, 0)
      [] Mode = "bounded" -> BoundedEnd(Seen, 0)

\* What one scan would hold back.
SeenHeld ==
    CASE Mode = "hooks" -> HeldD(Seen, 0)
      [] Mode = "sentinel" -> 0
      [] Mode = "bounded" -> FirstSentinel(Seen, 0)

(***************************************************************************)
(* However the stream was cut into polls, the incremental state is that of   *)
(* one scan of everything consumed, and no completion was passed over        *)
(* (the persistent Scanner state of detect/wait.go:95-97).                   *)
(***************************************************************************)
ChunksDoNotMatter ==
    pc # "returned" =>
        /\ SeenCompletion = 0
        /\ held = SeenHeld
        /\ Mode = "hooks" => seenC = (At(Seen, 0, "C") # {})

(***************************************************************************)
(* A reported completion is the correlated one of the whole stream, or the   *)
(* held one, with its own exit code, and then only after its grace period or *)
(* at the deadline and while nothing read so far contradicts it.             *)
(***************************************************************************)
DoneIsJustified ==
    result.outcome = "done" =>
        \/ /\ result.at = SeenCompletion
           /\ result.code = IF Mode = "bounded" THEN FirstSentinel(Seen, 0) ELSE result.at
        \/ /\ SeenCompletion = 0
           /\ result.at = SeenHeld /\ result.code = SeenHeld /\ SeenHeld # 0
           /\ graceUp \/ pastDeadline

(***************************************************************************)
(* An observed completion "beats both a prompt and a timeout"                *)
(* (detect/wait.go:248; await.go:377-378 for the timeout) - in the sentinel  *)
(* loop.  The hooks loop has that order for a completion C correlates and    *)
(* for every timeout; a D still held it may pass over for a prompt           *)
(* (detect/await.go:456), although "completion correlation retains  *)
(* priority over the prompt outcome" (383-384).                              *)
(***************************************************************************)
CompletionBeatsTheRest ==
    result.outcome \in {"awaiting-input", "timeout"} =>
        /\ SeenCompletion = 0
        /\ SeenHeld = 0 \/ (result.outcome = "awaiting-input" /\ Mode = "hooks")

(***************************************************************************)
(* What a loop reports is right: a completion is justified and is the first  *)
(* thing reported, in whatever order polls, prompts and timers come.         *)
(***************************************************************************)
VerdictIsRight == DoneIsJustified /\ CompletionBeatsTheRest

(***************************************************************************)
(* A completion that reached raw.log is eventually reported by a loop that   *)
(* keeps polling: neither the grace period nor a split read loses it.  A     *)
(* lone D, the only mark bash 3.2 writes, ends the wait as long as no C ever *)
(* follows it.                                                               *)
(***************************************************************************)
CompletionIsReported ==
    /\ (CorrelatedD(marks, 0) # 0) ~> (pc = "returned")
    /\ <>[](HeldD(marks, 0) # 0) => <>(pc = "returned")
    /\ (FirstSentinel(marks, 0) # 0) ~> (pc = "returned")

=============================================================================
