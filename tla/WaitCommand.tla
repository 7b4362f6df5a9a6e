---------------------------- MODULE WaitCommand -----------------------------
(***************************************************************************)
(* `pairmux wait` on one terminal (internal/cli/wait.go): the baselines it    *)
(* takes one after the other while the terminal goes on, and the conditions   *)
(* it then polls - a pattern, a note, a command's completion, a prompt that   *)
(* a human answers, quiet.  It takes no lock and writes nothing.  Each target *)
(* of a wait on several terminals is polled like this, in turn.              *)
(*                                                                          *)
(* raw.log holds marks (module Completion) and what the last line is read     *)
(* from: "prompt" is text worded like a question, "key" an echoed keystroke,  *)
(* "text" anything else, "nl" a newline.  The shell has hooks.               *)
(***************************************************************************)
EXTENDS Completion

CONSTANTS
    MaxOut,     \* bound: items raw.log may gain
    Worlds      \* the circumstances to consider, records of World

(***************************************************************************)
(* flags: the conditions asked for.  program: the terminal runs a program,    *)
(* not a shell.  busy: a command was under way before.  commands, questions:  *)
(* how many more there may be; notes: how many in all.  worded: the questions are recognised   *)
(* by their wording; echo: the answers to them are echoed.                   *)
(***************************************************************************)
Flags == {"pattern", "note", "human", "done", "idle"}
World == [flags : SUBSET Flags, program : BOOLEAN, busy : BOOLEAN, commands : Nat,
          questions : Nat, notes : Nat, worded : BOOLEAN, echo : BOOLEAN]

ASSUME WaitAssumption ==
    /\ MaxOut \in Nat \ {0} /\ Worlds \subseteq World
    /\ \A w \in Worlds : ~(w.program /\ (w.busy \/ w.commands > 0 \/ "done" \in w.flags))

VARIABLES
    world,
    out,        \* raw.log
    fg,         \* the foreground: "idle", "starting", "working", "asking" or "over"
    typed,      \* a human is half-way through an answer
    left,       \* [commands, questions]: how many more there may be
    pending,    \* the offset of the command whose end is not recorded, or NoOffset
    notes,      \* notes in the log
    acked,      \* how many of them the agent has acted on
    quiet,      \* raw.log has not grown for long enough
    w,          \* the wait: where it is, and the fields of waitTarget
    timer,      \* [grace, settle]: those times have passed
    result      \* [how, at]

NoOffset == -1
termVars == <<out, fg, typed, left, pending, notes, acked, quiet>>
waitVars == <<world, termVars, w, timer, result>>

WaitInit ==
    /\ world \in Worlds
    /\ out = IF world.busy THEN <<[kind |-> "C"]>> ELSE <<>>
    /\ fg = IF world.program \/ world.busy THEN "working" ELSE "idle"
    /\ pending = IF world.busy THEN 0 ELSE NoOffset
    /\ typed = FALSE /\ quiet = FALSE
    /\ left = [commands |-> world.commands, questions |-> world.questions]
    /\ notes \in 0..world.notes /\ acked \in 0..notes
    /\ w = [pc |-> "baseline", base |-> 0, events |-> 0, busy |-> FALSE, status |-> "unknown",
            from |-> NoOffset, watch |-> FALSE, scan |-> 0, submitted |-> FALSE, moving |-> FALSE]
    /\ timer = [grace |-> FALSE, settle |-> FALSE]
    /\ result = [how |-> "none", at |-> 0]

Wants(f) == f \in world.flags
WaitNote == Wants("note") \/ Wants("human")

-----------------------------------------------------------------------------
(* The terminal *)

Alive == fg # "over"
Grow(kind) ==
    /\ Len(out) < MaxOut
    /\ out' = Append(out, [kind |-> kind]) /\ quiet' = FALSE
WaitUnchanged == UNCHANGED <<world, w, timer, result>>

RunStarts ==
    /\ fg = "idle" /\ pending = NoOffset /\ left.commands > 0
    /\ pending' = Len(out) /\ fg' = "starting" /\ left' = [left EXCEPT !.commands = @ - 1]
    /\ WaitUnchanged /\ UNCHANGED <<out, typed, notes, acked, quiet>>

CommandBegins ==
    /\ fg = "starting" /\ Grow("C") /\ fg' = "working"
    /\ WaitUnchanged /\ UNCHANGED <<typed, left, pending, notes, acked>>

Says ==
    /\ fg = "working" /\ \E kind \in {"text", "nl"} : Grow(kind)
    /\ WaitUnchanged /\ UNCHANGED <<fg, typed, left, pending, notes, acked>>

Asks ==
    /\ fg = "working" /\ left.questions > 0 /\ Grow(IF world.worded THEN "prompt" ELSE "text")
    /\ fg' = "asking" /\ left' = [left EXCEPT !.questions = @ - 1]
    /\ WaitUnchanged /\ UNCHANGED <<typed, pending, notes, acked>>

Types ==
    /\ fg = "asking" /\ ~typed
    /\ IF world.echo THEN Grow("key") ELSE UNCHANGED <<out, quiet>>
    /\ typed' = TRUE
    /\ WaitUnchanged /\ UNCHANGED <<fg, left, pending, notes, acked>>

PressesEnter ==
    /\ fg = "asking" /\ Grow("nl")
    /\ fg' = "working" /\ typed' = FALSE
    /\ WaitUnchanged /\ UNCHANGED <<left, pending, notes, acked>>

CommandEnds ==
    /\ ~world.program /\ fg = "working" /\ Grow("D")
    /\ fg' = "idle"
    /\ WaitUnchanged /\ UNCHANGED <<typed, left, pending, notes, acked>>

\* By its own run or by a later one; it acts on the notes there are.
EndRecorded ==
    /\ fg = "idle" /\ pending # NoOffset
    /\ pending' = NoOffset /\ acked' = notes
    /\ WaitUnchanged /\ UNCHANGED <<out, fg, typed, left, notes, quiet>>

NoteLeft ==
    /\ notes < world.notes /\ notes' = notes + 1
    /\ WaitUnchanged /\ UNCHANGED <<out, fg, typed, left, pending, acked, quiet>>

Dies ==
    /\ Alive /\ fg' = "over" /\ typed' = FALSE
    /\ WaitUnchanged /\ UNCHANGED <<out, left, pending, notes, acked, quiet>>

Quiesces ==
    /\ ~quiet /\ quiet' = TRUE
    /\ WaitUnchanged /\ UNCHANGED <<out, fg, typed, left, pending, notes, acked>>

Terminal ==
    \/ RunStarts \/ CommandBegins \/ Says \/ Asks \/ Types \/ PressesEnter \/ CommandEnds
    \/ EndRecorded \/ NoteLeft \/ Dies

-----------------------------------------------------------------------------
(* What the wait reads *)

\* PromptPending: the last line that is not blank is worded like a question.
PromptPending ==
    LET L == {i \in 1..Len(out) : out[i].kind \in {"prompt", "key", "text"}}
    IN  L # {} /\ out[CHOOSE i \in L : \A k \in L : k <= i].kind = "prompt"

Derived(alive) ==
    CASE ~alive -> "dead"
      [] alive /\ world.program -> "running"
      [] OTHER -> IF pending = NoOffset \/ ScanForMark(out, pending, "hooks") THEN "idle" ELSE "running"

(***************************************************************************)
(* Running, and awaiting input if the wording says so or the terminal does    *)
(* (echo is off); after a silence a question that neither shows is inferred,  *)
(* as long as nothing is computing.                                          *)
(***************************************************************************)
Classified(alive, inferred) ==
    IF Derived(alive) = "running" /\ (PromptPending \/ (fg = "asking" /\ (~world.echo \/ inferred)))
    THEN "awaiting-input" ELSE Derived(alive)

\* A poll goes by what was not asked for.
First == IF Wants("pattern") THEN "pattern" ELSE "note"
Handoff == IF ~Wants("human") THEN "state" ELSE IF w.watch THEN "scan" ELSE "prompt"
GoTo(pc) == w' = [w EXCEPT !.pc = pc]
Return(how, at) ==
    /\ result' = [how |-> how, at |-> at] /\ GoTo("returned")
    /\ UNCHANGED <<world, termVars, timer>>
Only == UNCHANGED <<world, termVars, timer, result>>

-----------------------------------------------------------------------------
(* armWaitTarget *)

Baseline ==
    /\ w.pc = "baseline"
    /\ IF Alive THEN /\ w' = [w EXCEPT !.pc = "derive", !.base = Len(out), !.events = notes,
                                       !.busy = fg \in {"working", "asking"}]
                     /\ Only
       ELSE Return("E_DEAD", 0)

\* The terminal was alive when it was resolved, and is taken to be alive still.
Derive ==
    /\ w.pc = "derive"
    /\ \E inferred \in {FALSE, quiet} : w' = [w EXCEPT !.pc = "arm", !.status = Classified(TRUE, inferred)]
    /\ Only

\* Slip: whatever is pending is watched.
FromAnyPending == IF pending # NoOffset THEN pending ELSE w.base

\* Where the completion that is watched for begins.
FromPending == IF pending # NoOffset /\ (w.status \in {"running", "awaiting-input"} \/ Wants("human"))
               THEN pending ELSE w.base

\* Slip: a completion is watched for from now on.
ArmFromNow ==
    /\ w.pc = "arm"
    /\ w' = [w EXCEPT !.from = IF Wants("done") \/ (Wants("human") /\ pending # NoOffset)
                               THEN IF pending # NoOffset /\ w.status = "running" THEN pending
                                    ELSE Len(out)
                               ELSE NoOffset,
                      !.pc = IF Wants("human") /\ w.status = "awaiting-input" THEN "answered"
                             ELSE "unseen"]
    /\ Only

Arm ==
    /\ w.pc = "arm"
    /\ w' = [w EXCEPT !.from = IF Wants("done") \/ (Wants("human") /\ pending # NoOffset)
                               THEN FromPending ELSE NoOffset,
                      !.pc = IF Wants("human") /\ w.status = "awaiting-input" THEN "answered"
                             ELSE "unseen"]
    /\ Only

\* Slip: newlines are looked for from the beginning of the wait.
ArmFromBase(pc, then) ==
    /\ w.pc = pc
    /\ w' = [w EXCEPT !.pc = then, !.watch = TRUE, !.scan = w.base, !.submitted = FALSE]
    /\ Only

\* armAnswered, called before the first poll, within one and at the end of one.
ArmAnswered(pc, then) ==
    /\ w.pc = pc
    /\ w' = [w EXCEPT !.pc = then, !.watch = TRUE, !.scan = Len(out), !.submitted = FALSE]
    /\ Only

UnseenNote ==
    /\ w.pc = "unseen"
    /\ IF WaitNote /\ notes > acked THEN Return("note", notes) ELSE GoTo(First) /\ Only

-----------------------------------------------------------------------------
(* pollWaitTarget *)

PollPattern ==
    /\ w.pc = "pattern"
    /\ IF At(out, w.base, "text") # {}
       THEN Return("pattern-found", FirstOf(At(out, w.base, "text")))
       ELSE GoTo("note") /\ Only

PollNote ==
    /\ w.pc = "note"
    /\ IF WaitNote /\ notes > w.events THEN Return("note", w.events + 1)
       ELSE GoTo("completion") /\ Only

\* What CompletionWatcher.Poll has to say.
Completed == IF CorrelatedD(out, w.from) # 0 THEN CorrelatedD(out, w.from)
             ELSE IF timer.grace THEN HeldD(out, w.from) ELSE 0

PollCompletion ==
    /\ w.pc = "completion"
    /\ IF w.from # NoOffset /\ Completed # 0 THEN Return("done", Completed)
       ELSE GoTo(Handoff) /\ Only

PollPrompt ==
    /\ w.pc = "prompt"
    /\ GoTo(IF PromptPending THEN "asked" ELSE "state")
    /\ Only

ScanAnswer ==
    /\ w.pc = "scan"
    /\ w' = IF ~w.submitted
            THEN [w EXCEPT !.pc = "verdict", !.scan = Len(out),
                           !.submitted = At(out, w.scan, "nl") # {}]
            ELSE [w EXCEPT !.pc = "verdict"]
    /\ Only

Verdict ==
    /\ w.pc = "verdict"
    /\ IF ~w.submitted THEN GoTo("state") /\ Only
       ELSE IF PromptPending
       THEN /\ w' = [w EXCEPT !.pc = "state", !.moving = FALSE]
            /\ timer' = [timer EXCEPT !.settle = FALSE]
            /\ UNCHANGED <<world, termVars, result>>
       ELSE IF w.moving /\ timer.settle THEN Return("answered", 0)
       ELSE w' = [w EXCEPT !.pc = "state", !.moving = TRUE] /\ Only

(***************************************************************************)
(* The terminal is looked at once it is quiet.  A handoff is armed by what    *)
(* only this look can see, and never ends at a question.                     *)
(***************************************************************************)
State ==
    /\ w.pc = "state"
    /\ IF ~quiet THEN GoTo("over") /\ Only
       ELSE \E inferred \in BOOLEAN :
            LET status == Classified(Alive, inferred)
            IN  IF Wants("human") /\ ~w.watch /\ status = "awaiting-input"
                THEN GoTo("asked late") /\ Only
                ELSE IF \/ status = "dead"
                        \/ Wants("idle") /\ status = "idle"
                        \/ Wants("idle") /\ status = "awaiting-input" /\ ~Wants("human")
                THEN Return(status, 0)
                ELSE GoTo("over") /\ Only

PollAgain == w.pc = "over" /\ GoTo(First) /\ Only
TimesOut == w.pc = "over" /\ Return("timeout", 0)

GraceElapses ==
    /\ w.from # NoOffset /\ HeldD(out, w.from) # 0 /\ ~timer.grace
    /\ timer' = [timer EXCEPT !.grace = TRUE]
    /\ UNCHANGED <<world, termVars, w, result>>

SettleElapses ==
    /\ w.moving /\ ~timer.settle
    /\ timer' = [timer EXCEPT !.settle = TRUE]
    /\ UNCHANGED <<world, termVars, w, result>>

Wait ==
    \/ Baseline \/ Derive \/ Arm \/ ArmAnswered("answered", "unseen") \/ UnseenNote
    \/ PollPattern \/ PollNote \/ PollCompletion \/ PollPrompt \/ ArmAnswered("asked", "scan")
    \/ ScanAnswer \/ Verdict \/ State \/ ArmAnswered("asked late", "over") \/ PollAgain

\* What the terminal does once the wait has returned is not followed.
Waiting == w.pc # "returned"
WaitNext == (Waiting /\ (Terminal \/ Quiesces)) \/ Wait \/ TimesOut \/ GraceElapses \/ SettleElapses

WaitSpec == WaitInit /\ [][WaitNext]_waitVars

(***************************************************************************)
(* The wait polls and its clocks run.  The deadline may be as far as one      *)
(* likes; the terminal and the human owe nothing.                            *)
(***************************************************************************)
Fairness ==
    /\ WF_waitVars(Wait) /\ WF_waitVars(Waiting /\ Quiesces) /\ WF_waitVars(GraceElapses) /\ WF_waitVars(SettleElapses)

FairWaitSpec == WaitSpec /\ Fairness

-----------------------------------------------------------------------------
WaitTypeOK ==
    /\ world \in Worlds
    /\ Len(out) <= MaxOut
    /\ fg \in {"idle", "starting", "working", "asking", "over"}
    /\ pending \in {NoOffset} \cup 0..Len(out)
    /\ acked \in 0..notes /\ w.events \in 0..notes
    /\ w.base \in 0..Len(out) /\ w.scan \in 0..Len(out) /\ w.from \in {NoOffset} \cup 0..Len(out)

(***************************************************************************)
(* A handoff is not reported as answered while the program asks, not even if  *)
(* the human is "halfway through typing" (wait.go:421-425) - as long as it    *)
(* asks once, or in words that are recognised and with answers that are not    *)
(* echoed: wait.go:429 sees no other second question.                        *)
(***************************************************************************)
AnsweredIsOver == [][result'.how = "answered" /\ result.how = "none" => fg # "asking"]_waitVars

(***************************************************************************)
(* "so on an idle terminal it watches the next command rather than being      *)
(* handed a result older than the subscription" (wait.go:299-301): what wait   *)
(* --done reports was written after it was called, and has a C or a grace      *)
(* period behind it.                                                         *)
(***************************************************************************)
DoneIsNew == result.how = "done" /\ ~Wants("human") => result.at > w.base

(***************************************************************************)
(* What a wait is for ends it, whenever it comes: the end of the command that *)
(* was under way when wait --done or --human was called, wherever between its *)
(* reads that falls; a note left since; and the terminal's death.             *)
(***************************************************************************)
WakesUp ==
    /\ (w.busy /\ fg = "idle" /\ Wants("done") /\ world.commands = 0) ~> ~Waiting
    /\ (w.from # NoOffset /\ CorrelatedD(out, w.from) # 0) ~> ~Waiting
    /\ (WaitNote /\ w.pc # "baseline" /\ notes > w.events) ~> ~Waiting
    /\ ~Alive ~> ~Waiting

=============================================================================
