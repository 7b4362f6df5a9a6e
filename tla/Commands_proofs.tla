------------------------- MODULE Commands_proofs -----------------------------
(***************************************************************************)
(* Two commands on a terminal that others use at the same time: `pairmux wait`  *)
(* (module WaitCommand), for any circumstances and however long raw.log gets,   *)
(* and `pairmux new` among creates, kills and prunes of one name (module        *)
(* NameLifecycle), for any number of processes.                              *)
(*                                                                          *)
(* Neither of wait's properties says what it went by when it armed.  For what   *)
(* --done reports, WatchesNew does: the offset it watches from is that of a     *)
(* command nothing had ended when the wait began, or the beginning itself.     *)
(* For what --human reports, HandoffInv does: an answer is looked for only     *)
(* behind a question that was seen, so that the newline found is not its own.  *)
(***************************************************************************)
EXTENDS NameLifecycle, WaitCommand, TLAPS, SequenceTheorems, WellFoundedInduction

-----------------------------------------------------------------------------
\* What a wait and its terminal are made of

OutKinds == {"C", "D", "prompt", "key", "text", "nl"}

ForegroundKinds == {"idle", "starting", "working", "asking", "over"}

Places == {"baseline", "derive", "arm", "answered", "unseen", "pattern", "note", "completion",
           "prompt", "asked", "scan", "verdict", "state", "asked late", "over", "returned"}

Statuses == {"unknown", "dead", "running", "idle", "awaiting-input"}

WaitRecord ==
    [pc : Places, base : Nat, events : Nat, busy : BOOLEAN, status : Statuses,
     from : {NoOffset} \cup Nat, watch : BOOLEAN, scan : Nat, submitted : BOOLEAN, moving : BOOLEAN]

TerminalTyped ==
    /\ out \in Seq([kind : OutKinds]) /\ Len(out) <= MaxOut
    /\ fg \in ForegroundKinds /\ typed \in BOOLEAN
    /\ left \in [commands : Nat, questions : Nat]
    /\ left.commands <= world.commands /\ left.questions <= world.questions
    /\ pending \in {NoOffset} \cup 0..Len(out)
    /\ notes \in Nat /\ acked \in 0..notes /\ quiet \in BOOLEAN

Timers == [grace : BOOLEAN, settle : BOOLEAN]

WaitTyped ==
    /\ w \in WaitRecord
    /\ w.events <= notes /\ w.base <= Len(out) /\ w.scan <= Len(out)
    /\ w.from \in {NoOffset} \cup 0..Len(out)
    /\ timer \in Timers

Typed == world \in Worlds /\ TerminalTyped /\ WaitTyped

\* No completion is between an offset and the beginning of the wait.
NoneDone(from) == \A i \in 1..w.base : i > from => out[i].kind # "D"

\* What is watched for begins where nothing has ended before the wait.
WatchesNew ==
    /\ w.pc = "baseline" => w.from = NoOffset /\ result.how # "done"
    /\ world.program => pending = NoOffset
    /\ w.pc = "arm" /\ w.status \in {"running", "awaiting-input"} /\ pending # NoOffset
           => NoneDone(pending)
    /\ w.from # NoOffset /\ ~Wants("human") => NoneDone(w.from)
    /\ DoneIsNew

\* A program is no shell: it has no commands, and wait --done refuses it (wait.go:276-279).
LEMMA WorldIs ==
  ASSUME Typed
  PROVE  /\ world \in World
         /\ world.program => ~world.busy /\ world.commands = 0 /\ ~Wants("done")
  <1>1. world \in World
    BY WaitAssumption DEF Typed
  <1>2. world.commands \in Nat
    BY <1>1 DEF World
  <1> QED
    BY <1>1, <1>2, WaitAssumption DEF Typed, Wants

\* Marks and text are only added.
LEMMA Grown ==
  ASSUME Typed, NEW kind \in OutKinds, Grow(kind)
  PROVE  /\ out' \in Seq([kind : OutKinds])
         /\ Len(out) \in Nat /\ Len(out') = Len(out) + 1 /\ Len(out') <= MaxOut
         /\ \A i \in 1..Len(out) : out'[i] = out[i]
         /\ out'[Len(out) + 1].kind = kind
  BY WaitAssumption DEF Typed, TerminalTyped, Grow

\* What of the terminal's state other than raw.log has its type after a step.
RestTyped ==
    /\ fg \in ForegroundKinds /\ typed \in BOOLEAN
    /\ left \in [commands : Nat, questions : Nat]
    /\ left.commands <= world.commands /\ left.questions <= world.questions

(***************************************************************************)
(* What a step of the terminal does, whichever it is: raw.log grows or stays, *)
(* and a command that becomes pending begins where raw.log ends.             *)
(***************************************************************************)
TerminalMoves ==
    /\ UNCHANGED <<world, w, timer, result>>
    /\ out' = out \/ \E kind \in OutKinds : Grow(kind)
    /\ pending' \in {NoOffset, pending} \/ (pending' = Len(out) /\ ~world.program /\ out' = out)
    /\ notes' \in Nat /\ notes' >= notes
    /\ TerminalTyped'

\* A step that prints, marks or echoes adds one thing to raw.log.
LEMMA Added ==
  ASSUME Typed, NEW kind \in OutKinds, Grow(kind), RestTyped',
         UNCHANGED <<world, w, timer, result, pending, notes, acked>>
  PROVE  TerminalMoves
  <1>1. /\ out' \in Seq([kind : OutKinds]) /\ Len(out) \in Nat /\ Len(out') = Len(out) + 1
        /\ Len(out') <= MaxOut
    BY Grown, Zenon
  <1>2. quiet' \in BOOLEAN
    BY DEF Grow
  <1>3. pending' \in {NoOffset} \cup 0..Len(out') /\ notes' \in Nat /\ notes' >= notes
        /\ acked' \in 0..notes' /\ pending' = pending
    BY <1>1 DEF Typed, TerminalTyped
  <1>4. TerminalTyped'
    BY <1>1, <1>2, <1>3 DEF RestTyped, ForegroundKinds, TerminalTyped
  <1> QED
    BY <1>3, <1>4 DEF TerminalMoves

\* A step that does not may start a command where raw.log ends.
LEMMA NotAdded ==
  ASSUME Typed, RestTyped', quiet' \in BOOLEAN,
         UNCHANGED <<world, w, timer, result, out>>,
         \/ pending' \in {NoOffset, pending} \/ (pending' = Len(out) /\ ~world.program),
         notes' \in Nat, notes' >= notes, acked' \in 0..notes'
  PROVE  TerminalMoves
  <1>1. Len(out) \in Nat
    BY DEF Typed, TerminalTyped
  <1>2. TerminalTyped'
    BY <1>1 DEF Typed, TerminalTyped, RestTyped, ForegroundKinds
  <1> QED
    BY <1>2 DEF TerminalMoves

\* So does every step of the terminal, its program and its human.
LEMMA TerminalSteps ==
  ASSUME Typed, Terminal \/ Quiesces
  PROVE  TerminalMoves
  <1> USE DEF WaitUnchanged
  <1>0. /\ world \in World /\ world.commands \in Nat /\ world.questions \in Nat /\ RestTyped
        /\ notes \in Nat /\ acked \in 0..notes /\ quiet \in BOOLEAN /\ acked \in Nat
        /\ world.program => world.commands = 0
    BY WorldIs DEF World, Typed, TerminalTyped, RestTyped, ForegroundKinds
  <1> USE DEF RestTyped, ForegroundKinds
  <1>1. CASE RunStarts
    <2>1. ~world.program
      BY <1>0, <1>1 DEF RunStarts
    <2> QED
      BY <1>0, <1>1, <2>1, NotAdded DEF RunStarts
  <1>2. CASE CommandBegins
    <2>1. Grow("C") /\ "C" \in OutKinds
      BY <1>2 DEF CommandBegins, OutKinds
    <2>2. RestTyped'
      BY <1>0, <1>2 DEF CommandBegins
    <2> QED
      BY <1>2, <2>1, <2>2, Added DEF CommandBegins
  <1>3. CASE Says
    <2>1. PICK kind \in {"text", "nl"} : Grow(kind)
      BY <1>3 DEF Says
    <2>2. kind \in OutKinds
      BY <2>1 DEF OutKinds
    <2>3. RestTyped'
      BY <1>0, <1>3 DEF Says
    <2> QED
      BY <1>3, <2>1, <2>2, <2>3, Added DEF Says
  <1>4. CASE Asks
    <2>1. PICK kind \in {"prompt", "text"} : Grow(kind)
      BY <1>4 DEF Asks
    <2>2. kind \in OutKinds
      BY <2>1 DEF OutKinds
    <2>3. RestTyped'
      BY <1>0, <1>4 DEF Asks
    <2> QED
      BY <1>4, <2>1, <2>2, <2>3, Added DEF Asks
  <1>5. CASE Types
    <2>1. RestTyped'
      BY <1>0, <1>5 DEF Types
    <2>2. CASE Grow("key")
      <3>1. "key" \in OutKinds
        BY DEF OutKinds
      <3> QED
        BY <1>5, <2>1, <2>2, <3>1, Added DEF Types
    <2>3. CASE UNCHANGED <<out, quiet>>
      BY <1>0, <1>5, <2>1, <2>3, NotAdded DEF Types
    <2> QED
      BY <1>5, <2>2, <2>3 DEF Types
  <1>6. CASE PressesEnter
    <2>1. Grow("nl") /\ "nl" \in OutKinds
      BY <1>6 DEF PressesEnter, OutKinds
    <2>2. RestTyped'
      BY <1>0, <1>6 DEF PressesEnter
    <2> QED
      BY <1>6, <2>1, <2>2, Added DEF PressesEnter
  <1>7. CASE CommandEnds
    <2>1. Grow("D") /\ "D" \in OutKinds
      BY <1>7 DEF CommandEnds, OutKinds
    <2>2. RestTyped'
      BY <1>0, <1>7 DEF CommandEnds
    <2> QED
      BY <1>7, <2>1, <2>2, Added DEF CommandEnds
  <1>8. CASE EndRecorded
    BY <1>0, <1>8, NotAdded DEF EndRecorded
  <1>9. CASE NoteLeft
    <2>1. notes' = notes + 1 /\ acked' \in 0..notes'
      BY <1>0, <1>9 DEF NoteLeft
    <2> QED
      BY <1>0, <1>9, <2>1, NotAdded DEF NoteLeft
  <1>10. CASE Dies
    <2>1. /\ fg' = "over" /\ typed' = FALSE
          /\ UNCHANGED <<world, w, timer, result, out, left, pending, notes, acked, quiet>>
      BY <1>10 DEF Dies
    <2>2. RestTyped' /\ quiet' \in BOOLEAN
      BY <1>0, <2>1
    <2>3. notes' \in Nat /\ notes' >= notes /\ acked' \in 0..notes'
      BY <1>0, <2>1
    <2> QED
      BY <2>1, <2>2, <2>3, NotAdded
  <1>11. CASE Quiesces
    <2>1. quiet' \in BOOLEAN /\ RestTyped'
      <3>1. quiet' = TRUE /\ UNCHANGED <<world, fg, typed, left>>
        BY <1>11 DEF Quiesces
      <3> QED
        BY <1>0, <3>1
    <2> QED
      BY <1>0, <1>11, <2>1, NotAdded DEF Quiesces
  <1> QED
    BY <1>1, <1>2, <1>3, <1>4, <1>5, <1>6, <1>7, <1>8, <1>9, <1>10, <1>11 DEF Terminal

\* A wait begins at any terminal, busy or not (WaitInit).
LEMMA TypedInit == WaitInit => Typed
  <1> SUFFICES ASSUME WaitInit PROVE Typed
    OBVIOUS
  <1>1. /\ world \in Worlds /\ world.commands \in Nat /\ world.questions \in Nat
        /\ world.notes \in Nat
    BY WaitAssumption DEF WaitInit, World
  <1>2. out \in Seq([kind : OutKinds]) /\ Len(out) <= MaxOut
    <2>1. CASE world.busy
      <3>1. [kind |-> "C"] \in [kind : OutKinds]
        BY DEF OutKinds
      <3>2. out = <<[kind |-> "C"]>>
        BY <2>1 DEF WaitInit
      <3> QED
        BY <3>1, <3>2, WaitAssumption
    <2>2. CASE ~world.busy
      BY <2>2, WaitAssumption DEF WaitInit
    <2> QED
      BY <2>1, <2>2
  <1>3. TerminalTyped
    <2>1. pending \in {NoOffset} \cup 0..Len(out)
      BY <1>2 DEF WaitInit
    <2>2. notes \in Nat /\ acked \in 0..notes
      BY <1>1 DEF WaitInit
    <2>3. quiet \in BOOLEAN /\ typed \in BOOLEAN /\ fg \in ForegroundKinds
      BY DEF WaitInit, ForegroundKinds
    <2>4. left \in [commands : Nat, questions : Nat]
          /\ left.commands <= world.commands /\ left.questions <= world.questions
      BY <1>1 DEF WaitInit
    <2> QED
      BY <1>2, <2>1, <2>2, <2>3, <2>4 DEF TerminalTyped
  <1>4. WaitTyped
    <2>1. w \in WaitRecord /\ timer \in Timers
      <3>1. timer \in Timers
        BY DEF WaitInit, Timers
      <3>2. "baseline" \in Places /\ 0 \in Nat /\ FALSE \in BOOLEAN /\ "unknown" \in Statuses
        BY DEF Places, Statuses
      <3>3. w = [pc |-> "baseline", base |-> 0, events |-> 0, busy |-> FALSE, status |-> "unknown",
                 from |-> NoOffset, watch |-> FALSE, scan |-> 0, submitted |-> FALSE, moving |-> FALSE]
        BY DEF WaitInit
      <3> QED
        BY <3>1, <3>2, <3>3 DEF WaitRecord
    <2>2. Len(out) \in Nat /\ notes \in Nat
      BY <1>3 DEF TerminalTyped
    <2> QED
      BY <2>1, <2>2 DEF WaitInit, WaitTyped
  <1> QED
    BY <1>1, <1>3, <1>4 DEF Typed

\* A step of the wait leaves the terminal alone.
WaitMoves == UNCHANGED <<world, termVars>> /\ WaitTyped'

\* The fields of waitTarget stay within raw.log and the event log.
LEMMA Moved ==
  ASSUME Typed, UNCHANGED <<world, termVars>>, timer' \in Timers, w' \in WaitRecord,
         w'.events <= notes, w'.base <= Len(out), w'.scan <= Len(out),
         w'.from \in {NoOffset} \cup 0..Len(out)
  PROVE  WaitMoves
  BY DEF WaitMoves, WaitTyped, termVars

\* As they do when only the place in armWaitTarget or pollWaitTarget changes.
LEMMA WentOn ==
  ASSUME Typed, UNCHANGED <<world, termVars>>, timer' \in Timers, NEW to \in Places,
         w' = [w EXCEPT !.pc = to]
  PROVE  WaitMoves
  <1>1. w \in WaitRecord
    BY DEF Typed, WaitTyped
  <1>2. w' \in WaitRecord /\ w'.events = w.events /\ w'.base = w.base /\ w'.scan = w.scan
        /\ w'.from = w.from
    BY <1>1 DEF WaitRecord
  <1> QED
    BY <1>2, Moved DEF Typed, WaitTyped

\* Every step of the wait, its poll and its clocks is one of the two: it writes nothing.
LEMMA WaitSteps ==
  ASSUME Typed, Wait \/ TimesOut \/ GraceElapses \/ SettleElapses
  PROVE  WaitMoves
  <1>0. /\ Len(out) \in Nat /\ notes \in Nat /\ acked \in Nat
        /\ pending \in {NoOffset} \cup 0..Len(out)
    BY DEF Typed, TerminalTyped
  <1>t. timer \in Timers /\ w \in WaitRecord /\ w.pc \in Places
    BY DEF Typed, WaitTyped, WaitRecord
  <1>b. /\ w.events <= notes /\ w.base <= Len(out) /\ w.scan <= Len(out)
        /\ w.from \in {NoOffset} \cup 0..Len(out)
    BY DEF Typed, WaitTyped
  <1> USE DEF Only
  <1>g. ASSUME NEW here \in Places, \/ GoTo(here) /\ Only
                                 \/ \E how, at : Return(how, at)
        PROVE  WaitMoves
    <2>1. /\ UNCHANGED <<world, termVars, timer>>
          /\ \E to \in Places : w' = [w EXCEPT !.pc = to]
      BY <1>g DEF GoTo, Return, Places
    <2> QED
      BY <2>1, <1>t, WentOn
  <1>1. CASE Baseline
    <2>1. CASE Alive
      <3>1. w' \in WaitRecord /\ w'.events = notes /\ w'.base = Len(out) /\ w'.scan = w.scan
            /\ w'.from = w.from
        <4>1. (fg \in {"working", "asking"}) \in BOOLEAN /\ "derive" \in Places
          BY DEF Places
        <4> DEFINE b == fg \in {"working", "asking"}
        <4>2. w' = [w EXCEPT !.pc = "derive", !.base = Len(out), !.events = notes, !.busy = b]
          BY <1>1, <2>1 DEF Baseline
        <4> HIDE DEF b
        <4>3. b \in BOOLEAN
          BY DEF b
        <4> QED
          BY <1>0, <1>t, <4>1, <4>2, <4>3 DEF WaitRecord
      <3>2. UNCHANGED <<world, termVars, timer>>
        BY <1>1, <2>1 DEF Baseline
      <3> QED
        BY <1>0, <1>t, <1>b, <3>1, <3>2, Moved
    <2>2. CASE ~Alive
      <3>1. "baseline" \in Places
        BY DEF Places
      <3> QED
        BY <1>1, <1>g, <2>2, <3>1 DEF Baseline
    <2> QED
      BY <2>1, <2>2
  <1>2. CASE Derive
    <2>1. PICK inferred \in {FALSE, quiet} :
              w' = [w EXCEPT !.pc = "arm", !.status = Classified(TRUE, inferred)]
      BY <1>2 DEF Derive
    <2>2. Classified(TRUE, inferred) \in Statuses
      <3>1. Derived(TRUE) \in Statuses
        <4>1. Derived(TRUE) = IF world.program THEN "running"
                              ELSE IF pending = NoOffset \/ ScanForMark(out, pending, "hooks")
                                   THEN "idle" ELSE "running"
          BY DEF Derived
        <4> QED
          BY <4>1 DEF Statuses
      <3> QED
        BY <3>1 DEF Classified, Statuses
    <2>3. w' \in WaitRecord /\ w'.events = w.events /\ w'.base = w.base /\ w'.scan = w.scan
          /\ w'.from = w.from
      BY <1>t, <2>1, <2>2 DEF WaitRecord, Places
    <2>4. UNCHANGED <<world, termVars, timer>>
      BY <1>2 DEF Derive
    <2> QED
      BY <1>t, <1>b, <2>3, <2>4, Moved
  <1>3. CASE Arm
    <2>1. FromPending \in 0..Len(out) /\ FromPending \in Nat
      BY <1>0, <1>b, <1>t DEF FromPending, WaitRecord
    <2>2. PICK f \in {NoOffset, FromPending}, to \in Places : w' = [w EXCEPT !.from = f, !.pc = to]
      BY <1>3 DEF Arm, Places
    <2>3. w' \in WaitRecord /\ w'.events = w.events /\ w'.base = w.base /\ w'.scan = w.scan
          /\ w'.from = f
      BY <1>t, <2>1, <2>2 DEF WaitRecord
    <2>4. UNCHANGED <<world, termVars, timer>>
      BY <1>3 DEF Arm
    <2> QED
      BY <1>t, <1>b, <2>1, <2>3, <2>4, Moved
  <1>4. ASSUME NEW here, NEW then \in Places, ArmAnswered(here, then) PROVE WaitMoves
    <2>1. w' \in WaitRecord /\ w'.events = w.events /\ w'.base = w.base /\ w'.scan = Len(out)
          /\ w'.from = w.from
      BY <1>0, <1>t, <1>4 DEF WaitRecord, ArmAnswered
    <2>2. UNCHANGED <<world, termVars, timer>>
      BY <1>4 DEF ArmAnswered
    <2> QED
      BY <1>0, <1>t, <1>b, <2>1, <2>2, Moved
  <1> USE DEF Places
  <1>5. CASE UnseenNote
    BY <1>5, <1>g DEF UnseenNote, First
  <1>6. CASE PollPattern
    BY <1>6, <1>g DEF PollPattern
  <1>7. CASE PollNote
    BY <1>7, <1>g DEF PollNote
  <1>8. CASE PollCompletion
    BY <1>8, <1>g DEF PollCompletion, Handoff
  <1>9. CASE PollPrompt
    BY <1>9, <1>g DEF PollPrompt
  <1>10. CASE ScanAnswer
    <2> DEFINE found == At(out, w.scan, "nl") # {}
    <2>1. \/ w' = [w EXCEPT !.pc = "verdict", !.scan = Len(out), !.submitted = found]
          \/ w' = [w EXCEPT !.pc = "verdict"]
      BY <1>10 DEF ScanAnswer
    <2>2. found \in BOOLEAN
      OBVIOUS
    <2> HIDE DEF found
    <2>3. w' \in WaitRecord /\ w'.events = w.events /\ w'.base = w.base
          /\ w'.scan \in {w.scan, Len(out)} /\ w'.from = w.from
      BY <1>0, <1>t, <2>1, <2>2 DEF WaitRecord
    <2>4. UNCHANGED <<world, termVars, timer>>
      BY <1>10 DEF ScanAnswer
    <2>5. w'.scan <= Len(out)
      BY <1>0, <1>b, <2>3
    <2> QED
      BY <2>5, <1>0, <1>t, <1>b, <2>3, <2>4, Moved
  <1>11. CASE Verdict
    <2>1. CASE (GoTo("state") /\ Only) \/ \E how, at : Return(how, at)
      BY <1>g, <2>1
    <2>2. CASE /\ \E m \in BOOLEAN : w' = [w EXCEPT !.pc = "state", !.moving = m]
               /\ timer' = timer \/ timer' = [timer EXCEPT !.settle = FALSE]
               /\ UNCHANGED <<world, termVars>>
      <3>1. PICK m \in BOOLEAN : w' = [w EXCEPT !.pc = "state", !.moving = m]
        BY <2>2
      <3>2. w' \in WaitRecord /\ w'.events = w.events /\ w'.base = w.base /\ w'.scan = w.scan
            /\ w'.from = w.from
        BY <1>t, <3>1 DEF WaitRecord
      <3>3. timer' \in Timers
        BY <1>t, <2>2 DEF Timers
      <3> QED
        BY <1>t, <1>b, <2>2, <3>2, <3>3, Moved
    <2> QED
      BY <1>11, <2>1, <2>2, Zenon DEF Verdict
  <1>12. CASE State
    BY <1>12, <1>g DEF State
  <1>13. CASE PollAgain
    BY <1>13, <1>g DEF PollAgain, First
  <1>14. CASE TimesOut
    BY <1>14, <1>g DEF TimesOut
  <1>15. CASE GraceElapses
    <2>1. timer' \in Timers /\ UNCHANGED <<world, termVars, w>>
      BY <1>t, <1>15 DEF GraceElapses, Timers
    <2> QED
      BY <1>t, <1>b, <2>1, Moved
  <1>16. CASE SettleElapses
    <2>1. timer' \in Timers /\ UNCHANGED <<world, termVars, w>>
      BY <1>t, <1>16 DEF SettleElapses, Timers
    <2> QED
      BY <1>t, <1>b, <2>1, Moved
  <1> QED
    BY <1>1, <1>2, <1>3, <1>4, <1>5, <1>6, <1>7, <1>8, <1>9, <1>10, <1>11, <1>12, <1>13, <1>14,
       <1>15, <1>16 DEF Wait

\* raw.log and the event log only grow, so the baselines taken stay within them.
LEMMA TypedStep == Typed /\ [WaitNext]_waitVars => Typed'
  <1> SUFFICES ASSUME Typed, [WaitNext]_waitVars PROVE Typed'
    OBVIOUS
  <1>1. CASE Terminal \/ Quiesces
    <2>1. TerminalMoves
      BY <1>1, TerminalSteps
    <2>2. Len(out) \in Nat /\ Len(out') \in Nat /\ Len(out') >= Len(out)
      BY <2>1, Grown DEF TerminalMoves, Typed, TerminalTyped
    <2>3. WaitTyped'
      BY <2>1, <2>2 DEF Typed, TerminalMoves, TerminalTyped, WaitTyped, WaitRecord
    <2> QED
      BY <2>1, <2>3 DEF Typed, TerminalMoves
  <1>2. CASE Wait \/ TimesOut \/ GraceElapses \/ SettleElapses
    BY <1>2, WaitSteps DEF WaitMoves, Typed, TerminalTyped, termVars
  <1>3. CASE UNCHANGED waitVars
    BY <1>3 DEF waitVars, termVars, Typed, TerminalTyped, WaitTyped
  <1> QED
    BY <1>1, <1>2, <1>3 DEF WaitNext

\* For as long as the wait polls.
LEMMA TypedHolds == WaitSpec => []Typed
  BY TypedInit, TypedStep, PTL DEF WaitSpec

\* The baselines and the offsets a wait remembers (waitTarget) are within raw.log and
\* the event log, whatever either gains meanwhile.
THEOREM WaitTypeCorrect == WaitSpec => []WaitTypeOK
<1>1. Typed => WaitTypeOK
  BY DEF Typed, TerminalTyped, WaitTyped, WaitRecord, WaitTypeOK, ForegroundKinds
<1> QED
  BY <1>1, TypedHolds, PTL

-----------------------------------------------------------------------------
\* What wait --done reports is new

\* Offsets have a first one,
LEMMA LeastExists ==
  ASSUME NEW S, S \subseteq Nat, S # {}
  PROVE  \E m \in S : \A k \in S : m <= k
  <1>1. PICK m \in S : \A k \in S : ~ (<<k, m>> \in OpToRel(<, Nat))
    BY NatLessThanWellFounded, WFMin
  <1>2. \A k \in S : ~ (k < m)
    BY <1>1 DEF OpToRel
  <1> QED
    BY <1>2

\* and, below the end of raw.log, a last one.
LEMMA GreatestExists ==
  ASSUME NEW S, S \subseteq Nat, S # {}, NEW n \in Nat, \A k \in S : k <= n
  PROVE  \E m \in S : \A k \in S : k <= m
  <1> DEFINE T == {n - k : k \in S}
  <1>1. T \subseteq Nat /\ T # {}
    <2>1. \A k \in S : n - k \in Nat
      OBVIOUS
    <2> QED
      BY <2>1
  <1>2. PICK t \in T : \A u \in T : t <= u
    BY <1>1, LeastExists
  <1>3. PICK m \in S : t = n - m
    BY <1>2
  <1>4. \A k \in S : n - m <= n - k
    BY <1>2, <1>3
  <1> QED
    BY <1>3, <1>4

\* The first of some offsets is one of them.
LEMMA FirstIsOne ==
  ASSUME NEW S, S \subseteq Nat \ {0}, FirstOf(S) # 0
  PROVE  FirstOf(S) \in S
  <1>1. S # {}
    BY DEF FirstOf
  <1>2. \E m \in S : \A k \in S : m <= k
    BY <1>1, LeastExists
  <1> QED
    BY <1>1, <1>2 DEF FirstOf

\* A completion is a D of the stream after the offset (detect.CompletionWatcher).
LEMMA CompletedIsD ==
  ASSUME Typed, w.from # NoOffset, Completed # 0
  PROVE  Completed \in 1..Len(out) /\ Completed > w.from /\ out[Completed].kind = "D"
  <1>0. w.from \in Nat /\ w.from <= Len(out) /\ Len(out) \in Nat
    BY DEF Typed, WaitTyped, TerminalTyped
  <1> DEFINE Ds == At(out, w.from, "D")
  <1>1. \A i \in Ds : i \in 1..Len(out) /\ i > w.from /\ out[i].kind = "D" /\ i \in Nat \ {0}
    BY <1>0 DEF At
  <1>2. ASSUME CorrelatedD(out, w.from) # 0 PROVE CorrelatedD(out, w.from) \in Ds
    <2> DEFINE S == {i \in Ds : \E c \in At(out, w.from, "C") : c < i}
    <2>1. FirstOf(S) # 0 /\ S \subseteq Nat \ {0}
      BY <1>1, <1>2 DEF CorrelatedD
    <2>2. FirstOf(S) \in S
      BY <2>1, FirstIsOne
    <2> QED
      BY <2>2 DEF CorrelatedD
  <1>3. ASSUME HeldD(out, w.from) # 0 PROVE HeldD(out, w.from) \in Ds
    <2>1. HeldD(out, w.from) = FirstOf(Ds)
      BY <1>3 DEF HeldD
    <2>2. Ds \subseteq Nat \ {0}
      BY <1>1
    <2> HIDE DEF Ds
    <2> QED
      BY <1>3, <2>1, <2>2, FirstIsOne
  <1>4. Completed \in Ds
    BY <1>2, <1>3 DEF Completed
  <1> QED
    BY <1>1, <1>4

\* Before it has a baseline it watches for nothing.
LEMMA WatchesNewInit == WaitInit => WatchesNew
  BY WaitAssumption DEF WaitInit, WatchesNew, DoneIsNew, NoOffset, World

\* It goes by a status derived after its baseline was taken (wait.go:296-306): a command
\* that is still running then has no completion before it, and no later command becomes
\* pending at an earlier offset.
LEMMA WatchesNewStep == Typed /\ WatchesNew /\ [WaitNext]_waitVars => WatchesNew'
  <1> SUFFICES ASSUME Typed, WatchesNew, [WaitNext]_waitVars PROVE WatchesNew'
    OBVIOUS
  <1>0. /\ Len(out) \in Nat /\ w.base \in Nat /\ w.base <= Len(out)
        /\ out \in Seq([kind : OutKinds])
    BY DEF Typed, TerminalTyped, WaitTyped, WaitRecord
  <1>w. w \in WaitRecord
    BY DEF Typed, WaitTyped
  <1>1. CASE Terminal \/ Quiesces
    <2>1. TerminalMoves
      BY <1>1, TerminalSteps
    <2>2. \A i \in 1..Len(out) : out'[i] = out[i]
      BY <2>1, Grown DEF TerminalMoves
    <2>3. UNCHANGED <<world, w, result>> /\ (Wants("human") <=> Wants("human")')
      BY <2>1 DEF TerminalMoves, Wants
    <2>4. ASSUME NEW from, NoneDone(from) PROVE NoneDone(from)'
      BY <1>0, <2>2, <2>3, <2>4 DEF NoneDone
    <2>5. world'.program => pending' = NoOffset
      BY <2>1 DEF TerminalMoves, WatchesNew
    <2>6. w'.pc = "arm" /\ w'.status \in {"running", "awaiting-input"} /\ pending' # NoOffset
             => NoneDone(pending)'
      <3>1. CASE pending' = pending
        <4> SUFFICES ASSUME w.pc = "arm", w.status \in {"running", "awaiting-input"}, pending # NoOffset
                     PROVE  NoneDone(pending)'
          BY <2>3, <3>1
        <4>1. \A i \in 1..w.base : i > pending => out[i].kind # "D"
          BY DEF WatchesNew, NoneDone
        <4> QED
          BY <1>0, <2>2, <2>3, <3>1, <4>1 DEF NoneDone
      <3>2. CASE pending' = Len(out)
        BY <1>0, <2>3, <3>2 DEF NoneDone
      <3> QED
        BY <2>1, <3>1, <3>2 DEF TerminalMoves
    <2>7. w'.from # NoOffset /\ ~Wants("human")' => NoneDone(w.from)'
      BY <1>0, <2>2, <2>3 DEF NoneDone, WatchesNew
    <2>8. DoneIsNew'
      BY <2>3 DEF DoneIsNew, WatchesNew
    <2>9. w'.pc = "baseline" => w'.from = NoOffset /\ result'.how # "done"
      BY <2>3 DEF WatchesNew
    <2> QED
      BY <2>5, <2>6, <2>7, <2>8, <2>9 DEF WatchesNew
  <1>2. CASE Wait \/ TimesOut \/ GraceElapses \/ SettleElapses
    <2>1. UNCHANGED <<world, out, pending>> /\ (Wants("human") <=> Wants("human")')
      BY <1>2, WaitSteps DEF WaitMoves, termVars, Wants
    <2>k. ASSUME w'.pc \notin {"baseline", "arm"}, w'.from = w.from, w'.base = w.base,
                 result' = result
          PROVE  WatchesNew'
      BY <2>1, <2>k DEF WatchesNew, NoneDone, DoneIsNew
    <2>r. ASSUME NEW how, NEW at, Return(how, at), how = "done" /\ ~Wants("human") => at > w.base
          PROVE  WatchesNew'
      <3>1. /\ w'.pc = "returned" /\ w'.from = w.from /\ w'.base = w.base
            /\ result' = [how |-> how, at |-> at]
        BY <1>w, <2>r DEF Return, GoTo, WaitRecord
      <3> QED
        BY <2>1, <2>r, <3>1 DEF WatchesNew, NoneDone, DoneIsNew
    <2>g. ASSUME \/ \E here \in Places \ {"baseline", "arm"} : GoTo(here) /\ Only
                 \/ \E how, at : how # "done" /\ Return(how, at)
          PROVE  WatchesNew'
      <3>1. ASSUME NEW here \in Places \ {"baseline", "arm"}, GoTo(here), Only PROVE WatchesNew'
        BY <1>w, <2>k, <3>1 DEF GoTo, Only, WaitRecord
      <3> QED
        BY <2>g, <2>r, <3>1
    <2>a. ASSUME NEW here, NEW then \in Places \ {"baseline", "arm"}, ArmAnswered(here, then)
          PROVE  WatchesNew'
      BY <1>w, <2>a, <2>k DEF ArmAnswered, Only, WaitRecord
    <2>2. CASE Baseline
      <3>1. CASE Alive
        <4>1. w'.pc = "derive" /\ w'.from = NoOffset /\ result' = result /\ result.how # "done"
          BY <1>w, <2>2, <3>1 DEF Baseline, Only, WaitRecord, WatchesNew
        <4> QED
          BY <2>1, <4>1 DEF WatchesNew, DoneIsNew
      <3>2. CASE ~Alive
        BY <2>2, <2>r, <3>2 DEF Baseline
      <3> QED
        BY <3>1, <3>2
    <2>3. CASE Derive
      <3>1. PICK inferred \in {FALSE, quiet} :
              w' = [w EXCEPT !.pc = "arm", !.status = Classified(TRUE, inferred)]
        BY <2>3 DEF Derive
      <3>2. /\ w'.pc = "arm" /\ w'.from = w.from /\ w'.base = w.base /\ result' = result
            /\ w'.status = Classified(TRUE, inferred)
        BY <1>w, <2>3, <3>1 DEF Derive, Only, WaitRecord
      <3>3. ASSUME w'.status \in {"running", "awaiting-input"}, pending # NoOffset
            PROVE  NoneDone(pending)'
        <4>1. Derived(TRUE) = "running"
          BY <3>2, <3>3 DEF Classified, Derived
        <4>2. ~world.program
          BY <3>3 DEF WatchesNew
        <4>3. At(out, pending, "D") = {}
          BY <3>3, <4>1, <4>2 DEF Derived, ScanForMark, CompletionKind
        <4>4. pending \in Nat
          BY <3>3 DEF Typed, TerminalTyped
        <4>5. \A i \in 1..w.base : i > pending => out[i].kind # "D"
          BY <1>0, <4>3, <4>4 DEF At
        <4> QED
          BY <2>1, <3>2, <4>5 DEF NoneDone
      <3> QED
        BY <2>1, <3>2, <3>3 DEF WatchesNew, NoneDone, DoneIsNew
    <2>4. CASE Arm
      <3> DEFINE watched == Wants("done") \/ (Wants("human") /\ pending # NoOffset)
      <3>1. PICK to \in {"answered", "unseen"} :
                w' = [w EXCEPT !.from = IF watched THEN FromPending ELSE NoOffset, !.pc = to]
        BY <2>4 DEF Arm
      <3>2. /\ w'.pc \in {"answered", "unseen"} /\ w'.base = w.base /\ result' = result
            /\ w'.from = IF watched THEN FromPending ELSE NoOffset
        BY <1>w, <2>4, <3>1 DEF Arm, Only, WaitRecord
      <3>3. ASSUME w'.from # NoOffset, ~Wants("human") PROVE NoneDone(w.from)'
        <4>1. w'.from = FromPending
          BY <3>2, <3>3
        <4>2. CASE FromPending = w.base
          BY <1>0, <2>1, <3>2, <4>1, <4>2 DEF NoneDone
        <4>3. CASE /\ pending # NoOffset /\ FromPending = pending
                   /\ w.status \in {"running", "awaiting-input"}
          <5>1. \A i \in 1..w.base : i > pending => out[i].kind # "D"
            BY <2>4, <4>3 DEF Arm, WatchesNew, NoneDone
          <5> QED
            BY <2>1, <3>2, <4>1, <4>3, <5>1 DEF NoneDone
        <4> QED
          BY <3>3, <4>2, <4>3 DEF FromPending
      <3> QED
        BY <2>1, <3>2, <3>3 DEF WatchesNew, DoneIsNew
    <2>5. CASE PollCompletion
      <3>1. CASE w.from # NoOffset /\ Completed # 0
        <4>1. Completed \in 1..Len(out) /\ Completed > w.from /\ out[Completed].kind = "D"
          BY <3>1, CompletedIsD
        <4>2. ASSUME ~Wants("human") PROVE Completed > w.base
          <5>1. \A i \in 1..w.base : i > w.from => out[i].kind # "D"
            BY <3>1, <4>2 DEF WatchesNew, NoneDone
          <5>2. Completed \in Nat
            BY <1>0, <4>1
          <5> QED
            BY <1>0, <4>1, <5>1, <5>2
        <4>3. Return("done", Completed)
          BY <2>5, <3>1 DEF PollCompletion
        <4> QED
          BY <2>r, <4>2, <4>3
      <3>2. CASE ~(w.from # NoOffset /\ Completed # 0)
        BY <2>5, <2>g, <3>2 DEF PollCompletion, Handoff, Places
      <3> QED
        BY <3>1, <3>2
    <2>6. CASE State
      <3>1. ASSUME NEW inferred PROVE Classified(Alive, inferred) # "done"
        BY DEF Classified, Derived
      <3>2. CASE ~quiet
        BY <2>6, <2>g, <3>2 DEF State, Places
      <3>3. CASE quiet
        <4>1. PICK inferred \in BOOLEAN :
                  \/ GoTo("asked late") /\ Only
                  \/ Return(Classified(Alive, inferred), 0)
                  \/ GoTo("over") /\ Only
          BY <2>6, <3>3 DEF State
        <4> QED
          BY <2>g, <3>1, <4>1 DEF Places
      <3> QED
        BY <3>2, <3>3
    <2>7. CASE ScanAnswer \/ Verdict
      <3>1. /\ w'.pc \in {"verdict", "state", "returned"} /\ w'.from = w.from /\ w'.base = w.base
            /\ result' = result \/ result' = [how |-> "answered", at |-> 0]
        BY <1>w, <2>7 DEF ScanAnswer, Verdict, GoTo, Return, Only, WaitRecord
      <3> QED
        BY <2>1, <3>1 DEF WatchesNew, NoneDone, DoneIsNew
    <2>8. CASE UnseenNote \/ PollPattern \/ PollNote \/ PollPrompt \/ PollAgain \/ TimesOut
      <3> USE DEF Places
      <3>1. CASE UnseenNote
        BY <2>g, <3>1 DEF UnseenNote, First
      <3>2. CASE PollPattern
        BY <2>g, <3>2 DEF PollPattern
      <3>3. CASE PollNote
        BY <2>g, <3>3 DEF PollNote
      <3>4. CASE PollPrompt
        BY <2>g, <3>4 DEF PollPrompt
      <3>5. CASE PollAgain
        BY <2>g, <3>5 DEF PollAgain, First
      <3>6. CASE TimesOut
        BY <2>g, <3>6 DEF TimesOut
      <3> QED
        BY <2>8, <3>1, <3>2, <3>3, <3>4, <3>5, <3>6
    <2>9. CASE ArmAnswered("answered", "unseen") \/ ArmAnswered("asked", "scan")
               \/ ArmAnswered("asked late", "over")
      BY <2>9, <2>a DEF Places
    <2>10. CASE GraceElapses \/ SettleElapses
      BY <2>1, <2>10 DEF GraceElapses, SettleElapses, WatchesNew, NoneDone, DoneIsNew
    <2> QED
      BY <1>2, <2>2, <2>3, <2>4, <2>5, <2>6, <2>7, <2>8, <2>9, <2>10 DEF Wait
  <1>3. CASE UNCHANGED waitVars
    BY <1>3 DEF waitVars, termVars, WatchesNew, DoneIsNew, NoneDone, Wants
  <1> QED
    BY <1>1, <1>2, <1>3 DEF WaitNext

\* "so on an idle terminal it watches the next command rather than being handed a result
\* older than the subscription" (wait.go:299-301): what wait --done reports was written
\* after the wait began, whatever command starts, ends or is settled between its reads.
THEOREM WaitReportsNew == WaitSpec => []DoneIsNew
<1>1. WatchesNew => DoneIsNew
  BY DEF WatchesNew
<1> QED
  BY <1>1, WatchesNewInit, WatchesNewStep, TypedHolds, PTL DEF WaitSpec

-----------------------------------------------------------------------------
\* A handoff that is reported as answered is over

(***************************************************************************)
(* A program that asks once, or whose questions show while they are asked:    *)
(* by their wording, with nothing echoed behind it.                          *)
(***************************************************************************)
CanBeTold(x) == x.questions <= 1 \/ (x.worded /\ ~x.echo)

\* The question that shows is the last thing on the screen.
QuestionShows ==
    world.worded /\ ~world.echo /\ fg = "asking" => Len(out) > 0 /\ out[Len(out)].kind = "prompt"

\* Once it has asked, nothing is left to ask; only then is an answer looked for, and
\* the newline that is found after that is not a question's.
Asked == fg = "asking" \/ \E i \in 1..Len(out) : out[i].kind = "prompt"
SeenAsking == w.watch \/ w.status = "awaiting-input" \/ w.pc \in {"asked", "asked late"}
AsksOnce ==
    world.questions <= 1 =>
        /\ Asked \/ SeenAsking => left.questions = 0
        /\ w.pc = "answered" => w.status = "awaiting-input"
        /\ w.pc \in {"scan", "verdict"} => w.watch
        /\ w.watch /\ At(out, w.scan, "nl") # {} => fg # "asking"
        /\ w.submitted => w.watch /\ fg # "asking"

HandoffInv == QuestionShows /\ AsksOnce

\* A prompt that is pending was printed.
LEMMA PendingIsPrinted ==
  ASSUME Typed
  PROVE  /\ PromptPending => \E i \in 1..Len(out) : out[i].kind = "prompt"
         /\ Len(out) > 0 /\ out[Len(out)].kind = "prompt" => PromptPending
  <1> DEFINE L == {i \in 1..Len(out) : out[i].kind \in {"prompt", "key", "text"}}
             Greatest(m) == m \in L /\ \A k \in L : k <= m
             g == CHOOSE i \in L : \A k \in L : k <= i
  <1>0. Len(out) \in Nat
    BY DEF Typed, TerminalTyped
  <1>1. ASSUME L # {} PROVE g \in L /\ \A k \in L : k <= g
    <2>1. L \subseteq Nat /\ \A k \in L : k <= Len(out)
      BY <1>0
    <2> HIDE DEF L
    <2>2. \E m \in L : \A k \in L : k <= m
      BY <1>0, <1>1, <2>1, GreatestExists
    <2> QED
      BY <2>2
  <1>2. PromptPending <=> L # {} /\ out[g].kind = "prompt"
    BY DEF PromptPending
  <1>3. ASSUME Len(out) > 0, out[Len(out)].kind = "prompt" PROVE L # {} /\ g = Len(out)
    <2>1. Len(out) \in L
      BY <1>0, <1>3
    <2>2. g \in L /\ Len(out) <= g
      BY <1>1, <2>1
    <2>3. g \in Nat /\ g <= Len(out)
      BY <1>0, <2>2
    <2> QED
      BY <1>0, <2>1, <2>2, <2>3
  <1> QED
    BY <1>1, <1>2, <1>3

\* Nothing has been asked, looked for or typed yet.
LEMMA HandoffInit == WaitInit => HandoffInv
  <1> SUFFICES ASSUME WaitInit PROVE HandoffInv
    OBVIOUS
  <1>1. fg # "asking"
    BY DEF WaitInit
  <1>2. \A i \in 1..Len(out) : out[i].kind # "prompt"
    BY DEF WaitInit
  <1>3. ~w.watch /\ ~w.submitted /\ w.status = "unknown" /\ w.pc = "baseline"
    BY DEF WaitInit
  <1> QED
    BY <1>1, <1>2, <1>3 DEF HandoffInv, QuestionShows, AsksOnce, Asked, SeenAsking

\* What is under way when the wait is moved on only changes what the wait knows.
LEMMA HandoffTerminal ==
  ASSUME Typed, HandoffInv, Terminal \/ Quiesces
  PROVE  HandoffInv'
  <1>1. TerminalMoves
    BY TerminalSteps
  <1>2. UNCHANGED <<world, w>>
    BY <1>1 DEF TerminalMoves
  <1>3. Len(out) \in Nat /\ w.scan \in Nat /\ w.scan <= Len(out)
    BY DEF Typed, TerminalTyped, WaitTyped, WaitRecord
  <1>4. /\ left.questions \in Nat /\ left.questions <= world.questions /\ world.questions \in Nat
        /\ left \in [commands : Nat, questions : Nat]
    BY WorldIs DEF Typed, TerminalTyped, World
  <1>5. ASSUME NEW kind \in OutKinds, Grow(kind)
        PROVE  /\ Len(out') = Len(out) + 1 /\ out'[Len(out')].kind = kind
               /\ (\E i \in 1..Len(out') : out'[i].kind = "prompt")
                      => kind = "prompt" \/ \E i \in 1..Len(out) : out[i].kind = "prompt"
               /\ kind # "nl" => (At(out', w.scan, "nl") # {} => At(out, w.scan, "nl") # {})
    <2>1. /\ Len(out') = Len(out) + 1 /\ \A i \in 1..Len(out) : out'[i] = out[i]
          /\ out'[Len(out) + 1].kind = kind
      BY <1>5, Grown, Zenon
    <2>2. \A i \in 1..Len(out') : i \in 1..Len(out) \/ i = Len(out) + 1
      BY <1>3, <2>1
    <2>3. ASSUME kind # "nl", NEW i \in At(out', w.scan, "nl") PROVE i \in At(out, w.scan, "nl")
      BY <1>3, <2>1, <2>2, <2>3 DEF At
    <2> QED
      BY <1>3, <2>1, <2>2, <2>3
  <1>6. QuestionShows'
    <2> SUFFICES ASSUME world.worded, ~world.echo, fg' = "asking"
                 PROVE  Len(out') > 0 /\ out'[Len(out')].kind = "prompt"
      BY <1>2 DEF QuestionShows
    <2>1. CASE Asks
      <3>1. Grow("prompt") /\ "prompt" \in OutKinds
        BY <2>1 DEF Asks, OutKinds
      <3> QED
        BY <1>3, <1>5, <3>1
    <2>2. CASE ~Asks
      <3>1. fg = "asking" /\ out' = out
        BY <2>2 DEF Terminal, RunStarts, CommandBegins, Says, Types, PressesEnter, CommandEnds,
                    EndRecorded, NoteLeft, Dies, Quiesces
      <3> QED
        BY <3>1 DEF HandoffInv, QuestionShows
    <2> QED
      BY <2>1, <2>2
  <1>7. AsksOnce'
    <2> SUFFICES ASSUME world.questions <= 1 PROVE AsksOnce'
      BY <1>2 DEF AsksOnce
    <2>1. /\ Asked \/ SeenAsking => left.questions = 0
          /\ w.pc = "answered" => w.status = "awaiting-input"
          /\ w.pc \in {"scan", "verdict"} => w.watch
          /\ w.watch /\ At(out, w.scan, "nl") # {} => fg # "asking"
          /\ w.submitted => w.watch /\ fg # "asking"
      BY DEF HandoffInv, AsksOnce
    <2>2. CASE Asks
      <3>1. left.questions > 0 /\ left'.questions = left.questions - 1
        BY <1>4, <2>2 DEF Asks
      <3>2. ~SeenAsking /\ left'.questions = 0
        BY <1>4, <2>1, <3>1
      <3> QED
        BY <1>2, <2>1, <3>2 DEF AsksOnce, SeenAsking
    <2>3. CASE ~Asks
      <3>1. fg' = "asking" => fg = "asking" /\ (out' = out \/ Grow("key"))
        BY <2>3 DEF Terminal, RunStarts, CommandBegins, Says, Types, PressesEnter, CommandEnds,
                    EndRecorded, NoteLeft, Dies, Quiesces
      <3>2. out' = out \/ \E kind \in OutKinds \ {"prompt"} : Grow(kind)
        BY <2>3 DEF Terminal, RunStarts, CommandBegins, Says, Types, PressesEnter, CommandEnds,
                    EndRecorded, NoteLeft, Dies, Quiesces, OutKinds
      <3>3. left'.questions = left.questions
        BY <1>4, <2>3 DEF Terminal, RunStarts, CommandBegins, Says, Types, PressesEnter, CommandEnds,
                    EndRecorded, NoteLeft, Dies, Quiesces
      <3>4. Asked' => Asked
        BY <1>5, <3>1, <3>2 DEF Asked
      <3>5. ASSUME fg' = "asking", At(out', w.scan, "nl") # {} PROVE At(out, w.scan, "nl") # {}
        <4>1. "key" \in OutKinds
          BY DEF OutKinds
        <4> QED
          BY <1>5, <3>1, <3>5, <4>1
      <3> QED
        BY <1>2, <2>1, <3>1, <3>3, <3>4, <3>5 DEF AsksOnce, SeenAsking
    <2> QED
      BY <2>2, <2>3
  <1> QED
    BY <1>6, <1>7 DEF HandoffInv

\* The wait looks for an answer to a question it has seen.
LEMMA HandoffWait ==
  ASSUME Typed, HandoffInv, Wait \/ TimesOut \/ GraceElapses \/ SettleElapses
  PROVE  HandoffInv'
  <1>1. UNCHANGED <<world, out, fg, left>>
    BY WaitSteps DEF WaitMoves, termVars
  <1>2. QuestionShows'
    BY <1>1 DEF HandoffInv, QuestionShows
  <1>w. /\ w \in WaitRecord /\ Len(out) \in Nat
    BY DEF Typed, WaitTyped, TerminalTyped
  <1>3. AsksOnce'
    <2> SUFFICES ASSUME world.questions <= 1 PROVE AsksOnce'
      BY <1>1 DEF AsksOnce
    <2>1. /\ Asked \/ SeenAsking => left.questions = 0
          /\ w.pc = "answered" => w.status = "awaiting-input"
          /\ w.pc \in {"scan", "verdict"} => w.watch
          /\ w.watch /\ At(out, w.scan, "nl") # {} => fg # "asking"
          /\ w.submitted => w.watch /\ fg # "asking"
      BY DEF HandoffInv, AsksOnce
    <2>2. Asked' = Asked
      BY <1>1 DEF Asked
    \* Only its place changes, and if that is where it arms, a question has been seen.
    <2>3. ASSUME w'.watch = w.watch, w'.scan = w.scan, w'.submitted = w.submitted,
                 w'.status = w.status \/ (w'.status = "awaiting-input" => Asked),
                 w'.pc \in {"asked", "asked late"} => Asked,
                 w'.pc = "answered" => w'.status = "awaiting-input",
                 w'.pc \in {"scan", "verdict"} => w.watch
          PROVE  AsksOnce'
      BY <1>1, <2>1, <2>2, <2>3 DEF AsksOnce, SeenAsking
    <2>4. ASSUME NEW to, w' = [w EXCEPT !.pc = to],
                 to \notin {"asked", "asked late", "answered"},
                 to \in {"scan", "verdict"} => w.watch
          PROVE  AsksOnce'
      BY <1>w, <2>3, <2>4 DEF WaitRecord
    <2>5. ASSUME NEW inferred, NEW alive, Classified(alive, inferred) = "awaiting-input" PROVE Asked
      <3>1. PromptPending \/ fg = "asking"
        BY <2>5 DEF Classified, Derived
      <3> QED
        BY <3>1, PendingIsPrinted DEF Asked
    <2>6. CASE Baseline
      BY <1>w, <2>1, <2>3, <2>4, <2>6 DEF Baseline, WaitRecord, Return, GoTo
    <2>7. CASE Derive
      <3>1. PICK inferred \in {FALSE, quiet} :
              w' = [w EXCEPT !.pc = "arm", !.status = Classified(TRUE, inferred)]
        BY <2>7 DEF Derive
      <3>2. /\ w'.pc = "arm" /\ w'.status = Classified(TRUE, inferred) /\ w'.watch = w.watch
            /\ w'.scan = w.scan /\ w'.submitted = w.submitted
        BY <1>w, <3>1 DEF WaitRecord
      <3> QED
        BY <2>3, <2>5, <3>2
    <2>8. CASE Arm
      <3>1. /\ w'.pc = IF Wants("human") /\ w.status = "awaiting-input"
                      THEN "answered" ELSE "unseen"
            /\ w'.status = w.status /\ w'.watch = w.watch
            /\ w'.scan = w.scan /\ w'.submitted = w.submitted
        BY <1>w, <2>8 DEF Arm, WaitRecord
      <3> QED
        BY <2>3, <3>1
    <2>9. ASSUME NEW to, ArmAnswered(w.pc, to), SeenAsking, to # "answered"
          PROVE  AsksOnce'
      <3>1. /\ w'.pc = to /\ w'.status = w.status /\ w'.watch = TRUE
            /\ w'.scan = Len(out) /\ w'.submitted = FALSE
        BY <1>w, <2>9 DEF ArmAnswered, WaitRecord
      <3>2. At(out, Len(out), "nl") = {}
        BY <1>w DEF At
      <3> QED
        BY <1>1, <2>1, <2>9, <3>1, <3>2 DEF AsksOnce
    <2>10. CASE ScanAnswer
      <3>1. CASE w.submitted
        BY <1>w, <2>1, <2>4, <2>10, <3>1 DEF ScanAnswer
      <3>2. CASE ~w.submitted
        <4>1. /\ w'.pc = "verdict" /\ w'.status = w.status /\ w'.watch = w.watch
              /\ w'.scan = Len(out) /\ (w'.submitted => At(out, w.scan, "nl") # {})
          BY <1>w, <2>10, <3>2 DEF ScanAnswer, WaitRecord
        <4>2. At(out, Len(out), "nl") = {}
          BY <1>w DEF At
        <4> QED
          BY <1>1, <2>1, <2>2, <2>10, <4>1, <4>2 DEF AsksOnce, SeenAsking, ScanAnswer
      <3> QED
        BY <3>1, <3>2
    <2>11. CASE State
      <3>1. PICK to \in {"over", "asked late", "returned"} :
                /\ w' = [w EXCEPT !.pc = to]
                /\ to = "asked late" => \E inferred : Classified(Alive, inferred) = "awaiting-input"
        BY <2>11 DEF State, GoTo, Return
      <3>2. to = "asked late" => Asked
        BY <2>5, <3>1
      <3> QED
        BY <1>w, <2>3, <3>1, <3>2 DEF WaitRecord
    <2>12. CASE PollPrompt
      <3>1. PICK to \in {"asked", "state"} :
                w' = [w EXCEPT !.pc = to] /\ (to = "asked" => PromptPending)
        BY <2>12 DEF PollPrompt, GoTo
      <3>2. to = "asked" => Asked
        BY <3>1, PendingIsPrinted DEF Asked
      <3> QED
        BY <1>w, <2>3, <3>1, <3>2 DEF WaitRecord
    <2>13. CASE UnseenNote \/ PollPattern \/ PollNote \/ PollCompletion \/ PollAgain \/ TimesOut
      <3>1. PICK to \in {"returned", "pattern", "note", "completion", "state", "scan", "prompt"} :
                w' = [w EXCEPT !.pc = to] /\ (to = "scan" => w.watch)
        BY <2>13 DEF UnseenNote, PollPattern, PollNote, PollCompletion, PollAgain, TimesOut, GoTo,
                     Return, First, Handoff
      <3> QED
        BY <2>4, <3>1
    <2>14. CASE Verdict
      <3>1. /\ w'.pc \in {"state", "returned"} /\ w'.status = w.status /\ w'.watch = w.watch
            /\ w'.scan = w.scan /\ w'.submitted = w.submitted
        BY <1>w, <2>14 DEF Verdict, GoTo, Return, WaitRecord
      <3> QED
        BY <2>3, <3>1
    <2>15. CASE GraceElapses \/ SettleElapses
      BY <1>1, <2>1, <2>2, <2>15 DEF GraceElapses, SettleElapses, AsksOnce, SeenAsking
    <2>16. CASE \/ ArmAnswered("answered", "unseen") \/ ArmAnswered("asked", "scan")
                \/ ArmAnswered("asked late", "over")
      <3>1. SeenAsking
        BY <2>1, <2>16 DEF ArmAnswered, SeenAsking
      <3>2. PICK to \in {"unseen", "scan", "over"} : ArmAnswered(w.pc, to)
        BY <2>16 DEF ArmAnswered
      <3> QED
        BY <2>9, <3>1, <3>2
    <2> QED
      BY <2>6, <2>7, <2>8, <2>10, <2>11, <2>12, <2>13, <2>14, <2>15, <2>16 DEF Wait
  <1> QED
    BY <1>2, <1>3 DEF HandoffInv

\* Whichever of the program, the human and the wait moves.
LEMMA HandoffStep == Typed /\ HandoffInv /\ [WaitNext]_waitVars => HandoffInv'
  <1> SUFFICES ASSUME Typed, HandoffInv, [WaitNext]_waitVars PROVE HandoffInv'
    OBVIOUS
  <1>1. CASE UNCHANGED waitVars
    BY <1>1 DEF waitVars, termVars, HandoffInv, QuestionShows, AsksOnce, Asked, SeenAsking
  <1> QED
    BY <1>1, HandoffTerminal, HandoffWait DEF WaitNext

\* Only the verdict (wait.go:431-448) reports an answer: a newline was found behind the
\* question, and no prompt is pending.
LEMMA AnsweredStep ==
  ASSUME \A x \in Worlds : CanBeTold(x)
  PROVE  Typed /\ HandoffInv /\ [WaitNext]_waitVars
             => [result'.how = "answered" /\ result.how = "none" => fg # "asking"]_waitVars
  <1> SUFFICES ASSUME Typed, HandoffInv, WaitNext, result'.how = "answered", result.how = "none"
               PROVE  fg # "asking"
    BY DEF waitVars
  <1>1. /\ CanBeTold(world) /\ world.questions \in Nat
    BY WorldIs DEF Typed, World
  <1>2. result' # result
    OBVIOUS
  <1>3. ~(Terminal \/ Quiesces)
    BY <1>2, TerminalSteps DEF TerminalMoves
  <1>4. ASSUME NEW how, NEW at, Return(how, at) PROVE how = "answered"
    BY <1>4 DEF Return
  <1>5. ASSUME NEW to PROVE ~(GoTo(to) /\ Only)
    BY <1>2, Zenon DEF Only
  <1>6. Verdict
    <2>1. ~State
      <3>1. ASSUME NEW inferred PROVE Classified(Alive, inferred) # "answered"
        BY DEF Classified, Derived
      <3> QED
        BY <1>4, <1>5, <3>1 DEF State
    <2>2. ~(UnseenNote \/ PollPattern \/ PollNote \/ PollCompletion \/ PollPrompt \/ PollAgain
            \/ TimesOut)
      BY <1>4, <1>5 DEF UnseenNote, PollPattern, PollNote, PollCompletion, PollPrompt, PollAgain,
                        TimesOut
    <2>3. ~(Derive \/ Arm \/ ScanAnswer \/ GraceElapses \/ SettleElapses)
      BY <1>2 DEF Derive, Arm, ScanAnswer, GraceElapses, SettleElapses, Only
    <2>4. ASSUME NEW here, NEW to PROVE ~ArmAnswered(here, to)
      BY <1>2 DEF ArmAnswered, Only
    <2>5. ~Baseline
      BY <1>2, <1>4 DEF Baseline, Only
    <2> QED
      BY <1>3, <2>1, <2>2, <2>3, <2>4, <2>5 DEF WaitNext, Wait
  <1>7. w.submitted /\ ~PromptPending
    BY <1>2, <1>6 DEF Verdict, Only
  <1>8. CASE world.questions <= 1
    BY <1>7, <1>8 DEF HandoffInv, AsksOnce
  <1>9. CASE world.worded /\ ~world.echo
    BY <1>7, <1>9, PendingIsPrinted DEF HandoffInv, QuestionShows
  <1> QED
    BY <1>1, <1>8, <1>9 DEF CanBeTold

\* A human "halfway through typing" is not taken for one who has finished (wait.go
\* :421-425), at whatever point of arming or polling the program asks and the human types:
\* the program is not asking when wait --human reports that it was answered, if it asks
\* once, or in words that are recognised and with answers that are not echoed.
THEOREM WaitAnsweredIsOver ==
  ASSUME \A x \in Worlds : CanBeTold(x)
  PROVE  WaitSpec => AnsweredIsOver
<1>1. Typed /\ HandoffInv /\ [WaitNext]_waitVars
          => [result'.how = "answered" /\ result.how = "none" => fg # "asking"]_waitVars
  BY AnsweredStep
<1> QED
  BY <1>1, HandoffInit, HandoffStep, TypedHolds, PTL DEF WaitSpec, AnsweredIsOver

-----------------------------------------------------------------------------
(***************************************************************************)
(* One terminal per name, its journal kept while it lives and its history      *)
(* kept after it, for any number of processes that create it, with or without  *)
(* crashes and prunes.                                                       *)
(*                                                                          *)
(* None of its properties says what a create that is under way has             *)
(* established: that whoever is between finding no pane and naming its own is  *)
(* the holder of the reservation, that nothing answers to the name meanwhile,  *)
(* and whose journal is at the path by then.  NameInv does.                    *)
(***************************************************************************)
Deciding == {"reusing", "dropped", "cleared", "prepared", "opened"}

NameTyped ==
    /\ TypeOK
    /\ killer \in [pc : {"off", "resolved", "killed", "done"}, target : Creators \cup {None}]
    /\ pruner \in [pc : {"off", "resolved", "archive", "done"}, dir : BOOLEAN, prev : BOOLEAN,
                   live : SUBSET Creators]

\* Who is at work has the reservation, and nobody else has it.
WorkersHold == \A c \in Creators : pc[c] \in AtWork <=> lock = c

\* The pane a create has by where it is.
PaneOfStep ==
    \A c \in Creators :
        /\ pc[c] \in {"off", "reserved", "reusing", "dropped", "cleared", "prepared"}
               => pane[c] = "none"
        /\ pc[c] \in {"giveup", "failed"} => ~Running(c)
        /\ pane[c] = "unnamed" => pc[c] \in {"opened", "failing", "crashed"}

\* Nothing answers to the name while a create has found so and has not named its
\* own pane, and then one terminal does.
NothingLive == \A c \in Creators : pc[c] \in Deciding => \A d \in Creators : pane[d] # "live"
LiveAlone == \A c, d \in Creators : pane[c] = "live" /\ pane[d] = "live" => c = d

\* The journal that was prepared is at the path, before the pane is named and after,
\* unless a prune that saw nothing alive took it.
JournalInPlace ==
    \A c \in Creators :
        pc[c] \in {"prepared", "opened"} \/ pane[c] = "live" => dir = c \/ c \in overtaken
PrunerSawNone == pruner.pc = "resolved" /\ pruner.dir => pruner.live = {}

\* What is at the path and in the archive on the way to a new journal.
PlacesCleared ==
    \A c \in Creators :
        /\ pc[c] = "reusing" => dir # None \/ removed # {}
        /\ pc[c] = "dropped" => prev = None
        /\ pc[c] = "cleared" => dir \in {None, "stray"}

NameInv ==
    /\ NameTyped /\ WorkersHold /\ PaneOfStep /\ NothingLive /\ LiveAlone
    /\ JournalInPlace /\ PrunerSawNone /\ PlacesCleared
----------------------------------------------------------------------------
\* The invariant of a name

\* A name that is new, or whose terminal is gone (Init).
LEMMA NameInvInit == Init => NameInv
  BY LifecycleAssumption
  DEF Init, TypeOK, Owners, AtWork,
      Running, NameInv, NameTyped, WorkersHold, PaneOfStep, NothingLive,
      Deciding, LiveAlone, JournalInPlace, PrunerSawNone, PlacesCleared

\* Every step of a create (commands.go:45-230), a kill and a prune preserves it.
LEMMA NameInvStep == NameInv /\ [Next]_vars => NameInv'
<1> SUFFICES ASSUME NameInv, [Next]_vars PROVE NameInv'
    OBVIOUS
<1> USE LifecycleAssumption
    DEF TypeOK, Owners, AtWork, Running,
        Live, fileVars, Step, Goto, SetPane, NameInv, NameTyped,
        WorkersHold, PaneOfStep, NothingLive, Deciding, LiveAlone, JournalInPlace,
        PrunerSawNone, PlacesCleared
\* The reservation was free, so nobody was at work.
<1>1. ASSUME NEW c \in Creators, AcquireNameReservation(c) PROVE NameInv'
    BY <1>1 DEF AcquireNameReservation
<1>2. ASSUME NEW c \in Creators, BeingCreated(c) PROVE NameInv'
    BY <1>2 DEF BeingCreated
\* Nothing is alive on the two ways on.
<1>3. ASSUME NEW c \in Creators, FindPane(c) PROVE NameInv'
    BY <1>3 DEF FindPane
<1>4. ASSUME NEW c \in Creators, DropArchive(c) PROVE NameInv'
    BY <1>4 DEF DropArchive
\* The journal that leaves the path is nobody's who is alive or about to be.
<1>5. ASSUME NEW c \in Creators, Archive(c) PROVE NameInv'
    BY <1>5 DEF Archive
<1>6. ASSUME NEW c \in Creators, PrepareJournal(c) PROVE NameInv'
    BY <1>6 DEF PrepareJournal
<1>7. ASSUME NEW c \in Creators, NewWindow(c) PROVE NameInv'
    BY <1>7 DEF NewWindow
\* The only step that makes a terminal live: its maker holds the reservation, so
\* nothing else is.
<1>8. ASSUME NEW c \in Creators, SetPaneOption(c) PROVE NameInv'
    BY <1>8 DEF SetPaneOption
<1>9. ASSUME NEW c \in Creators, Record(c) PROVE NameInv'
    BY <1>9 DEF Record
<1>10. ASSUME NEW c \in Creators, Ready(c) PROVE NameInv'
    BY <1>10 DEF Ready
<1>11. ASSUME NEW c \in Creators, Fails(c) PROVE NameInv'
    BY <1>11 DEF Fails
<1>12. ASSUME NEW c \in Creators, KillOwnPane(c) PROVE NameInv'
    BY <1>12 DEF KillOwnPane
<1>13. ASSUME NEW c \in Creators, Release(c) PROVE NameInv'
    BY <1>13 DEF Release
<1>14. ASSUME NEW c \in Creators, Crash(c) PROVE NameInv'
    BY <1>14 DEF Crash
<1>15. ASSUME NEW c \in Creators, PaneExits(c) PROVE NameInv'
    BY <1>15 DEF PaneExits
<1>16. CASE ResolveToKill
    BY <1>16 DEF ResolveToKill
<1>17. CASE KillWindow
    BY <1>17 DEF KillWindow
\* It may put a stray journal at the path that was cleared, never over another.
<1>18. CASE NoteKilled
    BY <1>18 DEF NoteKilled
<1>19. CASE ResolveToPrune
    <2>1. PICK d \in BOOLEAN, p \in BOOLEAN :
              /\ pruner' = [pc |-> "resolved", dir |-> d, prev |-> p, live |-> Live]
              /\ d => Live = {}
          BY <1>19 DEF ResolveToPrune, Prune
    <2>2. Live \in SUBSET Creators
          OBVIOUS
    <2>3. UNCHANGED <<lock, fileVars, pane, pc, killer>>
          BY <1>19 DEF ResolveToPrune, Prune
    <2> QED BY <2>1, <2>2, <2>3
\* Whoever loses its journal here was not alive when the prune looked.
<1>20. CASE RemoveDir
    BY <1>20 DEF RemoveDir
<1>21. CASE RemoveArchive
    BY <1>21 DEF RemoveArchive
<1>22. CASE UNCHANGED vars
    BY <1>22 DEF vars
<1> QED
    BY <1>1, <1>2, <1>3, <1>4, <1>5, <1>6, <1>7, <1>8, <1>9, <1>10, <1>11, <1>12, <1>13,
       <1>14, <1>15, <1>16, <1>17, <1>18, <1>19, <1>20, <1>21, <1>22 DEF Next, New

\* Whatever was created, killed and pruned so far.
LEMMA NameInvHolds == Spec => []NameInv
  BY NameInvInit, NameInvStep, PTL DEF Spec

----------------------------------------------------------------------------
\* The properties of a name

\* Every variable keeps its type: panes, steps of the creates, owners of the places.
THEOREM NameLifecycleTypeOK == Spec => []TypeOK
<1>1. NameInv => TypeOK
      BY DEF NameInv, NameTyped
<1> QED BY <1>1, NameInvHolds, PTL

\* The reservation serialises the creates of a name and one terminal answers to it
\* (reservation.go:17-20), however many processes create it, die or prune.
THEOREM NameIsOneTerminal == Spec => []OneTerminal
<1>1. NameInv => OneTerminal
      BY LifecycleAssumption
  DEF NameInv, WorkersHold, LiveAlone, OneTerminal, Live
<1> QED BY <1>1, NameInvHolds, PTL

\* The journal of a live terminal is at the path (prune.go:22-23), unless a prune
\* that looked before it came to life took it.
THEOREM NameKeepsLiveJournal == Spec => []LiveJournalIsKept
<1>1. NameInv => LiveJournalIsKept
      BY DEF NameInv, JournalInPlace, LiveJournalIsKept, Live
<1> QED BY <1>1, NameInvHolds, PTL

\* A create that reports an error has killed its pane (commands.go, the deferred
\* calls); a pane without a name is of a create that is under way or was killed.
THEOREM NameFailureLeavesNoPane == Spec => []FailedLeavesNoPane
<1>1. NameInv => FailedLeavesNoPane
      BY DEF NameInv, PaneOfStep, FailedLeavesNoPane
<1> QED BY <1>1, NameInvHolds, PTL

\* Only these steps touch the path or the archive: a create that archives the old
\* journal and prepares its own, a kill that notes what it did, and a prune.
LEMMA PlacesTouched ==
  ASSUME [Next]_vars
  PROVE  \/ dir' = dir /\ prev' = prev
         \/ \E c \in Creators : DropArchive(c) \/ Archive(c) \/ PrepareJournal(c)
         \/ NoteKilled \/ RemoveDir \/ RemoveArchive
  BY DEF Next, New, vars, fileVars, AcquireNameReservation,
         BeingCreated, FindPane, NewWindow, SetPaneOption, Record,
         Ready, Fails, KillOwnPane, Release, Crash, PaneExits,
         ResolveToKill, KillWindow, ResolveToPrune, Prune

\* A journal leaves both places by a prune, or from the archive when another is
\* about to take its place there (commands.go:93-94): no rename or preparation
\* loses one.
THEOREM NameKeepsHistory == Spec => HistoryIsKept
<1>1. ASSUME NameInv, [Next]_vars, NEW o \in Creators \cup {"old"},
             o \in {dir, prev}, o \notin {dir', prev'}
      PROVE  o \in removed' \/ removed # {} \/ (prev = o /\ dir # None)
    <2> USE LifecycleAssumption
    <2>1. ASSUME NEW c \in Creators, DropArchive(c)
          PROVE  removed # {} \/ (prev = o /\ dir # None)
          BY <1>1, <2>1 DEF DropArchive, Step, Goto, NameInv, PlacesCleared
    <2>2. ASSUME NEW c \in Creators, Archive(c) PROVE FALSE
          BY <1>1, <2>2 DEF Archive, NameInv, PlacesCleared
    <2>3. ASSUME NEW c \in Creators, PrepareJournal(c) PROVE FALSE
          BY <1>1, <2>3 DEF PrepareJournal, Step, Goto, NameInv, PlacesCleared
    <2>4. CASE NoteKilled
          BY <1>1, <2>4 DEF NoteKilled
    <2>5. CASE RemoveDir
          BY <1>1, <2>5 DEF RemoveDir
    <2>6. CASE RemoveArchive
          BY <1>1, <2>6 DEF RemoveArchive
    <2> QED BY <1>1, <2>1, <2>2, <2>3, <2>4, <2>5, <2>6, PlacesTouched
<1>2. NameInv /\ [Next]_vars =>
          [\A o \in Creators \cup {"old"} :
               o \in {dir, prev} /\ o \notin {dir', prev'} =>
                   o \in removed' \/ removed # {} \/ (prev = o /\ dir # None)]_vars
      BY <1>1
<1> QED BY <1>2, NameInvHolds, PTL DEF Spec, HistoryIsKept

=============================================================================
