------------------------------ MODULE MuxPane -------------------------------
(***************************************************************************)
(* One terminal of the built-in multiplexer (internal/muxd): its output,     *)
(* which the reader records and hands to every attached human; the frames     *)
(* queued for each of them and the goroutine that writes them; its input      *)
(* queue; and its end.                                                       *)
(*                                                                          *)
(* Output is a number of chunks: the n-th one says that everything up to n    *)
(* has been printed, a rendered screen says the same at once.  What holds     *)
(* p.mu, c.mu or inMu throughout is one action; a condition variable is a     *)
(* goroutine that stays asleep until it is signalled.                         *)
(***************************************************************************)
EXTENDS Naturals, Sequences

CONSTANTS
    Clients,        \* attach connections, each used once
    Backlog,        \* clientBacklog, in frames
    QueueMax,       \* inputQueueBytes, in messages
    Worlds          \* what may happen: [outputs, resizes, inputs, watchers]

ASSUME PaneAssumption ==
    /\ Backlog \in Nat /\ Backlog > 0 /\ QueueMax \in Nat
    /\ \A w \in Worlds :
           /\ w.outputs \in Nat /\ w.resizes \in Nat /\ w.inputs \in Nat
           /\ w.watchers \subseteq Clients

VARIABLES
    world,      \* one of Worlds; it does not change
    prog,       \* the program: [printed, exited]
    pane,       \* [listed, dead, gone, size, seen, fin]: seen chunks are recorded, fin is
                \* where the reader's finish is
    clients,    \* p.clients
    cl,         \* [Clients -> client]
    input,      \* [queue, bytes, wpc, hand, accepted, written]: accepted counts the
                \* messages enqueue took, written holds what reached the program
    resizes     \* how often a human has resized their terminal

vars == <<world, prog, pane, clients, cl, input, resizes>>

DefaultSize == "default"
Sizes == {DefaultSize, "small", "large"}

OutputFrame(n) == [type |-> "output", upto |-> n]
ScreenFrame(n) == [type |-> "screen", upto |-> n]
ExitFrame == [type |-> "exit", upto |-> 0]

(***************************************************************************)
(* A client's conn is "new", "found" (looked up), "joined" (registered),      *)
(* "live" (greeted, its writer started) or "left".  wpc is where writeLoop    *)
(* is, last what it saw of ending.  view, torn and told are the human's       *)
(* screen: how much of the output it shows, whether it ever showed something  *)
(* out of sequence, and whether the end was announced.                       *)
(***************************************************************************)
NewClient ==
    [conn |-> "new", pending |-> <<>>, redraw |-> FALSE, ending |-> FALSE, closed |-> FALSE,
     wpc |-> "off", batch |-> <<>>, last |-> FALSE,
     view |-> 0, torn |-> FALSE, told |-> FALSE]

Init ==
    /\ world \in Worlds
    /\ prog = [printed |-> 0, exited |-> FALSE]
    /\ pane = [listed |-> TRUE, dead |-> FALSE, gone |-> FALSE, size |-> DefaultSize,
               seen |-> 0, fin |-> "reading"]
    /\ clients = {}
    /\ cl = [c \in Clients |-> NewClient]
    /\ input = [queue |-> <<>>, bytes |-> 0, wpc |-> "check", hand |-> <<>>,
                accepted |-> 0, written |-> <<>>]
    /\ resizes = 0

-----------------------------------------------------------------------------
(* What is done to one client under its lock *)

Signal(r) == IF r.wpc = "asleep" THEN [r EXCEPT !.wpc = "check"] ELSE r

\* Slip: output is queued although a redraw is to come.
PushAnyway(r, frame) ==
    IF r.closed \/ r.ending THEN r
    ELSE IF Len(r.pending) + 1 > Backlog
    THEN Signal([r EXCEPT !.pending = <<>>, !.redraw = TRUE])
    ELSE Signal([r EXCEPT !.pending = Append(@, frame)])

\* A pending redraw will show this output anyway.
Push(r, frame) ==
    IF r.closed \/ r.ending \/ r.redraw THEN r
    ELSE IF Len(r.pending) + 1 > Backlog
    THEN Signal([r EXCEPT !.pending = <<>>, !.redraw = TRUE])
    ELSE Signal([r EXCEPT !.pending = Append(@, frame)])

\* Slip: the writer is not woken for a redraw.
RequestRedrawQuietly(r) ==
    IF r.closed \/ r.ending THEN r
    ELSE [r EXCEPT !.pending = <<>>, !.redraw = TRUE]

RequestRedraw(r) ==
    IF r.closed \/ r.ending THEN r
    ELSE Signal([r EXCEPT !.pending = <<>>, !.redraw = TRUE])

\* Slip: the writer is not woken for the last frame.
FinishQuietly(r) ==
    IF r.closed \/ r.ending THEN r
    ELSE [r EXCEPT !.pending = Append(@, ExitFrame), !.ending = TRUE]

FinishClient(r) ==
    IF r.closed \/ r.ending THEN r
    ELSE Signal([r EXCEPT !.pending = Append(@, ExitFrame), !.ending = TRUE])

CloseClient(r) == Signal([r EXCEPT !.closed = TRUE, !.conn = "left"])

\* resizeLocked: a size change invalidates what every client shows.
Resized(cs, size, state) ==
    IF pane.dead \/ size = pane.size THEN state
    ELSE [c \in Clients |-> IF c \in cs THEN RequestRedraw(state[c]) ELSE state[c]]

SizeAfter(size) == IF pane.dead THEN pane.size ELSE size

-----------------------------------------------------------------------------
(* The program, its reader, and its end *)

Prints ==
    /\ ~prog.exited /\ prog.printed < world.outputs
    /\ prog' = [prog EXCEPT !.printed = @ + 1]
    /\ UNCHANGED <<world, pane, clients, cl, input, resizes>>

\* On its own or because it is killed.
ExitProgram ==
    /\ ~prog.exited
    /\ prog' = [prog EXCEPT !.exited = TRUE]
    /\ UNCHANGED <<world, pane, clients, cl, input, resizes>>

\* kill takes the pane off the list before its program is dead.
Kill ==
    /\ pane.listed
    /\ pane' = [pane EXCEPT !.listed = FALSE]
    /\ prog' = [prog EXCEPT !.exited = TRUE]
    /\ UNCHANGED <<world, clients, cl, input, resizes>>

WakeInput(i) == IF i.wpc = "asleep" THEN [i EXCEPT !.wpc = "check"] ELSE i

\* enqueue refuses what would not fit, and everything once the pane is gone.
Enqueue(i) ==
    IF pane.gone \/ i.bytes + 1 > QueueMax THEN i
    ELSE WakeInput([i EXCEPT !.accepted = @ + 1, !.queue = Append(@, i.accepted + 1),
                             !.bytes = @ + 1])

Recorded == pane' = [pane EXCEPT !.seen = @ + 1]
Forwarded ==
    cl' = [c \in Clients |->
              IF c \in clients THEN Push(cl[c], OutputFrame(pane.seen + 1)) ELSE cl[c]]

\* A chunk may hold a query, which is answered whether or not anyone is attached.
Output ==
    /\ pane.fin = "reading" /\ pane.seen < prog.printed
    /\ Recorded /\ Forwarded
    /\ \/ UNCHANGED input
       \/ input.accepted < world.inputs /\ input' = Enqueue(input)
    /\ UNCHANGED <<world, prog, clients, resizes>>

\* Read reports the end once the program was reaped and its output drained.
EndOfOutput ==
    /\ pane.fin = "reading" /\ prog.exited /\ pane.seen = prog.printed
    /\ pane' = [pane EXCEPT !.fin = "ended"]
    /\ UNCHANGED <<world, prog, clients, cl, input, resizes>>

Unlist ==
    /\ pane.fin = "ended"
    /\ pane' = [pane EXCEPT !.listed = FALSE, !.fin = "unlisted"]
    /\ UNCHANGED <<world, prog, clients, cl, input, resizes>>

MarkDead ==
    /\ pane.fin = "unlisted"
    /\ pane' = [pane EXCEPT !.dead = TRUE, !.fin = "told"]
    /\ cl' = [c \in Clients |-> IF c \in clients THEN FinishClient(cl[c]) ELSE cl[c]]
    /\ clients' = {}
    /\ UNCHANGED <<world, prog, input, resizes>>

CloseGone ==
    /\ pane.fin = "told"
    /\ pane' = [pane EXCEPT !.gone = TRUE, !.fin = "closed"]
    /\ input' = [input EXCEPT !.queue = <<>>]
    /\ UNCHANGED <<world, prog, clients, cl, resizes>>

Broadcast ==
    /\ pane.fin = "closed"
    /\ pane' = [pane EXCEPT !.fin = "finished"]
    /\ input' = WakeInput(input)
    /\ UNCHANGED <<world, prog, clients, cl, resizes>>

-----------------------------------------------------------------------------
(* The input queue's writer *)

Send ==
    /\ input.accepted < world.inputs
    /\ input' = Enqueue(input)
    /\ UNCHANGED <<world, prog, pane, clients, cl, resizes>>

\* Slip: the room a message took is not given back.
TakeKeepingRoom ==
    /\ input.wpc = "check"
    /\ input' =
           IF pane.gone THEN [input EXCEPT !.wpc = "done"]
           ELSE IF input.queue = <<>> THEN [input EXCEPT !.wpc = "asleep"]
           ELSE [input EXCEPT !.wpc = "write", !.hand = <<Head(input.queue)>>, !.queue = Tail(@)]
    /\ UNCHANGED <<world, prog, pane, clients, cl, resizes>>

TakeInput ==
    /\ input.wpc = "check"
    /\ input' =
           IF pane.gone THEN [input EXCEPT !.wpc = "done"]
           ELSE IF input.queue = <<>> THEN [input EXCEPT !.wpc = "asleep"]
           ELSE [input EXCEPT !.wpc = "write", !.hand = <<Head(input.queue)>>,
                              !.queue = Tail(@), !.bytes = @ - 1]
    /\ UNCHANGED <<world, prog, pane, clients, cl, resizes>>

\* The write returns when the program reads it, or fails when the pty is closed.
WriteInput ==
    /\ input.wpc = "write"
    /\ input' = [input EXCEPT !.wpc = "check", !.hand = <<>>,
                              !.written = IF pane.gone THEN @ ELSE @ \o input.hand]
    /\ UNCHANGED <<world, prog, pane, clients, cl, resizes>>

-----------------------------------------------------------------------------
(* attach *)

Lookup(c) ==
    /\ c \in world.watchers /\ cl[c].conn = "new" /\ pane.listed
    /\ cl' = [cl EXCEPT ![c].conn = "found"]
    /\ UNCHANGED <<world, prog, pane, clients, input, resizes>>

\* The human's size may be the default one, too.
Register(c, size) ==
    /\ cl[c].conn = "found" /\ ~pane.dead
    /\ clients' = clients \cup {c}
    /\ pane' = [pane EXCEPT !.size = size]
    /\ cl' = [Resized(clients, size, cl) EXCEPT ![c] = RequestRedraw([@ EXCEPT !.conn = "joined"])]
    /\ UNCHANGED <<world, prog, input, resizes>>

Refuse(c) ==
    /\ cl[c].conn = "found" /\ pane.dead
    /\ cl' = [cl EXCEPT ![c].conn = "left"]
    /\ UNCHANGED <<world, prog, pane, clients, input, resizes>>

Greet(c) ==
    /\ cl[c].conn = "joined"
    /\ cl' = [cl EXCEPT ![c].conn = "live", ![c].wpc = "check"]
    /\ UNCHANGED <<world, prog, pane, clients, input, resizes>>

HumanResizes(c, size) ==
    /\ cl[c].conn = "live" /\ resizes < world.resizes
    /\ resizes' = resizes + 1
    /\ cl' = Resized(clients, size, cl)
    /\ pane' = [pane EXCEPT !.size = SizeAfter(size)]
    /\ UNCHANGED <<world, prog, clients, input>>

HumanTypes(c) ==
    /\ cl[c].conn = "live" /\ input.accepted < world.inputs
    /\ input' = Enqueue(input)
    /\ UNCHANGED <<world, prog, pane, clients, cl, resizes>>

\* The human leaves, the greeting or a frame cannot be written, or the writer is done.
Detach(c) ==
    /\ cl[c].conn \in {"joined", "live"}
    /\ clients' = clients \ {c}
    /\ cl' = [cl EXCEPT ![c] = CloseClient(@)]
    /\ pane' = IF clients' = {} THEN [pane EXCEPT !.size = SizeAfter(DefaultSize)] ELSE pane
    /\ UNCHANGED <<world, prog, input, resizes>>

-----------------------------------------------------------------------------
(* The client's writeLoop *)

Wake(c) ==
    /\ cl[c].wpc = "check"
    /\ LET r == cl[c]
           next == IF r.closed THEN "done"
                   ELSE IF r.redraw THEN "render"
                   ELSE IF r.pending # <<>> \/ r.ending THEN "take"
                   ELSE "asleep"
       IN  cl' = [cl EXCEPT ![c].wpc = next]
    /\ UNCHANGED <<world, prog, pane, clients, input, resizes>>

\* An exit frame that is already queued still follows the screen.
Render(c) ==
    /\ cl[c].wpc = "render"
    /\ LET r == [cl[c] EXCEPT !.wpc = "take"]
       IN  cl' = [cl EXCEPT ![c] =
                     IF r.redraw
                     THEN [r EXCEPT !.redraw = FALSE, !.pending = <<ScreenFrame(pane.seen)>> \o @]
                     ELSE r]
    /\ UNCHANGED <<world, prog, pane, clients, input, resizes>>

TakeBatch(c) ==
    /\ cl[c].wpc = "take"
    /\ cl' = [cl EXCEPT ![c].wpc = "write", ![c].batch = cl[c].pending, ![c].pending = <<>>,
                        ![c].last = cl[c].ending]
    /\ UNCHANGED <<world, prog, pane, clients, input, resizes>>

\* What the human's terminal makes of a frame; after the exit frame it has gone home.
Shown(r, frame) ==
    IF r.told THEN r
    ELSE CASE frame.type = "output" ->
                  [r EXCEPT !.view = frame.upto, !.torn = @ \/ frame.upto # r.view + 1]
           [] frame.type = "screen" ->
                  [r EXCEPT !.view = frame.upto, !.torn = @ \/ frame.upto < r.view]
           [] frame.type = "exit" -> [r EXCEPT !.told = TRUE]

WriteFrame(c) ==
    /\ cl[c].wpc = "write" /\ cl[c].batch # <<>>
    /\ LET r == [cl[c] EXCEPT !.batch = Tail(@)]
       IN  cl' = [cl EXCEPT ![c] =
                     IF r.closed THEN [r EXCEPT !.batch = <<>>, !.wpc = "done"]
                     ELSE Shown(r, Head(cl[c].batch))]
    /\ UNCHANGED <<world, prog, pane, clients, input, resizes>>

BatchWritten(c) ==
    /\ cl[c].wpc = "write" /\ cl[c].batch = <<>>
    /\ cl' = [cl EXCEPT ![c].wpc = IF cl[c].last /\ cl[c].pending = <<>> THEN "done" ELSE "check"]
    /\ UNCHANGED <<world, prog, pane, clients, input, resizes>>

-----------------------------------------------------------------------------
Reader == Output \/ EndOfOutput \/ Unlist \/ MarkDead \/ CloseGone \/ Broadcast

Writer(c) == Wake(c) \/ Render(c) \/ TakeBatch(c) \/ WriteFrame(c) \/ BatchWritten(c)

Attach(c) == Register(c, "small") \/ Register(c, DefaultSize) \/ Refuse(c) \/ Greet(c)

Next ==
    \/ Prints \/ ExitProgram \/ Kill \/ Reader
    \/ Send \/ TakeInput \/ WriteInput
    \/ \E c \in Clients :
           \/ Lookup(c) \/ Attach(c) \/ HumanTypes(c) \/ Detach(c) \/ Writer(c)
           \/ \E size \in Sizes : HumanResizes(c, size)

Spec == Init /\ [][Next]_vars

(***************************************************************************)
(* Goroutines run, and a human's terminal takes what is written to it.  The   *)
(* program need never print, exit or read its input; nobody has to attach,    *)
(* type or leave.                                                            *)
(***************************************************************************)
Fairness ==
    /\ WF_vars(Reader) /\ WF_vars(TakeInput) /\ WF_vars(pane.gone /\ WriteInput)
    /\ \A c \in Clients : WF_vars(Attach(c)) /\ WF_vars(Writer(c))

FairSpec == Spec /\ Fairness

-----------------------------------------------------------------------------
Frames == [type : {"output", "screen", "exit"}, upto : 0..world.outputs]

TypeOK ==
    /\ prog.printed \in 0..world.outputs /\ prog.exited \in BOOLEAN
    /\ pane.seen \in 0..prog.printed /\ pane.size \in Sizes
    /\ clients \subseteq world.watchers
    /\ \A c \in Clients :
           /\ cl[c].pending \in Seq(Frames) /\ cl[c].batch \in Seq(Frames)
           /\ Len(cl[c].pending) <= Backlog + 1
           /\ cl[c].view \in 0..pane.seen
    /\ Len(input.queue) <= QueueMax

(***************************************************************************)
(* What a human sees is "exactly contiguous" (attach_server.go:77-79): no     *)
(* chunk is missing, repeated or late on their screen, however often their    *)
(* backlog is dropped, the terminal is resized or others come and go; and     *)
(* when they are told that it has exited nothing is missing but a redraw      *)
(* that was still owed to them (see LastScreenShown).                         *)
(***************************************************************************)
NoTornView ==
    /\ \A c \in Clients : ~cl[c].torn
    /\ \A c \in Clients : cl[c].told => cl[c].view = pane.seen \/ cl[c].redraw

(***************************************************************************)
(* "the exit frame, which must still follow the render" (attach_server.go:    *)
(* 98-100): whoever is told of the end has seen all of the output.            *)
(***************************************************************************)
LastScreenShown == \A c \in Clients : cl[c].told => cl[c].view = pane.seen

(***************************************************************************)
(* Input reaches the program once each and in the order it was accepted in,   *)
(* whoever sent it, and the queue's count of bytes is exact while it matters. *)
(***************************************************************************)
InputInOrder ==
    /\ ~pane.gone =>
           /\ input.bytes = Len(input.queue)
           /\ input.written \o input.hand \o input.queue = [i \in 1..input.accepted |-> i]
    /\ \A i \in 1..Len(input.written) : input.written[i] = i

(***************************************************************************)
(* A human who stays sees every chunk that is recorded while they watch: no   *)
(* wakeup of their writer is lost.                                           *)
(***************************************************************************)
CatchesUp ==
    \A c \in Clients : \A n \in 1..2 :
        (c \in clients /\ pane.seen >= n) ~> (cl[c].view >= n \/ cl[c].closed \/ cl[c].told)

(***************************************************************************)
(* A terminal whose program has exited is gone in the end, its writer with    *)
(* it, although nothing reads its input: the queue is there so that the       *)
(* reader never waits for the program (server.go:664-667).  And "a client     *)
(* added here is always told when the pane exits" (attach_server.go:145-146), *)
(* unless it leaves first.                                                   *)
(***************************************************************************)
EndReachesAll ==
    /\ prog.exited ~> (pane.gone /\ input.wpc = "done")
    /\ \A c \in Clients : (cl[c].conn = "live" /\ prog.exited) ~> (cl[c].told \/ cl[c].closed)

=============================================================================
