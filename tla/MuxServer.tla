----------------------------- MODULE MuxServer ------------------------------
(***************************************************************************)
(* The server process of the built-in multiplexer (internal/muxd): the        *)
(* connections it accepts, the terminals it starts, lists and kills, and its  *)
(* end, which it reaches by being idle, by kill-server, by a signal or when   *)
(* it can accept no more.  What holds s.mu throughout is one action.          *)
(*                                                                          *)
(* Each connection carries one request.  A terminal is named after the        *)
(* connection that created it.                                               *)
(***************************************************************************)
EXTENDS Naturals, FiniteSets

CONSTANTS
    Conns,
    Requests,   \* subset of {"new-window", "kill-window", "kill-server"}
    Troubles,   \* subset of {"signal", "accept", "start", "stuck"}
    None

ASSUME ServerAssumption ==
    /\ IsFiniteSet(Conns) /\ None \notin Conns \cup {"ok", "refused", "failed"}
    /\ Requests \subseteq {"new-window", "kill-window", "kill-server"}
    /\ {"main", "idle", "signal", "nobody"} \cap Conns = {}

VARIABLES
    table,      \* s.panes
    conns,      \* s.conns
    recent,     \* s.lastActive is less than idleExit ago
    closing,    \* s.closing
    stopped,    \* s.stopped is closed
    listening,  \* s.ln is open
    accepted,   \* the connection acceptLoop has accepted and not counted, or None
    main,       \* Serve: "accepting", "over" (the loop ended) or "exited"
    conn,       \* [Conns -> [pc, request, target, reply]]
    term,       \* [Conns -> [phase, reader, killed, stuck, listed]]: listed once it was
    caller,     \* [callers of shutdown -> "no", "called", "waiting", "returned"]
    finishing   \* finishShutdown: [who, pc, panes]

serverVars == <<table, conns, recent, closing, stopped, listening, accepted, main>>
vars == <<serverVars, conn, term, caller, finishing>>

Callers == Conns \cup {"main", "signal"}

(***************************************************************************)
(* A connection is "away", "dialled", "accepted", "counted", inside newWindow *)
(* ("new", "numbered", "started", "refusing"), inside kill ("kill",           *)
(* "unlisted", "draining"), about to "reply", "answered" or "over".  A        *)
(* terminal's phase is "none", "running", "exited", "finishing" (taken off    *)
(* the table by its own reader) or "gone".                                   *)
(***************************************************************************)
Init ==
    /\ table = {} /\ conns = 0 /\ recent = TRUE /\ closing = FALSE /\ stopped = FALSE
    /\ listening = TRUE /\ accepted = None /\ main = "accepting"
    /\ conn = [c \in Conns |-> [pc |-> "away", request |-> None, target |-> None, reply |-> None]]
    /\ term = [c \in Conns |-> [phase |-> "none", reader |-> FALSE, killed |-> FALSE,
                                stuck |-> FALSE, listed |-> FALSE]]
    /\ caller = [i \in Callers |-> "no"]
    /\ finishing = [who |-> "nobody", pc |-> "off", panes |-> {}]

Alive == main # "exited"
Goto(c, l) == conn' = [conn EXCEPT ![c].pc = l]
Answer(c, r) == conn' = [conn EXCEPT ![c].pc = "reply", ![c].reply = r]

-----------------------------------------------------------------------------
(* acceptLoop *)

Dial(c) ==
    /\ Alive /\ listening /\ conn[c].pc = "away"
    /\ \E r \in Requests, t \in Conns :
           /\ r # "kill-window" => t = c
           /\ conn' = [conn EXCEPT ![c].pc = "dialled", ![c].request = r, ![c].target = t]
    /\ UNCHANGED <<serverVars, term, caller, finishing>>

Accept(c) ==
    /\ main = "accepting" /\ listening /\ accepted = None /\ conn[c].pc = "dialled"
    /\ accepted' = c /\ Goto(c, "accepted")
    /\ UNCHANGED <<table, conns, recent, closing, stopped, listening, main, term, caller,
                   finishing>>

Count ==
    /\ Alive /\ accepted # None
    /\ conns' = conns + 1 /\ recent' = TRUE
    /\ Goto(accepted, "counted") /\ accepted' = None
    /\ UNCHANGED <<table, closing, stopped, listening, main, term, caller, finishing>>

\* The listener was closed, or Accept failed for a reason of its own.
AcceptEnds ==
    /\ main = "accepting" /\ accepted = None
    /\ ~listening \/ "accept" \in Troubles
    /\ main' = "over" /\ caller' = [caller EXCEPT !["main"] = "called"]
    /\ UNCHANGED <<table, conns, recent, closing, stopped, listening, accepted, conn, term,
                   finishing>>

-----------------------------------------------------------------------------
(* handle *)

FirstStep == [r \in {"new-window", "kill-window"} |-> IF r = "new-window" THEN "new" ELSE "kill"]

Handle(c) ==
    /\ Alive /\ conn[c].pc = "counted"
    /\ IF closing THEN Answer(c, "refused")
       ELSE IF conn[c].request = "kill-server" THEN Answer(c, "ok")
       ELSE Goto(c, FirstStep[conn[c].request])
    /\ UNCHANGED <<serverVars, term, caller, finishing>>

NumberWindow(c) ==
    /\ Alive /\ conn[c].pc = "new"
    /\ IF closing THEN Answer(c, "refused") ELSE Goto(c, "numbered")
    /\ UNCHANGED <<serverVars, term, caller, finishing>>

StartProgram(c) ==
    /\ Alive /\ conn[c].pc = "numbered"
    /\ \/ Goto(c, "started") /\ term' = [term EXCEPT ![c].phase = "running"]
       \/ "start" \in Troubles /\ Answer(c, "failed") /\ UNCHANGED term
    /\ UNCHANGED <<serverVars, caller, finishing>>

\* Slip: a shutdown that began meanwhile is overlooked.
RegisterAnyway(c) ==
    /\ Alive /\ conn[c].pc = "started"
    /\ table' = table \cup {c} /\ recent' = TRUE
    /\ Answer(c, "ok")
    /\ term' = [term EXCEPT ![c].reader = TRUE, ![c].listed = TRUE]
    /\ UNCHANGED <<conns, closing, stopped, listening, accepted, main, caller, finishing>>

\* The reader starts once the pane is registered, or refused.
Register(c) ==
    /\ Alive /\ conn[c].pc = "started"
    /\ IF closing
       THEN /\ Goto(c, "refusing") /\ UNCHANGED <<table, recent>>
            /\ term' = [term EXCEPT ![c].reader = TRUE]
       ELSE /\ table' = table \cup {c} /\ recent' = TRUE
            /\ Answer(c, "ok")
            /\ term' = [term EXCEPT ![c].reader = TRUE, ![c].listed = TRUE]
    /\ UNCHANGED <<conns, closing, stopped, listening, accepted, main, caller, finishing>>

KillRefused(c) ==
    /\ Alive /\ conn[c].pc = "refusing"
    /\ term' = [term EXCEPT ![c].killed = TRUE] /\ Answer(c, "refused")
    /\ UNCHANGED <<serverVars, caller, finishing>>

LookupPane(c) ==
    /\ Alive /\ conn[c].pc = "kill"
    /\ IF conn[c].target \in table THEN Goto(c, "found") ELSE Answer(c, "failed")
    /\ UNCHANGED <<serverVars, term, caller, finishing>>

\* Slip: the pane stays listed until its reader is done with it.
KillKeepingListed(c) ==
    /\ Alive /\ conn[c].pc = "found"
    /\ Answer(c, "ok")
    /\ term' = [term EXCEPT ![conn[c].target].killed = TRUE]
    /\ UNCHANGED <<serverVars, caller, finishing>>

KillPane(c) ==
    /\ Alive /\ conn[c].pc = "found"
    /\ table' = table \ {conn[c].target} /\ recent' = TRUE
    /\ term' = [term EXCEPT ![conn[c].target].killed = TRUE]
    /\ Goto(c, "draining")
    /\ UNCHANGED <<conns, closing, stopped, listening, accepted, main, caller, finishing>>

\* A terminal that outlasts killWait.
OverOrStuck(p) == term[p].phase = "gone" \/ term[p].stuck

Drained(c) ==
    /\ Alive /\ conn[c].pc = "draining" /\ OverOrStuck(conn[c].target)
    /\ Answer(c, "ok")
    /\ UNCHANGED <<serverVars, term, caller, finishing>>

Reply(c) ==
    /\ Alive /\ conn[c].pc = "reply"
    /\ Goto(c, "answered")
    /\ caller' = IF conn[c].request = "kill-server" /\ conn[c].reply = "ok"
                 THEN [caller EXCEPT ![c] = "called"] ELSE caller
    /\ UNCHANGED <<serverVars, term, finishing>>

Uncount(c) ==
    /\ Alive /\ conn[c].pc = "answered"
    /\ conns' = conns - 1 /\ recent' = TRUE
    /\ Goto(c, "over")
    /\ UNCHANGED <<table, closing, stopped, listening, accepted, main, term, caller, finishing>>

-----------------------------------------------------------------------------
(* Terminals *)

ExitProgram(p) ==
    /\ term[p].phase = "running" /\ ~term[p].stuck
    /\ term' = [term EXCEPT ![p].phase = "exited"]
    /\ UNCHANGED <<serverVars, conn, caller, finishing>>

\* A killed program does not die, or something keeps its terminal busy.
GetStuck(p) ==
    /\ "stuck" \in Troubles /\ term[p].phase = "running" /\ term[p].killed /\ ~term[p].stuck
    /\ term' = [term EXCEPT ![p].stuck = TRUE]
    /\ UNCHANGED <<serverVars, conn, caller, finishing>>

FinishPane(p) ==
    /\ Alive /\ term[p].phase = "exited" /\ term[p].reader
    /\ table' = table \ {p} /\ recent' = TRUE
    /\ term' = [term EXCEPT ![p].phase = "finishing"]
    /\ UNCHANGED <<conns, closing, stopped, listening, accepted, main, conn, caller, finishing>>

CloseFiles(p) ==
    /\ Alive /\ term[p].phase = "finishing"
    /\ term' = [term EXCEPT ![p].phase = "gone"]
    /\ UNCHANGED <<serverVars, conn, caller, finishing>>

-----------------------------------------------------------------------------
(* Shutting down *)

TimePasses ==
    /\ Alive /\ recent /\ ~closing
    /\ recent' = FALSE
    /\ UNCHANGED <<table, conns, closing, stopped, listening, accepted, main, conn, term, caller,
                   finishing>>

Begin(who, panes) ==
    finishing' = [who |-> who, pc |-> "close", panes |-> panes]

\* Slip: connections do not keep a server alive.
IdleWithoutPanes ==
    /\ Alive /\ ~closing /\ table = {} /\ ~recent
    /\ closing' = TRUE /\ Begin("idle", {})
    /\ UNCHANGED <<table, conns, recent, stopped, listening, accepted, main, conn, term, caller>>

ShutdownIfIdle ==
    /\ Alive /\ ~closing /\ table = {} /\ conns = 0 /\ ~recent
    /\ closing' = TRUE /\ Begin("idle", {})
    /\ UNCHANGED <<table, conns, recent, stopped, listening, accepted, main, conn, term, caller>>

ReceiveSignal ==
    /\ Alive /\ "signal" \in Troubles /\ caller["signal"] = "no" /\ ~closing
    /\ caller' = [caller EXCEPT !["signal"] = "called"]
    /\ UNCHANGED <<serverVars, conn, term, finishing>>

\* The first caller finishes, the others wait until it has.
Shutdown(i) ==
    /\ Alive /\ caller[i] = "called"
    /\ caller' = [caller EXCEPT ![i] = "waiting"]
    /\ IF closing THEN UNCHANGED <<closing, table, finishing>>
       ELSE closing' = TRUE /\ table' = {} /\ Begin(i, table)
    /\ UNCHANGED <<conns, recent, stopped, listening, accepted, main, conn, term>>

CloseListener ==
    /\ Alive /\ finishing.pc = "close"
    /\ listening' = FALSE
    /\ finishing' = [finishing EXCEPT !.pc = "kill"]
    /\ UNCHANGED <<table, conns, recent, closing, stopped, accepted, main, conn, term, caller>>

KillPanes ==
    /\ Alive /\ finishing.pc = "kill"
    /\ term' = [p \in Conns |-> [term[p] EXCEPT !.killed = @ \/ p \in finishing.panes]]
    /\ finishing' = [finishing EXCEPT !.pc = "wait"]
    /\ UNCHANGED <<serverVars, conn, caller>>

\* Slip: nobody times a wait out.
AllGone ==
    /\ Alive /\ finishing.pc = "wait" /\ \A p \in finishing.panes : term[p].phase = "gone"
    /\ stopped' = TRUE
    /\ finishing' = [finishing EXCEPT !.pc = "over"]
    /\ UNCHANGED <<table, conns, recent, closing, listening, accepted, main, conn, term, caller>>

AllDrained ==
    /\ Alive /\ finishing.pc = "wait" /\ \A p \in finishing.panes : OverOrStuck(p)
    /\ stopped' = TRUE
    /\ finishing' = [finishing EXCEPT !.pc = "over"]
    /\ UNCHANGED <<table, conns, recent, closing, listening, accepted, main, conn, term, caller>>

\* The process ends, whatever its other goroutines are doing.
Exit ==
    /\ main = "over" /\ caller["main"] = "waiting" /\ stopped
    /\ main' = "exited"
    /\ UNCHANGED <<table, conns, recent, closing, stopped, listening, accepted, conn, term, caller,
                   finishing>>

-----------------------------------------------------------------------------
Handler(c) ==
    \/ Handle(c) \/ NumberWindow(c) \/ StartProgram(c) \/ Register(c) \/ KillRefused(c)
    \/ LookupPane(c) \/ KillPane(c) \/ Drained(c) \/ Reply(c) \/ Uncount(c)

Finisher == CloseListener \/ KillPanes \/ AllDrained

\* A killed program dies sooner or later, or is stuck.
Dies(p) == term[p].killed /\ (ExitProgram(p) \/ GetStuck(p))

Next ==
    \/ \E c \in Conns :
           \/ Dial(c) \/ Accept(c) \/ Handler(c)
           \/ ExitProgram(c) \/ GetStuck(c) \/ FinishPane(c) \/ CloseFiles(c)
    \/ Count \/ AcceptEnds \/ TimePasses \/ ShutdownIfIdle \/ ReceiveSignal
    \/ \E i \in Callers : Shutdown(i)
    \/ Finisher \/ Exit

Spec == Init /\ [][Next]_vars

(***************************************************************************)
(* Goroutines run and a killed program dies or is stuck.  Nothing makes a     *)
(* program exit, a client dial or the server shut down.                      *)
(***************************************************************************)
Fairness ==
    /\ WF_vars(Count) /\ WF_vars(~listening /\ AcceptEnds) /\ WF_vars(Finisher) /\ WF_vars(Exit)
    /\ \A i \in Callers : WF_vars(Shutdown(i))
    /\ \A c \in Conns :
           /\ WF_vars(Accept(c)) /\ WF_vars(Handler(c)) /\ WF_vars(Dies(c))
           /\ WF_vars(FinishPane(c) \/ CloseFiles(c))

FairSpec == Spec /\ Fairness

-----------------------------------------------------------------------------
InHandler == {"new", "numbered", "started", "refusing", "kill", "found", "draining", "reply"}
ConnStates == InHandler \cup {"away", "dialled", "accepted", "counted", "answered", "over"}

TypeOK ==
    /\ table \subseteq Conns
    /\ conns \in 0..Cardinality(Conns)
    /\ accepted \in Conns \cup {None} /\ main \in {"accepting", "over", "exited"}
    /\ \A c \in Conns :
           /\ conn[c].pc \in ConnStates /\ conn[c].reply \in {None, "ok", "refused", "failed"}
           /\ term[c].phase \in {"none", "running", "exited", "finishing", "gone"}
    /\ finishing.panes \subseteq Conns
    /\ \A i \in Callers : caller[i] \in {"no", "called", "waiting"}

(***************************************************************************)
(* An idle server's exit costs nobody anything: no request that was not       *)
(* refused is under way, and no terminal runs but one that would not die      *)
(* (server.go:276-279).                                                      *)
(***************************************************************************)
IdleLosesNothing ==
    finishing.who = "idle" =>
        \A c \in Conns :
            /\ conn[c].pc \in InHandler => conn[c].reply = "refused"
            /\ term[c].phase \in {"running", "exited"} => term[c].stuck \/ term[c].killed

(***************************************************************************)
(* What is listed is there: "a program that exits at once is removed by its   *)
(* own finish rather than listed forever" (server.go:505-506).  And what was  *)
(* killed is gone: a kill that is answered leaves nothing of the terminal     *)
(* behind, so that "a create that reuses the name never races the old pane's  *)
(* files" (server.go:548-552), unless the terminal outlasted killWait.        *)
(***************************************************************************)
TableIsTrue ==
    /\ \A p \in table : term[p].phase \in {"running", "exited"} /\ term[p].reader
    /\ \A c \in Conns :
           conn[c].pc \in {"reply", "answered", "over"} /\ conn[c].reply = "ok"
               /\ conn[c].request = "kill-window"
           => conn[c].target \notin table /\ OverOrStuck(conn[c].target)

\* Its output is all in the journal.
IsDrained(p) == term[p].phase \in {"finishing", "gone"} \/ term[p].stuck

\* By a kill that has not been answered.
TakenOff(p) == \E c \in Conns : conn[c].target = p /\ conn[c].pc = "draining"

(***************************************************************************)
(* The process ends only when every terminal it listed, save those kill took  *)
(* off its list, is drained into its journal or outlasted killWait.           *)
(***************************************************************************)
ListedIsDrained ==
    main = "exited" => \A p \in Conns : term[p].listed => IsDrained(p) \/ TakenOff(p)

(***************************************************************************)
(* A shutdown that has begun ends, although terminals hang and requests are   *)
(* under way: its successor waits for the lock no longer than lockWait.       *)
(***************************************************************************)
ShutdownEnds == closing ~> main = "exited"

=============================================================================
