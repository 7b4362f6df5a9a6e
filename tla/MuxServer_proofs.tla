--------------------------- MODULE MuxServer_proofs ---------------------------
(***************************************************************************)
(* An idle exit loses nothing, what is listed is there and what was listed is  *)
(* drained before the process ends, for any number of connections.           *)
(*                                                                          *)
(* An idle exit is safe because s.conns counts who is inside a handler, which  *)
(* is an equation between a counter and the cardinality of a set (IsCounted).  *)
(* Beside it ServerInv says who answers for a terminal that runs: the table,   *)
(* whoever starts or kills it, or the shutdown.                              *)
(***************************************************************************)
EXTENDS MuxServer, FiniteSetTheorems, TLAPS

----------------------------------------------------------------------------
\* The state of a connection and of its terminal

Replies == {None, "ok", "refused", "failed"}
Connection ==
    [pc : ConnStates, request : Requests \cup {None}, target : Conns \cup {None}, reply : Replies]
Terminal ==
    [phase : {"none", "running", "exited", "finishing", "gone"}, reader : BOOLEAN, killed : BOOLEAN,
     stuck : BOOLEAN, listed : BOOLEAN]

Typed ==
    /\ table \in SUBSET Conns /\ conns \in Nat
    /\ recent \in BOOLEAN /\ closing \in BOOLEAN /\ stopped \in BOOLEAN /\ listening \in BOOLEAN
    /\ accepted \in Conns \cup {None} /\ main \in {"accepting", "over", "exited"}
    /\ conn \in [Conns -> Connection]
    /\ term \in [Conns -> Terminal]
    /\ caller \in [Callers -> {"no", "called", "waiting"}]
    /\ finishing \in [who : Callers \cup {"idle", "nobody"},
                      pc : {"off", "close", "kill", "wait", "over"}, panes : SUBSET Conns]

Creating == {"new", "numbered", "started", "refusing"}
Killing == {"kill", "found", "draining"}
Handled == {"reply", "answered", "over"}

\* A connection by where it is: what it asks for, and what it is answered.
Requested(k) ==
    /\ k.pc # "away" => k.target \in Conns /\ k.request \in Requests
    /\ k.pc \in Creating => k.request = "new-window"
    /\ k.pc \in Killing => k.request = "kill-window"
    /\ k.pc \notin Handled => k.reply = None

\* A terminal by where the connection k that created it is.
Started(k, t) ==
    /\ k.pc \notin {"started", "refusing"} \cup Handled =>
           t.phase = "none" /\ ~t.reader /\ ~t.listed
    /\ k.pc = "started" => t.phase \in {"running", "exited"} /\ ~t.reader
    /\ t.listed => k.pc \in Handled

----------------------------------------------------------------------------
\* The invariant

\* s.conns counts the connections between their count and their end.
Counted == {c \in Conns : conn[c].pc \in InHandler \cup {"counted", "answered"}}
IsCounted == conns = Cardinality(Counted)

Connections ==
    /\ \A c \in Conns : Requested(conn[c]) /\ Started(conn[c], term[c])
    /\ accepted # None => conn[accepted].pc = "accepted"

\* What is in the table was listed and its reader runs.
Table ==
    \A p \in table :
        term[p].listed /\ term[p].reader /\ term[p].phase \in {"running", "exited"}

\* Who found a terminal to kill found one that was listed; it has taken it off by
\* the time it waits, and it is answered when the terminal is over.
Killers ==
    \A c \in Conns :
        LET t == conn[c].target
            ok == conn[c].reply = "ok" /\ conn[c].request = "kill-window"
        IN  /\ conn[c].pc \in {"found", "draining"} \/ ok => t \in Conns /\ term[t].listed
            /\ conn[c].pc = "draining" \/ ok => t \notin table
            /\ ok => OverOrStuck(t)

\* Somebody answers for a terminal that runs, and for one that was listed.
Answerable ==
    \A p \in Conns :
        /\ term[p].phase \in {"running", "exited"} =>
               \/ p \in table \cup finishing.panes \/ term[p].killed
               \/ conn[p].pc \in {"started", "refusing"}
        /\ term[p].listed =>
               p \in table \cup finishing.panes \/ IsDrained(p) \/ TakenOff(p)
        /\ term[p].stuck => term[p].killed

\* One shutdown, begun once, over when its panes are.
OneShutdown ==
    /\ ~closing <=> finishing.pc = "off"
    /\ ~closing => finishing.panes = {} /\ finishing.who = "nobody"
    /\ closing => table = {}
    /\ stopped <=> finishing.pc = "over"
    /\ stopped => \A p \in finishing.panes : OverOrStuck(p)
    /\ main = "exited" => stopped

\* Nobody was inside a handler when the idle exit began, and who comes later is
\* refused.
IdleAlone ==
    finishing.who = "idle" =>
        /\ finishing.panes = {}
        /\ \A c \in Conns :
               /\ conn[c].pc \in InHandler => conn[c].pc = "reply" /\ conn[c].reply = "refused"
               /\ term[c].phase \in {"running", "exited"} => term[c].killed

Rest == Connections /\ Table /\ Killers /\ Answerable /\ OneShutdown /\ IdleAlone
ServerInv == Typed /\ IsCounted /\ Rest
----------------------------------------------------------------------------
\* One field of one connection or terminal

Moved(c, l, r) ==
    /\ conn' \in [Conns -> Connection]
    /\ conn'[c].pc = l /\ conn'[c].reply = r
    /\ conn'[c].request = conn[c].request /\ conn'[c].target = conn[c].target
    /\ \A d \in Conns \ {c} : conn'[d] = conn[d]

\* Goto changes where one connection is and nothing else of any.
LEMMA GotoMoves ==
  ASSUME Typed, NEW c \in Conns, NEW l \in ConnStates, Goto(c, l)
  PROVE  Moved(c, l, conn[c].reply)
<1>1. conn \in [Conns -> Connection] /\ conn[c] \in Connection
      BY DEF Typed
<1> DEFINE k == [conn[c] EXCEPT !.pc = l]
<1>2. conn' = [conn EXCEPT ![c] = k]
      BY DEF Goto
<1>3. /\ k \in Connection
      /\ k.pc = l /\ k.request = conn[c].request /\ k.target = conn[c].target
      /\ k.reply = conn[c].reply
      BY <1>1 DEF Connection
<1> HIDE DEF k
<1> QED BY <1>1, <1>2, <1>3 DEF Moved

\* Answer gives one connection its answer and leaves what it asked for.
LEMMA AnswerMoves ==
  ASSUME Typed, NEW c \in Conns, NEW r \in Replies, Answer(c, r)
  PROVE  Moved(c, "reply", r)
<1>1. conn \in [Conns -> Connection] /\ conn[c] \in Connection
      BY DEF Typed
<1> DEFINE k == [conn[c] EXCEPT !.pc = "reply", !.reply = r]
<1>2. conn' = [conn EXCEPT ![c] = k]
      BY DEF Answer
<1>3. /\ k \in Connection
      /\ k.pc = "reply" /\ k.request = conn[c].request /\ k.target = conn[c].target
      /\ k.reply = r
      BY <1>1 DEF Connection, ConnStates, InHandler
<1> HIDE DEF k
<1> QED BY <1>1, <1>2, <1>3 DEF Moved

Turned(p, phase, reader, killed, stuck, listed) ==
    /\ term' \in [Conns -> Terminal]
    /\ term'[p].phase = phase /\ term'[p].reader = reader /\ term'[p].killed = killed
    /\ term'[p].stuck = stuck /\ term'[p].listed = listed
    /\ \A q \in Conns \ {p} : term'[q] = term[q]

\* So does a step of a terminal.
LEMMA PhaseMoves ==
  ASSUME Typed, NEW p \in Conns, NEW s \in {"running", "exited", "finishing", "gone"},
         term' = [term EXCEPT ![p].phase = s]
  PROVE  Turned(p, s, term[p].reader, term[p].killed, term[p].stuck, term[p].listed)
<1>1. term \in [Conns -> Terminal] /\ term[p] \in Terminal
      BY DEF Typed
<1> DEFINE t == [term[p] EXCEPT !.phase = s]
<1>2. term' = [term EXCEPT ![p] = t]
      OBVIOUS
<1>3. /\ t \in Terminal
      /\ t.phase = s /\ t.reader = term[p].reader /\ t.killed = term[p].killed
      /\ t.stuck = term[p].stuck /\ t.listed = term[p].listed
      BY <1>1 DEF Terminal
<1> HIDE DEF t
<1> QED BY <1>1, <1>2, <1>3 DEF Turned

\* So does a kill.
LEMMA KilledMoves ==
  ASSUME Typed, NEW p \in Conns, term' = [term EXCEPT ![p].killed = TRUE]
  PROVE  Turned(p, term[p].phase, term[p].reader, TRUE, term[p].stuck, term[p].listed)
<1>1. term \in [Conns -> Terminal] /\ term[p] \in Terminal
      BY DEF Typed
<1> DEFINE t == [term[p] EXCEPT !.killed = TRUE]
<1>2. term' = [term EXCEPT ![p] = t]
      OBVIOUS
<1>3. /\ t \in Terminal
      /\ t.phase = term[p].phase /\ t.reader = term[p].reader /\ t.killed
      /\ t.stuck = term[p].stuck /\ t.listed = term[p].listed
      BY <1>1 DEF Terminal
<1> HIDE DEF t
<1> QED BY <1>1, <1>2, <1>3 DEF Turned

DialAs(c, r, t) ==
    conn' = [conn EXCEPT ![c].pc = "dialled", ![c].request = r, ![c].target = t]

\* A dialled connection has a request and a target.
LEMMA DialMoves ==
  ASSUME Typed, NEW c \in Conns, NEW r \in Requests, NEW t \in Conns, DialAs(c, r, t)
  PROVE  /\ conn' \in [Conns -> Connection]
         /\ conn'[c].pc = "dialled" /\ conn'[c].request = r
         /\ conn'[c].target = t /\ conn'[c].reply = conn[c].reply
         /\ \A d \in Conns \ {c} : conn'[d] = conn[d]
<1>1. conn \in [Conns -> Connection] /\ conn[c] \in Connection
      BY DEF Typed
<1> DEFINE k == [conn[c] EXCEPT !.pc = "dialled", !.request = r, !.target = t]
<1>2. conn' = [conn EXCEPT ![c] = k]
      BY <1>1 DEF DialAs
<1>3. /\ k \in Connection
      /\ k.pc = "dialled" /\ k.request = r /\ k.target = t /\ k.reply = conn[c].reply
      BY <1>1 DEF Connection, ConnStates
<1> HIDE DEF k
<1> QED BY <1>1, <1>2, <1>3

\* So does a program that will not die.
LEMMA StuckMoves ==
  ASSUME Typed, NEW p \in Conns, term' = [term EXCEPT ![p].stuck = TRUE]
  PROVE  Turned(p, term[p].phase, term[p].reader, term[p].killed, TRUE, term[p].listed)
<1>1. term \in [Conns -> Terminal] /\ term[p] \in Terminal
      BY DEF Typed
<1> DEFINE t == [term[p] EXCEPT !.stuck = TRUE]
<1>2. term' = [term EXCEPT ![p] = t]
      OBVIOUS
<1>3. /\ t \in Terminal
      /\ t.phase = term[p].phase /\ t.reader = term[p].reader /\ t.killed = term[p].killed
      /\ t.stuck /\ t.listed = term[p].listed
      BY <1>1 DEF Terminal
<1> HIDE DEF t
<1> QED BY <1>1, <1>2, <1>3 DEF Turned

\* The reader starts with the registration, or with its refusal.
LEMMA ReaderMoves ==
  ASSUME Typed, NEW p \in Conns, NEW listed \in BOOLEAN,
         term' = IF listed THEN [term EXCEPT ![p].reader = TRUE, ![p].listed = TRUE]
                 ELSE [term EXCEPT ![p].reader = TRUE]
  PROVE  Turned(p, term[p].phase, TRUE, term[p].killed, term[p].stuck, listed \/ term[p].listed)
<1>1. term \in [Conns -> Terminal] /\ term[p] \in Terminal
      BY DEF Typed
<1> DEFINE t == IF listed THEN [term[p] EXCEPT !.reader = TRUE, !.listed = TRUE]
               ELSE [term[p] EXCEPT !.reader = TRUE]
<1>2. term' = [term EXCEPT ![p] = t]
      OBVIOUS
<1>3. /\ t \in Terminal
      /\ t.phase = term[p].phase /\ t.reader /\ t.killed = term[p].killed
      /\ t.stuck = term[p].stuck /\ t.listed = (listed \/ term[p].listed)
      BY <1>1 DEF Terminal
<1> HIDE DEF t
<1> QED BY <1>1, <1>2, <1>3 DEF Turned

\* The shutdown kills all its panes at once.
LEMMA KillPanesMoves ==
  ASSUME Typed, KillPanes
  PROVE  /\ term' \in [Conns -> Terminal]
         /\ \A p \in Conns :
                /\ term'[p].phase = term[p].phase /\ term'[p].reader = term[p].reader
                /\ term'[p].killed = (term[p].killed \/ p \in finishing.panes)
                /\ term'[p].stuck = term[p].stuck /\ term'[p].listed = term[p].listed
<1> DEFINE t(p) == [term[p] EXCEPT !.killed = @ \/ p \in finishing.panes]
<1>1. term \in [Conns -> Terminal]
      BY DEF Typed
<1>2. term' = [p \in Conns |-> t(p)]
      BY DEF KillPanes
<1>3. ASSUME NEW p \in Conns
      PROVE  /\ t(p) \in Terminal
             /\ t(p).phase = term[p].phase /\ t(p).reader = term[p].reader
             /\ t(p).killed = (term[p].killed \/ p \in finishing.panes)
             /\ t(p).stuck = term[p].stuck /\ t(p).listed = term[p].listed
      BY <1>1 DEF Terminal
<1> HIDE DEF t
<1> QED BY <1>2, <1>3

----------------------------------------------------------------------------
\* s.conns

Inside == InHandler \cup {"counted", "answered"}

\* A step of a connection that neither enters nor leaves.
LEMMA CountStays ==
  ASSUME Typed, NEW c \in Conns, NEW l, NEW r, Moved(c, l, r), (conn[c].pc \in Inside) = (l \in Inside)
  PROVE  Counted' = Counted
  BY DEF Moved, Counted, Inside

\* Subsets of the connections are finite, so their number is a natural one.
LEMMA CountedFinite == IsFiniteSet(Counted) /\ Cardinality(Counted) \in Nat
<1>1. Counted \subseteq Conns
      BY DEF Counted
<1> QED BY <1>1, ServerAssumption, FS_Subset, FS_CardinalityType

\* acceptLoop counts a connection that was not counted (server.go:243-247).
LEMMA CountGrows ==
  ASSUME Typed, IsCounted, NEW c \in Conns, NEW r, Moved(c, "counted", r), conn[c].pc = "accepted",
         conns' = conns + 1
  PROVE  IsCounted'
<1>1. Counted' = Counted \cup {c}
      BY DEF Moved, Counted, InHandler
<1>2. c \notin Counted
      BY DEF Counted, InHandler
<1> QED BY <1>1, <1>2, CountedFinite, FS_AddElement DEF IsCounted

\* handle uncounts one that was (server.go:249-254).
LEMMA CountShrinks ==
  ASSUME Typed, IsCounted, NEW c \in Conns, NEW r, Moved(c, "over", r), conn[c].pc = "answered",
         conns' = conns - 1
  PROVE  IsCounted' /\ conns' \in Nat
<1>1. Counted' = Counted \ {c}
      BY DEF Moved, Counted, InHandler
<1>2. c \in Counted
      BY DEF Counted
<1>3. Cardinality(Counted \ {c}) = Cardinality(Counted) - 1
      BY <1>2, CountedFinite, FS_RemoveElement
<1>4. Cardinality(Counted') \in Nat
      BY <1>1, CountedFinite, FS_Subset, FS_CardinalityType
<1> QED BY <1>1, <1>3, <1>4 DEF IsCounted

\* A server that counts nobody has nobody inside a handler.
LEMMA NobodyInside ==
  ASSUME IsCounted, conns = 0, NEW c \in Conns
  PROVE  conn[c].pc \notin Inside
<1>1. Counted = {}
      BY CountedFinite, FS_EmptySet DEF IsCounted
<1> QED BY <1>1 DEF Counted, Inside

----------------------------------------------------------------------------
\* The steps of a connection that change nothing else

\* What a connection must be, or have been, to be at l with the answer r, when
\* nothing but it changes.
MayBe(c, l, r) ==
    LET k == conn[c]
        killed == r = "ok" /\ k.request = "kill-window"
    IN  /\ k.pc \notin {"away", "accepted"} /\ (k.pc \in Inside) = (l \in Inside)
        /\ l \in Creating => k.request = "new-window"
        /\ l \in Killing => k.request = "kill-window"
        /\ l \notin Handled => r = None
        /\ Started([pc |-> l], term[c])
        /\ l \in {"found", "draining"} \/ killed => k.target \in Conns /\ term[k.target].listed
        /\ l = "draining" \/ killed => k.target \notin table
        /\ killed => OverOrStuck(k.target)
        /\ k.pc = "draining" => IsDrained(k.target)
        /\ k.pc \notin {"started", "refusing"}
        /\ finishing.who = "idle" /\ l \in InHandler => l = "reply" /\ r = "refused"

\* The handler's steps that read the server's state and go on, or answer.
LEMMA MoveKeeps ==
  ASSUME ServerInv, NEW c \in Conns, NEW l \in ConnStates, NEW r \in Replies,
         MayBe(c, l, r), Moved(c, l, r), UNCHANGED <<serverVars, term, finishing>>,
         caller' \in [Callers -> {"no", "called", "waiting"}]
  PROVE  ServerInv'
<1> USE ServerAssumption
<1>1. Typed'
      BY DEF ServerInv, Typed, Moved, serverVars
<1>2. IsCounted'
  <2>1. Counted' = Counted
        BY CountStays DEF ServerInv, MayBe
  <2> QED BY <2>1 DEF ServerInv, IsCounted, serverVars
<1>3. Connections'
      BY DEF ServerInv, Typed, Rest, Connections, Requested, Started, Creating, Killing, Handled,
             MayBe, Moved, serverVars
<1>4. Table'
      BY DEF ServerInv, Rest, Table, serverVars
<1>5. Killers'
      BY DEF ServerInv, Typed, Rest, Killers, OverOrStuck, MayBe, Moved, serverVars
<1>6. Answerable'
      BY DEF ServerInv, Typed, Rest, Answerable, IsDrained, TakenOff, MayBe, Moved, serverVars
<1>7. OneShutdown'
      BY DEF ServerInv, Rest, OneShutdown, OverOrStuck, serverVars
<1>8. IdleAlone'
      BY DEF ServerInv, Typed, Rest, OneShutdown, IdleAlone, InHandler, MayBe, Moved, serverVars
<1> QED BY <1>1, <1>2, <1>3, <1>4, <1>5, <1>6, <1>7, <1>8 DEF ServerInv, Rest

\* What the invariant says of a connection that is about to take a step.
LEMMA KnownOf ==
  ASSUME ServerInv, NEW c \in Conns
  PROVE  /\ Typed /\ conn[c] \in Connection /\ term[c] \in Terminal
         /\ Requested(conn[c]) /\ Started(conn[c], term[c])
  BY DEF ServerInv, Rest, Connections, Typed

\* handle refuses everybody once the server is closing (server.go:360-368).
LEMMA HandleKeeps == ASSUME ServerInv, NEW c \in Conns, Handle(c) PROVE ServerInv'
<1> USE ServerAssumption
<1> USE DEF MayBe, Requested, Started, Creating, Killing, Handled, InHandler, Inside, Replies, ConnStates
<1>1. /\ conn[c].pc = "counted" /\ conn[c].reply = None /\ conn[c].request \in Requests
      /\ UNCHANGED <<serverVars, term, caller, finishing>>
      /\ caller \in [Callers -> {"no", "called", "waiting"}]
      /\ Typed /\ Requested(conn[c]) /\ Started(conn[c], term[c])
      BY KnownOf DEF Handle, Typed
<1>2. finishing.who = "idle" => closing
      BY DEF ServerInv, Rest, OneShutdown
<1>3. CASE closing
  <2>1. Answer(c, "refused")
        BY <1>3 DEF Handle
  <2>2. Moved(c, "reply", "refused")
        BY <1>1, <2>1, AnswerMoves
  <2>3. MayBe(c, "reply", "refused")
        BY <1>1
  <2> QED BY <1>1, <2>2, <2>3, MoveKeeps
<1>4. CASE ~closing /\ conn[c].request = "kill-server"
  <2>1. Answer(c, "ok")
        BY <1>4 DEF Handle
  <2>2. Moved(c, "reply", "ok")
        BY <1>1, <2>1, AnswerMoves
  <2>3. MayBe(c, "reply", "ok")
        BY <1>1, <1>2, <1>4
  <2> QED BY <1>1, <2>2, <2>3, MoveKeeps
<1>5. CASE ~closing /\ conn[c].request # "kill-server"
  <2> DEFINE l == IF conn[c].request = "new-window" THEN "new" ELSE "kill"
  <2>1. conn[c].request \in {"new-window", "kill-window"}
        BY <1>1, <1>5
  <2>2. Goto(c, l)
        BY <1>5, <2>1 DEF Handle, FirstStep
  <2>3. l \in ConnStates /\ MayBe(c, l, conn[c].reply)
        BY <1>1, <1>2, <1>5, <2>1
  <2> HIDE DEF l
  <2>4. Moved(c, l, conn[c].reply)
        BY <1>1, <2>2, <2>3, GotoMoves
  <2> QED BY <1>1, <2>3, <2>4, MoveKeeps
<1> QED BY <1>3, <1>4, <1>5

\* newWindow numbers the pane, unless a shutdown began (server.go:477-486).
LEMMA NumberWindowKeeps == ASSUME ServerInv, NEW c \in Conns, NumberWindow(c) PROVE ServerInv'
<1> USE ServerAssumption
<1> USE DEF MayBe, Requested, Started, Creating, Killing, Handled, InHandler, Inside, Replies, ConnStates
<1>1. /\ conn[c].pc = "new" /\ conn[c].request = "new-window" /\ conn[c].reply = None
      /\ UNCHANGED <<serverVars, term, caller, finishing>>
      /\ caller \in [Callers -> {"no", "called", "waiting"}]
      /\ Typed /\ Started(conn[c], term[c])
      BY KnownOf DEF NumberWindow, Typed
<1>2. finishing.who # "idle"
      BY <1>1 DEF ServerInv, Rest, IdleAlone
<1>3. CASE closing
  <2>1. Moved(c, "reply", "refused")
        BY <1>1, <1>3, AnswerMoves DEF NumberWindow
  <2>2. MayBe(c, "reply", "refused")
        BY <1>1
  <2> QED BY <1>1, <2>1, <2>2, MoveKeeps
<1>4. CASE ~closing
  <2>1. Moved(c, "numbered", None)
        BY <1>1, <1>4, GotoMoves DEF NumberWindow
  <2>2. MayBe(c, "numbered", None)
        BY <1>1, <1>2
  <2> QED BY <1>1, <2>1, <2>2, MoveKeeps
<1> QED BY <1>3, <1>4

\* lookup finds the target of a kill in the table (server.go:351-358).
LEMMA LookupPaneKeeps == ASSUME ServerInv, NEW c \in Conns, LookupPane(c) PROVE ServerInv'
<1> USE ServerAssumption
<1> USE DEF MayBe, Requested, Started, Creating, Killing, Handled, InHandler, Inside, Replies, ConnStates
<1>1. /\ conn[c].pc = "kill" /\ conn[c].request = "kill-window" /\ conn[c].reply = None
      /\ UNCHANGED <<serverVars, term, caller, finishing>>
      /\ caller \in [Callers -> {"no", "called", "waiting"}]
      /\ Typed /\ Started(conn[c], term[c])
      BY KnownOf DEF LookupPane, Typed
<1>2. finishing.who # "idle"
      BY <1>1 DEF ServerInv, Rest, IdleAlone
<1>3. CASE conn[c].target \in table
  <2>1. Moved(c, "found", None)
        BY <1>1, <1>3, GotoMoves DEF LookupPane
  <2>2. conn[c].target \in Conns /\ term[conn[c].target].listed
        BY <1>1, <1>3 DEF ServerInv, Rest, Table, Typed
  <2>3. MayBe(c, "found", None)
        BY <1>1, <1>2, <2>2
  <2> QED BY <1>1, <2>1, <2>3, MoveKeeps
<1>4. CASE conn[c].target \notin table
  <2>1. Moved(c, "reply", "failed")
        BY <1>1, <1>4, AnswerMoves DEF LookupPane
  <2>2. MayBe(c, "reply", "failed")
        BY <1>1, <1>2
  <2> QED BY <1>1, <2>1, <2>2, MoveKeeps
<1> QED BY <1>3, <1>4

\* A kill is answered when its terminal is over or has outlasted killWait.
LEMMA DrainedKeeps == ASSUME ServerInv, NEW c \in Conns, Drained(c) PROVE ServerInv'
<1> USE ServerAssumption
<1> USE DEF MayBe, Requested, Started, Creating, Killing, Handled, InHandler, Inside, Replies, ConnStates
<1>1. /\ conn[c].pc = "draining" /\ conn[c].request = "kill-window" /\ conn[c].reply = None
      /\ UNCHANGED <<serverVars, term, caller, finishing>>
      /\ caller \in [Callers -> {"no", "called", "waiting"}]
      /\ Typed /\ Started(conn[c], term[c])
      BY KnownOf DEF Drained, Typed
<1>2. finishing.who # "idle"
      BY <1>1 DEF ServerInv, Rest, IdleAlone
<1>3. /\ OverOrStuck(conn[c].target) /\ IsDrained(conn[c].target)
      /\ conn[c].target \in Conns /\ term[conn[c].target].listed /\ conn[c].target \notin table
      BY <1>1 DEF Drained, OverOrStuck, IsDrained, ServerInv, Rest, Killers
<1>4. Moved(c, "reply", "ok")
      BY <1>1, AnswerMoves DEF Drained
<1>5. MayBe(c, "reply", "ok")
      BY <1>1, <1>2, <1>3
<1> QED BY <1>1, <1>4, <1>5, MoveKeeps

\* The reply is written, and a kill-server calls shutdown after it (server.go:339-345).
LEMMA ReplyKeeps == ASSUME ServerInv, NEW c \in Conns, Reply(c) PROVE ServerInv'
<1> USE ServerAssumption
<1> USE DEF MayBe, Requested, Started, Creating, Killing, Handled, InHandler, Inside, Replies, ConnStates
<1>1. /\ conn[c].pc = "reply" /\ conn[c] \in Connection /\ Goto(c, "answered")
      /\ UNCHANGED <<serverVars, term, finishing>>
      /\ Typed /\ Started(conn[c], term[c])
      BY KnownOf DEF Reply
<1>2. caller' \in [Callers -> {"no", "called", "waiting"}]
      BY <1>1 DEF Reply, Typed, Callers
<1>3. conn[c].reply \in Replies
      BY <1>1 DEF Connection
<1>4. Moved(c, "answered", conn[c].reply)
      BY <1>1, GotoMoves
<1>5. conn[c].reply = "ok" /\ conn[c].request = "kill-window"
          => /\ OverOrStuck(conn[c].target) /\ conn[c].target \notin table
             /\ conn[c].target \in Conns /\ term[conn[c].target].listed
      BY DEF ServerInv, Rest, Killers
<1>6. MayBe(c, "answered", conn[c].reply)
      BY <1>1, <1>5
<1> QED BY <1>1, <1>2, <1>3, <1>4, <1>6, MoveKeeps

----------------------------------------------------------------------------
\* The steps of a connection that change its terminal or the server

\* A client connects, to no effect on the server.
LEMMA DialKeeps == ASSUME ServerInv, NEW c \in Conns, Dial(c) PROVE ServerInv'
<1> USE ServerAssumption
<1>1. /\ Typed /\ conn[c].pc = "away" /\ conn[c].reply = None /\ Started(conn[c], term[c])
      /\ UNCHANGED <<serverVars, term, caller, finishing>>
      BY KnownOf DEF Dial, Requested, Handled
<1>2. PICK r \in Requests, t \in Conns : DialAs(c, r, t)
      BY DEF Dial, DialAs
<1>3. /\ conn' \in [Conns -> Connection]
      /\ conn'[c].pc = "dialled" /\ conn'[c].request = r
      /\ conn'[c].target = t /\ conn'[c].reply = None
      /\ \A d \in Conns \ {c} : conn'[d] = conn[d]
      BY <1>1, <1>2, DialMoves
<1>4. Typed'
      BY <1>1, <1>3 DEF Typed, serverVars
<1>5. IsCounted'
  <2>1. Counted' = Counted
        BY <1>1, <1>3 DEF Counted, InHandler
  <2> QED BY <1>1, <2>1 DEF ServerInv, IsCounted, serverVars
<1>6. Connections'
      BY <1>1, <1>3 DEF ServerInv, Typed, Rest, Connections, Requested, Started, Creating,
                        Killing, Handled, serverVars
<1>7. Table' /\ OneShutdown'
      BY <1>1 DEF ServerInv, Rest, Table, OneShutdown, OverOrStuck, serverVars
<1>8. Killers'
      BY <1>1, <1>3 DEF ServerInv, Typed, Rest, Killers, OverOrStuck, serverVars
<1>9. Answerable'
      BY <1>1, <1>3 DEF ServerInv, Typed, Rest, Answerable, IsDrained, TakenOff, serverVars
<1>10. IdleAlone'
      BY <1>1, <1>3 DEF ServerInv, Rest, IdleAlone, InHandler, serverVars
<1> QED BY <1>4, <1>5, <1>6, <1>7, <1>8, <1>9, <1>10 DEF ServerInv, Rest

\* acceptLoop has the connection and has not counted it.
LEMMA AcceptKeeps == ASSUME ServerInv, NEW c \in Conns, Accept(c) PROVE ServerInv'
<1> USE ServerAssumption
<1>1. /\ Typed /\ conn[c].pc = "dialled" /\ conn[c].reply = None /\ accepted' = c
      /\ UNCHANGED <<table, conns, recent, closing, stopped, listening, main, term, caller,
                     finishing>>
      BY KnownOf DEF Accept, Requested, Handled
<1>2. Moved(c, "accepted", None)
      BY <1>1, GotoMoves DEF Accept, ConnStates
<1>3. Typed'
      BY <1>1, <1>2 DEF Typed, Moved
<1>4. IsCounted'
  <2>1. Counted' = Counted
        BY <1>1, <1>2, CountStays DEF Inside, InHandler
  <2> QED BY <1>1, <2>1 DEF ServerInv, IsCounted
<1>5. Connections'
      BY <1>1, <1>2 DEF ServerInv, Typed, Rest, Connections, Requested, Started, Creating,
                        Killing, Handled, Moved
<1>6. Table' /\ OneShutdown'
      BY <1>1 DEF ServerInv, Rest, Table, OneShutdown, OverOrStuck
<1>7. Killers'
      BY <1>1, <1>2 DEF ServerInv, Typed, Rest, Killers, OverOrStuck, Moved
<1>8. Answerable'
      BY <1>1, <1>2 DEF ServerInv, Typed, Rest, Answerable, IsDrained, TakenOff, Moved
<1>9. IdleAlone'
      BY <1>1, <1>2 DEF ServerInv, Rest, IdleAlone, InHandler, Moved
<1> QED BY <1>3, <1>4, <1>5, <1>6, <1>7, <1>8, <1>9 DEF ServerInv, Rest

\* acceptLoop counts it and starts its handler.
LEMMA CountKeeps == ASSUME ServerInv, Count PROVE ServerInv'
<1> USE ServerAssumption
<1> DEFINE c == accepted
<1>1. /\ c \in Conns /\ Typed /\ conn[c].pc = "accepted" /\ conn[c].reply = None
      /\ conns' = conns + 1 /\ recent' = TRUE /\ accepted' = None
      /\ UNCHANGED <<table, closing, stopped, listening, main, term, caller, finishing>>
      BY DEF Count, ServerInv, Typed, Rest, Connections, Requested, Handled
<1>2. Moved(c, "counted", None)
      BY <1>1, GotoMoves DEF Count, ConnStates
<1> HIDE DEF c
<1>3. Typed'
      BY <1>1, <1>2 DEF Typed, Moved
<1>4. IsCounted'
      BY <1>1, <1>2, CountGrows DEF ServerInv
<1>5. Connections'
      BY <1>1, <1>2 DEF ServerInv, Typed, Rest, Connections, Requested, Started, Creating,
                        Killing, Handled, Moved
<1>6. Table' /\ OneShutdown'
      BY <1>1 DEF ServerInv, Rest, Table, OneShutdown, OverOrStuck
<1>7. Killers'
      BY <1>1, <1>2 DEF ServerInv, Typed, Rest, Killers, OverOrStuck, Moved
<1>8. Answerable'
      BY <1>1, <1>2 DEF ServerInv, Typed, Rest, Answerable, IsDrained, TakenOff, Moved
<1>9. IdleAlone'
      BY <1>1, <1>2 DEF ServerInv, Rest, IdleAlone, InHandler, Moved
<1> QED BY <1>3, <1>4, <1>5, <1>6, <1>7, <1>8, <1>9 DEF ServerInv, Rest

\* The handler's deferred call uncounts it.
LEMMA UncountKeeps == ASSUME ServerInv, NEW c \in Conns, Uncount(c) PROVE ServerInv'
<1> USE ServerAssumption
<1>1. /\ Typed /\ conn[c].pc = "answered" /\ conn[c] \in Connection
      /\ conns' = conns - 1 /\ recent' = TRUE
      /\ UNCHANGED <<table, closing, stopped, listening, accepted, main, term, caller, finishing>>
      BY KnownOf DEF Uncount
<1>2. Moved(c, "over", conn[c].reply)
      BY <1>1, GotoMoves DEF Uncount, ConnStates
<1>3. IsCounted' /\ conns' \in Nat
      BY <1>1, <1>2, CountShrinks DEF ServerInv
<1>4. Typed'
      BY <1>1, <1>2, <1>3 DEF Typed, Moved
<1>5. Connections'
      BY <1>1, <1>2 DEF ServerInv, Typed, Rest, Connections, Requested, Started, Creating,
                        Killing, Handled, Moved
<1>6. Table' /\ OneShutdown'
      BY <1>1 DEF ServerInv, Rest, Table, OneShutdown, OverOrStuck
<1>7. Killers'
      BY <1>1, <1>2 DEF ServerInv, Typed, Rest, Killers, OverOrStuck, Moved
<1>8. Answerable'
      BY <1>1, <1>2 DEF ServerInv, Typed, Rest, Answerable, IsDrained, TakenOff, Moved
<1>9. IdleAlone'
      BY <1>1, <1>2 DEF ServerInv, Rest, IdleAlone, InHandler, Moved
<1> QED BY <1>3, <1>4, <1>5, <1>6, <1>7, <1>8, <1>9 DEF ServerInv, Rest

\* The program is started outside the lock, or cannot be (server.go:488-496).
LEMMA StartProgramKeeps == ASSUME ServerInv, NEW c \in Conns, StartProgram(c) PROVE ServerInv'
<1> USE ServerAssumption
<1>1. /\ Typed /\ conn[c].pc = "numbered" /\ conn[c].request = "new-window" /\ conn[c].reply = None
      /\ UNCHANGED <<serverVars, caller, finishing>>
      /\ caller \in [Callers -> {"no", "called", "waiting"}]
      /\ term[c] \in Terminal /\ Started(conn[c], term[c])
      BY KnownOf DEF StartProgram, Typed, Requested, Creating, Handled
<1>2. finishing.who # "idle"
      BY <1>1 DEF ServerInv, Rest, IdleAlone, InHandler
<1>3. CASE Answer(c, "failed") /\ UNCHANGED term
  <2>1. Moved(c, "reply", "failed")
        BY <1>1, <1>3, AnswerMoves DEF Replies
  <2>2. MayBe(c, "reply", "failed")
        BY <1>1, <1>2 DEF MayBe, Started, Creating, Killing, Handled, InHandler, Inside
  <2> QED BY <1>1, <1>3, <2>1, <2>2, MoveKeeps DEF Replies, ConnStates, InHandler
<1>4. CASE Goto(c, "started") /\ term' = [term EXCEPT ![c].phase = "running"]
  <2>1. Moved(c, "started", None)
        BY <1>1, <1>4, GotoMoves DEF ConnStates, InHandler
  <2>2. Turned(c, "running", term[c].reader, term[c].killed, term[c].stuck, term[c].listed)
        BY <1>1, <1>4, PhaseMoves
  <2>3. ~term[c].reader /\ ~term[c].listed /\ term[c].phase = "none"
        BY <1>1 DEF Started, Handled
  <2>4. Typed'
        BY <1>1, <2>1, <2>2 DEF Typed, Moved, Turned, serverVars
  <2>5. IsCounted'
    <3>1. Counted' = Counted
          BY <1>1, <2>1, CountStays DEF Inside, InHandler
    <3> QED BY <1>1, <3>1 DEF ServerInv, IsCounted, serverVars
  <2>6. Connections'
        BY <1>1, <2>1, <2>2, <2>3 DEF ServerInv, Typed, Rest, Connections, Requested, Started,
                                      Creating, Killing, Handled, Moved, Turned, serverVars
  <2>7. Table'
        BY <1>1, <2>2, <2>3 DEF ServerInv, Typed, Rest, Table, Turned, serverVars
  <2>8. Killers'
        BY <1>1, <2>1, <2>2, <2>3
        DEF ServerInv, Typed, Rest, Killers, OverOrStuck, Moved, Turned, serverVars
  <2>9. Answerable'
        BY <1>1, <2>1, <2>2, <2>3
        DEF ServerInv, Typed, Rest, Answerable, IsDrained, TakenOff, Moved, Turned, serverVars
  <2>10. OneShutdown'
        BY <1>1, <2>2, <2>3
        DEF ServerInv, Typed, Rest, OneShutdown, OverOrStuck, Turned, serverVars
  <2>11. IdleAlone'
        BY <1>1, <1>2 DEF IdleAlone
  <2> QED BY <2>4, <2>5, <2>6, <2>7, <2>8, <2>9, <2>10, <2>11 DEF ServerInv, Rest
<1> QED BY <1>3, <1>4 DEF StartProgram

\* newWindow registers the pane, unless a shutdown began meanwhile, and starts its
\* reader (server.go:505-522).
LEMMA RegisterKeeps == ASSUME ServerInv, NEW c \in Conns, Register(c) PROVE ServerInv'
<1> USE ServerAssumption
<1>1. /\ Typed /\ conn[c].pc = "started" /\ conn[c].request = "new-window" /\ conn[c].reply = None
      /\ UNCHANGED <<conns, closing, stopped, listening, accepted, main, caller, finishing>>
      /\ term[c] \in Terminal /\ term[c].phase \in {"running", "exited"}
      /\ ~term[c].reader /\ ~term[c].listed
      BY KnownOf DEF Register, Requested, Started, Creating, Handled
<1>2. finishing.who # "idle"
      BY <1>1 DEF ServerInv, Rest, IdleAlone, InHandler
<1>3. PICK l \in {"refusing", "reply"}, r \in {None, "ok"}, listed \in BOOLEAN :
          /\ Moved(c, l, r)
          /\ Turned(c, term[c].phase, TRUE, term[c].killed, term[c].stuck, listed)
          /\ l = "reply" <=> listed
          /\ l = "refusing" => r = None
          /\ listed => ~closing /\ table' = table \cup {c} /\ recent' = TRUE
          /\ ~listed => UNCHANGED <<table, recent>>
  <2>1. CASE closing
    <3>1. Goto(c, "refusing") /\ term' = [term EXCEPT ![c].reader = TRUE]
          /\ UNCHANGED <<table, recent>>
          BY <2>1 DEF Register
    <3>2. Moved(c, "refusing", None)
          BY <1>1, <3>1, GotoMoves DEF ConnStates, InHandler
    <3>3. Turned(c, term[c].phase, TRUE, term[c].killed, term[c].stuck, FALSE \/ term[c].listed)
          BY <1>1, <3>1, ReaderMoves
    <3>4. (FALSE \/ term[c].listed) = FALSE
          BY <1>1
    <3> QED BY <3>1, <3>2, <3>3, <3>4
  <2>2. CASE ~closing
    <3>1. /\ Answer(c, "ok") /\ table' = table \cup {c} /\ recent' = TRUE
          /\ term' = [term EXCEPT ![c].reader = TRUE, ![c].listed = TRUE]
          BY <2>2 DEF Register
    <3>2. Moved(c, "reply", "ok")
          BY <1>1, <3>1, AnswerMoves DEF Replies
    <3>3. Turned(c, term[c].phase, TRUE, term[c].killed, term[c].stuck, TRUE \/ term[c].listed)
          BY <1>1, <3>1, ReaderMoves
    <3>4. (TRUE \/ term[c].listed) = TRUE
          OBVIOUS
    <3> QED BY <2>2, <3>1, <3>2, <3>3, <3>4
  <2> QED BY <2>1, <2>2
<1>4. Typed'
  <2>1. table' \in SUBSET Conns /\ recent' \in BOOLEAN
        BY <1>1, <1>3 DEF Typed
  <2> QED BY <1>1, <1>3, <2>1 DEF Typed, Moved, Turned
<1>5. IsCounted'
  <2>1. Counted' = Counted
        BY <1>1, <1>3, CountStays DEF Inside, InHandler
  <2> QED BY <1>1, <2>1 DEF ServerInv, IsCounted
<1>6. Connections'
      BY <1>1, <1>3 DEF ServerInv, Typed, Rest, Connections, Requested, Started, Creating,
                        Killing, Handled, Moved, Turned
<1>7. Table'
      BY <1>1, <1>3 DEF ServerInv, Typed, Rest, Table, Turned
<1>8. Killers'
      BY <1>1, <1>3 DEF ServerInv, Typed, Rest, Killers, OverOrStuck, Moved, Turned
<1>9. Answerable'
      BY <1>1, <1>3 DEF ServerInv, Typed, Rest, Answerable, IsDrained, TakenOff, Moved, Turned
<1>10. OneShutdown'
      BY <1>1, <1>3 DEF ServerInv, Typed, Rest, OneShutdown, OverOrStuck, Turned
<1>11. IdleAlone'
      BY <1>1, <1>2 DEF IdleAlone
<1> QED BY <1>4, <1>5, <1>6, <1>7, <1>8, <1>9, <1>10, <1>11 DEF ServerInv, Rest

\* A pane that was refused is killed (server.go:523-529).
LEMMA KillRefusedKeeps == ASSUME ServerInv, NEW c \in Conns, KillRefused(c) PROVE ServerInv'
<1> USE ServerAssumption
<1>1. /\ Typed /\ conn[c].pc = "refusing" /\ conn[c].request = "new-window" /\ conn[c].reply = None
      /\ UNCHANGED <<serverVars, caller, finishing>> /\ ~term[c].listed
      BY KnownOf DEF KillRefused, Requested, Started, Creating, Handled
<1>2. Moved(c, "reply", "refused")
      BY <1>1, AnswerMoves DEF KillRefused, Replies
<1>3. Turned(c, term[c].phase, term[c].reader, TRUE, term[c].stuck, term[c].listed)
      BY <1>1, KilledMoves DEF KillRefused
<1>4. finishing.who # "idle"
      BY <1>1 DEF ServerInv, Rest, IdleAlone, InHandler
<1>5. Typed'
      BY <1>1, <1>2, <1>3 DEF Typed, Moved, Turned, serverVars
<1>6. IsCounted'
  <2>1. Counted' = Counted
        BY <1>1, <1>2, CountStays DEF Inside, InHandler
  <2> QED BY <1>1, <2>1 DEF ServerInv, IsCounted, serverVars
<1>7. Connections'
      BY <1>1, <1>2, <1>3 DEF ServerInv, Typed, Rest, Connections, Requested, Started,
                              Creating, Killing, Handled, Moved, Turned, serverVars
<1>8. Table'
      BY <1>1, <1>3 DEF ServerInv, Typed, Rest, Table, Turned, serverVars
<1>9. Killers'
      BY <1>1, <1>2, <1>3 DEF ServerInv, Typed, Rest, Killers, OverOrStuck, Moved, Turned, serverVars
<1>10. Answerable'
      BY <1>1, <1>2, <1>3
      DEF ServerInv, Typed, Rest, Answerable, IsDrained, TakenOff, Moved, Turned, serverVars
<1>11. OneShutdown'
      BY <1>1, <1>3 DEF ServerInv, Typed, Rest, OneShutdown, OverOrStuck, Turned, serverVars
<1>12. IdleAlone'
      BY <1>1, <1>4 DEF IdleAlone
<1> QED BY <1>5, <1>6, <1>7, <1>8, <1>9, <1>10, <1>11, <1>12 DEF ServerInv, Rest

\* kill takes its target off the table and kills it (server.go:552-558).
LEMMA KillPaneKeeps == ASSUME ServerInv, NEW c \in Conns, KillPane(c) PROVE ServerInv'
<1> USE ServerAssumption
<1> DEFINE p == conn[c].target
<1>1. /\ Typed /\ conn[c].pc = "found" /\ conn[c].request = "kill-window" /\ conn[c].reply = None
      /\ p \in Conns /\ table' = table \ {p} /\ recent' = TRUE
      /\ UNCHANGED <<conns, closing, stopped, listening, accepted, main, caller, finishing>>
      BY KnownOf DEF KillPane, Requested, Killing, Handled
<1>2. Moved(c, "draining", None)
      BY <1>1, GotoMoves DEF KillPane, ConnStates, InHandler
<1>3. Turned(p, term[p].phase, term[p].reader, TRUE, term[p].stuck, term[p].listed)
      BY <1>1, KilledMoves DEF KillPane
<1>4. term[p].listed
      BY <1>1 DEF ServerInv, Rest, Killers
<1>5. finishing.who # "idle" /\ p = conn[c].target
      BY <1>1 DEF ServerInv, Rest, IdleAlone, InHandler
<1> HIDE DEF p
<1>6. Typed'
      BY <1>1, <1>2, <1>3 DEF Typed, Moved, Turned
<1>7. IsCounted'
  <2>1. Counted' = Counted
        BY <1>1, <1>2, CountStays DEF Inside, InHandler
  <2> QED BY <1>1, <2>1 DEF ServerInv, IsCounted
<1>8. Connections'
      BY <1>1, <1>2, <1>3, <1>5 DEF ServerInv, Typed, Rest, Connections, Requested, Started,
                              Creating, Killing, Handled, Moved, Turned
<1>9. Table'
      BY <1>1, <1>3 DEF ServerInv, Typed, Rest, Table, Turned
<1>10. Killers'
  <2>1. \A q \in Conns :
            /\ term'[q].listed = term[q].listed /\ term'[q].phase = term[q].phase
            /\ term'[q].stuck = term[q].stuck
        BY <1>1, <1>3 DEF Turned
  <2>2. conn'[c].reply = None /\ conn'[c].target = p /\ conn'[c].pc = "draining"
        BY <1>2, <1>5 DEF Moved
  <2>3. \A d \in Conns \ {c} : conn'[d] = conn[d]
        BY <1>2 DEF Moved
  <2> QED BY <1>1, <1>4, <2>1, <2>2, <2>3 DEF ServerInv, Rest, Killers, OverOrStuck
<1>11. Answerable'
      BY <1>1, <1>2, <1>3, <1>5
      DEF ServerInv, Typed, Rest, Answerable, IsDrained, TakenOff, Moved, Turned
<1>12. OneShutdown'
      BY <1>1, <1>3 DEF ServerInv, Typed, Rest, OneShutdown, OverOrStuck, Turned
<1>13. IdleAlone'
      BY <1>1, <1>5 DEF IdleAlone
<1> QED BY <1>6, <1>7, <1>8, <1>9, <1>10, <1>11, <1>12, <1>13 DEF ServerInv, Rest

----------------------------------------------------------------------------
\* The steps of a terminal

\* A terminal changes, its connection and the shutdown do not.
LEMMA TurnKeeps ==
  ASSUME ServerInv, NEW p \in Conns,
         NEW s \in {"running", "exited", "finishing", "gone"}, NEW stuck \in BOOLEAN,
         Turned(p, s, term[p].reader, term[p].killed, stuck, term[p].listed),
         UNCHANGED <<conns, closing, stopped, listening, accepted, main, conn, caller, finishing>>,
         recent' \in BOOLEAN,
         table' = table \/ (table' = table \ {p} /\ s = "finishing"),
         p \in table' => s \in {"running", "exited"},
         s \in {"running", "exited"} => term[p].phase \in {"running", "exited"},
         conn[p].pc \in {"started", "refusing"} \cup Handled,
         conn[p].pc = "started" => s \in {"running", "exited"},
         IsDrained(p) => s \in {"finishing", "gone"} \/ stuck,
         OverOrStuck(p) => s = "gone" \/ stuck,
         stuck => term[p].killed
  PROVE  ServerInv'
<1> USE ServerAssumption
<1>1. Typed'
      BY DEF ServerInv, Typed, Turned
<1>2. IsCounted'
      BY DEF ServerInv, IsCounted, Counted
<1>3. Connections'
      BY DEF ServerInv, Typed, Rest, Connections, Started, Requested, Handled, Turned
<1>4. Table'
      BY DEF ServerInv, Typed, Rest, Table, Turned
<1>5. Killers'
      BY DEF ServerInv, Typed, Rest, Killers, OverOrStuck, Turned
<1>6. Answerable'
      BY DEF ServerInv, Typed, Rest, Answerable, IsDrained, TakenOff, Turned
<1>7. OneShutdown'
      BY DEF ServerInv, Typed, Rest, OneShutdown, OverOrStuck, Turned
<1>8. IdleAlone'
      BY DEF ServerInv, Typed, Rest, IdleAlone, Turned
<1> QED BY <1>1, <1>2, <1>3, <1>4, <1>5, <1>6, <1>7, <1>8 DEF ServerInv, Rest

\* The program exits by itself or killed.
LEMMA ExitProgramKeeps == ASSUME ServerInv, NEW p \in Conns, ExitProgram(p) PROVE ServerInv'
<1>1. /\ Typed /\ Started(conn[p], term[p]) /\ term[p] \in Terminal
      /\ term[p].phase = "running" /\ term[p].stuck = FALSE
      /\ UNCHANGED <<serverVars, conn, caller, finishing>>
      BY KnownOf DEF ExitProgram, Terminal
<1>2. Turned(p, "exited", term[p].reader, term[p].killed, FALSE, term[p].listed)
      BY <1>1, PhaseMoves DEF ExitProgram
<1>3. table' = table /\ recent' \in BOOLEAN
      BY <1>1 DEF Typed, serverVars
<1> QED BY <1>1, <1>2, <1>3, TurnKeeps DEF Started, IsDrained, OverOrStuck, serverVars

\* A killed program is stuck.
LEMMA GetStuckKeeps == ASSUME ServerInv, NEW p \in Conns, GetStuck(p) PROVE ServerInv'
<1>1. /\ Typed /\ Started(conn[p], term[p]) /\ term[p].phase = "running" /\ term[p].killed
      /\ UNCHANGED <<serverVars, conn, caller, finishing>>
      BY KnownOf DEF GetStuck
<1>2. Turned(p, "running", term[p].reader, term[p].killed, TRUE, term[p].listed)
      BY <1>1, StuckMoves DEF GetStuck
<1>3. table' = table /\ recent' \in BOOLEAN
      BY <1>1 DEF Typed, serverVars
<1> QED BY <1>1, <1>2, <1>3, TurnKeeps DEF Started, IsDrained, OverOrStuck, serverVars

\* The reader of a terminal whose program exited takes it off the table (finish).
LEMMA FinishPaneKeeps == ASSUME ServerInv, NEW p \in Conns, FinishPane(p) PROVE ServerInv'
<1>1. /\ Typed /\ Started(conn[p], term[p]) /\ term[p] \in Terminal
      /\ term[p].phase = "exited" /\ term[p].reader
      /\ table' = table \ {p} /\ recent' = TRUE
      /\ UNCHANGED <<conns, closing, stopped, listening, accepted, main, conn, caller, finishing>>
      BY KnownOf DEF FinishPane
<1>2. Turned(p, "finishing", term[p].reader, term[p].killed, term[p].stuck, term[p].listed)
      BY <1>1, PhaseMoves DEF FinishPane
<1>3. term[p].stuck \in BOOLEAN /\ (term[p].stuck => term[p].killed)
      BY <1>1 DEF Terminal, ServerInv, Rest, Answerable
<1>4. recent' \in BOOLEAN /\ p \notin table'
      BY <1>1
<1>5. conn[p].pc \in {"refusing"} \cup Handled
      BY <1>1 DEF Started
<1>6. conn[p].pc # "started"
      BY <1>5 DEF Handled
<1>7. /\ IsDrained(p) => "finishing" \in {"finishing", "gone"} \/ term[p].stuck
      /\ OverOrStuck(p) => "finishing" = "gone" \/ term[p].stuck
      BY <1>1 DEF IsDrained, OverOrStuck
<1> QED BY <1>1, <1>2, <1>3, <1>4, <1>5, <1>6, <1>7, TurnKeeps

\* Its files are closed, so that whoever waits for it goes on.
LEMMA CloseFilesKeeps == ASSUME ServerInv, NEW p \in Conns, CloseFiles(p) PROVE ServerInv'
<1>1. /\ Typed /\ Started(conn[p], term[p]) /\ term[p] \in Terminal /\ term[p].phase = "finishing"
      /\ UNCHANGED <<serverVars, conn, caller, finishing>>
      BY KnownOf DEF CloseFiles
<1>2. Turned(p, "gone", term[p].reader, term[p].killed, term[p].stuck, term[p].listed)
      BY <1>1, PhaseMoves DEF CloseFiles
<1>3. term[p].stuck \in BOOLEAN /\ (term[p].stuck => term[p].killed) /\ p \notin table
      BY <1>1 DEF Terminal, ServerInv, Rest, Answerable, Table
<1>4. table' = table /\ recent' \in BOOLEAN
      BY <1>1 DEF Typed, serverVars
<1> QED BY <1>1, <1>2, <1>3, <1>4, TurnKeeps DEF Started, IsDrained, OverOrStuck, serverVars

----------------------------------------------------------------------------
\* The shutdown

\* Nobody inside a handler, nothing in the table: an idle exit may begin
\* (shutdownIfIdle, server.go:276-291).
LEMMA ShutdownIfIdleKeeps == ASSUME ServerInv, ShutdownIfIdle PROVE ServerInv'
<1> USE ServerAssumption
<1>1. /\ ~closing /\ table = {} /\ conns = 0 /\ closing' = TRUE
      /\ finishing' = [who |-> "idle", pc |-> "close", panes |-> {}]
      /\ UNCHANGED <<table, conns, recent, stopped, listening, accepted, main, conn, term, caller>>
      BY DEF ShutdownIfIdle, Begin
<1>2. /\ finishing.panes = {} /\ finishing.pc = "off"
      /\ \A c \in Conns : conn[c].pc \notin Inside
      BY <1>1, NobodyInside DEF ServerInv, Rest, OneShutdown
<1>3. Typed'
      BY <1>1 DEF ServerInv, Typed
<1>4. IsCounted'
      BY <1>1 DEF ServerInv, IsCounted, Counted
<1>5. Connections' /\ Table' /\ Killers'
      BY <1>1 DEF ServerInv, Rest, Connections, Table, Killers, OverOrStuck
<1>6. Answerable'
      BY <1>1, <1>2 DEF ServerInv, Rest, Answerable, IsDrained, TakenOff
<1>7. OneShutdown'
      BY <1>1, <1>2 DEF ServerInv, Rest, OneShutdown
<1>8. IdleAlone'
      BY <1>1, <1>2 DEF ServerInv, Rest, Answerable, IdleAlone, Inside, InHandler
<1> QED BY <1>3, <1>4, <1>5, <1>6, <1>7, <1>8 DEF ServerInv, Rest

\* The first caller of shutdown takes the table over (server.go:293-303).
LEMMA ShutdownKeeps == ASSUME ServerInv, NEW i \in Callers, Shutdown(i) PROVE ServerInv'
<1> USE ServerAssumption
<1>1. /\ UNCHANGED <<conns, recent, stopped, listening, accepted, main, conn, term>>
      /\ caller' = [caller EXCEPT ![i] = "waiting"]
      BY DEF Shutdown
<1>2. IsCounted' /\ Connections'
      BY <1>1 DEF ServerInv, Rest, IsCounted, Counted, Connections
<1>3. CASE closing
  <2>1. UNCHANGED <<closing, table, finishing>>
        BY <1>3 DEF Shutdown
  <2>2. Typed'
        BY <1>1, <2>1 DEF ServerInv, Typed
  <2>3. Table' /\ Killers' /\ OneShutdown'
        BY <1>1, <2>1 DEF ServerInv, Rest, Table, Killers, OneShutdown, OverOrStuck
  <2>4. Answerable' /\ IdleAlone'
        BY <1>1, <2>1 DEF ServerInv, Rest, Answerable, IsDrained, TakenOff, IdleAlone
  <2> QED BY <1>2, <2>2, <2>3, <2>4 DEF ServerInv, Rest
<1>4. CASE ~closing
  <2>1. /\ closing' = TRUE /\ table' = {}
        /\ finishing' = [who |-> i, pc |-> "close", panes |-> table]
        BY <1>4 DEF Shutdown, Begin
  <2>2. /\ finishing.panes = {} /\ finishing.pc = "off"
        BY <1>4 DEF ServerInv, Rest, OneShutdown
  <2>3. Typed'
        BY <1>1, <2>1 DEF ServerInv, Typed
  <2>4. Table'
        BY <2>1 DEF Table
  <2>5. Killers'
        BY <1>1, <2>1 DEF ServerInv, Rest, Killers, OverOrStuck
  <2>6. Answerable'
        BY <1>1, <2>1, <2>2 DEF ServerInv, Rest, Answerable, IsDrained, TakenOff
  <2>7. OneShutdown'
        BY <1>1, <1>4, <2>1, <2>2 DEF ServerInv, Rest, OneShutdown
  <2>8. IdleAlone'
        BY <2>1 DEF IdleAlone, Callers
  <2> QED BY <1>2, <2>3, <2>4, <2>5, <2>6, <2>7, <2>8 DEF ServerInv, Rest
<1> QED BY <1>3, <1>4

\* finishShutdown closes the listener, ...
LEMMA CloseListenerKeeps == ASSUME ServerInv, CloseListener PROVE ServerInv'
<1>1. /\ finishing.pc = "close" /\ listening' = FALSE
      /\ finishing' \in [who : {finishing.who}, pc : {"kill"}, panes : {finishing.panes}]
      /\ UNCHANGED <<table, conns, recent, closing, stopped, accepted, main, conn, term, caller>>
      BY DEF CloseListener, ServerInv, Typed
<1>2. Typed' /\ IsCounted'
      BY <1>1 DEF ServerInv, Typed, IsCounted, Counted
<1>3. Connections' /\ Table' /\ Killers' /\ OneShutdown'
      BY <1>1 DEF ServerInv, Rest, Connections, Table, Killers, OneShutdown, OverOrStuck
<1>4. Answerable' /\ IdleAlone'
      BY <1>1 DEF ServerInv, Rest, Answerable, IsDrained, TakenOff, IdleAlone
<1> QED BY <1>2, <1>3, <1>4 DEF ServerInv, Rest

\* ... kills the panes it took, ...
LEMMA KillPanesKeeps == ASSUME ServerInv, KillPanes PROVE ServerInv'
<1>1. /\ finishing.pc = "kill" /\ Typed
      /\ finishing' \in [who : {finishing.who}, pc : {"wait"}, panes : {finishing.panes}]
      /\ UNCHANGED <<serverVars, conn, caller>>
      BY DEF KillPanes, ServerInv, Typed
<1>2. /\ term' \in [Conns -> Terminal]
      /\ \A p \in Conns :
             /\ term'[p].phase = term[p].phase /\ term'[p].reader = term[p].reader
             /\ term'[p].killed = (term[p].killed \/ p \in finishing.panes)
             /\ term'[p].stuck = term[p].stuck /\ term'[p].listed = term[p].listed
      BY <1>1, KillPanesMoves
<1>3. Typed'
      BY <1>1, <1>2 DEF Typed, serverVars
<1>4. IsCounted'
      BY <1>1 DEF ServerInv, IsCounted, Counted, serverVars
<1>5. Connections'
      BY <1>1, <1>2 DEF ServerInv, Rest, Connections, Started, serverVars
<1>6. Table'
      BY <1>1, <1>2 DEF ServerInv, Rest, Typed, Table, serverVars
<1>7. Killers'
      BY <1>1, <1>2 DEF ServerInv, Rest, Killers, OverOrStuck, serverVars
<1>8. Answerable'
  <2>1. finishing'.panes = finishing.panes /\ table' = table /\ conn' = conn
        BY <1>1 DEF serverVars
  <2>2. \A p \in Conns : term[p].killed => term'[p].killed
        BY <1>2
  <2> QED BY <1>2, <2>1, <2>2 DEF ServerInv, Rest, Answerable, IsDrained, TakenOff
<1>9. OneShutdown' /\ IdleAlone'
      BY <1>1, <1>2 DEF ServerInv, Rest, OneShutdown, IdleAlone, serverVars
<1> QED BY <1>3, <1>4, <1>5, <1>6, <1>7, <1>8, <1>9 DEF ServerInv, Rest

\* ... and waits for them no longer than killWait.
LEMMA AllDrainedKeeps == ASSUME ServerInv, AllDrained PROVE ServerInv'
<1>1. /\ finishing.pc = "wait" /\ stopped' = TRUE
      /\ \A p \in finishing.panes : OverOrStuck(p)
      /\ finishing' \in [who : {finishing.who}, pc : {"over"}, panes : {finishing.panes}]
      /\ UNCHANGED <<table, conns, recent, closing, listening, accepted, main, conn, term, caller>>
      BY DEF AllDrained, ServerInv, Typed
<1>2. Typed' /\ IsCounted'
      BY <1>1 DEF ServerInv, Typed, IsCounted, Counted
<1>3. Connections' /\ Table' /\ Killers' /\ OneShutdown'
      BY <1>1 DEF ServerInv, Rest, Connections, Table, Killers, OneShutdown, OverOrStuck
<1>4. Answerable' /\ IdleAlone'
      BY <1>1 DEF ServerInv, Rest, Answerable, IsDrained, TakenOff, IdleAlone
<1> QED BY <1>2, <1>3, <1>4 DEF ServerInv, Rest

\* The steps of the main loop, of time and of signals say nothing of connections
\* and terminals.
LEMMA MainKeeps ==
  ASSUME ServerInv, AcceptEnds \/ TimePasses \/ ReceiveSignal \/ Exit PROVE ServerInv'
<1>1. /\ UNCHANGED <<table, conns, closing, stopped, listening, accepted, conn, term, finishing>>
      /\ main' = "exited" => stopped \/ main' = main
      BY DEF AcceptEnds, TimePasses, ReceiveSignal, Exit, serverVars
<1>2. Typed'
  <2>1. /\ recent' \in BOOLEAN /\ main' \in {"accepting", "over", "exited"}
        /\ caller' \in [Callers -> {"no", "called", "waiting"}]
        BY DEF ServerInv, Typed, AcceptEnds, TimePasses, ReceiveSignal, Exit, serverVars, Callers
  <2> QED BY <1>1, <2>1 DEF ServerInv, Typed
<1>3. IsCounted'
      BY <1>1 DEF ServerInv, IsCounted, Counted
<1>4. Connections' /\ Table' /\ Killers' /\ OneShutdown'
      BY <1>1 DEF ServerInv, Rest, Connections, Table, Killers, OneShutdown, OverOrStuck
<1>5. Answerable' /\ IdleAlone'
      BY <1>1 DEF ServerInv, Rest, Answerable, IsDrained, TakenOff, IdleAlone
<1> QED BY <1>2, <1>3, <1>4, <1>5 DEF ServerInv, Rest

----------------------------------------------------------------------------
\* The properties

\* A server that has just been started has no connection and no terminal (Init).
LEMMA ServerInvInit == Init => ServerInv
<1> SUFFICES ASSUME Init PROVE ServerInv
    OBVIOUS
<1> USE ServerAssumption
<1>1. Typed
      BY DEF Init, Typed, Connection, Terminal, ConnStates, InHandler, Replies, Callers
<1>2. IsCounted
  <2>1. Counted = {}
        BY DEF Init, Counted, InHandler
  <2> QED BY <2>1, FS_EmptySet DEF Init, IsCounted
<1>3. Rest
      BY DEF Init, Rest, Connections, Requested, Started, Creating, Killing, Handled, Table,
             Killers, Answerable, IsDrained, OneShutdown, IdleAlone
<1> QED BY <1>1, <1>2, <1>3 DEF ServerInv

\* Every step of the server preserves the invariant.
LEMMA ServerInvStep == ServerInv /\ [Next]_vars => ServerInv'
<1> SUFFICES ASSUME ServerInv, [Next]_vars PROVE ServerInv'
    OBVIOUS
<1>1. ASSUME NEW c \in Conns, Dial(c) \/ Accept(c) \/ Handler(c) PROVE ServerInv'
      BY <1>1, DialKeeps, AcceptKeeps, HandleKeeps, NumberWindowKeeps, StartProgramKeeps,
         RegisterKeeps, KillRefusedKeeps, LookupPaneKeeps, KillPaneKeeps, DrainedKeeps,
         ReplyKeeps, UncountKeeps DEF Handler
<1>2. ASSUME NEW p \in Conns, ExitProgram(p) \/ GetStuck(p) \/ FinishPane(p) \/ CloseFiles(p)
      PROVE  ServerInv'
      BY <1>2, ExitProgramKeeps, GetStuckKeeps, FinishPaneKeeps, CloseFilesKeeps
<1>3. CASE Count
      BY <1>3, CountKeeps
<1>4. CASE AcceptEnds \/ TimePasses \/ ReceiveSignal \/ Exit
      BY <1>4, MainKeeps
<1>5. CASE ShutdownIfIdle
      BY <1>5, ShutdownIfIdleKeeps
<1>6. CASE \E i \in Callers : Shutdown(i)
      BY <1>6, ShutdownKeeps
<1>7. CASE Finisher
      BY <1>7, CloseListenerKeeps, KillPanesKeeps, AllDrainedKeeps DEF Finisher
<1>8. CASE UNCHANGED vars
      BY <1>8 DEF vars, serverVars, ServerInv, Typed, IsCounted, Counted, Rest, Connections, Table,
                  Killers, OverOrStuck, Answerable, IsDrained, TakenOff, OneShutdown, IdleAlone
<1> QED BY <1>1, <1>2, <1>3, <1>4, <1>5, <1>6, <1>7, <1>8 DEF Next

\* Of every state the server reaches.
LEMMA ServerInvHolds == Spec => []ServerInv
  BY ServerInvInit, ServerInvStep, PTL DEF Spec

\* Every variable keeps its type, and s.conns is never more than the connections
\* there are nor less than none.
THEOREM ServerTypeOK == Spec => []TypeOK
<1>1. ASSUME ServerInv PROVE TypeOK
  <2>1. conns \in 0..Cardinality(Conns)
    <3>1. Counted \subseteq Conns
          BY DEF Counted
    <3>2. Cardinality(Counted) <= Cardinality(Conns)
          BY <3>1, ServerAssumption, FS_Subset
    <3>3. Cardinality(Counted) \in Nat /\ Cardinality(Conns) \in Nat
          BY CountedFinite, ServerAssumption, FS_CardinalityType
    <3> QED BY <1>1, <3>2, <3>3 DEF ServerInv, IsCounted
  <2>2. \A c \in Conns : conn[c] \in Connection /\ term[c] \in Terminal
        BY <1>1 DEF ServerInv, Typed
  <2> QED BY <1>1, <2>1, <2>2 DEF ServerInv, Typed, TypeOK, Connection, Terminal, Replies
<1> QED BY <1>1, ServerInvHolds, PTL

\* A server that exits because it is idle (server.go:276-279) refuses what comes
\* too late and leaves no terminal running but one it could not kill.
THEOREM IdleExitLosesNothing == Spec => []IdleLosesNothing
<1>1. ServerInv => IdleLosesNothing
      BY DEF ServerInv, Rest, IdleAlone, IdleLosesNothing
<1> QED BY <1>1, ServerInvHolds, PTL

\* What is listed runs and has its reader (server.go:505-506), and what a kill was
\* answered for is neither listed nor running (server.go:548-552).
THEOREM ServerTableIsTrue == Spec => []TableIsTrue
<1>1. ServerInv => TableIsTrue
      BY DEF ServerInv, Rest, Table, Killers, TableIsTrue
<1> QED BY <1>1, ServerInvHolds, PTL

\* The process ends when every terminal it listed is drained or outlasted killWait,
\* save those a kill is still waiting for.
THEOREM ServerDrainsWhatItListed == Spec => []ListedIsDrained
<1>1. ServerInv => ListedIsDrained
      BY DEF ServerInv, Rest, Answerable, OneShutdown, ListedIsDrained, IsDrained, OverOrStuck
<1> QED BY <1>1, ServerInvHolds, PTL

\* closing is for good, stopped too: nothing is listed again once a shutdown has
\* begun (server.go:293-303).
THEOREM ServerStaysClosed ==
  Spec => [][closing => closing' /\ table' = {} /\ (stopped => stopped')]_vars
<1>1. ASSUME ServerInv, ServerInv', [Next]_vars, closing
      PROVE  closing' /\ table' = {} /\ (stopped => stopped')
  <2> USE DEF Next, Handler, Finisher, vars, serverVars, Dial, Accept, Count, AcceptEnds,
              Handle, NumberWindow, StartProgram, Register, KillRefused, LookupPane, KillPane,
              Drained, Reply, Uncount, ExitProgram, GetStuck, FinishPane, CloseFiles, TimePasses,
              ShutdownIfIdle, ReceiveSignal, Shutdown, CloseListener, KillPanes, AllDrained, Exit
  <2>1. closing'
        BY <1>1
  <2>2. stopped => stopped'
        BY <1>1
  <2> QED BY <1>1, <2>1, <2>2 DEF ServerInv, Rest, OneShutdown
<1>2. ServerInv /\ ServerInv' /\ [Next]_vars
          => [closing => closing' /\ table' = {} /\ (stopped => stopped')]_vars
      BY <1>1
<1> QED BY <1>2, ServerInvHolds, PTL DEF Spec

=============================================================================
