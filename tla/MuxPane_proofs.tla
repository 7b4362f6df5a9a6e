--------------------------- MODULE MuxPane_proofs ---------------------------
(***************************************************************************)
(* What the humans attached to a terminal see of its output is contiguous,   *)
(* and its input arrives in order, for any number of humans, any sizes of    *)
(* the two queues and any amount of output, input and resizing.              *)
(*                                                                           *)
(* NoTornView says nothing of the frames that are on their way, so it is not  *)
(* inductive.  Sound says of one client that the frames its writer has in     *)
(* hand and those queued behind them lead, one after the other, from what    *)
(* its human sees to what is recorded, or to the redraw that was promised;   *)
(* and that nothing is queued behind the exit frame.  InputInOrder is not     *)
(* inductive either: nothing in it says that the writer of the input has an   *)
(* empty hand when it takes the next message (InputSound does).              *)
(***************************************************************************)
EXTENDS MuxPane, SequenceTheorems, TLAPS

----------------------------------------------------------------------------
\* Frames on their way

\* A frame of any age.
AnyFrame == [type : {"output", "screen", "exit"}, upto : Nat]

Conns == {"new", "found", "joined", "live", "left"}
WriterPcs == {"off", "check", "asleep", "render", "take", "write", "done"}
Client ==
    [conn : Conns, pending : Seq(AnyFrame), redraw : BOOLEAN, ending : BOOLEAN, closed : BOOLEAN,
     wpc : WriterPcs, batch : Seq(AnyFrame), last : BOOLEAN,
     view : Nat, torn : BOOLEAN, told : BOOLEAN]

\* What a screen that shows v shows after the first i frames of s.
At(v, s, i) == IF i = 0 THEN v ELSE s[i].upto

\* Every frame follows the one before: a chunk is the next one, a screen is not
\* older.  Nothing follows an exit frame.
Chain(v, s) ==
    \A i \in 1..Len(s) :
        /\ s[i].type = "output" => s[i].upto = At(v, s, i - 1) + 1
        /\ s[i].type = "screen" => s[i].upto >= At(v, s, i - 1)
        /\ s[i].type = "exit" => i = Len(s)

\* What is shown after all of them.
After(v, s) ==
    IF s = <<>> THEN v
    ELSE IF s[Len(s)].type = "exit" THEN At(v, s, Len(s) - 1) ELSE s[Len(s)].upto

HasExit(s) == \E i \in 1..Len(s) : s[i].type = "exit"
Recent(s, n) == \A i \in 1..Len(s) : s[i].upto <= n

\* A client between two steps: n chunks are recorded, in says whether the pane
\* knows it, dead whether the pane's end was announced.
Typical(r, n) ==
    /\ r \in Client /\ ~r.torn /\ r.view <= n
    /\ Recent(r.batch, n) /\ Recent(r.pending, n)
    /\ r.wpc # "write" => r.batch = <<>>
    /\ r.conn \in {"new", "found", "joined"} => r.wpc = "off"
    /\ Len(r.pending) <= Backlog + 1 /\ (~r.ending => Len(r.pending) <= Backlog)
    /\ r.redraw => r.pending = <<>> \/ (r.ending /\ r.pending = <<ExitFrame>>)
Placed(r, in, dead) ==
    /\ in => ~r.closed /\ ~r.ending /\ r.conn \in {"joined", "live"}
    /\ r.ending => dead
    /\ r.conn \in {"new", "found"} => ~in /\ ~r.closed /\ ~r.ending
    /\ r.conn \in {"joined", "live"} => in \/ r.ending \/ r.closed
    /\ ~in /\ ~r.ending /\ ~r.closed => r.wpc = "off" /\ ~r.redraw /\ r.pending = <<>>
Ended(r, n) ==
    /\ HasExit(r.pending) => r.ending
    /\ HasExit(r.batch) => r.ending /\ r.last /\ r.pending = <<>>
    /\ r.told => /\ r.ending /\ r.last /\ r.pending = <<>> /\ r.batch = <<>>
                 /\ r.wpc \in {"write", "done"}
                 /\ r.view = n \/ r.redraw
Contiguous(r, n, in) ==
    /\ Chain(r.view, r.batch) /\ Chain(After(r.view, r.batch), r.pending)
    /\ ~r.redraw /\ (in \/ r.ending) => After(After(r.view, r.batch), r.pending) = n

Sound(r, n, in, dead) ==
    /\ Typical(r, n) /\ Placed(r, in, dead) /\ Ended(r, n)
    /\ ~r.closed /\ ~r.told => Contiguous(r, n, in)

----------------------------------------------------------------------------
\* The invariant

Fins == {"reading", "ended", "unlisted", "told", "closed", "finished"}
Pane ==
    [listed : BOOLEAN, dead : BOOLEAN, gone : BOOLEAN, size : Sizes, seen : Nat, fin : Fins]

PaneOK ==
    /\ world \in Worlds
    /\ prog \in [printed : 0..world.outputs, exited : BOOLEAN]
    /\ pane \in Pane /\ pane.seen <= prog.printed
    /\ pane.dead <=> pane.fin \in {"told", "closed", "finished"}
    /\ pane.gone <=> pane.fin \in {"closed", "finished"}
    /\ pane.dead => clients = {}

ClientsOK ==
    /\ clients \subseteq Clients
    /\ DOMAIN cl = Clients
    /\ \A c \in Clients : /\ Sound(cl[c], pane.seen, c \in clients, pane.dead)
                          /\ cl[c].conn # "new" => c \in world.watchers

\* The messages taken and not yet written are numbered on from those written.
Input ==
    [queue : Seq(Nat), bytes : Nat, wpc : {"check", "asleep", "write", "done"},
     hand : Seq(Nat), accepted : Nat, written : Seq(Nat)]
InputSound(i, gone) ==
    /\ i \in Input /\ Len(i.queue) <= QueueMax
    /\ i.wpc = "write" => Len(i.hand) = 1
    /\ i.wpc # "write" => i.hand = <<>>
    /\ \A k \in 1..Len(i.written) : i.written[k] = k
    /\ ~gone =>
          /\ i.bytes = Len(i.queue)
          /\ i.accepted = Len(i.written) + Len(i.hand) + Len(i.queue)
          /\ \A k \in 1..Len(i.hand) : i.hand[k] = Len(i.written) + k
          /\ \A k \in 1..Len(i.queue) : i.queue[k] = Len(i.written) + Len(i.hand) + k
InputOK == InputSound(input, pane.gone)

PaneInv == PaneOK /\ ClientsOK /\ InputOK

----------------------------------------------------------------------------
\* Sequences of frames

\* A frame as its fields (output, screen and exit frames of attach_server.go).
LEMMA FrameIs ==
  ASSUME NEW f \in AnyFrame
  PROVE  f.type \in {"output", "screen", "exit"} /\ f.upto \in Nat
  BY DEF AnyFrame

\* The frames that are queued.
LEMMA FramesMade ==
  ASSUME NEW n \in Nat
  PROVE  /\ OutputFrame(n) \in AnyFrame /\ OutputFrame(n).type = "output" /\ OutputFrame(n).upto = n
         /\ ScreenFrame(n) \in AnyFrame /\ ScreenFrame(n).type = "screen" /\ ScreenFrame(n).upto = n
         /\ ExitFrame \in AnyFrame /\ ExitFrame.type = "exit" /\ ExitFrame.upto = 0
  BY DEF AnyFrame, OutputFrame, ScreenFrame, ExitFrame

\* The first of a sequence is taken off: what is left are the others, in order.
LEMMA TailIs ==
  ASSUME NEW S, NEW q \in Seq(S), q # <<>>
  PROVE  /\ Len(q) \in Nat /\ Len(q) >= 1 /\ Head(q) = q[1] /\ q[1] \in S
         /\ Tail(q) \in Seq(S) /\ Len(Tail(q)) = Len(q) - 1
         /\ \A k \in 1..Len(Tail(q)) : k + 1 \in 1..Len(q) /\ Tail(q)[k] = q[k + 1]
  OBVIOUS

\* One more at the end of a sequence.
LEMMA AppendIs ==
  ASSUME NEW S, NEW q \in Seq(S), NEW e \in S
  PROVE  /\ Len(q) \in Nat /\ Append(q, e) \in Seq(S) /\ Len(Append(q, e)) = Len(q) + 1
         /\ Append(q, e) # <<>>
         /\ \A k \in 1..Len(q) : k \in 1..(Len(q) + 1) /\ Append(q, e)[k] = q[k]
         /\ Append(q, e)[Len(q) + 1] = e
         /\ \A k \in 1..(Len(q) + 1) : k \in 1..Len(q) \/ k = Len(q) + 1
  <1> DEFINE n == Len(q)
             t == Append(q, e)
  <1>1. /\ t \in Seq(S) /\ t # <<>> /\ Len(t) = n + 1
        /\ \A k \in 1..n : t[k] = q[k]
        /\ t[n + 1] = e
    BY AppendProperties
  <1>2. n \in Nat
    OBVIOUS
  <1> HIDE DEF n, t
  <1>3. /\ \A k \in 1..n : k \in 1..(n + 1)
        /\ \A k \in 1..(n + 1) : k \in 1..n \/ k = n + 1
    BY <1>2
  <1> QED
    BY <1>1, <1>2, <1>3 DEF n, t

\* The only element of a sequence.
LEMMA AppendToNone == ASSUME NEW e PROVE Append(<<>>, e) = <<e>>
  OBVIOUS

\* Nothing on its way shows nothing new.
LEMMA NoFrames ==
  ASSUME NEW v \in Nat, NEW n
  PROVE  Chain(v, <<>>) /\ After(v, <<>>) = v /\ ~HasExit(<<>>) /\ Recent(<<>>, n)
  BY DEF Chain, After, HasExit, Recent

\* What a chain shows in the end is not newer than its frames.
LEMMA AfterIs ==
  ASSUME NEW v \in Nat, NEW s \in Seq(AnyFrame), NEW n \in Nat, v <= n,
         Recent(s, n)
  PROVE  After(v, s) \in Nat /\ After(v, s) <= n
  <1>1. \A i \in 1..Len(s) : s[i].upto \in Nat /\ s[i].upto <= n
    BY FrameIs DEF Recent
  <1>2. CASE s = <<>>
    BY <1>2 DEF After
  <1>3. CASE s # <<>>
    <2> DEFINE m == Len(s)
    <2>1. m \in Nat /\ m # 0
      BY <1>3
    <2> HIDE DEF m
    <2>2. m \in 1..m /\ (m - 1 = 0 \/ m - 1 \in 1..m)
      BY <2>1
    <2>3. At(v, s, m - 1) \in Nat /\ At(v, s, m - 1) <= n
      BY <1>1, <2>2 DEF At, m
    <2> QED
      BY <1>1, <1>3, <2>2, <2>3 DEF After, m
  <1> QED
    BY <1>2, <1>3

\* A frame that follows what is queued: the next chunk, a screen that is not
\* older, or the exit frame (push, finish).
LEMMA ChainAppend ==
  ASSUME NEW v \in Nat, NEW s \in Seq(AnyFrame), Chain(v, s), ~HasExit(s),
         NEW f \in AnyFrame,
         f.type = "output" => f.upto = After(v, s) + 1,
         f.type = "screen" => f.upto >= After(v, s)
  PROVE  /\ Chain(v, Append(s, f))
         /\ After(v, Append(s, f)) = IF f.type = "exit" THEN After(v, s) ELSE f.upto
         /\ HasExit(Append(s, f)) <=> f.type = "exit"
         /\ \A n \in Nat : Recent(s, n) /\ f.upto <= n => Recent(Append(s, f), n)
  <1> DEFINE t == Append(s, f)
             m == Len(s)
  <1>1. /\ m \in Nat /\ t \in Seq(AnyFrame) /\ Len(t) = m + 1 /\ t # <<>>
        /\ \A k \in 1..m : k \in 1..(m + 1) /\ t[k] = s[k]
        /\ t[m + 1] = f
        /\ \A k \in 1..(m + 1) : k \in 1..m \/ k = m + 1
    BY AppendIs
  <1> HIDE DEF t
  <1>2. m = 0 <=> s = <<>>
    BY DEF m
  <1>3. At(v, t, m) = After(v, s)
    <2>1. CASE s = <<>>
      BY <1>2, <2>1 DEF At, After
    <2>2. CASE s # <<>>
      <3>1. m \in 1..m /\ m # 0
        BY <1>1, <1>2, <2>2
      <3>2. s[m].type # "exit"
        BY <3>1 DEF HasExit
      <3> QED
        BY <1>1, <2>2, <3>1, <3>2 DEF At, After
    <2> QED
      BY <2>1, <2>2
  <1>4. \A k \in 1..m : At(v, t, k - 1) = At(v, s, k - 1) /\ s[k].type # "exit"
    <2> SUFFICES ASSUME NEW k \in 1..m
                 PROVE  At(v, t, k - 1) = At(v, s, k - 1) /\ s[k].type # "exit"
      OBVIOUS
    <2>1. k - 1 = 0 \/ k - 1 \in 1..m
      BY <1>1
    <2>2. At(v, t, k - 1) = At(v, s, k - 1)
      BY <1>1, <2>1 DEF At
    <2>3. s[k].type # "exit"
      BY DEF HasExit
    <2> QED
      BY <2>2, <2>3
  <1>5. (m + 1) - 1 = m
    BY <1>1
  <1>6. Chain(v, t)
    <2> SUFFICES ASSUME NEW i \in 1..(m + 1)
                 PROVE  /\ t[i].type = "output" => t[i].upto = At(v, t, i - 1) + 1
                        /\ t[i].type = "screen" => t[i].upto >= At(v, t, i - 1)
                        /\ t[i].type = "exit" => i = m + 1
      BY <1>1 DEF Chain
    <2>1. CASE i \in 1..m
      BY <1>1, <1>4, <2>1 DEF Chain
    <2>2. CASE i = m + 1
      BY <1>1, <1>3, <1>5, <2>2
    <2> QED
      BY <1>1, <2>1, <2>2
  <1>7. After(v, t) = IF f.type = "exit" THEN After(v, s) ELSE f.upto
    <2>1. After(v, t) = IF t[m + 1].type = "exit" THEN At(v, t, m) ELSE t[m + 1].upto
      BY <1>1, <1>5 DEF After
    <2> QED
      BY <1>1, <1>3, <2>1
  <1>8. HasExit(t) <=> f.type = "exit"
    <2>1. m + 1 \in 1..(m + 1)
      BY <1>1
    <2> QED
      BY <1>1, <1>4, <2>1 DEF HasExit
  <1>9. \A n \in Nat : Recent(s, n) /\ f.upto <= n => Recent(t, n)
    BY <1>1 DEF Recent
  <1> QED
    BY <1>6, <1>7, <1>8, <1>9 DEF t

\* A frame that is written: the others follow what it showed (writeLoop).
LEMMA ChainTail ==
  ASSUME NEW v \in Nat, NEW s \in Seq(AnyFrame), s # <<>>, Chain(v, s)
  PROVE  LET f == Head(s)
             w == IF f.type = "exit" THEN v ELSE f.upto
         IN  /\ Chain(w, Tail(s)) /\ After(w, Tail(s)) = After(v, s)
             /\ f \in AnyFrame /\ Tail(s) \in Seq(AnyFrame)
             /\ f.type = "output" => f.upto = v + 1
             /\ f.type = "screen" => f.upto >= v
             /\ f.type = "exit" => Tail(s) = <<>> /\ After(v, s) = v /\ HasExit(s)
             /\ HasExit(Tail(s)) => HasExit(s)
             /\ \A n \in Nat : Recent(s, n) => Recent(Tail(s), n) /\ f.upto <= n
  <1> DEFINE f == Head(s)
             w == IF f.type = "exit" THEN v ELSE f.upto
             t == Tail(s)
             m == Len(s)
  <1>1. /\ m \in Nat /\ m >= 1 /\ f = s[1] /\ f \in AnyFrame
        /\ t \in Seq(AnyFrame) /\ Len(t) = m - 1
        /\ \A k \in 1..Len(t) : k + 1 \in 1..m /\ t[k] = s[k + 1]
    BY TailIs
  <1>2. 1 \in 1..m /\ At(v, s, 1 - 1) = v
    BY <1>1 DEF At
  <1> HIDE DEF f, t, m
  <1>3. /\ f.type = "output" => f.upto = v + 1
        /\ f.type = "screen" => f.upto >= v
        /\ f.type = "exit" => m = 1
    BY <1>1, <1>2 DEF Chain, m
  <1>4. HasExit(t) => HasExit(s)
    BY <1>1 DEF HasExit, m
  <1>5. \A n \in Nat : Recent(s, n) => Recent(t, n) /\ f.upto <= n
    BY <1>1, <1>2 DEF Recent, m
  <1>6. CASE m = 1
    <2>1. t = <<>>
      BY <1>1, <1>6
    <2>2. After(v, s) = w
      BY <1>1, <1>2, <1>6 DEF After, m
    <2>3. f.type = "exit" => HasExit(s)
      BY <1>1, <1>2 DEF HasExit, m
    <2>4. Chain(w, t) /\ After(w, t) = w
      BY <2>1 DEF Chain, After
    <2> QED
      BY <1>1, <1>3, <1>4, <1>5, <2>1, <2>2, <2>3, <2>4 DEF f, t
  <1>7. CASE m # 1
    <2>1. f.type # "exit" /\ w = s[1].upto /\ Len(t) >= 1 /\ t # <<>> /\ s # <<>>
      BY <1>1, <1>3, <1>7
    <2> HIDE DEF w
    <2>2. \A k \in 1..Len(t) : At(w, t, k - 1) = At(v, s, (k + 1) - 1)
      <3> SUFFICES ASSUME NEW k \in 1..Len(t)
                   PROVE  At(w, t, k - 1) = At(v, s, (k + 1) - 1)
        OBVIOUS
      <3>1. (k + 1) - 1 = k /\ k # 0 /\ At(v, s, k) = s[k].upto
        BY DEF At
      <3>2. CASE k = 1
        BY <2>1, <3>1, <3>2 DEF At
      <3>3. CASE k # 1
        <4>1. k - 1 \in 1..Len(t) /\ k - 1 # 0 /\ (k - 1) + 1 = k
          BY <1>1, <3>3
        <4> QED
          BY <1>1, <3>1, <4>1 DEF At
      <3> QED
        BY <3>2, <3>3
    <2>3. Chain(w, t)
      <3> SUFFICES ASSUME NEW k \in 1..Len(t)
                   PROVE  /\ t[k].type = "output" => t[k].upto = At(w, t, k - 1) + 1
                          /\ t[k].type = "screen" => t[k].upto >= At(w, t, k - 1)
                          /\ t[k].type = "exit" => k = Len(t)
        BY DEF Chain
      <3>1. k + 1 \in 1..m /\ t[k] = s[k + 1] /\ At(w, t, k - 1) = At(v, s, (k + 1) - 1)
        BY <1>1, <2>2
      <3>2. /\ s[k + 1].type = "output" => s[k + 1].upto = At(v, s, (k + 1) - 1) + 1
            /\ s[k + 1].type = "screen" => s[k + 1].upto >= At(v, s, (k + 1) - 1)
            /\ s[k + 1].type = "exit" => k + 1 = m
        BY <3>1 DEF Chain, m
      <3> QED
        BY <1>1, <3>1, <3>2
    <2>4. After(w, t) = After(v, s)
      <3>1. Len(t) \in 1..Len(t) /\ Len(t) + 1 = m
        BY <1>1, <2>1
      <3>2. t[Len(t)] = s[m] /\ At(w, t, Len(t) - 1) = At(v, s, m - 1)
        BY <1>1, <2>2, <3>1
      <3> QED
        BY <2>1, <3>2 DEF After, m
    <2> QED
      BY <1>1, <1>3, <1>4, <1>5, <2>1, <2>3, <2>4 DEF f, t, w
  <1> QED
    BY <1>6, <1>7

----------------------------------------------------------------------------
\* One client

\* What a human sees and what is recorded are counted by numbers, and so is
\* what the frames on their way will show.
LEMMA CountsAre ==
  ASSUME NEW n \in Nat, NEW r, Typical(r, n)
  PROVE  /\ r.view \in Nat /\ r.pending \in Seq(AnyFrame) /\ r.batch \in Seq(AnyFrame)
         /\ After(r.view, r.batch) \in Nat /\ After(r.view, r.batch) <= n
         /\ After(After(r.view, r.batch), r.pending) \in Nat
         /\ After(After(r.view, r.batch), r.pending) <= n
  <1>1. /\ r.view \in Nat /\ r.pending \in Seq(AnyFrame) /\ r.batch \in Seq(AnyFrame)
        /\ r.view <= n /\ Recent(r.batch, n) /\ Recent(r.pending, n)
    BY DEF Typical, Client
  <1>2. After(r.view, r.batch) \in Nat /\ After(r.view, r.batch) <= n
    BY <1>1, AfterIs
  <1> QED
    BY <1>1, <1>2, AfterIs

\* A connection before it is made (newClient).
LEMMA InitSound == Sound(NewClient, 0, FALSE, FALSE)
  <1>1. NewClient \in Client
    BY DEF NewClient, Client, Conns, WriterPcs
  <1>2. Recent(<<>>, 0) /\ ~HasExit(<<>>)
    BY DEF Recent, HasExit
  <1>3. Typical(NewClient, 0)
    BY <1>1, <1>2, PaneAssumption DEF Typical, NewClient
  <1>4. Placed(NewClient, FALSE, FALSE) /\ Ended(NewClient, 0)
    BY <1>2 DEF Placed, Ended, NewClient
  <1>5. Contiguous(NewClient, 0, FALSE)
    BY DEF Contiguous, NewClient, Chain, After
  <1> QED
    BY <1>3, <1>4, <1>5 DEF Sound

\* A writer that is signalled looks again; nothing else changes (cond.Signal).
LEMMA SignalSound ==
  ASSUME NEW r, NEW n, NEW in, NEW dead, Sound(r, n, in, dead)
  PROVE  Sound(Signal(r), n, in, dead)
  <1>1. CASE r.wpc # "asleep"
    BY <1>1 DEF Signal
  <1>2. CASE r.wpc = "asleep"
    <2> DEFINE t == [r EXCEPT !.wpc = "check"]
    <2>1. r \in Client
      BY DEF Sound, Typical
    <2>2. /\ t \in Client /\ t.conn = r.conn /\ t.pending = r.pending /\ t.redraw = r.redraw
          /\ t.ending = r.ending /\ t.closed = r.closed /\ t.wpc = "check" /\ t.batch = r.batch
          /\ t.last = r.last /\ t.view = r.view /\ t.torn = r.torn /\ t.told = r.told
      BY <2>1 DEF Client, WriterPcs
    <2> HIDE DEF t
    <2>3. Typical(t, n)
      BY <1>2, <2>2 DEF Sound, Typical
    <2>4. Placed(t, in, dead)
      BY <1>2, <2>2 DEF Sound, Placed
    <2>5. Ended(t, n)
      BY <1>2, <2>2 DEF Sound, Ended
    <2>6. ~t.closed /\ ~t.told => Contiguous(t, n, in)
      BY <2>2 DEF Sound, Contiguous
    <2>7. Sound(t, n, in, dead)
      BY <2>3, <2>4, <2>5, <2>6 DEF Sound
    <2> QED
      BY <1>2, <2>7 DEF Signal, t
  <1> QED
    BY <1>1, <1>2

\* A client that is no member has no end announced before the pane is dead, so
\* output passes it by (server.go:589).
LEMMA StillSound ==
  ASSUME NEW r, NEW n \in Nat, Sound(r, n, FALSE, FALSE)
  PROVE  Sound(r, n + 1, FALSE, FALSE)
  <1>1. ~r.ending /\ ~r.told
    BY DEF Sound, Placed, Ended, Typical, Client
  <1>2. \A s \in Seq(AnyFrame) : Recent(s, n) => Recent(s, n + 1)
    <2> SUFFICES ASSUME NEW s \in Seq(AnyFrame), Recent(s, n), NEW i \in 1..Len(s)
                 PROVE  s[i].upto <= n + 1
      BY DEF Recent
    <2>1. s[i] \in AnyFrame
      OBVIOUS
    <2> QED
      BY <2>1, FrameIs DEF Recent
  <1>3. Typical(r, n + 1)
    BY <1>2 DEF Sound, Typical, Client
  <1>4. Placed(r, FALSE, FALSE) /\ Ended(r, n + 1)
    BY <1>1 DEF Sound, Placed, Ended
  <1>5. ~r.closed /\ ~r.told => Contiguous(r, n + 1, FALSE)
    BY <1>1 DEF Sound, Contiguous
  <1> QED
    BY <1>3, <1>4, <1>5 DEF Sound

\* What is queued is dropped and a screen is promised instead (push,
\* requestRedraw).
LEMMA DropSound ==
  ASSUME NEW r, NEW n \in Nat, NEW dead, NEW m \in Nat, m <= n,
         Typical(r, m), Recent(r.batch, n), Placed(r, TRUE, dead), Ended(r, m),
         ~r.told => Chain(r.view, r.batch)
  PROVE  Sound(Signal([r EXCEPT !.pending = <<>>, !.redraw = TRUE]), n, TRUE, dead)
  <1> DEFINE t == [r EXCEPT !.pending = <<>>, !.redraw = TRUE]
  <1>1. r \in Client
    BY DEF Typical
  <1>2. /\ t \in Client /\ t.conn = r.conn /\ t.pending = <<>> /\ t.redraw
        /\ t.ending = r.ending /\ t.closed = r.closed /\ t.wpc = r.wpc /\ t.batch = r.batch
        /\ t.last = r.last /\ t.view = r.view /\ t.torn = r.torn /\ t.told = r.told
    <2>1. <<>> \in Seq(AnyFrame)
      OBVIOUS
    <2>2. t \in Client
      BY <1>1, <2>1 DEF Client
    <2>3. /\ t.conn = r.conn /\ t.pending = <<>> /\ t.redraw = TRUE
          /\ t.ending = r.ending /\ t.closed = r.closed /\ t.wpc = r.wpc /\ t.batch = r.batch
          /\ t.last = r.last /\ t.view = r.view /\ t.torn = r.torn /\ t.told = r.told
      BY <1>1 DEF Client
    <2> QED
      BY <2>2, <2>3
  <1>3. r.view \in Nat /\ After(r.view, r.batch) \in Nat
    <2>1. Typical(r, m)
      OBVIOUS
    <2> QED
      BY <2>1, CountsAre
  <1> HIDE DEF t
  <1>4. Recent(t.pending, n) /\ ~HasExit(t.pending) /\ Len(t.pending) = 0
    BY <1>2 DEF Recent, HasExit
  <1>5. Typical(t, n)
    BY <1>2, <1>3, <1>4, PaneAssumption DEF Typical
  <1>6. Placed(t, TRUE, dead)
    BY <1>2 DEF Placed
  <1>7. Ended(t, n)
    BY <1>2, <1>4 DEF Ended
  <1>8. ~t.closed /\ ~t.told => Contiguous(t, n, TRUE)
    BY <1>2, <1>3, NoFrames DEF Contiguous
  <1>9. Sound(t, n, TRUE, dead)
    BY <1>5, <1>6, <1>7, <1>8 DEF Sound
  <1> QED
    BY <1>9, SignalSound DEF t

\* A redraw is asked for (resizeLocked).
LEMMA RedrawSound ==
  ASSUME NEW r, NEW n \in Nat, NEW dead, Sound(r, n, TRUE, dead)
  PROVE  Sound(RequestRedraw(r), n, TRUE, dead)
  <1>1. /\ Typical(r, n) /\ Placed(r, TRUE, dead) /\ Ended(r, n)
        /\ ~r.closed /\ ~r.ending /\ Recent(r.batch, n)
    BY DEF Sound, Placed, Typical
  <1>2. ~r.told => Chain(r.view, r.batch)
    BY <1>1 DEF Sound, Contiguous
  <1>3. n <= n
    OBVIOUS
  <1>4. Sound(Signal([r EXCEPT !.pending = <<>>, !.redraw = TRUE]), n, TRUE, dead)
    BY <1>1, <1>2, <1>3, DropSound
  <1> QED
    BY <1>1, <1>4 DEF RequestRedraw

\* A chunk is handed to a member: it follows what is queued, or the backlog is
\* full and it is part of the screen that was promised (push).
LEMMA PushSound ==
  ASSUME NEW r, NEW n \in Nat,
         Sound(r, n, TRUE, FALSE)
  PROVE  Sound(Push(r, OutputFrame(n + 1)), n + 1, TRUE, FALSE)
  <1> DEFINE f == OutputFrame(n + 1)
  <1>1. f \in AnyFrame /\ f.type = "output" /\ f.upto = n + 1
    BY FramesMade
  <1> HIDE DEF f
  <1>2. /\ Typical(r, n) /\ Placed(r, TRUE, FALSE) /\ Ended(r, n)
        /\ ~r.closed /\ ~r.ending /\ ~r.told /\ r \in Client
        /\ Contiguous(r, n, TRUE)
    BY DEF Sound, Placed, Typical, Ended, Client
  <1>3. \A s \in Seq(AnyFrame) : Recent(s, n) => Recent(s, n + 1)
    <2> SUFFICES ASSUME NEW s \in Seq(AnyFrame), Recent(s, n), NEW i \in 1..Len(s)
                 PROVE  s[i].upto <= n + 1
      BY DEF Recent
    <2>1. s[i] \in AnyFrame
      OBVIOUS
    <2> QED
      BY <2>1, FrameIs DEF Recent
  <1>4. /\ r.view \in Nat /\ r.pending \in Seq(AnyFrame) /\ r.batch \in Seq(AnyFrame)
        /\ After(r.view, r.batch) \in Nat
    BY <1>2, CountsAre
  <1>5. /\ Recent(r.batch, n + 1) /\ Recent(r.pending, n + 1) /\ Recent(r.pending, n)
        /\ r.view <= n + 1 /\ n <= n + 1 /\ n + 1 \in Nat
    BY <1>2, <1>3, <1>4 DEF Typical
  <1>6. ~HasExit(r.pending) /\ ~HasExit(r.batch)
    BY <1>2 DEF Ended
  <1>7. CASE r.redraw
    <2>1. Typical(r, n + 1) /\ Ended(r, n + 1)
      BY <1>2, <1>5 DEF Typical, Ended
    <2>2. Contiguous(r, n + 1, TRUE)
      BY <1>2, <1>7 DEF Contiguous
    <2>3. Sound(r, n + 1, TRUE, FALSE)
      BY <1>2, <2>1, <2>2 DEF Sound
    <2> QED
      BY <1>7, <2>3 DEF Push
  <1>8. CASE ~r.redraw /\ Len(r.pending) + 1 > Backlog
    <2>1. Chain(r.view, r.batch)
      BY <1>2 DEF Contiguous
    <2>2. Sound(Signal([r EXCEPT !.pending = <<>>, !.redraw = TRUE]), n + 1, TRUE, FALSE)
      BY <1>2, <1>5, <2>1, DropSound
    <2> QED
      BY <1>2, <1>8, <2>2 DEF Push
  <1>9. CASE ~r.redraw /\ ~(Len(r.pending) + 1 > Backlog)
    <2> DEFINE t == [r EXCEPT !.pending = Append(@, f)]
               v == After(r.view, r.batch)
    <2>1. Append(r.pending, f) \in Seq(AnyFrame) /\ Len(Append(r.pending, f)) = Len(r.pending) + 1
      BY <1>1, <1>4, AppendIs
    <2>2. /\ t \in Client /\ t.conn = r.conn /\ t.pending = Append(r.pending, f) /\ ~t.redraw
          /\ ~t.ending /\ ~t.closed /\ t.wpc = r.wpc /\ t.batch = r.batch
          /\ t.last = r.last /\ t.view = r.view /\ t.torn = r.torn /\ ~t.told
      BY <1>2, <1>9, <2>1 DEF Client
    <2> HIDE DEF t
    <2>3. Chain(v, r.pending) /\ After(v, r.pending) = n /\ Chain(r.view, r.batch)
      BY <1>2, <1>9 DEF Contiguous
    <2>4. /\ Chain(v, t.pending) /\ After(v, t.pending) = n + 1
          /\ ~HasExit(t.pending) /\ Recent(t.pending, n + 1)
      <3> HIDE DEF v
      <3>1. v \in Nat
        BY <1>4 DEF v
      <3>2. f.upto <= n + 1 /\ f.upto = After(v, r.pending) + 1
        BY <1>1, <2>3
      <3> QED
        BY <1>1, <1>4, <1>5, <1>6, <2>2, <2>3, <3>1, <3>2, ChainAppend
    <2>5. Typical(t, n + 1)
      BY <1>2, <1>4, <1>5, <1>9, <2>1, <2>2, <2>4, PaneAssumption DEF Typical
    <2>6. Placed(t, TRUE, FALSE)
      BY <1>2, <2>2 DEF Placed
    <2>7. Ended(t, n + 1)
      BY <1>6, <2>2, <2>4 DEF Ended
    <2>8. Contiguous(t, n + 1, TRUE)
      BY <2>2, <2>3, <2>4 DEF Contiguous
    <2>9. Sound(t, n + 1, TRUE, FALSE)
      BY <2>5, <2>6, <2>7, <2>8 DEF Sound
    <2> QED
      BY <1>2, <1>9, <2>9, SignalSound DEF Push, t, f
  <1> QED
    BY <1>7, <1>8, <1>9 DEF f

\* A human who joins is promised a screen (addClient).
LEMMA JoinSound ==
  ASSUME NEW r, NEW n \in Nat, Sound(r, n, FALSE, FALSE),
         r.conn = "found"
  PROVE  Sound(RequestRedraw([r EXCEPT !.conn = "joined"]), n, TRUE, FALSE)
  <1> DEFINE t == [r EXCEPT !.conn = "joined"]
  <1>1. Typical(r, n) /\ Placed(r, FALSE, FALSE) /\ Ended(r, n) /\ r \in Client
    BY DEF Sound, Typical
  <1>2. r.wpc = "off" /\ ~r.closed /\ ~r.ending /\ ~r.told
    BY <1>1 DEF Typical, Placed, Ended, Client
  <1>3. /\ t \in Client /\ t.conn = "joined" /\ t.pending = r.pending /\ t.redraw = r.redraw
        /\ t.ending = r.ending /\ t.closed = r.closed /\ t.wpc = r.wpc /\ t.batch = r.batch
        /\ t.last = r.last /\ t.view = r.view /\ t.torn = r.torn /\ t.told = r.told
    BY <1>1 DEF Client, Conns
  <1> HIDE DEF t
  <1>4. Typical(t, n)
    BY <1>1, <1>2, <1>3 DEF Typical
  <1>5. Placed(t, TRUE, FALSE)
    BY <1>2, <1>3 DEF Placed
  <1>6. Ended(t, n)
    BY <1>1, <1>3 DEF Ended
  <1>7. Chain(t.view, t.batch)
    BY <1>2, <1>3 DEF Sound, Contiguous
  <1>8. Recent(t.batch, n) /\ n <= n
    BY <1>4 DEF Typical
  <1>9. Sound(Signal([t EXCEPT !.pending = <<>>, !.redraw = TRUE]), n, TRUE, FALSE)
    BY <1>4, <1>5, <1>6, <1>7, <1>8, DropSound
  <1> QED
    BY <1>2, <1>3, <1>9 DEF RequestRedraw, t

\* The exit frame is queued behind everything else, and the client leaves the
\* pane's list (finish).
LEMMA FinishSound ==
  ASSUME NEW r, NEW n \in Nat, Sound(r, n, TRUE, FALSE)
  PROVE  Sound(FinishClient(r), n, FALSE, TRUE)
  <1> DEFINE t == [r EXCEPT !.pending = Append(@, ExitFrame), !.ending = TRUE]
             v == After(r.view, r.batch)
  <1>1. ExitFrame \in AnyFrame /\ ExitFrame.type = "exit" /\ ExitFrame.upto = 0
    BY FramesMade
  <1>2. /\ Typical(r, n) /\ Placed(r, TRUE, FALSE) /\ Ended(r, n)
        /\ ~r.closed /\ ~r.ending /\ ~r.told /\ r \in Client /\ r.conn \in {"joined", "live"}
        /\ Contiguous(r, n, TRUE)
    BY DEF Sound, Placed, Typical, Ended, Client
  <1>3. /\ r.view \in Nat /\ r.pending \in Seq(AnyFrame) /\ r.batch \in Seq(AnyFrame) /\ n \in Nat
        /\ v \in Nat
    <2>1. n \in Nat
      OBVIOUS
    <2> QED
      BY <1>2, <2>1, CountsAre
  <1>4. /\ Append(r.pending, ExitFrame) \in Seq(AnyFrame) /\ Len(r.pending) \in Nat
        /\ Len(Append(r.pending, ExitFrame)) = Len(r.pending) + 1
    BY <1>1, <1>3, AppendIs
  <1>5. r.redraw => Append(r.pending, ExitFrame) = <<ExitFrame>>
    <2>1. r.redraw => r.pending = <<>>
      BY <1>2 DEF Typical
    <2> QED
      BY <2>1, AppendToNone
  <1>6. /\ t \in Client /\ t.conn = r.conn /\ t.pending = Append(r.pending, ExitFrame)
        /\ t.redraw = r.redraw /\ t.ending /\ ~t.closed /\ t.wpc = r.wpc /\ t.batch = r.batch
        /\ t.last = r.last /\ t.view = r.view /\ t.torn = r.torn /\ ~t.told
    BY <1>2, <1>4 DEF Client
  <1> HIDE DEF t
  <1>7. /\ Chain(v, r.pending) /\ Chain(r.view, r.batch)
        /\ ~r.redraw => After(v, r.pending) = n
    BY <1>2 DEF Contiguous
  <1>8. ~HasExit(r.pending) /\ ~HasExit(r.batch) /\ Recent(r.pending, n)
    BY <1>2 DEF Ended, Typical
  <1>9. /\ Chain(v, t.pending) /\ After(v, t.pending) = After(v, r.pending)
        /\ Recent(t.pending, n)
    <2> HIDE DEF v
    <2>1. ExitFrame.upto <= n
      BY <1>1, <1>3
    <2> QED
      BY <1>1, <1>3, <1>6, <1>7, <1>8, <2>1, ChainAppend
  <1>10. Typical(t, n)
    <2>1. Len(t.pending) <= Backlog + 1
      BY <1>2, <1>4, <1>6, PaneAssumption DEF Typical
    <2> QED
      BY <1>2, <1>5, <1>6, <1>9, <2>1 DEF Typical
  <1>11. Placed(t, FALSE, TRUE)
    BY <1>2, <1>6 DEF Placed
  <1>12. Ended(t, n)
    BY <1>6, <1>8 DEF Ended
  <1>13. Contiguous(t, n, FALSE)
    BY <1>6, <1>7, <1>9 DEF Contiguous
  <1>14. Sound(t, n, FALSE, TRUE)
    BY <1>10, <1>11, <1>12, <1>13 DEF Sound
  <1> QED
    BY <1>2, <1>14, SignalSound DEF FinishClient, t

\* The pane's end changes nothing for one who is no member (finish).
LEMMA DeadSound ==
  ASSUME NEW r, NEW n, Sound(r, n, FALSE, FALSE)
  PROVE  Sound(r, n, FALSE, TRUE)
  BY DEF Sound, Placed

\* A client that is closed is owed nothing (close).
LEMMA CloseSound ==
  ASSUME NEW r, NEW n, NEW in, NEW dead, Sound(r, n, in, dead)
  PROVE  Sound(CloseClient(r), n, FALSE, dead)
  <1> DEFINE t == [r EXCEPT !.closed = TRUE, !.conn = "left"]
  <1>1. Typical(r, n) /\ Placed(r, in, dead) /\ Ended(r, n) /\ r \in Client
    BY DEF Sound, Typical
  <1>2. /\ t \in Client /\ t.conn = "left" /\ t.pending = r.pending /\ t.redraw = r.redraw
        /\ t.ending = r.ending /\ t.closed /\ t.wpc = r.wpc /\ t.batch = r.batch
        /\ t.last = r.last /\ t.view = r.view /\ t.torn = r.torn /\ t.told = r.told
    BY <1>1 DEF Client, Conns
  <1> HIDE DEF t
  <1>3. Typical(t, n)
    BY <1>1, <1>2 DEF Typical
  <1>4. Placed(t, FALSE, dead)
    BY <1>1, <1>2 DEF Placed
  <1>5. Ended(t, n)
    BY <1>1, <1>2 DEF Ended
  <1>6. Sound(t, n, FALSE, dead)
    BY <1>2, <1>3, <1>4, <1>5 DEF Sound
  <1> QED
    BY <1>6, SignalSound DEF CloseClient, t

\* A connection that is looked up, or refused (attach).
LEMMA LookedUpSound ==
  ASSUME NEW r, NEW n, NEW in, NEW dead, Sound(r, n, in, dead), NEW next,
         \/ r.conn = "new" /\ next = "found"
         \/ r.conn = "found" /\ next = "left"
  PROVE  Sound([r EXCEPT !.conn = next], n, in, dead)
  <1> DEFINE t == [r EXCEPT !.conn = next]
  <1>1. Typical(r, n) /\ Placed(r, in, dead) /\ Ended(r, n) /\ r \in Client
    BY DEF Sound, Typical
  <1>2. /\ t \in Client /\ t.conn = next /\ t.pending = r.pending /\ t.redraw = r.redraw
        /\ t.ending = r.ending /\ t.closed = r.closed /\ t.wpc = r.wpc /\ t.batch = r.batch
        /\ t.last = r.last /\ t.view = r.view /\ t.torn = r.torn /\ t.told = r.told
    BY <1>1 DEF Client, Conns
  <1> HIDE DEF t
  <1>3. Typical(t, n)
    BY <1>1, <1>2 DEF Typical
  <1>4. Placed(t, in, dead)
    BY <1>1, <1>2 DEF Placed
  <1>5. Ended(t, n)
    BY <1>1, <1>2 DEF Ended
  <1>6. ~t.closed /\ ~t.told => Contiguous(t, n, in)
    BY <1>2 DEF Sound, Contiguous
  <1> QED
    BY <1>3, <1>4, <1>5, <1>6 DEF Sound, t

\* The writer starts when the human was greeted (attach).
LEMMA GreetSound ==
  ASSUME NEW r, NEW n, NEW in, NEW dead, Sound(r, n, in, dead), r.conn = "joined"
  PROVE  Sound([r EXCEPT !.conn = "live", !.wpc = "check"], n, in, dead)
  <1> DEFINE t == [r EXCEPT !.conn = "live", !.wpc = "check"]
  <1>1. Typical(r, n) /\ Placed(r, in, dead) /\ Ended(r, n) /\ r \in Client
    BY DEF Sound, Typical
  <1>2. /\ t \in Client /\ t.conn = "live" /\ t.pending = r.pending /\ t.redraw = r.redraw
        /\ t.ending = r.ending /\ t.closed = r.closed /\ t.wpc = "check" /\ t.batch = r.batch
        /\ t.last = r.last /\ t.view = r.view /\ t.torn = r.torn /\ t.told = r.told
    BY <1>1 DEF Client, Conns, WriterPcs
  <1> HIDE DEF t
  <1>3. Typical(t, n)
    BY <1>1, <1>2 DEF Typical
  <1>4. Placed(t, in, dead)
    BY <1>1, <1>2 DEF Placed
  <1>5. Ended(t, n)
    BY <1>1, <1>2 DEF Ended, Typical
  <1>6. ~t.closed /\ ~t.told => Contiguous(t, n, in)
    BY <1>2 DEF Sound, Contiguous
  <1> QED
    BY <1>3, <1>4, <1>5, <1>6 DEF Sound, t

\* The writer finds out what to do, or sleeps (writeLoop).
LEMMA WakeSound ==
  ASSUME NEW r, NEW n, NEW in, NEW dead, Sound(r, n, in, dead), r.wpc = "check",
         NEW next \in {"done", "render", "take", "asleep"}
  PROVE  Sound([r EXCEPT !.wpc = next], n, in, dead)
  <1> DEFINE t == [r EXCEPT !.wpc = next]
  <1>1. Typical(r, n) /\ Placed(r, in, dead) /\ Ended(r, n) /\ r \in Client
    BY DEF Sound, Typical
  <1>2. /\ t \in Client /\ t.conn = r.conn /\ t.pending = r.pending /\ t.redraw = r.redraw
        /\ t.ending = r.ending /\ t.closed = r.closed /\ t.wpc = next /\ t.batch = r.batch
        /\ t.last = r.last /\ t.view = r.view /\ t.torn = r.torn /\ t.told = r.told
    BY <1>1 DEF Client, WriterPcs
  <1> HIDE DEF t
  <1>3. Typical(t, n)
    BY <1>1, <1>2 DEF Typical
  <1>4. Placed(t, in, dead)
    BY <1>1, <1>2 DEF Placed
  <1>5. Ended(t, n)
    BY <1>1, <1>2 DEF Ended
  <1>6. ~t.closed /\ ~t.told => Contiguous(t, n, in)
    BY <1>2 DEF Sound, Contiguous
  <1> QED
    BY <1>3, <1>4, <1>5, <1>6 DEF Sound, t

\* The screen that was promised shows everything up to now, and an exit frame
\* that is queued follows it (writeLoop).
LEMMA RenderSound ==
  ASSUME NEW r, NEW n \in Nat, NEW in, NEW dead,
         Sound(r, n, in, dead), r.wpc = "render", r.redraw
  PROVE  Sound([r EXCEPT !.wpc = "take", !.redraw = FALSE,
                         !.pending = <<ScreenFrame(n)>> \o @], n, in, dead)
  <1> DEFINE f == ScreenFrame(n)
             t == [r EXCEPT !.wpc = "take", !.redraw = FALSE, !.pending = <<f>> \o @]
             v == After(r.view, r.batch)
  <1>1. /\ f \in AnyFrame /\ f.type = "screen" /\ f.upto = n
        /\ ExitFrame \in AnyFrame /\ ExitFrame.type = "exit" /\ ExitFrame.upto = 0
    BY FramesMade
  <1> HIDE DEF f
  <1>2. /\ Typical(r, n) /\ Placed(r, in, dead) /\ Ended(r, n) /\ r \in Client /\ n \in Nat
        /\ ~r.told
    BY DEF Sound, Typical, Ended, Client
  <1>3. v \in Nat /\ v <= n
    BY <1>2, CountsAre
  <1>4. r.pending = <<>> \/ (r.ending /\ r.pending = <<ExitFrame>>)
    BY <1>2 DEF Typical
  <1>5. <<f>> \in Seq(AnyFrame) /\ Len(<<f>>) = 1 /\ <<f>> # <<>>
    BY <1>1
  <1>6. <<f>> \o <<ExitFrame>> = Append(<<f>>, ExitFrame)
    BY <1>1
  <1>7. <<f>> \o <<>> = <<f>>
    BY <1>1
  <1>8. /\ Chain(v, <<f>>) /\ After(v, <<f>>) = n /\ ~HasExit(<<f>>) /\ Recent(<<f>>, n)
    <2> HIDE DEF v
    <2>1. Chain(v, <<>>) /\ After(v, <<>>) = v /\ ~HasExit(<<>>) /\ Recent(<<>>, n)
      BY <1>3, NoFrames
    <2>2. <<>> \in Seq(AnyFrame) /\ Append(<<>>, f) = <<f>>
      BY AppendToNone
    <2>3. f.upto <= n /\ f.upto >= After(v, <<>>)
      BY <1>1, <1>2, <1>3, <2>1
    <2> DEFINE s == Append(<<>>, f)
    <2>4. /\ Chain(v, s) /\ After(v, s) = n /\ ~HasExit(s) /\ Recent(s, n)
      BY <1>1, <1>2, <1>3, <2>1, <2>2, <2>3, ChainAppend
    <2> HIDE DEF s
    <2>5. s = <<f>>
      BY <2>2 DEF s
    <2> QED
      BY <2>4, <2>5
  <1>9. LET s == Append(<<f>>, ExitFrame)
        IN  /\ s \in Seq(AnyFrame) /\ Chain(v, s) /\ After(v, s) = n /\ Recent(s, n)
    <2> HIDE DEF v
    <2>1. ExitFrame.upto <= n
      BY <1>1, <1>2
    <2>2. Append(<<f>>, ExitFrame) \in Seq(AnyFrame)
      BY <1>1, <1>5, AppendIs
    <2> QED
      BY <1>1, <1>2, <1>3, <1>5, <1>8, <2>1, <2>2, ChainAppend
  <1>10. LET s == <<f>> \o r.pending
         IN  /\ s \in Seq(AnyFrame) /\ Chain(v, s) /\ After(v, s) = n /\ Recent(s, n)
             /\ ~r.ending => Len(s) = 1 /\ ~HasExit(s)
    <2>1. CASE r.pending = <<>>
      BY <1>5, <1>7, <1>8, <2>1
    <2>2. CASE r.ending /\ r.pending = <<ExitFrame>>
      BY <1>6, <1>9, <2>2
    <2> QED
      BY <1>4, <2>1, <2>2
  <1>11. /\ t \in Client /\ t.conn = r.conn /\ t.pending = <<f>> \o r.pending /\ ~t.redraw
         /\ t.ending = r.ending /\ t.closed = r.closed /\ t.wpc = "take" /\ t.batch = r.batch
         /\ t.last = r.last /\ t.view = r.view /\ t.torn = r.torn /\ ~t.told
    BY <1>2, <1>10 DEF Client, WriterPcs
  <1> HIDE DEF t
  <1>12. Typical(t, n)
    BY <1>2, <1>10, <1>11, PaneAssumption DEF Typical
  <1>13. Placed(t, in, dead)
    BY <1>2, <1>11 DEF Placed
  <1>14. Ended(t, n)
    <2>1. ~HasExit(r.batch)
      BY <1>2 DEF Typical, HasExit
    <2> QED
      BY <1>2, <1>10, <1>11, <2>1 DEF Ended
  <1>15. ~t.closed /\ ~t.told => Contiguous(t, n, in)
    BY <1>2, <1>10, <1>11 DEF Sound, Contiguous
  <1> QED
    BY <1>12, <1>13, <1>14, <1>15 DEF Sound, t, f

\* The writer goes on to what is queued when no screen is owed (writeLoop).
LEMMA NothingToRenderSound ==
  ASSUME NEW r, NEW n, NEW in, NEW dead, Sound(r, n, in, dead), r.wpc = "render"
  PROVE  Sound([r EXCEPT !.wpc = "take"], n, in, dead)
  <1> DEFINE t == [r EXCEPT !.wpc = "take"]
  <1>1. Typical(r, n) /\ Placed(r, in, dead) /\ Ended(r, n) /\ r \in Client
    BY DEF Sound, Typical
  <1>2. /\ t \in Client /\ t.conn = r.conn /\ t.pending = r.pending /\ t.redraw = r.redraw
        /\ t.ending = r.ending /\ t.closed = r.closed /\ t.wpc = "take" /\ t.batch = r.batch
        /\ t.last = r.last /\ t.view = r.view /\ t.torn = r.torn /\ t.told = r.told
    BY <1>1 DEF Client, WriterPcs
  <1> HIDE DEF t
  <1>3. Typical(t, n)
    BY <1>1, <1>2 DEF Typical
  <1>4. Placed(t, in, dead)
    BY <1>1, <1>2 DEF Placed
  <1>5. Ended(t, n)
    BY <1>1, <1>2 DEF Ended
  <1>6. ~t.closed /\ ~t.told => Contiguous(t, n, in)
    BY <1>2 DEF Sound, Contiguous
  <1> QED
    BY <1>3, <1>4, <1>5, <1>6 DEF Sound, t

\* What is queued is taken into the writer's hands (writeLoop).
LEMMA TakeSound ==
  ASSUME NEW r, NEW n \in Nat, NEW in, NEW dead, Sound(r, n, in, dead),
         r.wpc = "take"
  PROVE  Sound([r EXCEPT !.wpc = "write", !.batch = r.pending, !.pending = <<>>,
                         !.last = r.ending], n, in, dead)
  <1> DEFINE t == [r EXCEPT !.wpc = "write", !.batch = r.pending, !.pending = <<>>,
                            !.last = r.ending]
  <1>1. /\ Typical(r, n) /\ Placed(r, in, dead) /\ Ended(r, n) /\ r \in Client
        /\ ~r.told /\ r.batch = <<>>
    BY DEF Sound, Typical, Ended, Client
  <1>2. /\ t.conn = r.conn /\ t.pending = <<>> /\ t.redraw = r.redraw
        /\ t.ending = r.ending /\ t.closed = r.closed /\ t.wpc = "write" /\ t.batch = r.pending
        /\ t.last = r.ending /\ t.view = r.view /\ t.torn = r.torn /\ t.told = r.told
    BY <1>1 DEF Client
  <1>3. t \in Client
    <2>1. <<>> \in Seq(AnyFrame) /\ r.pending \in Seq(AnyFrame)
      BY <1>1 DEF Client
    <2> QED
      BY <1>1, <2>1 DEF Client, WriterPcs
  <1> HIDE DEF t
  <1>4. /\ r.view \in Nat /\ After(r.view, <<>>) = r.view
        /\ After(r.view, r.pending) \in Nat
    <2>1. r.view \in Nat
      BY <1>1 DEF Client
    <2>2. After(r.view, <<>>) = r.view
      BY <2>1, NoFrames
    <2> QED
      BY <1>1, <2>1, <2>2, CountsAre
  <1>5. Recent(<<>>, n) /\ ~HasExit(<<>>) /\ Len(<<>>) = 0
    BY DEF Recent, HasExit
  <1>6. Typical(t, n)
    BY <1>1, <1>2, <1>3, <1>5, PaneAssumption DEF Typical
  <1>7. Placed(t, in, dead)
    BY <1>1, <1>2 DEF Placed
  <1>8. Ended(t, n)
    BY <1>1, <1>2, <1>5 DEF Ended
  <1>9. ~t.closed /\ ~t.told => Contiguous(t, n, in)
    <2>1. Chain(After(r.view, r.pending), <<>>)
          /\ After(After(r.view, r.pending), <<>>) = After(r.view, r.pending)
      BY <1>4, NoFrames
    <2> QED
      BY <1>1, <1>2, <1>4, <2>1 DEF Sound, Contiguous
  <1> QED
    BY <1>6, <1>7, <1>8, <1>9 DEF Sound, t

\* A batch that was written whole: the writer looks again, or is done
\* (writeLoop).
LEMMA WrittenSound ==
  ASSUME NEW r, NEW n, NEW in, NEW dead, Sound(r, n, in, dead),
         r.wpc = "write", r.batch = <<>>
  PROVE  Sound([r EXCEPT !.wpc = IF r.last /\ r.pending = <<>> THEN "done" ELSE "check"],
               n, in, dead)
  <1> DEFINE next == IF r.last /\ r.pending = <<>> THEN "done" ELSE "check"
             t == [r EXCEPT !.wpc = next]
  <1>1. Typical(r, n) /\ Placed(r, in, dead) /\ Ended(r, n) /\ r \in Client
    BY DEF Sound, Typical
  <1>2. next \in {"done", "check"} /\ (r.last /\ r.pending = <<>> => next = "done")
    OBVIOUS
  <1> HIDE DEF next
  <1>3. /\ t \in Client /\ t.conn = r.conn /\ t.pending = r.pending /\ t.redraw = r.redraw
        /\ t.ending = r.ending /\ t.closed = r.closed /\ t.wpc = next /\ t.batch = r.batch
        /\ t.last = r.last /\ t.view = r.view /\ t.torn = r.torn /\ t.told = r.told
    BY <1>1, <1>2 DEF Client, WriterPcs
  <1> HIDE DEF t
  <1>4. Typical(t, n)
    BY <1>1, <1>2, <1>3 DEF Typical
  <1>5. Placed(t, in, dead)
    BY <1>1, <1>3 DEF Placed
  <1>6. Ended(t, n)
    BY <1>1, <1>2, <1>3 DEF Ended
  <1>7. ~t.closed /\ ~t.told => Contiguous(t, n, in)
    BY <1>3 DEF Sound, Contiguous
  <1> QED
    BY <1>4, <1>5, <1>6, <1>7 DEF Sound, t, next

\* A frame is written: it follows what the human sees (writeLoop).
LEMMA ShownSound ==
  ASSUME NEW r, NEW n \in Nat, NEW in, NEW dead,
         Sound(r, n, in, dead), r.wpc = "write", r.batch # <<>>, ~r.closed
  PROVE  Sound(Shown([r EXCEPT !.batch = Tail(@)], Head(r.batch)), n, in, dead)
  <1> DEFINE f == Head(r.batch)
             b == Tail(r.batch)
             w == IF f.type = "exit" THEN r.view ELSE f.upto
             u == [r EXCEPT !.batch = b]
             t == Shown(u, f)
  <1>1. /\ Typical(r, n) /\ Placed(r, in, dead) /\ Ended(r, n) /\ r \in Client /\ n \in Nat
        /\ ~r.told /\ Contiguous(r, n, in) /\ ~r.torn
    BY DEF Sound, Typical, Ended, Client
  <1>2. /\ r.view \in Nat /\ r.pending \in Seq(AnyFrame) /\ r.batch \in Seq(AnyFrame)
        /\ Chain(r.view, r.batch) /\ Recent(r.batch, n) /\ r.view <= n
    BY <1>1 DEF Client, Contiguous, Typical
  <1>3. /\ Chain(w, b) /\ After(w, b) = After(r.view, r.batch)
        /\ f \in AnyFrame /\ b \in Seq(AnyFrame)
        /\ f.type = "output" => f.upto = r.view + 1
        /\ f.type = "screen" => f.upto >= r.view
        /\ f.type = "exit" => b = <<>> /\ After(r.view, r.batch) = r.view /\ HasExit(r.batch)
        /\ HasExit(b) => HasExit(r.batch)
        /\ Recent(b, n) /\ f.upto <= n
    BY <1>1, <1>2, ChainTail
  <1>4. f.type \in {"output", "screen", "exit"} /\ f.upto \in Nat
    BY <1>3, FrameIs
  <1> HIDE DEF f, b
  <1>5. /\ u \in Client /\ u.conn = r.conn /\ u.pending = r.pending /\ u.redraw = r.redraw
        /\ u.ending = r.ending /\ u.closed = r.closed /\ u.wpc = r.wpc /\ u.batch = b
        /\ u.last = r.last /\ u.view = r.view /\ ~u.torn /\ ~u.told
    BY <1>1, <1>3 DEF Client
  <1> HIDE DEF u
  <1>6. /\ t \in Client /\ t.conn = r.conn /\ t.pending = r.pending /\ t.redraw = r.redraw
        /\ t.ending = r.ending /\ t.closed = r.closed /\ t.wpc = r.wpc /\ t.batch = b
        /\ t.last = r.last /\ t.view = w /\ ~t.torn /\ (t.told <=> f.type = "exit")
    <2>1. CASE f.type = "output"
      <3>1. t = [u EXCEPT !.view = f.upto, !.torn = u.torn \/ f.upto # u.view + 1]
        BY <1>5, <2>1 DEF Shown
      <3>2. (u.torn \/ f.upto # u.view + 1) = FALSE
        BY <1>3, <1>5, <2>1
      <3>3. t = [u EXCEPT !.view = f.upto, !.torn = FALSE]
        BY <3>1, <3>2
      <3> HIDE DEF t
      <3>4. t \in Client /\ t.view = f.upto /\ t.torn = FALSE /\ t.told = u.told
        BY <1>4, <1>5, <3>3 DEF Client
      <3>5. /\ t.conn = u.conn /\ t.pending = u.pending /\ t.redraw = u.redraw
            /\ t.ending = u.ending /\ t.closed = u.closed /\ t.wpc = u.wpc
            /\ t.batch = u.batch /\ t.last = u.last
        BY <1>5, <3>3 DEF Client
      <3> QED
        BY <1>5, <2>1, <3>4, <3>5
    <2>2. CASE f.type = "screen"
      <3>1. t = [u EXCEPT !.view = f.upto, !.torn = u.torn \/ f.upto < u.view]
        BY <1>5, <2>2 DEF Shown
      <3>2. (u.torn \/ f.upto < u.view) = FALSE
        BY <1>2, <1>3, <1>4, <1>5, <2>2
      <3>3. t = [u EXCEPT !.view = f.upto, !.torn = FALSE]
        BY <3>1, <3>2
      <3> HIDE DEF t
      <3>4. t \in Client /\ t.view = f.upto /\ t.torn = FALSE /\ t.told = u.told
        BY <1>4, <1>5, <3>3 DEF Client
      <3>5. /\ t.conn = u.conn /\ t.pending = u.pending /\ t.redraw = u.redraw
            /\ t.ending = u.ending /\ t.closed = u.closed /\ t.wpc = u.wpc
            /\ t.batch = u.batch /\ t.last = u.last
        BY <1>5, <3>3 DEF Client
      <3> QED
        BY <1>5, <2>2, <3>4, <3>5
    <2>3. CASE f.type = "exit"
      <3>1. t = [u EXCEPT !.told = TRUE]
        BY <1>5, <2>3 DEF Shown
      <3> HIDE DEF t
      <3>2. t \in Client /\ t.view = u.view /\ t.torn = u.torn /\ t.told = TRUE
        BY <1>5, <3>1 DEF Client
      <3>3. /\ t.conn = u.conn /\ t.pending = u.pending /\ t.redraw = u.redraw
            /\ t.ending = u.ending /\ t.closed = u.closed /\ t.wpc = u.wpc
            /\ t.batch = u.batch /\ t.last = u.last
        BY <1>5, <3>1 DEF Client
      <3> QED
        BY <1>5, <2>3, <3>2, <3>3
    <2> QED
      BY <1>4, <2>1, <2>2, <2>3
  <1> HIDE DEF t
  <1>7. w <= n
    BY <1>2, <1>3
  <1>8. Typical(t, n)
    BY <1>1, <1>3, <1>6, <1>7 DEF Typical
  <1>9. Placed(t, in, dead)
    BY <1>1, <1>6 DEF Placed
  <1>10. f.type = "exit" => /\ r.ending /\ r.last /\ r.pending = <<>> /\ b = <<>>
                            /\ r.view = n \/ r.redraw
    <2> SUFFICES ASSUME f.type = "exit"
                 PROVE  /\ r.ending /\ r.last /\ r.pending = <<>> /\ b = <<>>
                        /\ r.view = n \/ r.redraw
      OBVIOUS
    <2>1. r.ending /\ r.last /\ r.pending = <<>> /\ b = <<>>
      BY <1>1, <1>3 DEF Ended
    <2>2. After(After(r.view, r.batch), r.pending) = r.view
      BY <1>2, <1>3, <2>1, NoFrames
    <2> QED
      BY <1>1, <2>1, <2>2 DEF Contiguous
  <1>11. Ended(t, n)
    <2>1. HasExit(t.pending) => t.ending
      BY <1>1, <1>6 DEF Ended
    <2>2. HasExit(t.batch) => t.ending /\ t.last /\ t.pending = <<>>
      BY <1>1, <1>3, <1>6 DEF Ended
    <2>3. t.told => /\ t.ending /\ t.last /\ t.pending = <<>> /\ t.batch = <<>>
                    /\ t.wpc \in {"write", "done"}
                    /\ t.view = n \/ t.redraw
      BY <1>6, <1>10
    <2> QED
      BY <2>1, <2>2, <2>3 DEF Ended
  <1>12. ~t.closed /\ ~t.told => Contiguous(t, n, in)
    BY <1>1, <1>3, <1>6 DEF Contiguous
  <1> QED
    BY <1>8, <1>9, <1>11, <1>12 DEF Sound, t, u, f, b

\* The connection is gone: what was to be written is not (writeLoop).
LEMMA GivenUpSound ==
  ASSUME NEW r, NEW n, NEW in, NEW dead, Sound(r, n, in, dead),
         r.wpc = "write", r.batch # <<>>, r.closed
  PROVE  Sound([r EXCEPT !.batch = <<>>, !.wpc = "done"], n, in, dead)
  <1> DEFINE t == [r EXCEPT !.batch = <<>>, !.wpc = "done"]
  <1>1. /\ Typical(r, n) /\ Placed(r, in, dead) /\ Ended(r, n) /\ r \in Client /\ ~r.told
    BY DEF Sound, Typical, Ended, Client
  <1>2. /\ t.conn = r.conn /\ t.pending = r.pending /\ t.redraw = r.redraw
        /\ t.ending = r.ending /\ t.closed = r.closed /\ t.wpc = "done" /\ t.batch = <<>>
        /\ t.last = r.last /\ t.view = r.view /\ t.torn = r.torn /\ t.told = r.told
    BY <1>1 DEF Client
  <1>3. t \in Client
    <2>1. <<>> \in Seq(AnyFrame)
      OBVIOUS
    <2> QED
      BY <1>1, <2>1 DEF Client, WriterPcs
  <1> HIDE DEF t
  <1>4. Recent(<<>>, n) /\ ~HasExit(<<>>)
    BY DEF Recent, HasExit
  <1>5. Typical(t, n)
    BY <1>1, <1>2, <1>3, <1>4 DEF Typical
  <1>6. Placed(t, in, dead)
    BY <1>1, <1>2 DEF Placed
  <1>7. Ended(t, n)
    BY <1>1, <1>2, <1>4 DEF Ended
  <1> QED
    BY <1>2, <1>5, <1>6, <1>7 DEF Sound, t

----------------------------------------------------------------------------
\* The pane

\* The pane counts what it recorded, and lists nobody once its end was
\* announced (readLoop, finish).
LEMMA PaneStep == PaneInv /\ [Next]_vars => PaneOK'
  <1> SUFFICES ASSUME PaneInv, [Next]_vars
               PROVE  PaneOK'
    OBVIOUS
  <1>1. PaneOK /\ world.outputs \in Nat
    BY PaneAssumption DEF PaneInv, PaneOK
  <1>2. CASE UNCHANGED <<world, prog, pane, clients>>
    BY <1>1, <1>2 DEF PaneOK
  <1>3. CASE Prints
    <2>1. /\ prog' = [prog EXCEPT !.printed = prog.printed + 1] /\ prog.printed < world.outputs
          /\ UNCHANGED <<world, pane, clients>>
      BY <1>3 DEF Prints
    <2>2. prog' \in [printed : 0..world.outputs, exited : BOOLEAN]
      BY <1>1, <2>1 DEF PaneOK
    <2>3. pane.seen <= prog'.printed
      BY <1>1, <2>1 DEF PaneOK, Pane
    <2> QED
      BY <1>1, <2>1, <2>2, <2>3 DEF PaneOK
  <1>4. CASE ExitProgram
    <2>1. /\ prog' = [prog EXCEPT !.exited = TRUE]
          /\ UNCHANGED <<world, pane, clients>>
      BY <1>4 DEF ExitProgram
    <2>2. prog' \in [printed : 0..world.outputs, exited : BOOLEAN] /\ prog'.printed = prog.printed
      BY <1>1, <2>1 DEF PaneOK
    <2> QED
      BY <1>1, <2>1, <2>2 DEF PaneOK
  <1>5. CASE Kill
    <2>1. /\ prog' = [prog EXCEPT !.exited = TRUE]
          /\ pane' = [pane EXCEPT !.listed = FALSE]
          /\ UNCHANGED <<world, clients>>
      BY <1>5 DEF Kill
    <2>2. prog' \in [printed : 0..world.outputs, exited : BOOLEAN] /\ prog'.printed = prog.printed
      BY <1>1, <2>1 DEF PaneOK
    <2>3. /\ pane' \in Pane /\ pane'.seen = pane.seen /\ pane'.dead = pane.dead
          /\ pane'.gone = pane.gone /\ pane'.fin = pane.fin
      BY <1>1, <2>1 DEF PaneOK, Pane
    <2> QED
      BY <1>1, <2>1, <2>2, <2>3 DEF PaneOK
  <1>6. CASE Output
    <2>1. /\ pane' = [pane EXCEPT !.seen = pane.seen + 1] /\ pane.seen < prog.printed
          /\ UNCHANGED <<world, prog, clients>>
      BY <1>6 DEF Output, Recorded
    <2>2. /\ pane' \in Pane /\ pane'.seen = pane.seen + 1 /\ pane'.dead = pane.dead
          /\ pane'.gone = pane.gone /\ pane'.fin = pane.fin
      BY <1>1, <2>1 DEF PaneOK, Pane
    <2>3. pane'.seen <= prog.printed
      BY <1>1, <2>1, <2>2 DEF PaneOK, Pane
    <2> QED
      BY <1>1, <2>1, <2>2, <2>3 DEF PaneOK
  <1>7. CASE EndOfOutput \/ Unlist \/ Broadcast
    <2>1. UNCHANGED <<world, prog, clients>>
      BY <1>7 DEF EndOfOutput, Unlist, Broadcast
    <2>2. /\ pane' \in Pane /\ pane'.seen = pane.seen /\ pane'.dead = pane.dead
          /\ pane'.gone = pane.gone
      BY <1>1, <1>7 DEF EndOfOutput, Unlist, Broadcast, PaneOK, Pane, Fins
    <2>3. /\ pane'.fin \in {"told", "closed", "finished"}
                <=> pane.fin \in {"told", "closed", "finished"}
          /\ pane'.fin \in {"closed", "finished"} <=> pane.fin \in {"closed", "finished"}
      BY <1>1, <1>7 DEF EndOfOutput, Unlist, Broadcast, PaneOK, Pane, Fins
    <2> QED
      BY <1>1, <2>1, <2>2, <2>3 DEF PaneOK
  <1>8. CASE MarkDead
    <2>1. /\ pane' = [pane EXCEPT !.dead = TRUE, !.fin = "told"] /\ pane.fin = "unlisted"
          /\ clients' = {} /\ UNCHANGED <<world, prog>>
      BY <1>8 DEF MarkDead
    <2>2. /\ pane' \in Pane /\ pane'.seen = pane.seen /\ pane'.dead = TRUE
          /\ pane'.gone = pane.gone /\ pane'.fin = "told"
      BY <1>1, <2>1 DEF PaneOK, Pane, Fins
    <2>3. pane.gone = FALSE
      BY <1>1, <2>1 DEF PaneOK, Pane
    <2> QED
      BY <1>1, <2>1, <2>2, <2>3 DEF PaneOK
  <1>9. CASE CloseGone
    <2>1. /\ pane' = [pane EXCEPT !.gone = TRUE, !.fin = "closed"] /\ pane.fin = "told"
          /\ UNCHANGED <<world, prog, clients>>
      BY <1>9 DEF CloseGone
    <2>2. /\ pane' \in Pane /\ pane'.seen = pane.seen /\ pane'.dead = pane.dead
          /\ pane'.gone = TRUE /\ pane'.fin = "closed"
      BY <1>1, <2>1 DEF PaneOK, Pane, Fins
    <2>3. pane.dead = TRUE
      BY <1>1, <2>1 DEF PaneOK, Pane
    <2> QED
      BY <1>1, <2>1, <2>2, <2>3 DEF PaneOK
  <1>10. CASE \E c \in Clients, size \in Sizes : Register(c, size)
    <2>1. PICK c \in Clients, size \in Sizes : Register(c, size)
      BY <1>10
    <2>2. /\ pane' = [pane EXCEPT !.size = size] /\ ~pane.dead /\ UNCHANGED <<world, prog>>
      BY <2>1 DEF Register
    <2>3. /\ pane' \in Pane /\ pane'.seen = pane.seen /\ pane'.dead = pane.dead
          /\ pane'.gone = pane.gone /\ pane'.fin = pane.fin
      BY <1>1, <2>2 DEF PaneOK, Pane
    <2> QED
      BY <1>1, <2>2, <2>3 DEF PaneOK
  <1>11. CASE \E c \in Clients, size \in Sizes : HumanResizes(c, size)
    <2>1. PICK c \in Clients, size \in Sizes : HumanResizes(c, size)
      BY <1>11
    <2>2. /\ pane' = [pane EXCEPT !.size = SizeAfter(size)] /\ UNCHANGED <<world, prog, clients>>
      BY <2>1 DEF HumanResizes
    <2>3. SizeAfter(size) \in Sizes
      BY <1>1 DEF SizeAfter, PaneOK, Pane
    <2>4. /\ pane' \in Pane /\ pane'.seen = pane.seen /\ pane'.dead = pane.dead
          /\ pane'.gone = pane.gone /\ pane'.fin = pane.fin
      BY <1>1, <2>2, <2>3 DEF PaneOK, Pane
    <2> QED
      BY <1>1, <2>2, <2>4 DEF PaneOK
  <1>12. CASE \E c \in Clients : Detach(c)
    <2>1. PICK c \in Clients : Detach(c)
      BY <1>12
    <2>2. /\ clients' = clients \ {c} /\ UNCHANGED <<world, prog>>
          /\ pane' = IF clients' = {} THEN [pane EXCEPT !.size = SizeAfter(DefaultSize)] ELSE pane
      BY <2>1 DEF Detach
    <2>3. SizeAfter(DefaultSize) \in Sizes
      BY <1>1 DEF SizeAfter, PaneOK, Pane, Sizes
    <2>4. /\ pane' \in Pane /\ pane'.seen = pane.seen /\ pane'.dead = pane.dead
          /\ pane'.gone = pane.gone /\ pane'.fin = pane.fin
      BY <1>1, <2>2, <2>3 DEF PaneOK, Pane
    <2>5. pane.dead => clients' = {}
      BY <1>1, <2>2 DEF PaneOK
    <2> QED
      BY <1>1, <2>2, <2>4, <2>5 DEF PaneOK
  <1>13. CASE UNCHANGED vars
    BY <1>2, <1>13 DEF vars
  <1>14. CASE Send \/ TakeInput \/ WriteInput
    BY <1>2, <1>14 DEF Send, TakeInput, WriteInput
  <1>15. CASE \E c \in Clients : Lookup(c) \/ Refuse(c) \/ Greet(c) \/ HumanTypes(c) \/ Writer(c)
    BY <1>2, <1>15 DEF Lookup, Refuse, Greet, HumanTypes, Writer, Wake, Render, TakeBatch,
                       WriteFrame, BatchWritten
  <1>16. "small" \in Sizes /\ DefaultSize \in Sizes
    BY DEF Sizes
  <1> QED
    BY <1>3, <1>4, <1>5, <1>6, <1>7, <1>8, <1>9, <1>10, <1>11, <1>12, <1>13, <1>14, <1>15, <1>16
    DEF Next, Reader, Attach

----------------------------------------------------------------------------
\* The clients

\* What the steps below start from.
LEMMA ClientsAre ==
  ASSUME PaneInv
  PROVE  /\ clients \subseteq Clients /\ DOMAIN cl = Clients
         /\ pane.seen \in Nat /\ pane.dead \in BOOLEAN
         /\ \A c \in Clients : Sound(cl[c], pane.seen, c \in clients, pane.dead)
         /\ \A c \in Clients : cl[c].conn # "new" => c \in world.watchers
         /\ \A c \in clients : c \in world.watchers
         /\ \A c \in Clients : cl[c].conn \in {"new", "found"} => c \notin clients
         /\ pane.dead => clients = {}
  <1>1. \A c \in clients : cl[c].conn \in {"joined", "live"}
    BY DEF PaneInv, ClientsOK, Sound, Placed
  <1> QED
    BY <1>1 DEF PaneInv, PaneOK, Pane, ClientsOK

\* A step that leaves the clients and what they show alone.
LEMMA ClientsKept ==
  ASSUME PaneInv, UNCHANGED <<world, clients, cl>>,
         pane'.seen = pane.seen, pane'.dead = pane.dead
  PROVE  ClientsOK'
  BY DEF PaneInv, ClientsOK

\* A step of one client.
LEMMA OneClient ==
  ASSUME PaneInv, world' = world, pane'.seen = pane.seen, pane'.dead = pane.dead,
         NEW c \in Clients, NEW r, cl' = [cl EXCEPT ![c] = r],
         clients' \subseteq Clients, \A d \in Clients : d # c => (d \in clients' <=> d \in clients),
         Sound(r, pane.seen, c \in clients', pane.dead),
         c \in world.watchers
  PROVE  ClientsOK'
  <1>1. /\ DOMAIN cl = Clients
        /\ \A d \in Clients : /\ Sound(cl[d], pane.seen, d \in clients, pane.dead)
                              /\ cl[d].conn # "new" => d \in world.watchers
    BY DEF PaneInv, ClientsOK
  <1>2. DOMAIN cl' = Clients /\ cl'[c] = r /\ \A d \in Clients : d # c => cl'[d] = cl[d]
    BY <1>1
  <1> SUFFICES ASSUME NEW d \in Clients
               PROVE  /\ Sound(cl'[d], pane'.seen, d \in clients', pane'.dead)
                      /\ cl'[d].conn # "new" => d \in world'.watchers
    BY <1>2 DEF ClientsOK
  <1>3. CASE d = c
    BY <1>2, <1>3
  <1>4. CASE d # c
    <2>1. cl'[d] = cl[d] /\ (d \in clients' <=> d \in clients)
      BY <1>2, <1>4
    <2>2. (d \in clients') = (d \in clients)
      BY <2>1
    <2> QED
      BY <1>1, <2>1, <2>2
  <1> QED
    BY <1>3, <1>4

\* Members follow every chunk; the others are passed by (readLoop).
LEMMA OutputClients == PaneInv /\ Output => ClientsOK'
  <1> SUFFICES ASSUME PaneInv, Output
               PROVE  ClientsOK'
    OBVIOUS
  <1> DEFINE f == OutputFrame(pane.seen + 1)
  <1>1. /\ pane' = [pane EXCEPT !.seen = pane.seen + 1]
        /\ cl' = [c \in Clients |-> IF c \in clients THEN Push(cl[c], f) ELSE cl[c]]
        /\ UNCHANGED <<world, clients>> /\ pane.fin = "reading"
    BY DEF Output, Recorded, Forwarded
  <1>2. pane.dead = FALSE /\ pane'.seen = pane.seen + 1 /\ pane'.dead = FALSE
    BY <1>1 DEF PaneInv, PaneOK, Pane
  <1>3. DOMAIN cl' = Clients /\ clients' \subseteq Clients
    BY <1>1, ClientsAre
  <1> SUFFICES ASSUME NEW c \in Clients
               PROVE  /\ Sound(cl'[c], pane'.seen, c \in clients', pane'.dead)
                      /\ cl'[c].conn # "new" => c \in world'.watchers
    BY <1>3 DEF ClientsOK
  <1>4. Sound(cl[c], pane.seen, c \in clients, FALSE) /\ pane.seen \in Nat
    BY <1>2, ClientsAre
  <1>5. CASE c \in clients
    <2>1. (c \in clients) = TRUE /\ (c \in clients') = TRUE /\ cl'[c] = Push(cl[c], f)
      BY <1>1, <1>5
    <2>2. Sound(cl[c], pane.seen, TRUE, FALSE)
      BY <1>4, <2>1
    <2>3. Sound(Push(cl[c], f), pane.seen + 1, TRUE, FALSE)
      BY <1>4, <2>2, PushSound
    <2>4. Sound(cl'[c], pane'.seen, c \in clients', pane'.dead)
      BY <1>2, <2>1, <2>3
    <2> QED
      BY <1>1, <1>5, <2>4, ClientsAre
  <1>6. CASE c \notin clients
    <2>1. (c \in clients) = FALSE /\ (c \in clients') = FALSE /\ cl'[c] = cl[c]
      BY <1>1, <1>6
    <2>2. Sound(cl[c], pane.seen, FALSE, FALSE)
      BY <1>4, <2>1
    <2>3. Sound(cl[c], pane.seen + 1, FALSE, FALSE)
      BY <1>4, <2>2, StillSound
    <2>4. Sound(cl'[c], pane'.seen, c \in clients', pane'.dead)
      BY <1>2, <2>1, <2>3
    <2> QED
      BY <1>1, <2>1, <2>4, ClientsAre
  <1> QED
    BY <1>5, <1>6

\* Everyone who is a member when the pane dies gets an exit frame (finish).
LEMMA MarkDeadClients == PaneInv /\ MarkDead => ClientsOK'
  <1> SUFFICES ASSUME PaneInv, MarkDead
               PROVE  ClientsOK'
    OBVIOUS
  <1>1. /\ pane' = [pane EXCEPT !.dead = TRUE, !.fin = "told"] /\ clients' = {}
        /\ cl' = [c \in Clients |-> IF c \in clients THEN FinishClient(cl[c]) ELSE cl[c]]
        /\ world' = world /\ pane.fin = "unlisted"
    BY DEF MarkDead
  <1>2. pane.dead = FALSE /\ pane'.seen = pane.seen /\ pane'.dead = TRUE
    BY <1>1 DEF PaneInv, PaneOK, Pane
  <1>3. DOMAIN cl' = Clients /\ clients' \subseteq Clients
    BY <1>1
  <1> SUFFICES ASSUME NEW c \in Clients
               PROVE  /\ Sound(cl'[c], pane'.seen, c \in clients', pane'.dead)
                      /\ cl'[c].conn # "new" => c \in world'.watchers
    BY <1>3 DEF ClientsOK
  <1>4. Sound(cl[c], pane.seen, c \in clients, FALSE) /\ pane.seen \in Nat
        /\ (c \in clients') = FALSE
    <2>1. Sound(cl[c], pane.seen, c \in clients, pane.dead) /\ pane.seen \in Nat
      BY ClientsAre
    <2>2. (c \in clients') = FALSE
      BY <1>1
    <2> QED
      BY <1>2, <2>1, <2>2
  <1>5. CASE c \in clients
    <2>1. (c \in clients) = TRUE /\ cl'[c] = FinishClient(cl[c])
      BY <1>1, <1>5
    <2>2. Sound(cl[c], pane.seen, TRUE, FALSE)
      BY <1>4, <2>1
    <2>3. Sound(FinishClient(cl[c]), pane.seen, FALSE, TRUE)
      BY <1>4, <2>2, FinishSound
    <2>4. Sound(cl'[c], pane'.seen, c \in clients', pane'.dead)
      BY <1>2, <1>4, <2>1, <2>3
    <2> QED
      BY <1>1, <1>5, <2>4, ClientsAre
  <1>6. CASE c \notin clients
    <2>1. (c \in clients) = FALSE /\ cl'[c] = cl[c]
      BY <1>1, <1>6
    <2>2. Sound(cl[c], pane.seen, FALSE, FALSE)
      BY <1>4, <2>1
    <2>3. Sound(cl[c], pane.seen, FALSE, TRUE)
      BY <2>2, DeadSound
    <2>4. Sound(cl'[c], pane'.seen, c \in clients', pane'.dead)
      BY <1>2, <1>4, <2>1, <2>3
    <2> QED
      BY <1>1, <2>1, <2>4, ClientsAre
  <1> QED
    BY <1>5, <1>6

\* A new size asks for a redraw of every member, or nothing (resizeLocked).
LEMMA ResizedClients ==
  ASSUME PaneInv, NEW size
  PROVE  LET s == Resized(clients, size, cl)
         IN  /\ DOMAIN s = Clients
             /\ \A c \in Clients : Sound(s[c], pane.seen, c \in clients, pane.dead)
             /\ \A c \in Clients : c \notin clients => s[c] = cl[c]
  <1> DEFINE s == Resized(clients, size, cl)
  <1>1. CASE pane.dead \/ size = pane.size
    <2>1. s = cl
      BY <1>1 DEF Resized
    <2> QED
      BY <2>1, ClientsAre
  <1>2. CASE ~(pane.dead \/ size = pane.size)
    <2>1. s = [c \in Clients |-> IF c \in clients THEN RequestRedraw(cl[c]) ELSE cl[c]]
      BY <1>2 DEF Resized
    <2> HIDE DEF s
    <2>2. ASSUME NEW c \in Clients
          PROVE  Sound(s[c], pane.seen, c \in clients, pane.dead)
      <3>1. Sound(cl[c], pane.seen, c \in clients, pane.dead) /\ pane.seen \in Nat
        BY ClientsAre
      <3>2. CASE c \in clients
        <4>1. (c \in clients) = TRUE /\ s[c] = RequestRedraw(cl[c])
          BY <2>1, <3>2
        <4>2. Sound(cl[c], pane.seen, TRUE, pane.dead)
          BY <3>1, <4>1
        <4>3. Sound(RequestRedraw(cl[c]), pane.seen, TRUE, pane.dead)
          BY <3>1, <4>2, RedrawSound
        <4> QED
          BY <4>1, <4>3
      <3>3. CASE c \notin clients
        BY <2>1, <3>1, <3>3
      <3> QED
        BY <3>2, <3>3
    <2>3. DOMAIN s = Clients /\ \A c \in Clients : c \notin clients => s[c] = cl[c]
      BY <2>1
    <2> QED
      BY <2>2, <2>3 DEF s
  <1> QED
    BY <1>1, <1>2

\* A human joins with a size of their own (attach, addClient).
LEMMA RegisterClients ==
  ASSUME PaneInv, NEW c \in Clients, NEW size, Register(c, size)
  PROVE  ClientsOK'
  <1> DEFINE s == Resized(clients, size, cl)
             r == RequestRedraw([s[c] EXCEPT !.conn = "joined"])
  <1>1. /\ cl[c].conn = "found" /\ ~pane.dead /\ clients' = clients \cup {c}
        /\ pane' = [pane EXCEPT !.size = size] /\ cl' = [s EXCEPT ![c] = r] /\ world' = world
    BY DEF Register
  <1>2. /\ pane.dead = FALSE /\ pane'.seen = pane.seen /\ pane'.dead = FALSE
        /\ c \notin clients /\ c \in world.watchers /\ clients' \subseteq Clients
    <2>1. pane \in Pane
      BY DEF PaneInv, PaneOK
    <2> QED
      BY <1>1, <2>1, ClientsAre DEF Pane
  <1>3. /\ DOMAIN s = Clients
        /\ \A d \in Clients : Sound(s[d], pane.seen, d \in clients, FALSE)
        /\ \A d \in Clients : d \notin clients => s[d] = cl[d]
    BY <1>2, ResizedClients
  <1> HIDE DEF s
  <1>4. Sound(r, pane.seen, TRUE, FALSE)
    <2>1. s[c] = cl[c] /\ (c \in clients) = FALSE /\ pane.seen \in Nat
      BY <1>2, <1>3, ClientsAre
    <2>2. Sound(s[c], pane.seen, FALSE, FALSE) /\ s[c].conn = "found"
      BY <1>1, <1>3, <2>1
    <2> QED
      BY <2>1, <2>2, JoinSound
  <1> HIDE DEF r
  <1>5. DOMAIN cl' = Clients /\ cl'[c] = r /\ \A d \in Clients : d # c => cl'[d] = s[d]
    BY <1>1, <1>3
  <1> SUFFICES ASSUME NEW d \in Clients
               PROVE  /\ Sound(cl'[d], pane'.seen, d \in clients', pane'.dead)
                      /\ cl'[d].conn # "new" => d \in world'.watchers
    BY <1>2, <1>5 DEF ClientsOK
  <1>6. CASE d = c
    <2>1. (d \in clients') = TRUE
      BY <1>1, <1>6
    <2> QED
      BY <1>1, <1>2, <1>4, <1>5, <1>6, <2>1
  <1>7. CASE d # c
    <2>1. (d \in clients') = (d \in clients) /\ cl'[d] = s[d]
      BY <1>1, <1>5, <1>7
    <2>2. Sound(cl'[d], pane'.seen, d \in clients', pane'.dead)
      BY <1>2, <1>3, <2>1
    <2>3. cl'[d].conn # "new" => d \in world.watchers
      BY <1>3, <2>1, ClientsAre
    <2> QED
      BY <1>1, <2>2, <2>3
  <1> QED
    BY <1>6, <1>7

\* A human's terminal gets another size (attach, resizeLocked).
LEMMA HumanResizesClients ==
  ASSUME PaneInv, NEW c \in Clients, NEW size, HumanResizes(c, size)
  PROVE  ClientsOK'
  <1> DEFINE s == Resized(clients, size, cl)
  <1>1. /\ cl' = s /\ pane' = [pane EXCEPT !.size = SizeAfter(size)] /\ UNCHANGED <<world, clients>>
    BY DEF HumanResizes
  <1>2. pane'.seen = pane.seen /\ pane'.dead = pane.dead
    <2>1. pane \in Pane
      BY DEF PaneInv, PaneOK
    <2> QED
      BY <1>1, <2>1 DEF Pane
  <1>3. /\ DOMAIN s = Clients
        /\ \A d \in Clients : Sound(s[d], pane.seen, d \in clients, pane.dead)
        /\ \A d \in Clients : d \notin clients => s[d] = cl[d]
    BY ResizedClients
  <1> HIDE DEF s
  <1>4. \A d \in Clients : s[d].conn # "new" => d \in world.watchers
    BY <1>3, ClientsAre
  <1> QED
    BY <1>1, <1>2, <1>3, <1>4, ClientsAre DEF ClientsOK

\* A client leaves; with the last one the terminal has its own size again
\* (removeClient).
LEMMA DetachClients ==
  ASSUME PaneInv, NEW c \in Clients, Detach(c)
  PROVE  ClientsOK'
  <1>1. /\ cl[c].conn \in {"joined", "live"} /\ clients' = clients \ {c}
        /\ cl' = [cl EXCEPT ![c] = CloseClient(cl[c])]
        /\ pane' = IF clients' = {} THEN [pane EXCEPT !.size = SizeAfter(DefaultSize)] ELSE pane
        /\ world' = world
    BY DEF Detach
  <1>2. pane'.seen = pane.seen /\ pane'.dead = pane.dead
    <2>1. pane \in Pane
      BY DEF PaneInv, PaneOK
    <2> QED
      BY <1>1, <2>1 DEF Pane
  <1>3. /\ Sound(cl[c], pane.seen, c \in clients, pane.dead)
        /\ c \in world.watchers /\ clients' \subseteq Clients /\ (c \in clients') = FALSE
        /\ \A d \in Clients : d # c => (d \in clients' <=> d \in clients)
    BY <1>1, ClientsAre
  <1>4. Sound(CloseClient(cl[c]), pane.seen, FALSE, pane.dead)
    BY <1>3, CloseSound
  <1>5. Sound(CloseClient(cl[c]), pane.seen, c \in clients', pane.dead)
    BY <1>3, <1>4
  <1> QED
    BY <1>1, <1>2, <1>3, <1>5, OneClient

\* A client is looked up, refused or greeted (attach).
LEMMA AttachClients ==
  ASSUME PaneInv, NEW c \in Clients, Lookup(c) \/ Refuse(c) \/ Greet(c)
  PROVE  ClientsOK'
  <1>1. /\ Sound(cl[c], pane.seen, c \in clients, pane.dead) /\ clients \subseteq Clients
        /\ DOMAIN cl = Clients /\ (cl[c].conn # "new" => c \in world.watchers)
    BY ClientsAre
  <1>2. UNCHANGED <<world, pane, clients>>
    BY DEF Lookup, Refuse, Greet
  <1>3. CASE Lookup(c)
    <2>1. cl' = [cl EXCEPT ![c] = [cl[c] EXCEPT !.conn = "found"]]
      BY <1>1, <1>3 DEF Lookup
    <2>2. cl[c].conn = "new" /\ c \in world.watchers
      BY <1>3 DEF Lookup
    <2>3. Sound([cl[c] EXCEPT !.conn = "found"], pane.seen, c \in clients, pane.dead)
      BY <1>1, <2>2, LookedUpSound
    <2>4. Sound([cl[c] EXCEPT !.conn = "found"], pane.seen, c \in clients', pane.dead)
      BY <1>2, <2>3
    <2> QED
      BY <1>1, <1>2, <2>1, <2>2, <2>4, OneClient
  <1>4. CASE Refuse(c)
    <2>1. cl' = [cl EXCEPT ![c] = [cl[c] EXCEPT !.conn = "left"]]
      BY <1>1, <1>4 DEF Refuse
    <2>2. cl[c].conn = "found" /\ c \in world.watchers
      BY <1>1, <1>4 DEF Refuse
    <2>3. Sound([cl[c] EXCEPT !.conn = "left"], pane.seen, c \in clients, pane.dead)
      BY <1>1, <2>2, LookedUpSound
    <2>4. Sound([cl[c] EXCEPT !.conn = "left"], pane.seen, c \in clients', pane.dead)
      BY <1>2, <2>3
    <2> QED
      BY <1>1, <1>2, <2>1, <2>2, <2>4, OneClient
  <1>5. CASE Greet(c)
    <2> DEFINE r == [cl[c] EXCEPT !.conn = "live", !.wpc = "check"]
    <2>1. cl' = [cl EXCEPT ![c] = r]
      BY <1>1, <1>5 DEF Greet
    <2>2. cl[c].conn = "joined" /\ c \in world.watchers
      BY <1>1, <1>5 DEF Greet
    <2>3. Sound(r, pane.seen, c \in clients, pane.dead)
      BY <1>1, <2>2, GreetSound
    <2> HIDE DEF r
    <2>4. Sound(r, pane.seen, c \in clients', pane.dead)
      BY <1>2, <2>3
    <2> QED
      BY <1>1, <1>2, <2>1, <2>2, <2>4, OneClient
  <1> QED
    BY <1>3, <1>4, <1>5

\* The client's goroutine takes a step (writeLoop).
LEMMA WriterClients ==
  ASSUME PaneInv, NEW c \in Clients, Writer(c)
  PROVE  ClientsOK'
  <1> DEFINE q == cl[c]
  <1>1. /\ Sound(q, pane.seen, c \in clients, pane.dead) /\ clients \subseteq Clients
        /\ DOMAIN cl = Clients /\ (q.conn # "new" => c \in world.watchers) /\ pane.seen \in Nat
    BY ClientsAre
  <1>2. UNCHANGED <<world, pane, clients>>
    BY DEF Writer, Wake, Render, TakeBatch, WriteFrame, BatchWritten
  <1>3. c \in world.watchers
    <2>1. q.wpc # "off"
      BY DEF Writer, Wake, Render, TakeBatch, WriteFrame, BatchWritten
    <2>2. q.conn # "new"
      BY <1>1, <2>1 DEF Sound, Typical
    <2> QED
      BY <1>1, <2>2
  <1>4. ASSUME NEW r, cl' = [cl EXCEPT ![c] = r],
               Sound(r, pane.seen, c \in clients, pane.dead)
        PROVE  ClientsOK'
    <2>1. Sound(r, pane.seen, c \in clients', pane.dead)
      BY <1>2, <1>4
    <2> QED
      BY <1>1, <1>2, <1>3, <1>4, <2>1, OneClient
  <1>5. CASE Wake(c)
    <2>1. q.wpc = "check"
      BY <1>5 DEF Wake
    <2>2. PICK next \in {"done", "render", "take", "asleep"} :
              cl' = [cl EXCEPT ![c] = [q EXCEPT !.wpc = next]]
      BY <1>1, <1>5 DEF Wake
    <2> DEFINE r == [q EXCEPT !.wpc = next]
    <2>3. Sound(r, pane.seen, c \in clients, pane.dead)
      BY <1>1, <2>1, WakeSound
    <2> HIDE DEF r
    <2> QED
      BY <1>4, <2>2, <2>3 DEF r
  <1>6. CASE Render(c) /\ q.redraw
    <2> DEFINE r == [q EXCEPT !.wpc = "take", !.redraw = FALSE,
                              !.pending = <<ScreenFrame(pane.seen)>> \o q.pending]
    <2> DEFINE u == [q EXCEPT !.wpc = "take"]
    <2>1. q \in Client
      BY <1>1 DEF Sound, Typical
    <2>2. u.redraw = q.redraw /\ u.pending = q.pending
      BY <2>1 DEF Client
    <2>3. q.wpc = "render"
          /\ cl' = [cl EXCEPT ![c] =
                       [u EXCEPT !.redraw = FALSE,
                                 !.pending = <<ScreenFrame(pane.seen)>> \o u.pending]]
      BY <1>6, <2>2 DEF Render
    <2>4. [u EXCEPT !.redraw = FALSE, !.pending = <<ScreenFrame(pane.seen)>> \o u.pending] = r
      BY <2>1, <2>2 DEF Client
    <2>5. cl' = [cl EXCEPT ![c] = r] /\ q.wpc = "render"
      BY <2>3, <2>4
    <2>6. Sound(r, pane.seen, c \in clients, pane.dead)
      BY <1>1, <1>6, <2>5, RenderSound
    <2> HIDE DEF r
    <2> QED
      BY <1>4, <2>5, <2>6
  <1>7. CASE Render(c) /\ ~q.redraw
    <2> DEFINE r == [q EXCEPT !.wpc = "take"]
    <2>1. q \in Client
      BY <1>1 DEF Sound, Typical
    <2>2. r.redraw = q.redraw
      BY <2>1 DEF Client
    <2>3. cl' = [cl EXCEPT ![c] = r] /\ q.wpc = "render"
      BY <1>7, <2>2 DEF Render
    <2>4. Sound(r, pane.seen, c \in clients, pane.dead)
      BY <1>1, <2>3, NothingToRenderSound
    <2> HIDE DEF r
    <2> QED
      BY <1>4, <2>3, <2>4
  <1>8. CASE TakeBatch(c)
    <2> DEFINE r == [q EXCEPT !.wpc = "write", !.batch = q.pending, !.pending = <<>>,
                              !.last = q.ending]
    <2>1. cl' = [cl EXCEPT ![c] = r] /\ q.wpc = "take"
      BY <1>1, <1>8 DEF TakeBatch
    <2>2. Sound(r, pane.seen, c \in clients, pane.dead)
      BY <1>1, <2>1, TakeSound
    <2> HIDE DEF r
    <2> QED
      BY <1>4, <2>1, <2>2
  <1>9. CASE WriteFrame(c) /\ q.closed
    <2> DEFINE r == [q EXCEPT !.batch = <<>>, !.wpc = "done"]
    <2>1. q.wpc = "write" /\ q.batch # <<>>
      BY <1>9 DEF WriteFrame
    <2>2. q \in Client
      BY <1>1 DEF Sound, Typical
    <2>3. [[q EXCEPT !.batch = Tail(q.batch)] EXCEPT !.batch = <<>>, !.wpc = "done"] = r
      BY <2>2 DEF Client
    <2>4. cl' = [cl EXCEPT ![c] = [[q EXCEPT !.batch = Tail(q.batch)]
                                      EXCEPT !.batch = <<>>, !.wpc = "done"]]
      BY <1>1, <1>9, <2>2 DEF WriteFrame, Client
    <2>5. cl' = [cl EXCEPT ![c] = r]
      BY <2>3, <2>4
    <2>6. Sound(r, pane.seen, c \in clients, pane.dead)
      BY <1>1, <1>9, <2>1, GivenUpSound
    <2> HIDE DEF r
    <2> QED
      BY <1>4, <2>5, <2>6
  <1>10. CASE WriteFrame(c) /\ ~q.closed
    <2> DEFINE r == Shown([q EXCEPT !.batch = Tail(q.batch)], Head(q.batch))
    <2>1. q.wpc = "write" /\ q.batch # <<>>
      BY <1>10 DEF WriteFrame
    <2>2. q \in Client
      BY <1>1 DEF Sound, Typical
    <2>3. [q EXCEPT !.batch = Tail(q.batch)].closed = q.closed
      BY <2>2 DEF Client
    <2>4. cl' = [cl EXCEPT ![c] = r]
      BY <1>10, <2>3 DEF WriteFrame
    <2>5. Sound(r, pane.seen, c \in clients, pane.dead)
      BY <1>1, <1>10, <2>1, ShownSound
    <2> HIDE DEF r
    <2> QED
      BY <1>4, <2>4, <2>5
  <1>11. CASE BatchWritten(c)
    <2> DEFINE r == [q EXCEPT !.wpc = IF q.last /\ q.pending = <<>> THEN "done" ELSE "check"]
    <2>1. cl' = [cl EXCEPT ![c] = r] /\ q.wpc = "write" /\ q.batch = <<>>
      BY <1>1, <1>11 DEF BatchWritten
    <2>2. Sound(r, pane.seen, c \in clients, pane.dead)
      BY <1>1, <2>1, WrittenSound
    <2> HIDE DEF r
    <2> QED
      BY <1>4, <2>1, <2>2
  <1> QED
    BY <1>5, <1>6, <1>7, <1>8, <1>9, <1>10, <1>11 DEF Writer

\* Every step keeps what is on its way to every human in order.
LEMMA ClientsStep == PaneInv /\ [Next]_vars => ClientsOK'
  <1> SUFFICES ASSUME PaneInv, [Next]_vars
               PROVE  ClientsOK'
    OBVIOUS
  <1>1. CASE Prints \/ ExitProgram \/ Send \/ TakeInput \/ WriteInput \/ UNCHANGED vars
    BY <1>1, ClientsKept DEF Prints, ExitProgram, Send, TakeInput, WriteInput, vars
  <1>2. CASE Kill \/ EndOfOutput \/ Unlist \/ CloseGone \/ Broadcast
    <2>1. pane \in Pane
      BY DEF PaneInv, PaneOK
    <2>2. pane'.seen = pane.seen /\ pane'.dead = pane.dead
      BY <1>2, <2>1 DEF Pane, Kill, EndOfOutput, Unlist, CloseGone, Broadcast
    <2>3. UNCHANGED <<world, clients, cl>>
      BY <1>2 DEF Kill, EndOfOutput, Unlist, CloseGone, Broadcast
    <2> QED
      BY <2>2, <2>3, ClientsKept
  <1>3. CASE Output \/ MarkDead
    BY <1>3, OutputClients, MarkDeadClients
  <1>4. ASSUME NEW c \in Clients, Lookup(c) \/ Attach(c) \/ HumanTypes(c) \/ Detach(c) \/ Writer(c)
        PROVE  ClientsOK'
    <2>1. CASE HumanTypes(c)
      BY <2>1, ClientsKept DEF HumanTypes
    <2>2. CASE Lookup(c) \/ Refuse(c) \/ Greet(c)
      BY <2>2, AttachClients
    <2>3. CASE Register(c, "small") \/ Register(c, DefaultSize)
      BY <2>3, RegisterClients
    <2> QED
      BY <1>4, <2>1, <2>2, <2>3, DetachClients, WriterClients DEF Attach
  <1>5. ASSUME NEW c \in Clients, NEW size \in Sizes, HumanResizes(c, size)
        PROVE  ClientsOK'
    BY <1>5, HumanResizesClients
  <1> QED
    BY <1>1, <1>2, <1>3, <1>4, <1>5 DEF Next, Reader

----------------------------------------------------------------------------
\* The input queue

\* A writer that is woken looks at the queue again (Cond.Broadcast).
LEMMA WakeInputSound ==
  ASSUME NEW i, NEW gone, InputSound(i, gone)
  PROVE  InputSound(WakeInput(i), gone)
  <1>1. CASE i.wpc # "asleep"
    BY <1>1 DEF WakeInput
  <1>2. CASE i.wpc = "asleep"
    <2> DEFINE j == [i EXCEPT !.wpc = "check"]
    <2>1. i \in Input
      BY DEF InputSound
    <2>2. /\ j \in Input /\ j.queue = i.queue /\ j.bytes = i.bytes /\ j.wpc = "check"
          /\ j.hand = i.hand /\ j.accepted = i.accepted /\ j.written = i.written
      BY <2>1 DEF Input
    <2> HIDE DEF j
    <2>3. InputSound(j, gone)
      BY <1>2, <2>2 DEF InputSound
    <2> QED
      BY <1>2, <2>3 DEF WakeInput, j
  <1> QED
    BY <1>1, <1>2

\* A message is accepted behind the others (enqueue).
LEMMA AcceptSound ==
  ASSUME NEW i, InputSound(i, FALSE), i.bytes + 1 <= QueueMax
  PROVE  InputSound([i EXCEPT !.accepted = @ + 1, !.queue = Append(@, i.accepted + 1),
                              !.bytes = @ + 1], FALSE)
  <1> DEFINE e == i.accepted + 1
             q == Append(i.queue, e)
             b == i.bytes + 1
             m == Len(i.queue)
             o == Len(i.written) + Len(i.hand)
             j == [i EXCEPT !.accepted = e, !.queue = q, !.bytes = b]
  <1>1. /\ i \in Input /\ i.queue \in Seq(Nat) /\ i.bytes \in Nat /\ i.accepted \in Nat
        /\ i.written \in Seq(Nat) /\ i.hand \in Seq(Nat)
    BY DEF InputSound, Input
  <1>2. /\ m \in Nat /\ o \in Nat /\ i.bytes = m /\ i.accepted = o + m
        /\ \A k \in 1..m : i.queue[k] = o + k
    <2>1. /\ i.bytes = Len(i.queue)
          /\ i.accepted = Len(i.written) + Len(i.hand) + Len(i.queue)
      BY DEF InputSound
    <2>2. \A k \in 1..Len(i.queue) : i.queue[k] = Len(i.written) + Len(i.hand) + k
      BY DEF InputSound
    <2>3. Len(i.queue) \in Nat /\ Len(i.written) \in Nat /\ Len(i.hand) \in Nat
      BY <1>1
    <2>4. m \in Nat /\ o \in Nat
      <3> DEFINE x == Len(i.written)
                 y == Len(i.hand)
      <3>1. x \in Nat /\ y \in Nat
        BY <2>3
      <3> HIDE DEF x, y
      <3>2. x + y \in Nat
        BY <3>1
      <3> QED
        BY <2>3, <3>2 DEF x, y
    <2>5. i.bytes = m /\ i.accepted = o + m
      BY <2>1
    <2>6. \A k \in 1..m : i.queue[k] = o + k
      BY <2>2
    <2> QED
      BY <2>4, <2>5, <2>6
  <1> HIDE DEF m, o
  <1>3. e \in Nat /\ e = o + (m + 1) /\ b \in Nat /\ b = m + 1 /\ b <= QueueMax
    BY <1>1, <1>2
  <1>4. /\ q \in Seq(Nat) /\ Len(q) = m + 1
        /\ \A k \in 1..m : q[k] = i.queue[k]
        /\ q[m + 1] = e
        /\ \A k \in 1..(m + 1) : k \in 1..m \/ k = m + 1
    BY <1>1, <1>3, AppendIs DEF m
  <1> HIDE DEF e, q, b
  <1>5. /\ j \in Input /\ j.queue = q /\ j.bytes = b /\ j.wpc = i.wpc /\ j.hand = i.hand
        /\ j.accepted = e /\ j.written = i.written
    BY <1>1, <1>3, <1>4 DEF Input
  <1> HIDE DEF j
  <1>6. \A k \in 1..(m + 1) : q[k] = o + k
    <2> SUFFICES ASSUME NEW k \in 1..(m + 1)
                 PROVE  q[k] = o + k
      OBVIOUS
    <2>1. CASE k \in 1..m
      BY <1>2, <1>4, <2>1
    <2>2. CASE k = m + 1
      BY <1>3, <1>4, <2>2
    <2> QED
      BY <1>4, <2>1, <2>2
  <1>7. j.bytes = Len(j.queue) /\ Len(j.queue) <= QueueMax
    BY <1>3, <1>4, <1>5
  <1>8. j.accepted = o + Len(j.queue)
    BY <1>3, <1>4, <1>5
  <1>9. \A k \in 1..Len(j.queue) : j.queue[k] = o + k
    BY <1>4, <1>5, <1>6
  <1>10. /\ j.wpc = "write" => Len(j.hand) = 1
         /\ j.wpc # "write" => j.hand = <<>>
         /\ \A k \in 1..Len(j.written) : j.written[k] = k
         /\ \A k \in 1..Len(j.hand) : j.hand[k] = Len(j.written) + k
    BY <1>5 DEF InputSound
  <1>11. InputSound(j, FALSE)
    BY <1>5, <1>7, <1>8, <1>9, <1>10 DEF InputSound, o
  <1> QED
    BY <1>11 DEF j, e, q, b

\* A message is accepted or refused, and the writer is woken (enqueue).
LEMMA EnqueueSound ==
  ASSUME InputOK, pane.gone \in BOOLEAN
  PROVE  InputSound(Enqueue(input), pane.gone)
  <1>1. InputSound(input, pane.gone)
    BY DEF InputOK
  <1>2. CASE pane.gone \/ input.bytes + 1 > QueueMax
    BY <1>1, <1>2 DEF Enqueue
  <1>3. CASE ~(pane.gone \/ input.bytes + 1 > QueueMax)
    <2> DEFINE j == [input EXCEPT !.accepted = @ + 1, !.queue = Append(@, input.accepted + 1),
                                  !.bytes = @ + 1]
    <2>1. pane.gone = FALSE /\ input.bytes + 1 <= QueueMax
      BY <1>1, <1>3, PaneAssumption DEF InputSound, Input
    <2>2. InputSound(input, FALSE)
      BY <1>1, <2>1
    <2>3. InputSound(j, FALSE)
      BY <2>1, <2>2, AcceptSound
    <2>4. Enqueue(input) = WakeInput(j)
      BY <1>3 DEF Enqueue
    <2> HIDE DEF j
    <2> QED
      BY <2>1, <2>3, <2>4, WakeInputSound
  <1> QED
    BY <1>2, <1>3

\* The oldest message is taken into the writer's hands, and its room given back
\* (writeLoop of the input).
LEMMA TakeInputSound ==
  ASSUME NEW i, InputSound(i, FALSE), i.wpc = "check", i.queue # <<>>
  PROVE  InputSound([i EXCEPT !.wpc = "write", !.hand = <<Head(i.queue)>>,
                              !.queue = Tail(@), !.bytes = @ - 1], FALSE)
  <1> DEFINE h == <<Head(i.queue)>>
             q == Tail(i.queue)
             b == i.bytes - 1
             m == Len(i.queue)
             w == Len(i.written)
             j == [i EXCEPT !.wpc = "write", !.hand = h, !.queue = q, !.bytes = b]
  <1>1. /\ i \in Input /\ i.queue \in Seq(Nat) /\ i.bytes \in Nat /\ i.accepted \in Nat
        /\ i.written \in Seq(Nat) /\ i.hand = <<>>
    BY DEF InputSound, Input
  <1>2. /\ m \in Nat /\ w \in Nat /\ i.bytes = m /\ i.accepted = w + m /\ m <= QueueMax
        /\ \A k \in 1..m : i.queue[k] = w + k
    <2>1. /\ i.bytes = Len(i.queue) /\ Len(i.queue) <= QueueMax
          /\ i.accepted = Len(i.written) + Len(i.hand) + Len(i.queue)
      BY DEF InputSound
    <2>2. \A k \in 1..Len(i.queue) : i.queue[k] = Len(i.written) + Len(i.hand) + k
      BY DEF InputSound
    <2>3. Len(i.queue) \in Nat /\ Len(i.written) \in Nat /\ Len(i.hand) = 0
      BY <1>1
    <2> QED
      BY <2>1, <2>2, <2>3
  <1>3. /\ m >= 1 /\ Head(i.queue) = i.queue[1] /\ i.queue[1] \in Nat
        /\ q \in Seq(Nat) /\ Len(q) = m - 1
        /\ \A k \in 1..Len(q) : k + 1 \in 1..m /\ q[k] = i.queue[k + 1]
    BY <1>1, TailIs
  <1>4. h \in Seq(Nat) /\ Len(h) = 1 /\ h[1] = w + 1
    BY <1>2, <1>3
  <1> HIDE DEF h, q, m, w
  <1>5. b \in Nat /\ b = Len(q) /\ b <= QueueMax /\ i.accepted = w + 1 + b
    BY <1>2, <1>3, PaneAssumption
  <1> HIDE DEF b
  <1>6. /\ j \in Input /\ j.queue = q /\ j.bytes = b /\ j.wpc = "write" /\ j.hand = h
        /\ j.accepted = i.accepted /\ j.written = i.written
    BY <1>1, <1>3, <1>4, <1>5 DEF Input
  <1> HIDE DEF j
  <1>7. \A k \in 1..Len(q) : q[k] = w + 1 + k
    <2> SUFFICES ASSUME NEW k \in 1..Len(q)
                 PROVE  q[k] = w + 1 + k
      OBVIOUS
    <2>1. k + 1 \in 1..m /\ q[k] = i.queue[k + 1]
      BY <1>3
    <2>2. i.queue[k + 1] = w + (k + 1)
      BY <1>2, <2>1
    <2> QED
      BY <1>2, <2>1, <2>2
  <1>8. \A k \in 1..Len(h) : h[k] = w + k
    BY <1>4
  <1>9. \A k \in 1..Len(j.written) : j.written[k] = k
    BY <1>6 DEF InputSound
  <1>10. InputSound(j, FALSE)
    BY <1>4, <1>5, <1>6, <1>7, <1>8, <1>9 DEF InputSound, w
  <1> QED
    BY <1>10 DEF j, h, q, b

\* One more at the end of what was written.
LEMMA ConcatIs ==
  ASSUME NEW a \in Seq(Nat), NEW b \in Seq(Nat), Len(b) = 1
  PROVE  /\ a \o b \in Seq(Nat) /\ Len(a \o b) = Len(a) + 1 /\ Len(a) \in Nat
         /\ \A k \in 1..Len(a) : (a \o b)[k] = a[k]
         /\ (a \o b)[Len(a) + 1] = b[1]
         /\ \A k \in 1..(Len(a) + 1) : k \in 1..Len(a) \/ k = Len(a) + 1
  <1> DEFINE s == a \o b
             n == Len(a)
  <1>1. /\ s \in Seq(Nat) /\ Len(s) = n + Len(b) /\ n \in Nat
        /\ \A k \in 1..(n + Len(b)) : s[k] = IF k <= n THEN a[k] ELSE b[k - n]
    <2>1. /\ s \in Seq(Nat) /\ Len(s) = n + Len(b)
          /\ \A k \in 1..(n + Len(b)) : s[k] = IF k <= n THEN a[k] ELSE b[k - n]
      BY ConcatProperties, Zenon
    <2>2. n \in Nat
      BY LenProperties
    <2> QED
      BY <2>1, <2>2
  <1> HIDE DEF s, n
  <1>2. /\ n + 1 \in 1..(n + 1) /\ ~(n + 1 <= n) /\ (n + 1) - n = 1
        /\ \A k \in 1..n : k \in 1..(n + 1) /\ k <= n
        /\ \A k \in 1..(n + 1) : k \in 1..n \/ k = n + 1
    BY <1>1
  <1>3. s[n + 1] = b[1] /\ \A k \in 1..n : s[k] = a[k]
    BY <1>1, <1>2
  <1> QED
    BY <1>1, <1>2, <1>3 DEF s, n

\* The message in hand reaches the program behind those that did (writeLoop of
\* the input).
LEMMA WriteInputSound ==
  ASSUME NEW i, InputSound(i, FALSE), i.wpc = "write"
  PROVE  InputSound([i EXCEPT !.wpc = "check", !.hand = <<>>, !.written = @ \o i.hand], FALSE)
  <1> DEFINE m == Len(i.queue)
             w == Len(i.written)
             x == i.written \o i.hand
             j == [i EXCEPT !.wpc = "check", !.hand = <<>>, !.written = x]
  <1>1. /\ i \in Input /\ i.queue \in Seq(Nat) /\ i.bytes \in Nat /\ i.accepted \in Nat
        /\ i.written \in Seq(Nat) /\ i.hand \in Seq(Nat) /\ Len(i.hand) = 1
    BY DEF InputSound, Input
  <1>2. /\ i.bytes = m /\ m <= QueueMax
        /\ i.accepted = w + Len(i.hand) + m
        /\ i.hand[1] = w + 1
        /\ \A k \in 1..m : i.queue[k] = w + Len(i.hand) + k
        /\ \A k \in 1..w : i.written[k] = k
    <2>1. i.bytes = m /\ m <= QueueMax /\ i.accepted = w + Len(i.hand) + m
      BY DEF InputSound
    <2>2. \A k \in 1..Len(i.hand) : i.hand[k] = w + k
      BY DEF InputSound
    <2>3. 1 \in 1..Len(i.hand)
      BY <1>1
    <2>4. \A k \in 1..m : i.queue[k] = w + Len(i.hand) + k
      BY DEF InputSound
    <2>5. \A k \in 1..w : i.written[k] = k
      BY DEF InputSound
    <2> QED
      BY <2>1, <2>2, <2>3, <2>4, <2>5
  <1>3. m \in Nat /\ w \in Nat
    BY <1>1
  <1>4. /\ x \in Seq(Nat) /\ Len(x) = w + 1
        /\ \A k \in 1..w : x[k] = i.written[k]
        /\ x[w + 1] = i.hand[1]
        /\ \A k \in 1..(w + 1) : k \in 1..w \/ k = w + 1
    BY <1>1, ConcatIs
  <1> HIDE DEF x
  <1>5. /\ j.queue = i.queue /\ j.bytes = i.bytes /\ j.wpc = "check" /\ j.hand = <<>>
        /\ j.accepted = i.accepted /\ j.written = x
    BY <1>1 DEF Input
  <1>6. j \in Input
    <2>1. <<>> \in Seq(Nat)
      OBVIOUS
    <2> QED
      BY <1>1, <1>4, <2>1 DEF Input
  <1> HIDE DEF j, m, w
  <1>7. \A k \in 1..Len(j.written) : j.written[k] = k
    BY <1>2, <1>3, <1>4, <1>5
  <1>8. Len(j.hand) = 0 /\ \A k \in 1..Len(j.hand) : j.hand[k] = Len(j.written) + k
    BY <1>5
  <1>9. Len(j.written) = w + 1 /\ Len(j.queue) = m
    BY <1>4, <1>5 DEF m
  <1>10. j.accepted = Len(j.written) + Len(j.hand) + Len(j.queue)
    <2>1. i.accepted = w + 1 + m
      BY <1>1, <1>2
    <2>2. w + 1 + m = (w + 1) + 0 + m
      BY <1>3
    <2> QED
      BY <1>5, <1>8, <1>9, <2>1, <2>2
  <1>11. \A k \in 1..Len(j.queue) : j.queue[k] = Len(j.written) + Len(j.hand) + k
    <2> SUFFICES ASSUME NEW k \in 1..m
                 PROVE  i.queue[k] = (w + 1) + 0 + k
      BY <1>5, <1>8, <1>9
    <2>1. i.queue[k] = w + 1 + k
      BY <1>1, <1>2
    <2> QED
      BY <1>3, <2>1
  <1>12. j.bytes = Len(j.queue) /\ Len(j.queue) <= QueueMax
    BY <1>2, <1>5 DEF m
  <1>13. InputSound(j, FALSE)
    BY <1>5, <1>6, <1>7, <1>8, <1>10, <1>11, <1>12 DEF InputSound
  <1> QED
    BY <1>13 DEF j, x

\* What the pane's end makes of the queue is nobody's any more (finish).
LEMMA GoneInputSound ==
  ASSUME NEW i, NEW gone, InputSound(i, gone),
         NEW q \in Seq(Nat), Len(q) <= QueueMax, NEW j,
         \/ j = [i EXCEPT !.queue = q]
         \/ j = [i EXCEPT !.wpc = "check", !.hand = <<>>]
  PROVE  InputSound(j, TRUE)
  <1>1. i \in Input /\ \A k \in 1..Len(i.written) : i.written[k] = k
    BY DEF InputSound
  <1>2. <<>> \in Seq(Nat)
    OBVIOUS
  <1>3. /\ Len(i.queue) <= QueueMax
        /\ i.wpc = "write" => Len(i.hand) = 1
        /\ i.wpc # "write" => i.hand = <<>>
    BY DEF InputSound
  <1>4. CASE j = [i EXCEPT !.queue = q]
    <2>1. /\ j.queue = q /\ j.wpc = i.wpc /\ j.hand = i.hand /\ j.written = i.written
      BY <1>1, <1>4 DEF Input
    <2>2. j \in Input
      BY <1>1, <1>4 DEF Input
    <2> QED
      BY <1>1, <1>3, <2>1, <2>2 DEF InputSound
  <1>5. CASE j = [i EXCEPT !.wpc = "check", !.hand = <<>>]
    <2>1. /\ j.queue = i.queue /\ j.wpc = "check" /\ j.hand = <<>> /\ j.written = i.written
      BY <1>1, <1>5 DEF Input
    <2>2. j \in Input
      BY <1>1, <1>2, <1>5 DEF Input
    <2> QED
      BY <1>1, <1>3, <2>1, <2>2 DEF InputSound
  <1> QED
    BY <1>4, <1>5

\* A writer that finds nothing to write sleeps, or is done (writeLoop of the
\* input).
LEMMA IdleInputSound ==
  ASSUME NEW i, NEW gone, InputSound(i, gone), i.wpc = "check", NEW next \in {"asleep", "done"}
  PROVE  InputSound([i EXCEPT !.wpc = next], gone)
  <1> DEFINE j == [i EXCEPT !.wpc = next]
  <1>1. i \in Input
    BY DEF InputSound
  <1>2. /\ j \in Input /\ j.queue = i.queue /\ j.bytes = i.bytes /\ j.wpc = next
        /\ j.hand = i.hand /\ j.accepted = i.accepted /\ j.written = i.written
    BY <1>1 DEF Input
  <1> HIDE DEF j
  <1>3. InputSound(j, gone)
    BY <1>2 DEF InputSound
  <1> QED
    BY <1>3 DEF j

\* Every step keeps the input in order.
LEMMA InputStep == PaneInv /\ [Next]_vars => InputOK'
  <1> SUFFICES ASSUME PaneInv, [Next]_vars
               PROVE  InputOK'
    OBVIOUS
  <1>1. InputOK /\ InputSound(input, pane.gone) /\ pane \in Pane /\ pane.gone \in BOOLEAN
    BY DEF PaneInv, InputOK, PaneOK, Pane
  <1>2. CASE pane'.gone = pane.gone /\ input' = input
    BY <1>1, <1>2 DEF InputOK
  <1>3. CASE pane'.gone = pane.gone /\ input' = Enqueue(input)
    <2>1. InputSound(Enqueue(input), pane.gone)
      BY <1>1, EnqueueSound
    <2> QED
      BY <1>3, <2>1 DEF InputOK
  <1>4. CASE Output
    <2>1. pane'.gone = pane.gone
      BY <1>1, <1>4 DEF Output, Recorded, Pane
    <2>2. input' = input \/ input' = Enqueue(input)
      BY <1>4 DEF Output
    <2> QED
      BY <1>2, <1>3, <2>1, <2>2
  <1>5. CASE Send \/ \E c \in Clients : HumanTypes(c)
    BY <1>3, <1>5 DEF Send, HumanTypes
  <1>6. CASE Kill \/ EndOfOutput \/ Unlist \/ MarkDead
    <2>1. pane'.gone = pane.gone
      BY <1>1, <1>6 DEF Kill, EndOfOutput, Unlist, MarkDead, Pane
    <2> QED
      BY <1>2, <1>6, <2>1 DEF Kill, EndOfOutput, Unlist, MarkDead
  <1>7. CASE Prints \/ ExitProgram \/ UNCHANGED vars
    BY <1>2, <1>7 DEF Prints, ExitProgram, vars
  <1>8. ASSUME NEW c \in Clients,
               Lookup(c) \/ Refuse(c) \/ Greet(c) \/ Writer(c)
        PROVE  InputOK'
    BY <1>2, <1>8 DEF Lookup, Refuse, Greet, Writer, Wake, Render, TakeBatch, WriteFrame,
                      BatchWritten
  <1>9. ASSUME NEW c \in Clients, NEW size, Register(c, size) \/ HumanResizes(c, size)
        PROVE  InputOK'
    <2>1. pane'.gone = pane.gone
      BY <1>1, <1>9 DEF Register, HumanResizes, Pane
    <2> QED
      BY <1>2, <1>9, <2>1 DEF Register, HumanResizes
  <1>10. ASSUME NEW c \in Clients, Detach(c)
         PROVE  InputOK'
    <2>1. pane'.gone = pane.gone
      BY <1>1, <1>10 DEF Detach, Pane
    <2> QED
      BY <1>2, <1>10, <2>1 DEF Detach
  <1>11. CASE CloseGone
    <2> DEFINE j == [input EXCEPT !.queue = <<>>]
    <2>1. pane'.gone = TRUE /\ input' = j
      BY <1>1, <1>11 DEF CloseGone, Pane
    <2>2. <<>> \in Seq(Nat) /\ Len(<<>>) <= QueueMax
      BY PaneAssumption
    <2>3. InputSound(j, TRUE)
      BY <1>1, <2>2, GoneInputSound
    <2> HIDE DEF j
    <2> QED
      BY <2>1, <2>3 DEF InputOK
  <1>12. CASE Broadcast
    <2>1. pane'.gone = pane.gone /\ input' = WakeInput(input)
      BY <1>1, <1>12 DEF Broadcast, Pane
    <2>2. InputSound(WakeInput(input), pane.gone)
      BY <1>1, WakeInputSound
    <2> QED
      BY <2>1, <2>2 DEF InputOK
  <1>13. CASE TakeInput
    <2>1. pane' = pane /\ input.wpc = "check"
      BY <1>13 DEF TakeInput
    <2>2. CASE pane.gone \/ input.queue = <<>>
      <3>1. PICK next \in {"asleep", "done"} : input' = [input EXCEPT !.wpc = next]
        BY <1>13, <2>2 DEF TakeInput
      <3>2. InputSound([input EXCEPT !.wpc = next], pane.gone)
        BY <1>1, <2>1, IdleInputSound
      <3>3. InputSound(input', pane.gone)
        BY <3>1, <3>2
      <3> QED
        BY <2>1, <3>3 DEF InputOK
    <2>3. CASE ~(pane.gone \/ input.queue = <<>>)
      <3> DEFINE j == [input EXCEPT !.wpc = "write", !.hand = <<Head(input.queue)>>,
                                    !.queue = Tail(@), !.bytes = @ - 1]
      <3>1. input' = j
        BY <1>13, <2>3 DEF TakeInput
      <3>2. pane.gone = FALSE /\ InputSound(input, FALSE) /\ input.queue # <<>>
        BY <1>1, <2>3
      <3>3. InputSound(j, FALSE)
        BY <2>1, <3>2, TakeInputSound
      <3> HIDE DEF j
      <3>4. pane'.gone = FALSE
        BY <2>1, <3>2
      <3> QED
        BY <3>1, <3>3, <3>4 DEF InputOK
    <2> QED
      BY <2>2, <2>3
  <1>14. CASE WriteInput
    <2>1. pane' = pane /\ input.wpc = "write"
      BY <1>14 DEF WriteInput
    <2>2. CASE pane.gone
      <3> DEFINE j == [input EXCEPT !.wpc = "check", !.hand = <<>>]
      <3>1. input' = [input EXCEPT !.wpc = "check", !.hand = <<>>, !.written = input.written]
        BY <1>14, <2>2 DEF WriteInput
      <3>2. input \in Input
        BY <1>1 DEF InputSound
      <3>3. [input EXCEPT !.wpc = "check", !.hand = <<>>, !.written = input.written] = j
        BY <3>2 DEF Input
      <3>4. <<>> \in Seq(Nat) /\ Len(<<>>) <= QueueMax
        BY PaneAssumption
      <3>5. InputSound(j, TRUE)
        BY <1>1, <3>4, GoneInputSound
      <3>6. input' = j
        BY <3>1, <3>3
      <3> HIDE DEF j
      <3>7. pane'.gone = TRUE
        BY <1>1, <2>1, <2>2
      <3> QED
        BY <3>5, <3>6, <3>7 DEF InputOK
    <2>3. CASE ~pane.gone
      <3> DEFINE j == [input EXCEPT !.wpc = "check", !.hand = <<>>, !.written = @ \o input.hand]
      <3>1. input' = j
        BY <1>14, <2>3 DEF WriteInput
      <3>2. pane.gone = FALSE /\ InputSound(input, FALSE)
        BY <1>1, <2>3
      <3>3. InputSound(j, FALSE)
        BY <2>1, <3>2, WriteInputSound
      <3> HIDE DEF j
      <3>4. pane'.gone = FALSE
        BY <2>1, <3>2
      <3> QED
        BY <3>1, <3>3, <3>4 DEF InputOK
    <2> QED
      BY <2>2, <2>3
  <1> QED
    BY <1>4, <1>5, <1>6, <1>7, <1>8, <1>9, <1>10, <1>11, <1>12, <1>13, <1>14
    DEF Next, Reader, Attach

----------------------------------------------------------------------------
\* The initial states

\* A terminal that was just made has shown nothing and been sent nothing
\* (newPane).
LEMMA InitPane == Init => PaneInv
  <1> SUFFICES ASSUME Init
               PROVE  PaneInv
    OBVIOUS
  <1>1. /\ world \in Worlds /\ world.outputs \in Nat
        /\ prog = [printed |-> 0, exited |-> FALSE]
        /\ pane = [listed |-> TRUE, dead |-> FALSE, gone |-> FALSE, size |-> DefaultSize,
                   seen |-> 0, fin |-> "reading"]
        /\ clients = {} /\ cl = [c \in Clients |-> NewClient]
    BY PaneAssumption DEF Init
  <1>2. /\ pane \in Pane /\ pane.seen = 0
        /\ pane.dead = FALSE /\ pane.gone = FALSE /\ pane.fin = "reading"
    BY <1>1 DEF Pane, Sizes, Fins
  <1>3. prog \in [printed : 0..world.outputs, exited : BOOLEAN] /\ prog.printed = 0
    BY <1>1
  <1>4. PaneOK
    BY <1>1, <1>2, <1>3 DEF PaneOK
  <1>5. ClientsOK
    <2> SUFFICES ASSUME NEW c \in Clients
                 PROVE  /\ Sound(cl[c], pane.seen, c \in clients, pane.dead)
                        /\ cl[c].conn # "new" => c \in world.watchers
      BY <1>1 DEF ClientsOK
    <2>1. cl[c] = NewClient /\ (c \in clients) = FALSE /\ cl[c].conn = "new"
      BY <1>1 DEF NewClient
    <2> QED
      BY <1>2, <2>1, InitSound
  <1>6. InputOK
    <2>1. input = [queue |-> <<>>, bytes |-> 0, wpc |-> "check", hand |-> <<>>,
                   accepted |-> 0, written |-> <<>>]
      BY DEF Init
    <2>2. <<>> \in Seq(Nat)
      OBVIOUS
    <2>3. input \in Input
      BY <2>1, <2>2 DEF Input
    <2>4. /\ input.queue = <<>> /\ input.bytes = 0 /\ input.wpc = "check" /\ input.hand = <<>>
          /\ input.accepted = 0 /\ input.written = <<>>
      BY <2>1
    <2> QED
      BY <2>3, <2>4, PaneAssumption DEF InputOK, InputSound
  <1> QED
    BY <1>4, <1>5, <1>6 DEF PaneInv

----------------------------------------------------------------------------
\* What is promised

\* What is queued, in hand and on the humans' screens leads from one to the next
\* (attach_server.go:77-79), and the input is numbered on from what was written.
THEOREM PaneInvariant == Spec => []PaneInv
  <1>1. PaneInv /\ [Next]_vars => PaneInv'
    BY PaneStep, ClientsStep, InputStep DEF PaneInv
  <1> QED
    BY <1>1, InitPane, PTL DEF Spec

\* No chunk is missing, repeated or late on a human's screen, and whoever is told
\* of the end has seen everything, but for a redraw that is owed to them
\* (attach_server.go:77-79).
THEOREM ContiguousViews == Spec => []NoTornView
  <1>1. PaneInv => NoTornView
    BY DEF PaneInv, ClientsOK, Sound, Typical, Ended, NoTornView
  <1> QED
    BY <1>1, PaneInvariant, PTL

\* Input reaches the program once each and in the order it was accepted in, from
\* however many humans and sends it comes (server.go:664-667).
THEOREM InputArrivesInOrder == Spec => []InputInOrder
  <1>1. PaneInv => InputInOrder
    <2> SUFFICES ASSUME PaneInv
                 PROVE  InputInOrder
      OBVIOUS
    <2> DEFINE a == input.written
               b == input.hand
               q == input.queue
               s == (a \o b) \o q
    <2>1. /\ a \in Seq(Nat) /\ b \in Seq(Nat) /\ q \in Seq(Nat)
          /\ \A k \in 1..Len(a) : a[k] = k
      BY DEF PaneInv, InputOK, InputSound, Input
    <2>2. ASSUME ~pane.gone
          PROVE  input.bytes = Len(q) /\ s = [i \in 1..input.accepted |-> i]
      <3>1. /\ input.bytes = Len(q)
            /\ input.accepted = Len(a) + Len(b) + Len(q)
            /\ \A k \in 1..Len(b) : b[k] = Len(a) + k
            /\ \A k \in 1..Len(q) : q[k] = Len(a) + Len(b) + k
        BY <2>2 DEF PaneInv, InputOK, InputSound
      <3> HIDE DEF a, b, q
      <3> DEFINE t == a \o b
                 la == Len(a)
                 lb == Len(b)
                 lq == Len(q)
      <3>2. la \in Nat /\ lb \in Nat /\ lq \in Nat
        BY <2>1, LenProperties
      <3>3. /\ t \in Seq(Nat) /\ Len(t) = la + lb
            /\ \A k \in 1..(la + lb) : t[k] = IF k <= la THEN a[k] ELSE b[k - la]
        BY <2>1, ConcatProperties, Zenon
      <3> HIDE DEF t
      <3>4. /\ t \o q \in Seq(Nat) /\ Len(t \o q) = Len(t) + lq
            /\ \A k \in 1..(Len(t) + lq) : (t \o q)[k] = IF k <= Len(t) THEN t[k] ELSE q[k - Len(t)]
        BY <2>1, <3>3, ConcatProperties, Zenon
      <3>5. s = t \o q
        BY DEF t
      <3>6. /\ input.accepted = la + lb + lq
            /\ \A k \in 1..la : a[k] = k
            /\ \A k \in 1..lb : b[k] = la + k
            /\ \A k \in 1..lq : q[k] = la + lb + k
        BY <2>1, <3>1
      <3> HIDE DEF s, la, lb, lq
      <3>7. \A k \in 1..(la + lb) : t[k] = k
        <4> SUFFICES ASSUME NEW k \in 1..(la + lb)
                     PROVE  t[k] = k
          OBVIOUS
        <4>1. CASE k <= la
          BY <3>2, <3>3, <3>6, <4>1
        <4>2. CASE ~(k <= la)
          <5>1. k - la \in 1..lb /\ la + (k - la) = k
            BY <3>2, <4>2
          <5> QED
            BY <3>3, <3>6, <4>2, <5>1
        <4> QED
          BY <4>1, <4>2
      <3>8. Len(s) = la + lb + lq /\ s \in Seq(Nat)
        BY <3>3, <3>4, <3>5
      <3>9. \A k \in 1..(la + lb + lq) : s[k] = k
        <4> SUFFICES ASSUME NEW k \in 1..(la + lb + lq)
                     PROVE  s[k] = k
          OBVIOUS
        <4>1. s[k] = IF k <= la + lb THEN t[k] ELSE q[k - (la + lb)]
          BY <3>3, <3>4, <3>5
        <4>2. CASE k <= la + lb
          BY <3>2, <3>7, <4>1, <4>2
        <4>3. CASE ~(k <= la + lb)
          <5>1. k - (la + lb) \in 1..lq /\ la + lb + (k - (la + lb)) = k
            BY <3>2, <4>3
          <5> QED
            BY <3>6, <4>1, <4>3, <5>1
        <4> QED
          BY <4>2, <4>3
      <3>10. s = [k \in 1..Len(s) |-> s[k]]
        BY <3>8, LenProperties
      <3>11. s = [k \in 1..(la + lb + lq) |-> k]
        BY <3>8, <3>9, <3>10
      <3> QED
        BY <3>1, <3>6, <3>11
    <2> QED
      BY <2>1, <2>2 DEF InputInOrder
  <1> QED
    BY <1>1, PaneInvariant, PTL

\* A sequence of frames that are not newer than what the world has.
LEMMA FramesAre ==
  ASSUME world.outputs \in Nat, NEW s \in Seq(AnyFrame), NEW n \in 0..world.outputs, Recent(s, n)
  PROVE  s \in Seq(Frames)
  <1>1. \A i \in 1..Len(s) : s[i] \in Frames
    <2> SUFFICES ASSUME NEW i \in 1..Len(s)
                 PROVE  s[i] \in Frames
      OBVIOUS
    <2>1. s[i] \in AnyFrame /\ s[i].upto <= n
      BY DEF Recent
    <2>2. s[i].upto \in 0..world.outputs
      BY <2>1 DEF AnyFrame
    <2> QED
      BY <2>1, <2>2 DEF AnyFrame, Frames
  <1>2. s \in [1..Len(s) -> AnyFrame] /\ Len(s) \in Nat
    BY LenProperties
  <1>3. s \in [1..Len(s) -> Frames]
    BY <1>1, <1>2
  <1> QED
    BY <1>2, <1>3, SeqDef

\* What is queued stays within its bounds, and nobody sees what was not printed.
THEOREM TypeCorrect == Spec => []TypeOK
  <1>1. PaneInv => TypeOK
    <2> SUFFICES ASSUME PaneInv
                 PROVE  TypeOK
      OBVIOUS
    <2>1. /\ prog \in [printed : 0..world.outputs, exited : BOOLEAN] /\ world.outputs \in Nat
          /\ pane \in Pane /\ pane.seen <= prog.printed
      BY PaneAssumption DEF PaneInv, PaneOK
    <2>2. pane.seen \in 0..prog.printed /\ pane.seen \in 0..world.outputs /\ pane.seen \in Nat
      BY <2>1 DEF Pane
    <2>3. clients \subseteq world.watchers
      BY ClientsAre
    <2>4. ASSUME NEW c \in Clients
          PROVE  /\ cl[c].pending \in Seq(Frames) /\ cl[c].batch \in Seq(Frames)
                 /\ Len(cl[c].pending) <= Backlog + 1
                 /\ cl[c].view \in 0..pane.seen
      <3>1. Typical(cl[c], pane.seen)
        BY <2>4 DEF PaneInv, ClientsOK, Sound
      <3>2. /\ cl[c].pending \in Seq(AnyFrame) /\ cl[c].batch \in Seq(AnyFrame)
            /\ Recent(cl[c].pending, pane.seen) /\ Recent(cl[c].batch, pane.seen)
            /\ cl[c].view \in Nat /\ cl[c].view <= pane.seen
        BY <3>1 DEF Typical, Client
      <3>3. cl[c].pending \in Seq(Frames) /\ cl[c].batch \in Seq(Frames)
        BY <2>1, <2>2, <3>2, FramesAre
      <3>4. Len(cl[c].pending) <= Backlog + 1
        BY <3>1 DEF Typical
      <3> QED
        BY <2>2, <3>2, <3>3, <3>4
    <2>5. Len(input.queue) <= QueueMax
      BY DEF PaneInv, InputOK, InputSound
    <2> QED
      BY <2>1, <2>2, <2>3, <2>4, <2>5 DEF TypeOK, Pane
  <1> QED
    BY <1>1, PaneInvariant, PTL
=============================================================================
