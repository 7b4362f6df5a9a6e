------------------------------ MODULE Terminal ------------------------------
(***************************************************************************)
(* What happens to one program's output (pane.output in muxd/server.go):   *)
(* it is appended to the raw log, run through the virtual terminal, and    *)
(* relayed to the attached human, who starts from a repaint and is         *)
(* repainted after a resize (attach_server.go); whoever follows the log    *)
(* scans it in whatever pieces the reads return (LogFollower).             *)
(*                                                                         *)
(* The human's terminal is not pairmux's: it stands for any terminal that  *)
(* reads the bytes as this one does, sits on its alternate screen and has  *)
(* no caps of its own.  Each state machine under test is a world: a screen *)
(* size and the pieces of output a program may write, chosen so that they  *)
(* meet in every order.                                                    *)
(***************************************************************************)
EXTENDS VtParser, VtSoundness, LogFollower

CONSTANTS Worlds,     \* records: cols, rows, limit, pieces, sizes, follow, attach (after how
                      \* many feeds a human may come), feeds (bound: how many)
          NoHuman     \* nobody is attached

VARIABLES world,      \* the world of this behaviour
          par,        \* its parser's state, and what the last Feed returned
          human,      \* the attached human's terminal
          feeds

vars == <<world, scr, par, human, feeds, followVars>>

\* pane.scr: a screen (scr, a variable of VtSoundness) and its parser.
term == par @@ [scr |-> scr]
Parser(t) == [f \in DOMAIN t \ {"scr"} |-> t[f]]
Becomes(t) == scr' = t.scr /\ par' = Parser(t)

HugeCap == 1000000
Init ==
    /\ world \in Worlds
    /\ scr = NewScreen(world.cols, world.rows, world.limit)
    /\ par = Parser(NewTerminal(scr, MaxCSI, MaxString))
    /\ human = NoHuman
    /\ feeds = 0
    /\ FollowInit      \* of raw.log, which is kept in worlds where it is followed

\* A repaint of s on a terminal of its size.
Repainted(h, s) == Feed(h, Render(s))
FreshHuman(s) ==
    NewTerminal(SwitchBuffer(NewScreen(s.cols, s.rows, 0), "alt"), HugeCap, HugeCap)

\* What is still to come of a sequence too long to hold reaches the human as
\* text; an unfinished one that is held does not.
Thread(w) == [w EXCEPT !.loose = IF w.csiOver \/ w.strOver THEN "stray" ELSE ""]

----------------------------------------------------------------------------
\* output: the log, the screen, the human.
Output(p) ==
    /\ feeds < world.feeds
    /\ p \in world.pieces
    /\ IF world.follow THEN Logged(p) ELSE UNCHANGED followVars
    /\ Becomes(Feed(term, p))
    /\ human' = IF human = NoHuman THEN NoHuman ELSE Feed(human, term'.out)
    /\ feeds' = feeds + 1
    /\ UNCHANGED world

\* attach, and the repaint its writeLoop sends first.
Attach ==
    /\ feeds \in world.attach
    /\ human = NoHuman
    /\ human' = Repainted(FreshHuman(term.scr), term.scr)
    /\ Becomes(Thread(term))
    /\ UNCHANGED <<world, feeds, followVars>>

\* resizeLocked: the human's terminal, or the default size after a detach,
\* sets the pane's; the human is repainted.
Resized(w, size) == On(w, Resize(w.scr, size[1], size[2]))
ResizeTo(size) ==
    /\ feeds < world.feeds
    /\ size \in world.sizes
    /\ size # <<term.scr.cols, term.scr.rows>>
    /\ Becomes(IF human = NoHuman THEN Resized(term, size) ELSE Thread(Resized(term, size)))
    /\ human' = IF human = NoHuman THEN human
                ELSE Repainted(Resized(human, size), term'.scr)
    /\ feeds' = feeds + 1
    /\ UNCHANGED <<world, followVars>>

\* Somebody begins to follow the log, or reads on.
Follow(f) ==
    /\ world.follow
    /\ \/ \E base \in 0..Len(raw) : StartAt(f, base)
       \/ \E size \in 1..Len(raw) : ReadOn(f, size)
    /\ UNCHANGED <<world, scr, par, human, feeds>>

Next ==
    \/ \E p \in world.pieces : Output(p)
    \/ Attach
    \/ \E size \in world.sizes : ResizeTo(size)
    \/ \E f \in Followers : Follow(f)

Spec == Init /\ [][Next]_vars

----------------------------------------------------------------------------
\* What it means for two terminals to agree

\* What can be seen or decides what the next output will look like.
Shown(c) == [c EXCEPT !.r = IF @ = "" THEN " " ELSE @]
View(s) ==
    [cells |-> [y \in 0..(s.rows - 1) |-> [x \in 0..(s.cols - 1) |-> Shown(Lines(s)[y].cells[x])]],
     cursor |-> <<s.cx, s.cy, s.pendingWrap, s.cursorStyle>>,
     pen |-> <<s.pen, s.g, s.gl>>,
     region |-> <<s.top, s.bottom>>, modes |-> s.modes, title |-> s.title]
Looks(s, t) == View(s) = View(t)

\* The rest, which no repaint carries: the saved cursor, the tab stops and
\* the memory of REP.
Aligned(s, t) == Looks(s, t) /\ s.saved[s.active] = t.saved[t.active] /\ s.tabs = t.tabs
InStep(s, t) == Aligned(s, t) /\ s.last = t.last

\* Screens a repaint can reproduce.  Drawn left to right, a glyph placed after
\* a ZWJ or next to a lone flag half would join it, and a VS16 widen what it
\* could not in the last column; and a restored cursor may have brought origin
\* mode back outside the scroll region, where no cursor movement reaches.
Replayable(s) ==
    /\ \A y \in 0..(s.rows - 1) : \A x \in 0..(s.cols - 1) :
          LET c == Lines(s)[y].cells[x]
          IN  c.r # "flag" /\ ToSet(c.comb) \cap {"ZWJ", "VS16", "flag"} = {}
    /\ s.modes.origin => s.cy \in s.top..s.bottom

\* The human's terminal is not in the middle of a sequence; it may wait for
\* the rest of a character that the program never finishes, and then shows
\* the replacement with the next byte it gets.
Whole(h) == h.state = "ground"
Waits(h) == h.held # <<>>

----------------------------------------------------------------------------
\* Properties

\* Following touches neither the screen nor its parser: what is about these is
\* looked at while nobody follows the log, which every state of them meets.
Unfollowed == \A f \in Followers : ~ Begun(f)

\* A repaint reproduces the screen: a human who attaches now sees what the
\* program has drawn, with its cursor, pending wrap, pen, character sets,
\* scroll region, modes and title, so that what the program writes next lands
\* where it should (vt/render.go).
RedrawRepaints ==
    human = NoHuman /\ Unfollowed /\ Replayable(term.scr) =>
        Looks(term.scr, Repainted(FreshHuman(term.scr), term.scr).scr)

\* The filtered stream keeps an attached human's terminal showing what pairmux
\* thinks it shows.  A repaint (on attach, after a resize, in place of a switch
\* or a reset) makes what is seen agree whatever was there before; any other
\* output keeps a terminal that is in step in step, but for the memory of REP
\* when a query was taken out (vt/parser.go, vt/csi.go).
Size(s) == <<s.cols, s.rows>>
Repaint == human = NoHuman \/ "switch" \in term'.taken \/ Size(term.scr) # Size(term'.scr)
HumanKeepsUp ==
    [][human' # NoHuman /\ ~Waits(human') /\ term'.loose # "stray" =>
          IF Repaint
          THEN Replayable(term'.scr) => Looks(term'.scr, human'.scr)
          ELSE InStep(term.scr, human.scr) =>
                   /\ Aligned(term'.scr, human'.scr)
                   /\ term'.taken = {} => InStep(term'.scr, human'.scr)
      ]_<<scr, par, human>>

\* No query reaches the human's terminal: it never answers one (the program
\* would get two answers), never leaves its alternate screen, and is in the
\* middle of a sequence only when the program broke one off (vt/doc.go).
QueriesStayInside ==
    (human # NoHuman /\ term.loose # "stray") =>
        /\ human.reply = <<>>
        /\ human.scr.active = "alt"
        /\ term.loose = "" => Whole(human)

\* How the program's output is cut into reads changes nothing: byte by byte it
\* draws the same screen, forwards the same bytes and gives the same answers
\* (a sequence or character cut by a read is held, and the bulk path for text
\* must draw what one glyph at a time would).
RECURSIVE OneByOne(_, _, _, _)
OneByOne(w, p, out, reply) ==
    LET seen == out \o w.out  answers == reply \o w.reply
    IN  IF p = <<>> THEN [w EXCEPT !.out = seen, !.reply = answers]
        ELSE OneByOne(Feed(w, <<Head(p)>>), Tail(p), seen, answers)
SplitsDoNotMatter ==
    Unfollowed => \A p \in {q \in world.pieces : Len(q) > 1} :
        [OneByOne([term EXCEPT !.out = <<>>, !.reply = <<>>], p, <<>>, <<>>) EXCEPT !.taken = {}]
            = [Feed(term, p) EXCEPT !.taken = {}]
=============================================================================
