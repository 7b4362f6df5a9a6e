------------------------------ MODULE VtScreen ------------------------------
(***************************************************************************)
(* The virtual screen behind the built-in multiplexer (vt/screen.go): what *)
(* a program has drawn, and one operator per operation the parser applies  *)
(* to it.  Capture, the human's repaint and the replies to the program all *)
(* read this state.                                                        *)
(*                                                                         *)
(* A screen is a record.  Rows and columns count from 0, as in the code;   *)
(* both buffers are functions from row to line and a line's cells are a    *)
(* function from column to cell.  A glyph is a name: an ASCII character    *)
(* stands for itself, a wide one, a combining mark and the rest are one    *)
(* name each.  The history ring is the sequence of its lines, oldest       *)
(* first.  Nothing here is recursive, so VtOperations_proofs can prove     *)
(* about it; the loops (a run of text, REP, a parameter list) are in       *)
(* VtParser.                                                               *)
(***************************************************************************)
EXTENDS Integers, Sequences, FiniteSets

CONSTANTS MaxDim,     \* most columns or rows a screen has (maxDim)
          MaxComb     \* zero-width code points one cell holds (maxComb)

ASSUME ScreenAssumption == MaxDim \in Nat \ {0} /\ MaxComb \in Nat

----------------------------------------------------------------------------
\* Cells, lines, buffers

Smaller(a, b) == IF a <= b THEN a ELSE b
Larger(a, b) == IF a >= b THEN a ELSE b
Clamp(v, lo, hi) == IF v < lo THEN lo ELSE IF v > hi THEN hi ELSE v

\* A rendition: attribute flags, underline style and three colours.
Plain == [flags |-> {}, ul |-> 0, fg |-> <<>>, bg |-> <<>>, ulc |-> <<>>]

\* half is cellWide ("wide"), cellPad ("pad") or neither; r = "" is rune 0.
Cell(r, half, a) == [r |-> r, half |-> half, a |-> a, comb |-> <<>>]
ZeroCell == Cell("", "none", Plain)

\* What an erase leaves behind: no glyph, the pen's background.
Blank(s) == Cell("", "none", [Plain EXCEPT !.bg = s.pen.bg])

ZeroCells(cols) == [x \in 0..(cols - 1) |-> ZeroCell]
EmptyLine(cols) == [cells |-> ZeroCells(cols), used |-> FALSE]

Buffers == {"main", "alt"}
Lines(s) == s.lines[s.active]
WithLines(s, ls) == [s EXCEPT !.lines[s.active] = ls]
RowCells(s) == Lines(s)[s.cy].cells

\* A row with new cells, and whether a glyph has been written to it.
WithLine(s, y, cells, used) ==
    WithLines(s, [z \in 0..(s.rows - 1) |->
                     IF z = y THEN [cells |-> cells, used |-> used] ELSE Lines(s)[z]])
WithRow(s, cells, used) == WithLine(s, s.cy, cells, used)
WithCells(s, cells) == WithRow(s, cells, Lines(s)[s.cy].used)

\* The text of a row as capture prints it: glyphs with their marks, a blank
\* as a space, the right half of a wide glyph left out, trailing blanks
\* trimmed.
RowText(cells, cols) ==
    LET Shows(x) == cells[x].r \notin {"", " "} \/ cells[x].comb # <<>>
        len      == IF \E x \in 0..(cols - 1) : Shows(x)
                    THEN 1 + CHOOSE x \in 0..(cols - 1) :
                                /\ Shows(x)
                                /\ \A y \in (x + 1)..(cols - 1) : ~Shows(y)
                    ELSE 0
        Glyph(c) == [r |-> IF c.r = "" THEN " " ELSE c.r, comb |-> c.comb]
        kept     == SelectSeq([i \in 1..len |-> cells[i - 1]],
                              LAMBDA c : c.half # "pad")
    IN  [i \in DOMAIN kept |-> Glyph(kept[i])]

\* Several lines pushed in turn onto the bounded history: the newest stay.
\* how says whether a line arrived by scrolling or by a clear; the code keeps
\* only the count of the former (hscrolled).
Push(hist, limit, texts, how) ==
    LET all  == hist \o [i \in DOMAIN texts |-> [text |-> texts[i], how |-> how]]
        over == Larger(Len(all) - limit, 0)
    IN  SubSeq(all, over + 1, Len(all))

Texts(s, lines, n) == [i \in 1..n |-> RowText(lines[i - 1].cells, s.cols)]

----------------------------------------------------------------------------
\* Cell primitives: from the cells of a row to the cells of a row

\* Both halves of the wide glyph at column x become default blanks.
SplitWide(cells, x) ==
    LET other == IF cells[x].half = "pad" THEN x - 1 ELSE x + 1
        mate  == IF cells[x].half = "pad" THEN "wide" ELSE "pad"
    IN  IF cells[x].half = "none" THEN cells
        ELSE [i \in DOMAIN cells |->
                 IF i = x \/ (i = other /\ cells[i].half = mate)
                 THEN ZeroCell ELSE cells[i]]

\* Splits the glyph at x only when x holds the given half of it.
SplitHalf(cells, x, half) ==
    IF cells[x].half = half THEN SplitWide(cells, x) ELSE cells

\* ICH and insert mode: n blanks at x, the rest pushed right, a wide glyph
\* cut by the edge cleared.
InsertCells(cells, cols, x, count, blank) ==
    LET n     == Smaller(count, cols - x)
        split == SplitHalf(cells, x, "pad")
        moved == [i \in 0..(cols - 1) |->
                     IF i < x THEN split[i]
                     ELSE IF i < x + n THEN blank ELSE split[i - n]]
    IN  IF n <= 0 THEN cells
        ELSE [i \in 0..(cols - 1) |->
                 IF i = cols - 1 /\ moved[i].half = "wide" THEN ZeroCell ELSE moved[i]]

\* DCH: n cells removed at x, the rest pulled left, blanks at the edge.
DeleteCells(cells, cols, x, count, blank) ==
    LET n     == Smaller(count, cols - x)
        left  == SplitHalf(cells, x, "pad")
        split == IF x + n < cols THEN SplitHalf(left, x + n, "pad") ELSE left
    IN  IF n <= 0 THEN cells
        ELSE [i \in 0..(cols - 1) |->
                 IF i < x THEN split[i]
                 ELSE IF i + n < cols THEN split[i + n] ELSE blank]

\* Slip: erasing from the right half of a wide glyph leaves its left half.
FillCellsCutting(cells, cols, first, last, blank) ==
    LET split == SplitHalf(cells, last - 1, "wide")
    IN  [i \in 0..(cols - 1) |->
            IF i \in first..(last - 1) THEN blank ELSE split[i]]

\* Columns from first up to but not including last become blank.
FillCells(cells, cols, first, last, blank) ==
    LET left  == SplitHalf(cells, first, "pad")
        split == SplitHalf(left, last - 1, "wide")
    IN  [i \in 0..(cols - 1) |->
            IF i \in first..(last - 1) THEN blank ELSE split[i]]

\* One glyph of width w written over whatever was at x.
PutCells(cells, x, r, w, pen) ==
    LET here == SplitWide(cells, x)
        next == IF w = 2 THEN SplitWide(here, x + 1) ELSE here
    IN  [i \in DOMAIN cells |->
            IF i = x THEN Cell(r, IF w = 2 THEN "wide" ELSE "none", pen)
            ELSE IF w = 2 /\ i = x + 1 THEN Cell("", "pad", pen)
            ELSE next[i]]

\* A run of narrow glyphs written in one go: only its ends can cut a glyph.
PutRun(cells, x, run, pen) ==
    LET n    == Len(run)
        here == SplitHalf(cells, x, "pad")
        ends == SplitHalf(here, x + n - 1, "wide")
    IN  [i \in DOMAIN cells |->
            IF i \in x..(x + n - 1) THEN Cell(run[i - x + 1], "none", pen)
            ELSE ends[i]]

\* Truncated or padded to cols, a wide glyph cut in half cleared.
FitCells(cells, old, cols) ==
    [x \in 0..(cols - 1) |->
        IF x >= old THEN ZeroCell
        ELSE IF old > cols /\ x = cols - 1 /\ cells[x].half = "wide" THEN ZeroCell
        ELSE cells[x]]

----------------------------------------------------------------------------
\* Erasing and scrolling

EraseCells(s, y, from, to) ==
    LET first == Larger(from, 0)
        last  == Smaller(to, s.cols)
        line  == Lines(s)[y]
    IN  IF first >= last THEN s
        ELSE WithLine(s, y, FillCells(line.cells, s.cols, first, last, Blank(s)),
                      line.used /\ ~(first = 0 /\ last = s.cols))

\* A whole row erased: nothing is left of it to split.
BlankLine(s) == [cells |-> [x \in 0..(s.cols - 1) |-> Blank(s)], used |-> FALSE]
EraseRows(s, first, last) ==
    WithLines(s, [y \in 0..(s.rows - 1) |->
                     IF y \in first..last THEN BlankLine(s) ELSE Lines(s)[y]])

ToHistory(s, n, how) ==
    [s EXCEPT !.hist = Push(@, s.limit, Texts(s, Lines(s), n), how)]

ScrollUp(s, top, bottom, count, toHistory) ==
    LET n     == Smaller(count, bottom - top + 1)
        saved == toHistory /\ top = 0 /\ s.active = "main" /\ s.limit > 0
        t     == IF saved
                 THEN [ToHistory(s, n, "scroll") EXCEPT !.hscrolled = @ + n]
                 ELSE s
    IN  IF n <= 0 THEN s
        ELSE WithLines(t, [y \in 0..(s.rows - 1) |->
                 IF y < top \/ y > bottom THEN Lines(s)[y]
                 ELSE IF y + n <= bottom THEN Lines(s)[y + n]
                 ELSE BlankLine(s)])

ScrollDown(s, top, bottom, count) ==
    LET n == Smaller(count, bottom - top + 1)
    IN  IF n <= 0 THEN s
        ELSE WithLines(s, [y \in 0..(s.rows - 1) |->
                 IF y < top \/ y > bottom THEN Lines(s)[y]
                 ELSE IF y - n >= top THEN Lines(s)[y - n]
                 ELSE BlankLine(s)])

\* Down one row, scrolling on the bottom margin (LF, IND, a wrap).
Index(s) ==
    IF s.cy = s.bottom THEN ScrollUp(s, s.top, s.bottom, 1, TRUE)
    ELSE IF s.cy < s.rows - 1 THEN [s EXCEPT !.cy = @ + 1] ELSE s

\* Up one row, scrolling down on the top margin (RI).
ReverseIndex(s) ==
    IF s.cy = s.top THEN ScrollDown(s, s.top, s.bottom, 1)
    ELSE IF s.cy > 0 THEN [s EXCEPT !.cy = @ - 1] ELSE s

CanScrollOnClear(s) == s.active = "main" /\ s.limit > 0

\* Slip: the lines that scrolled before the clear still count.
ClearKeepingCount(s) ==
    LET Used(y) == Lines(s)[y].used
        last == Cardinality({y \in 0..(s.rows - 1) : \E z \in y..(s.rows - 1) : Used(z)})
    IN  EraseRows(ToHistory(s, last, "clear"), 0, s.rows - 1)

\* The rows down to the last one in use go into the history, then the screen is
\* blank: they count as cleared, not as scrolled.
ClearToHistory(s) ==
    LET Used(y) == Lines(s)[y].used
        last == Cardinality({y \in 0..(s.rows - 1) : \E z \in y..(s.rows - 1) : Used(z)})
    IN  EraseRows([ToHistory(s, last, "clear") EXCEPT !.hscrolled = 0], 0, s.rows - 1)

\* ED.
EraseDisplay(s, mode) ==
    LET clear == /\ CanScrollOnClear(s)
                 /\ mode = 2 \/ (mode = 0 /\ s.cx = 0 /\ s.cy = 0)
        t == IF clear THEN ClearToHistory(s)
             ELSE IF mode = 0
                  THEN EraseRows(EraseCells(s, s.cy, s.cx, s.cols), s.cy + 1, s.rows - 1)
             ELSE IF mode = 1
                  THEN EraseCells(EraseRows(s, 0, s.cy - 1), s.cy, 0, s.cx + 1)
             ELSE EraseRows(s, 0, s.rows - 1)
    IN  IF mode = 3 THEN [s EXCEPT !.hist = <<>>, !.hscrolled = 0]
        ELSE IF mode \in 0..2 THEN [t EXCEPT !.pendingWrap = FALSE] ELSE s

\* EL: also cancels a pending wrap.
EraseInLine(s, mode) ==
    LET t == EraseCells(s, s.cy, IF mode = 0 THEN s.cx ELSE 0,
                        IF mode = 1 THEN s.cx + 1 ELSE s.cols)
    IN  IF mode \in 0..2 THEN [t EXCEPT !.pendingWrap = FALSE] ELSE s

\* ICH, DCH, ECH at the cursor.
Unwrapped(s) == [s EXCEPT !.pendingWrap = FALSE]
InsertChars(s, n) ==
    WithCells(Unwrapped(s), InsertCells(RowCells(s), s.cols, s.cx, n, Blank(s)))
DeleteChars(s, n) ==
    WithCells(Unwrapped(s), DeleteCells(RowCells(s), s.cols, s.cx, n, Blank(s)))
EraseChars(s, n) == EraseCells(Unwrapped(s), s.cy, s.cx, s.cx + n)

\* IL and DL shift down to the bottom margin, or to the last row from outside
\* the scroll region.  Deleted rows never enter the history.
EditBottom(s) == IF s.cy \in s.top..s.bottom THEN s.bottom ELSE s.rows - 1
InsertLines(s, n) == Unwrapped(ScrollDown(s, s.cy, EditBottom(s), n))
DeleteLines(s, n) == Unwrapped(ScrollUp(s, s.cy, EditBottom(s), n, FALSE))

----------------------------------------------------------------------------
\* Printing

\* The glyph at the cursor, then the cursor past it or a pending wrap.
Put(s, r, w) ==
    LET x     == s.cx
        cells == IF s.modes.insert
                 THEN InsertCells(RowCells(s), s.cols, x, w, Blank(s))
                 ELSE RowCells(s)
        fits  == x + w < s.cols
        t     == WithRow(s, PutCells(cells, x, r, w, s.pen), TRUE)
    IN  [t EXCEPT !.last = [r |-> r, w |-> w],
                  !.cx = IF fits THEN x + w ELSE s.cols - 1,
                  !.pendingWrap = IF fits THEN @ ELSE s.modes.autowrap]

\* A wide glyph in the last column wraps first, and is dropped when it may not.
PutWrapped(s, r, w) ==
    LET cut == w = 2 /\ s.cx = s.cols - 1
    IN  IF cut /\ ~s.modes.autowrap THEN s
        ELSE Put(IF cut THEN Index([s EXCEPT !.cx = 0]) ELSE s, r, w)

\* A pending wrap happens now.
PrintGlyph(s, r, w) ==
    IF w = 2 /\ s.cols < 2 THEN s
    ELSE PutWrapped(IF s.pendingWrap
                    THEN Index([s EXCEPT !.pendingWrap = FALSE, !.cx = 0]) ELSE s, r, w)

\* The bulk path of printASCII: a run that ends before the last column.
CanRun(s, n) ==
    /\ n \in 1..(s.cols - 1 - s.cx)
    /\ ~s.pendingWrap
    /\ ~s.modes.insert
    /\ s.g[s.gl] # "0"
PrintRun(s, run) ==
    [WithRow(s, PutRun(RowCells(s), s.cx, run, s.pen), TRUE)
        EXCEPT !.cx = @ + Len(run), !.last = [r |-> run[Len(run)], w |-> 1]]

\* The column a zero-width code point attaches to, -1 if there is none.
PrevCellX(s) ==
    LET vx    == IF s.pendingWrap THEN s.cols ELSE s.cx
        cells == RowCells(s)
        x     == vx - 1
    IN  IF vx = 0 THEN -1
        ELSE IF cells[x].half = "pad"
             THEN IF vx = 1 \/ cells[x - 1].half # "wide" THEN -1 ELSE x - 1
        ELSE IF cells[x].half = "wide" THEN -1 ELSE x

\* The narrow glyph at x claims column x+1 as its right half and the cursor
\* moves one further; in the last column it stays narrow.
Widen(s, x) ==
    LET cells == SplitWide(RowCells(s), x + 1)
        nx    == IF s.pendingWrap THEN s.cols + 1 ELSE s.cx + 1
        t     == WithCells(s, [cells EXCEPT ![x].half = "wide",
                                            ![x + 1] = Cell("", "pad", cells[x].a)])
    IN  IF x + 1 >= s.cols THEN s
        ELSE [t EXCEPT !.cx = Smaller(nx, s.cols - 1),
                       !.pendingWrap = nx >= s.cols /\ s.modes.autowrap]

\* A zero-width code point joins the previous cell; VS16 widens a narrow one.
\* Either way the memory of REP is gone.
Combine(s, mark) ==
    LET x == PrevCellX(s)
        c == RowCells(s)[x]
        t == WithRow(s, [RowCells(s) EXCEPT ![x] =
                            [c EXCEPT !.r = IF @ = "" THEN " " ELSE @,
                                      !.comb = Append(@, mark)]], TRUE)
        u == IF x < 0 \/ Len(c.comb) >= MaxComb THEN s
             ELSE IF mark = "VS16" /\ c.half # "wide" THEN Widen(t, x) ELSE t
    IN  [u EXCEPT !.last = [r |-> "", w |-> 0]]

\* A glyph that belongs to the previous cell: what follows a ZWJ, and the
\* second regional indicator of a flag.
FollowsZWJ(s) ==
    LET x == PrevCellX(s) c == RowCells(s)[x]
    IN  x >= 0 /\ c.comb # <<>> /\ c.comb[Len(c.comb)] = "ZWJ"
CompletesFlag(s, r) ==
    LET x == PrevCellX(s) c == RowCells(s)[x]
    IN  x >= 0 /\ r = "flag" /\ c.r = "flag" /\ c.comb = <<>> /\ c.half # "wide"
JoinsPrev(s, r) == FollowsZWJ(s) \/ CompletesFlag(s, r)

JoinPrev(s, r) ==
    LET x == PrevCellX(s)
        t == WithCells(s, [RowCells(s) EXCEPT ![x].comb =
                 IF Len(@) < MaxComb \/ CompletesFlag(s, r) THEN Append(@, r) ELSE @])
        u == IF CompletesFlag(s, r) THEN Widen(t, x) ELSE t
    IN  [u EXCEPT !.last = [r |-> "", w |-> 0]]

\* A decoded non-ASCII code point of width w.
PrintRune(s, r, w) ==
    IF w = 0 THEN Combine(s, r)
    ELSE IF JoinsPrev(s, r) THEN JoinPrev(s, r)
    ELSE PrintGlyph(s, r, w)

----------------------------------------------------------------------------
\* The cursor

MoveTo(s, x, y) ==
    [s EXCEPT !.cx = Clamp(x, 0, s.cols - 1), !.cy = Clamp(y, 0, s.rows - 1),
              !.pendingWrap = FALSE]

\* CUP, HVP, VPA: relative to the region and confined to it in origin mode.
MoveToOrigin(s, x, y) ==
    IF s.modes.origin THEN MoveTo(s, x, Clamp(y + s.top, s.top, s.bottom))
    ELSE MoveTo(s, x, y)

CursorUp(s, n) ==
    MoveTo(s, s.cx, Larger(s.cy - n, IF s.cy >= s.top THEN s.top ELSE 0))
CursorDown(s, n) ==
    MoveTo(s, s.cx, Smaller(s.cy + n, IF s.cy <= s.bottom THEN s.bottom ELSE s.rows - 1))

CarriageReturn(s) == [s EXCEPT !.cx = 0, !.pendingWrap = FALSE]
Backspace(s) == [s EXCEPT !.cx = Larger(@ - 1, 0), !.pendingWrap = FALSE]

\* The n-th tab stop to the right, or the last column; nothing while a wrap is
\* pending.
TabForward(s, n) ==
    LET ahead == {x \in (s.cx + 1)..(s.cols - 1) : x \in s.tabs \/ x = s.cols - 1}
        Nth(x) == Cardinality({y \in ahead : y <= x}) = n
    IN  IF s.pendingWrap THEN s
        ELSE [s EXCEPT !.cx = IF \E x \in ahead : Nth(x)
                              THEN CHOOSE x \in ahead : Nth(x) ELSE s.cols - 1]
TabBackward(s, n) ==
    LET behind == {x \in 0..(s.cx - 1) : x \in s.tabs \/ x = 0}
        Nth(x) == Cardinality({y \in behind : y >= x}) = n
    IN  [s EXCEPT !.cx = IF \E x \in behind : Nth(x)
                         THEN CHOOSE x \in behind : Nth(x) ELSE 0,
                  !.pendingWrap = FALSE]

DefaultTabs(first, cols) == {x \in first..(cols - 1) : x > 0 /\ x % 8 = 0}
SetTab(s) == [s EXCEPT !.tabs = @ \cup {s.cx}]
ClearTab(s) == [s EXCEPT !.tabs = @ \ {s.cx}]

\* DECSTBM: a region of two rows or more, then the cursor home.
SetRegion(s, topArg, bottomArg) ==
    LET top    == topArg - 1
        bottom == IF bottomArg - 1 \in 0..(s.rows - 1) THEN bottomArg - 1
                  ELSE s.rows - 1
    IN  IF top < bottom
        THEN MoveToOrigin([s EXCEPT !.top = top, !.bottom = bottom], 0, 0) ELSE s

----------------------------------------------------------------------------
\* Saved cursors, buffers, resets

Ascii == [i \in 0..3 |-> "B"]
NoSave == [valid |-> FALSE, x |-> 0, y |-> 0, pendingWrap |-> FALSE,
           pen |-> Plain, origin |-> FALSE, g |-> Ascii, gl |-> 0]

SaveCursor(s) ==
    [s EXCEPT !.saved[s.active] =
        [valid |-> TRUE, x |-> s.cx, y |-> s.cy, pendingWrap |-> s.pendingWrap,
         pen |-> s.pen, origin |-> s.modes.origin, g |-> s.g, gl |-> s.gl]]

\* DECRC: the slot of the active buffer, home and defaults without a save.
RestoreCursor(s) ==
    LET sc == IF s.saved[s.active].valid THEN s.saved[s.active] ELSE NoSave
        x  == Clamp(sc.x, 0, s.cols - 1)
    IN  [s EXCEPT !.cx = x, !.cy = Clamp(sc.y, 0, s.rows - 1),
                  !.pendingWrap = sc.pendingWrap /\ s.modes.autowrap /\ x = s.cols - 1,
                  !.pen = sc.pen, !.modes.origin = sc.origin,
                  !.g = sc.g, !.gl = sc.gl]

SwitchBuffer(s, buf) == [s EXCEPT !.active = buf]
ClearBuffer(s, buf) ==
    [s EXCEPT !.lines[buf] = [y \in 0..(s.rows - 1) |-> BlankLine(s)]]

\* ?47, ?1047 and ?1049, with xterm's semantics.
AltScreen(s, v, set) ==
    LET other == IF set THEN "alt" ELSE "main"
    IN  IF v = 1049 /\ set
        THEN LET t == SaveCursor(s)
             IN  IF s.active = "alt" THEN t
                 ELSE SwitchBuffer(ClearBuffer(t, "alt"), "alt")
        ELSE IF v = 1049 THEN RestoreCursor(SwitchBuffer(s, "main"))
        ELSE IF v = 1047 /\ ~set /\ s.active = "alt"
             THEN SwitchBuffer(ClearBuffer(s, "alt"), "main")
        ELSE SwitchBuffer(s, other)

\* Slip: the cursor that ?1049l restores is not part of what changed.
BufferChanged(s, t, v, set) == s.active # t.active

\* Whether a switch changed what the human must see: the buffer, or for ?1049l
\* the restored cursor.
CursorState(s) == <<s.cx, s.cy, s.pendingWrap, s.pen, s.modes.origin, s.g, s.gl>>
AltChanged(s, t, v, set) ==
    \/ s.active # t.active
    \/ v = 1049 /\ ~set /\ CursorState(s) # CursorState(t)

\* DECALN.
AlignmentTest(s) ==
    LET full == [cells |-> [x \in 0..(s.cols - 1) |-> Cell("E", "none", Plain)],
                 used  |-> TRUE]
        t == WithLines(s, [y \in 0..(s.rows - 1) |-> full])
    IN  MoveTo([t EXCEPT !.top = 0, !.bottom = s.rows - 1, !.modes.origin = FALSE], 0, 0)

DefaultModes ==
    [appCursor |-> FALSE, appKeypad |-> FALSE, paste |-> FALSE, visible |-> TRUE,
     focus |-> FALSE, mouse |-> 0, encoding |-> 0,
     autowrap |-> TRUE, insert |-> FALSE, origin |-> FALSE]

\* Everything but the buffers and the history in its power-on state.
ResetState(s) ==
    [s EXCEPT !.cx = 0, !.cy = 0, !.pendingWrap = FALSE, !.pen = Plain,
              !.g = Ascii, !.gl = 0, !.saved = [b \in Buffers |-> NoSave],
              !.top = 0, !.bottom = s.rows - 1, !.tabs = DefaultTabs(0, s.cols),
              !.modes = DefaultModes, !.cursorStyle = 0,
              !.last = [r |-> "", w |-> 0]]

\* RIS: the main screen, cleared into the history; the title is kept.
FullReset(s) ==
    LET t == [ClearBuffer(SwitchBuffer(s, "main"), "alt") EXCEPT !.pen = Plain]
    IN  ResetState(IF CanScrollOnClear(t) THEN ClearToHistory(t)
                   ELSE ClearBuffer(t, "main"))

\* DECSTR: contents and cursor position are kept.
SoftReset(s) ==
    [s EXCEPT !.modes = [@ EXCEPT !.visible = TRUE, !.insert = FALSE,
                                  !.origin = FALSE, !.appCursor = FALSE,
                                  !.appKeypad = FALSE, !.autowrap = TRUE],
              !.top = 0, !.bottom = s.rows - 1, !.g = Ascii, !.gl = 0,
              !.pen = Plain, !.saved = [b \in Buffers |-> NoSave],
              !.pendingWrap = FALSE]

MouseModes == {9, 1000, 1002, 1003}
MouseEncodings == {1005, 1006, 1015, 1016}

\* One DEC private mode that is passed through.
SetMode(s, v, set) ==
    CASE v = 1    -> [s EXCEPT !.modes.appCursor = set]
      [] v = 6    -> MoveToOrigin([s EXCEPT !.modes.origin = set], 0, 0)
      [] v = 7    -> [s EXCEPT !.modes.autowrap = set, !.pendingWrap = @ /\ set]
      [] v = 25   -> [s EXCEPT !.modes.visible = set]
      [] v = 66   -> [s EXCEPT !.modes.appKeypad = set]
      [] v = 1004 -> [s EXCEPT !.modes.focus = set]
      [] v = 2004 -> [s EXCEPT !.modes.paste = set]
      [] v = 1048 -> IF set THEN SaveCursor(s) ELSE RestoreCursor(s)
      [] v \in MouseModes     -> [s EXCEPT !.modes.mouse = IF set THEN v ELSE 0]
      [] v \in MouseEncodings -> [s EXCEPT !.modes.encoding = IF set THEN v ELSE 0]
      [] OTHER -> s

----------------------------------------------------------------------------
\* Size

NewScreen(wantCols, wantRows, limit) ==
    LET cols == Clamp(wantCols, 1, MaxDim)
        rows == Clamp(wantRows, 1, MaxDim)
    IN  ResetState([cols |-> cols, rows |-> rows, limit |-> Larger(limit, 0),
            lines |-> [b \in Buffers |-> [y \in 0..(rows - 1) |-> EmptyLine(cols)]],
            active |-> "main", hist |-> <<>>, hscrolled |-> 0, title |-> <<>>,
            cx |-> 0, cy |-> 0, pendingWrap |-> FALSE, pen |-> Plain, g |-> Ascii,
            gl |-> 0, saved |-> [b \in Buffers |-> NoSave], top |-> 0,
            bottom |-> rows - 1, tabs |-> {}, modes |-> DefaultModes,
            cursorStyle |-> 0, last |-> [r |-> "", w |-> 0]])

ResizeCols(s, cols) ==
    IF cols = s.cols THEN s
    ELSE [s EXCEPT
        !.lines = [b \in Buffers |-> [y \in 0..(s.rows - 1) |->
                      [s.lines[b][y] EXCEPT !.cells = FitCells(@, s.cols, cols)]]],
        !.tabs = {x \in @ : x < cols} \cup DefaultTabs(s.cols, cols),
        !.cols = cols, !.pendingWrap = FALSE]

\* How far a buffer whose cursor is on row y moves up when it gets shorter:
\* rows below the cursor are dropped first.
Lost(s, rows, y) ==
    Larger(s.rows - rows - Smaller(Larger(s.rows - 1 - y, 0), s.rows - rows), 0)

\* The history lines a taller main screen pulls back: only those that arrived
\* by scrolling.
PullCount(s, rows) ==
    Smaller(Larger(rows - s.rows, 0), Smaller(s.hscrolled, Len(s.hist)))

\* A buffer at its new height: pulled rows above, blank rows below, or rows
\* lost above.
FitRows(s, buf, rows, pulled, lost) ==
    LET n == Len(pulled)
    IN  [y \in 0..(rows - 1) |->
            IF y < n THEN pulled[y + 1]
            ELSE IF y - n + lost < s.rows THEN s.lines[buf][y - n + lost]
            ELSE EmptyLine(s.cols)]

\* The row the main buffer pivots on: the live cursor, or while the alternate
\* screen is active the one ?1049 saved for it.
MainRow(s, liveRow) ==
    IF s.active = "main" THEN s.cy
    ELSE Clamp(IF s.saved["main"].valid THEN s.saved["main"].y ELSE liveRow, 0, s.rows - 1)

\* pulled holds the lines rebuilt from the newest PullCount history lines.
ResizeRows(s, rows, pulled) ==
    LET altLost  == IF s.active = "alt" THEN Lost(s, rows, s.cy) ELSE Lost(s, rows, 0)
        liveRow  == s.cy - altLost
        mainLost == Lost(s, rows, MainRow(s, liveRow))
        n        == Len(pulled)
        mainRow  == MainRow(s, liveRow) - mainLost + n
        keep     == mainLost > 0 /\ s.limit > 0
        short    == SubSeq(s.hist, 1, Len(s.hist) - n)
    IN  IF rows = s.rows THEN s
        ELSE [s EXCEPT
            !.lines = [b \in Buffers |->
                IF b = "main" THEN FitRows(s, b, rows, pulled, mainLost)
                ELSE FitRows(s, b, rows, <<>>, altLost)],
            !.hist = IF keep THEN Push(@, s.limit, Texts(s, s.lines["main"], mainLost), "scroll")
                     ELSE short,
            !.hscrolled = @ - n + (IF keep THEN mainLost ELSE 0),
            !.cy = IF s.active = "main" THEN mainRow ELSE liveRow,
            !.saved["main"].y = IF s.active = "alt" /\ s.saved["main"].valid
                                THEN mainRow ELSE @,
            !.rows = rows]

\* The margins at the edges, every cursor inside.
Confined(s) ==
    [s EXCEPT
        !.top = 0, !.bottom = s.rows - 1,
        !.cx = Clamp(@, 0, s.cols - 1), !.cy = Clamp(@, 0, s.rows - 1),
        !.saved = [b \in Buffers |->
            [s.saved[b] EXCEPT !.x = Clamp(@, 0, s.cols - 1),
                               !.y = Clamp(@, 0, s.rows - 1)]]]

ResizeWith(s, cols, rows, pulled) ==
    IF cols = s.cols /\ rows = s.rows THEN s
    ELSE Confined(ResizeRows(ResizeCols(s, cols), rows, pulled))
=============================================================================
