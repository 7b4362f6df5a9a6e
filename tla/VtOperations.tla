---------------------------- MODULE VtOperations ----------------------------
(***************************************************************************)
(* The virtual screen under any sequence of its operations, with any       *)
(* arguments: everything the parser (vt/csi.go, vt/parser.go) may ask of   *)
(* it and nothing of how bytes become operations.  What holds here holds   *)
(* for every program output and every size: VtOperations_proofs proves the *)
(* properties of VtSoundness, Terminal checks them on the screens the      *)
(* parser makes.                                                           *)
(***************************************************************************)
EXTENDS VtSoundness

CONSTANTS Glyphs,     \* glyphs and zero-width code points
          Pens,       \* renditions
          Charsets    \* what a character set slot may hold

Init == \E cols, rows, limit \in Int : scr = NewScreen(cols, rows, limit)

Some == Nat \ {0}

\* Text: glyph by glyph or in bulk, REP, and what joins the previous cell.
Write ==
    \/ \E r \in Glyphs, w \in {1, 2} : scr' = PrintGlyph(scr, r, w)
    \/ \E run \in Seq(Glyphs) : CanRun(scr, Len(run)) /\ scr' = PrintRun(scr, run)
    \/ \E mark \in Glyphs : scr' = Combine(scr, mark)
    \/ \E r \in Glyphs : JoinsPrev(scr, r) /\ scr' = JoinPrev(scr, r)
    \/ scr' = [scr EXCEPT !.last = [r |-> "", w |-> 0]]
Feed ==
    \/ scr' = Index(Unwrapped(scr))
    \/ scr' = Index(CarriageReturn(scr))
    \/ scr' = ReverseIndex(Unwrapped(scr))
    \/ scr' = CarriageReturn(scr)
    \/ scr' = Backspace(scr)
Erase ==
    \/ \E mode \in Int : scr' = EraseDisplay(scr, mode)
    \/ \E mode \in Int : scr' = EraseInLine(scr, mode)
    \/ \E n \in Some : scr' = EraseChars(scr, n)
Shift ==
    \E n \in Some :
        \/ scr' = InsertChars(scr, n)
        \/ scr' = DeleteChars(scr, n)
        \/ scr' = InsertLines(scr, n)
        \/ scr' = DeleteLines(scr, n)
        \/ scr' = ScrollUp(scr, scr.top, scr.bottom, n, TRUE)
        \/ scr' = ScrollDown(scr, scr.top, scr.bottom, n)
Move ==
    \/ \E x, y \in Int : scr' = MoveTo(scr, x, y)
    \/ \E x, y \in Int : scr' = MoveToOrigin(scr, x, y)
    \/ \E n \in Some : scr' = CursorUp(scr, n)
    \/ \E n \in Some : scr' = CursorDown(scr, n)
    \/ \E n \in Some : scr' = TabForward(scr, n)
    \/ \E n \in Some : scr' = TabBackward(scr, n)
    \/ \E top \in Some, bottom \in Int : scr' = SetRegion(scr, top, bottom)
Tabs ==
    \/ scr' = SetTab(scr)
    \/ scr' = ClearTab(scr)
    \/ scr' = [scr EXCEPT !.tabs = {}]
    \/ scr' = [scr EXCEPT !.tabs = DefaultTabs(0, scr.cols)]
Save ==
    \/ scr' = SaveCursor(scr)
    \/ scr' = RestoreCursor(scr)
Switch == \E v \in {47, 1047, 1049}, set \in BOOLEAN : scr' = AltScreen(scr, v, set)
Mode ==
    \/ \E v \in Int, set \in BOOLEAN : scr' = SetMode(scr, v, set)
    \/ \E set \in BOOLEAN : scr' = [scr EXCEPT !.modes.insert = set]
    \/ \E set \in BOOLEAN : scr' = [scr EXCEPT !.modes.appKeypad = set]
    \/ \E a \in Pens : scr' = [scr EXCEPT !.pen = a]
    \/ \E i \in 0..3, c \in Charsets : scr' = [scr EXCEPT !.g[i] = c]
    \/ \E i \in 0..3 : scr' = [scr EXCEPT !.gl = i]
    \/ \E i \in 0..6 : scr' = [scr EXCEPT !.cursorStyle = i]
    \/ \E t \in Seq(Glyphs) : scr' = [scr EXCEPT !.title = t]
Reset ==
    \/ scr' = FullReset(scr)
    \/ scr' = SoftReset(scr)
    \/ scr' = AlignmentTest(scr)

\* A history line as the emulator prints it onto a row of its own (any row
\* that it may print).
Cells == [r : Glyphs \cup {""}, half : {"none", "wide", "pad"}, a : Pens, comb : Seq(Glyphs)]
Printed(cols) ==
    [cells : {c \in [0..(cols - 1) -> Cells] : Paired(c, cols)}, used : BOOLEAN]
Resize ==
    \E cols, rows \in 1..MaxDim :
        \E pulled \in [1..PullCount(scr, rows) -> Printed(cols)] :
            scr' = ResizeWith(scr, cols, rows, pulled)

Next == Write \/ Feed \/ Erase \/ Shift \/ Move \/ Tabs \/ Save \/ Switch \/ Mode \/ Reset \/ Resize

Spec == Init /\ [][Next]_scr
=============================================================================
