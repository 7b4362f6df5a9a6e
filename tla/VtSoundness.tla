---------------------------- MODULE VtSoundness ----------------------------
(***************************************************************************)
(* What holds of a virtual screen (vt/screen.go) whatever a program makes  *)
(* of it: stated once, for the screens the parser draws (Terminal) and for *)
(* those any sequence of operations draws (VtOperations).                  *)
(***************************************************************************)
EXTENDS VtScreen

VARIABLE scr      \* the screen: Screen without its parser's state

\* Wide halves come in pairs, left and right.
Paired(cells, cols) ==
    \A x \in 0..(cols - 1) :
        /\ cells[x].half = "wide" => x + 1 < cols /\ cells[x + 1].half = "pad"
        /\ cells[x].half = "pad" => x > 0 /\ cells[x - 1].half = "wide"

RowOK(line, cols) == DOMAIN line.cells = 0..(cols - 1) /\ Paired(line.cells, cols)

\* The screen's rows, cursor, margins, tab stops and history stay within its
\* size and limit, a pending wrap is in the last column, and no operation
\* leaves half of a wide glyph behind in either buffer (the checkInvariants of
\* vt/fuzz_test.go).
ScreenInvariants ==
    /\ scr.cols \in 1..MaxDim /\ scr.rows \in 1..MaxDim
    /\ scr.cx \in 0..(scr.cols - 1) /\ scr.cy \in 0..(scr.rows - 1)
    /\ scr.pendingWrap => scr.cx = scr.cols - 1 /\ scr.modes.autowrap
    /\ 0 <= scr.top /\ scr.top <= scr.bottom /\ scr.bottom < scr.rows
    /\ scr.tabs \subseteq 0..(scr.cols - 1)
    /\ Len(scr.hist) <= scr.limit
    /\ \A b \in Buffers :
          /\ DOMAIN scr.lines[b] = 0..(scr.rows - 1)
          /\ \A y \in 0..(scr.rows - 1) : RowOK(scr.lines[b][y], scr.cols)

\* The lines a taller screen may pull back out of the history are ones that
\* scrolled into it, never ones a clear has put there (hscrolled, resizeRows).
Newest == SubSeq(scr.hist, Len(scr.hist) - Smaller(scr.hscrolled, Len(scr.hist)) + 1, Len(scr.hist))
OnlyScrolledLinesReturn == \A i \in DOMAIN Newest : Newest[i].how = "scroll"
=============================================================================
