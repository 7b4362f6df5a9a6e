------------------------------ MODULE VtRender ------------------------------
(***************************************************************************)
(* The repaint of a screen (vt/render.go): the bytes that put a terminal   *)
(* of the same size, already on its alternate screen, into the state of    *)
(* the program's.  They are what an attaching human starts from and what   *)
(* replaces the buffer switches and full resets taken out of the forward   *)
(* stream.                                                                 *)
(*                                                                         *)
(* A code point outside ASCII is two bytes, one that says which glyph it   *)
(* starts and "cont"; the real encodings have up to four.                  *)
(***************************************************************************)
EXTENDS VtScreen, Bytes

\* The glyphs outside ASCII and the byte each starts with.  "line" stands for
\* the line drawing set and every narrow glyph, "flag" for the regional
\* indicators, "C1" for U+0080 to U+009F.
Leads == [lead_line |-> "line", lead_wide |-> "wide", lead_mark |-> "mark",
          lead_vs16 |-> "VS16", lead_zwj |-> "ZWJ", lead_flag |-> "flag",
          lead_bad |-> "U+FFFD", lead_c1 |-> "C1"]
LeadOf == [g \in {Leads[b] : b \in DOMAIN Leads} |->
              CHOOSE b \in DOMAIN Leads : Leads[b] = g]
Width(r) == CASE r \in {"mark", "VS16", "ZWJ", "C1"} -> 0
              [] r = "wide" -> 2
              [] OTHER -> 1

GlyphBytes(r) == IF r \in DOMAIN LeadOf THEN <<LeadOf[r], "cont">> ELSE <<r>>

CSI == <<"ESC", "[">>
Numbers(ns) == Joined([i \in DOMAIN ns |-> Decimal(ns[i])], ";")
CUP(row, col) ==
    CSI \o Decimal(row) \o (IF col = 1 THEN <<>> ELSE <<";">> \o Decimal(col)) \o <<"H">>
DecMode(ns, set) ==
    CSI \o <<"?">> \o Numbers(ns) \o <<IF set THEN "h" ELSE "l">>

CellText(c) ==
    IF c.r = "" THEN <<" ">>
    ELSE GlyphBytes(c.r) \o FlattenSeq([i \in DOMAIN c.comb |-> GlyphBytes(c.comb[i])])

----------------------------------------------------------------------------
\* Renditions

\* Attribute flags with the parameter that sets each, in the order they are
\* written.
SgrFlags == <<<<"bold", 1>>, <<"dim", 2>>, <<"italic", 3>>, <<"blink", 5>>,
              <<"reverse", 7>>, <<"invisible", 8>>, <<"strike", 9>>,
              <<"overline", 53>>>>

\* A colour is <<>> (the default), <<index>> or <<red, green, blue>>.
ColorBytes(c, base, bright, ext) ==
    CASE Len(c) = 0 -> Decimal(base + 9)
      [] Len(c) = 1 /\ c[1] < 8  -> Decimal(base + c[1])
      [] Len(c) = 1 /\ c[1] \in 8..15 -> Decimal(bright + c[1] - 8)
      [] Len(c) = 1 /\ c[1] > 15 -> Numbers(<<ext, 5, c[1]>>)
      [] OTHER -> Numbers(<<ext, 2>> \o c)
UnderColorBytes(c) ==
    IF Len(c) = 1 THEN Joined(<<Decimal(58), Decimal(5), Decimal(c[1])>>, ":")
    ELSE Joined(<<Decimal(58), Decimal(2), <<>>>> \o [i \in 1..3 |-> Decimal(c[i])], ":")

\* What must be switched off starts from a reset; what is new is added.
NeedsReset(from, to) ==
    \/ to = Plain
    \/ from.flags \ to.flags # {}
    \/ from.ul # 0 /\ to.ul = 0
    \/ from.fg # <<>> /\ to.fg = <<>>
    \/ from.bg # <<>> /\ to.bg = <<>>
    \/ from.ulc # <<>> /\ to.ulc = <<>>

SGR(from, to) ==
    LET reset == NeedsReset(from, to)
        base  == IF reset THEN Plain ELSE from
        added == SelectSeq(SgrFlags, LAMBDA f : f[1] \in to.flags \ base.flags)
        parts ==
            (IF reset THEN <<Decimal(0)>> ELSE <<>>)
            \o [i \in DOMAIN added |-> Decimal(added[i][2])]
            \o (IF to.ul = base.ul THEN <<>>
                ELSE IF to.ul = 1 THEN <<Decimal(4)>>
                ELSE <<<<"4", ":">> \o Decimal(to.ul)>>)
            \o (IF to.fg = base.fg THEN <<>> ELSE <<ColorBytes(to.fg, 30, 90, 38)>>)
            \o (IF to.bg = base.bg THEN <<>> ELSE <<ColorBytes(to.bg, 40, 100, 48)>>)
            \o (IF to.ulc = base.ulc THEN <<>> ELSE <<UnderColorBytes(to.ulc)>>)
    IN  IF from = to THEN <<>> ELSE CSI \o Joined(parts, ";") \o <<"m">>

----------------------------------------------------------------------------
\* The repaint

\* Everything reset that could disturb the drawing, and the screen cleared.
Prologue ==
    DecMode(<<25>>, FALSE) \o DecMode(<<6>>, FALSE) \o CSI \o <<"r">>
    \o CSI \o <<"4", "l">> \o DecMode(<<7>>, TRUE)
    \o <<"ESC", "(", "B", "ESC", ")", "B", "ESC", "*", "B", "ESC", "+", "B", "SI">>
    \o CSI \o <<"0", "m">> \o CSI \o <<"H">> \o CSI \o <<"2", "J">>

\* A row from its first column to its last cell that is not the zero cell,
\* and the rendition it leaves.
Drawn(s, y) == {x \in 0..(s.cols - 1) : Lines(s)[y].cells[x] # ZeroCell}
RowBytes(s, y, pen) ==
    LET cells == Lines(s)[y].cells
        last  == CHOOSE x \in Drawn(s, y) : \A z \in Drawn(s, y) : z <= x
        shown == SelectSeq([i \in 1..(last + 1) |-> cells[i - 1]],
                           LAMBDA c : c.half # "pad")
        Before(i) == IF i = 1 THEN pen ELSE shown[i - 1].a
    IN  [bytes |-> CUP(y + 1, 1) \o
             FlattenSeq([i \in DOMAIN shown |->
                            SGR(Before(i), shown[i].a) \o CellText(shown[i])]),
         pen |-> shown[Len(shown)].a]

\* What is written in turn: the bytes of both, the pen of the later.
After(done, more) == [bytes |-> done.bytes \o more.bytes, pen |-> more.pen]
RECURSIVE RowsFrom(_, _, _)
RowsFrom(s, y, done) ==
    IF y = s.rows THEN done
    ELSE IF Drawn(s, y) = {} THEN RowsFrom(s, y + 1, done)
    ELSE RowsFrom(s, y + 1, After(done, RowBytes(s, y, done.pen)))

\* Slip: the cursor is placed in the last column and the wrap forgotten.
CursorWithoutWrap(s, pen) ==
    LET base == IF s.modes.origin THEN s.top ELSE 0
    IN  [bytes |->
            (IF s.top = 0 /\ s.bottom = s.rows - 1 THEN <<>>
             ELSE CSI \o Numbers(<<s.top + 1, s.bottom + 1>>) \o <<"r">>)
            \o (IF s.modes.origin THEN DecMode(<<6>>, TRUE) ELSE <<>>)
            \o CUP(Larger(s.cy - base, 0) + 1, s.cx + 1),
         pen |-> pen]

\* Scroll region, origin mode and cursor.  A pending wrap can only be made
\* again by drawing the last glyph of the row once more.
CursorBytes(s, pen) ==
    LET base  == IF s.modes.origin THEN s.top ELSE 0
        row   == Larger(s.cy - base, 0) + 1
        cells == RowCells(s)
        x     == IF s.pendingWrap /\ cells[s.cols - 1].half = "pad" /\ s.cols > 1
                 THEN s.cols - 2 ELSE s.cols - 1
        c     == cells[x]
    IN  [bytes |->
            (IF s.top = 0 /\ s.bottom = s.rows - 1 THEN <<>>
             ELSE CSI \o Numbers(<<s.top + 1, s.bottom + 1>>) \o <<"r">>)
            \o (IF s.modes.origin THEN DecMode(<<6>>, TRUE) ELSE <<>>)
            \o (IF s.pendingWrap THEN CUP(row, x + 1) \o SGR(pen, c.a) \o CellText(c)
                ELSE CUP(row, s.cx + 1)),
         pen |-> IF s.pendingWrap THEN c.a ELSE pen]

ModeBytes(m, style) ==
    (IF m.insert THEN CSI \o <<"4", "h">> ELSE <<>>)
    \o (IF m.autowrap THEN <<>> ELSE DecMode(<<7>>, FALSE))
    \o DecMode(<<1>>, m.appCursor)
    \o <<"ESC", IF m.appKeypad THEN "=" ELSE ">">>
    \o DecMode(<<2004>>, m.paste) \o DecMode(<<1004>>, m.focus)
    \o DecMode(<<9, 1000, 1002, 1003>>, FALSE)
    \o (IF m.mouse = 0 THEN <<>> ELSE DecMode(<<m.mouse>>, TRUE))
    \o DecMode(<<1005, 1006, 1015, 1016>>, FALSE)
    \o (IF m.encoding = 0 THEN <<>> ELSE DecMode(<<m.encoding>>, TRUE))
    \o CSI \o Decimal(style) \o <<" ", "q">>

CharsetBytes(g, gl) ==
    FlattenSeq([i \in 1..4 |-> IF g[i - 1] = "0"
                               THEN <<"ESC", <<"(", ")", "*", "+">>[i], "0">> ELSE <<>>])
    \o (CASE gl = 0 -> <<>> [] gl = 1 -> <<"SO">>
          [] gl = 2 -> <<"ESC", "n">> [] gl = 3 -> <<"ESC", "o">>)

\* The state, after the drawing and the cursor.
StateBytes(s, drawn) ==
    drawn.bytes
    \o ModeBytes(s.modes, s.cursorStyle)
    \o CharsetBytes(s.g, s.gl)
    \o SGR(drawn.pen, s.pen)
    \o (IF s.title = <<>> THEN <<>>
        ELSE <<"ESC", "]", "2", ";">> \o s.title \o <<"BEL">>)
    \o (IF s.modes.visible THEN DecMode(<<25>>, TRUE) ELSE <<>>)
WithCursor(s, rows) == After(rows, CursorBytes(s, rows.pen))

Render(s) ==
    StateBytes(s, WithCursor(s, RowsFrom(s, 0, [bytes |-> Prologue, pen |-> Plain])))
=============================================================================
