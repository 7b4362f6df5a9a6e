------------------------------ MODULE VtParser ------------------------------
(***************************************************************************)
(* The parser of the virtual terminal (vt/parser.go, vt/csi.go): it        *)
(* applies a program's bytes to the screen, answers the program's device   *)
(* queries, and builds the forward stream an attached human's terminal     *)
(* gets: the same bytes without the sequences that must not reach it, and  *)
(* a repaint in place of a buffer switch or a full reset.                  *)
(*                                                                         *)
(* A terminal is a record: the screen, the parser's state, and the two     *)
(* results of Feed, out and reply.  Three of its fields are not in the     *)
(* code: lim, the two buffering caps, which the human's own terminal does  *)
(* not have; taken, what kinds of sequence this Feed took out of the       *)
(* stream; and loose, what became of the last one that was forwarded       *)
(* unfinished (see Emit).  A reply is a tuple that names the query it      *)
(* answers.                                                                *)
(***************************************************************************)
EXTENDS VtRender

CONSTANTS MaxCSI,      \* longest control sequence held (maxCSI)
          MaxString,   \* longest string held for inspection (maxString)
          MaxParams,   \* parameters kept (maxParams)
          MaxValue     \* value a parameter saturates at (maxParamValue)

ASSUME ParserAssumption ==
    {MaxCSI, MaxString, MaxParams, MaxValue} \subseteq Nat \ {0}

NewTerminal(s, csi, str) ==
    [scr |-> s, state |-> "ground", seq |-> <<>>, kind |-> "", strOver |-> FALSE,
     csiOver |-> FALSE, held |-> <<>>, out |-> <<>>, reply |-> <<>>,
     taken |-> {}, loose |-> "",
     lim |-> [csi |-> csi, str |-> str]]

Take(w, what) == [w EXCEPT !.taken = @ \cup {what}]
Answer(w, r) == [Take(w, "sequence") EXCEPT !.reply = Append(@, r)]
On(w, s) == [w EXCEPT !.scr = s]
Ground(w) == [w EXCEPT !.state = "ground", !.seq = <<>>]
Forget(s) == [s EXCEPT !.last = [r |-> "", w |-> 0]]

----------------------------------------------------------------------------
\* Bytes

Params == DigitBytes \cup {":", ";", "<", "=", ">", "?"}            \* 0x30-0x3f
Inters == {" ", "!", "#", "$", "(", ")", "*", "+", "-", ".", "/"}    \* 0x20-0x2f
Lower == {"_", "bquote", "a", "b", "c", "d", "e", "f", "g", "h", "i", "j", "k",
          "l", "m", "n", "o", "p", "q", "r", "s", "t", "u", "v", "w", "x",
          "y", "z", "{", "|", "}", "~"}                             \* 0x5f-0x7e
Finals == Lower \cup {"@", "A", "B", "C", "D", "E", "F", "G", "H", "I", "J",
          "K", "L", "M", "N", "O", "P", "Q", "R", "S", "T", "U", "V", "W",
          "X", "Y", "Z", "[", "\\", "]", "^"}                       \* 0x40-0x7e
Printable == Params \cup Inters \cup Finals
C0 == {"ENQ", "BEL", "BS", "HT", "LF", "CR", "SO", "SI", "NUL"}
High == DOMAIN Leads \cup {"cont"}                                  \* >= 0x80
Others == C0 \cup High \cup {"ESC", "CAN", "SUB", "DEL"}

\* Forwarded bytes.  After an escape sequence or a string that was broken off,
\* the forward stream is open: what follows ends it the same way, or is lost
\* inside it ("stray").
Emit(w, bytes) ==
    [w EXCEPT !.out = @ \o bytes,
              !.loose = IF @ \notin {"escape", "string"} \/ bytes = <<>> THEN @
                        ELSE IF \/ Head(bytes) \in {"ESC", "CAN", "SUB"}
                                \/ @ = "escape" /\ Head(bytes) \in High THEN ""
                        ELSE IF @ = "escape" /\ Head(bytes) \in C0 THEN @ ELSE "stray"]
Broken(w, kind) == [w EXCEPT !.loose = IF @ = "stray" THEN @ ELSE kind]
Spill(w, bytes) == [Emit(w, bytes) EXCEPT !.loose = "stray"]
Paint(w, s) == Take(Emit(On(w, s), Render(s)), "switch")

\* A parameter list: a value for each piece, -1 when it is empty, and whether
\* a colon introduced it.  DEL counts for nothing.
ParseParams(raw) ==
    LET bytes  == SelectSeq(raw, LAMBDA b : b # "DEL")
        pieces == Split(bytes, {";", ":"})
        seps   == SelectSeq(bytes, LAMBDA b : b \in {";", ":"})
        all    == [i \in DOMAIN pieces |->
                     [v |-> IF pieces[i] = <<>> THEN -1 ELSE Number(pieces[i], MaxValue),
                      sub |-> i > 1 /\ seps[i - 1] = ":"]]
    IN  IF raw = <<>> THEN <<>> ELSE SubSeq(all, 1, Smaller(Len(all), MaxParams))

Top(ps) == SelectSeq(ps, LAMBDA p : ~p.sub)
Arg(ps, i, def) ==
    IF i >= Len(Top(ps)) \/ Top(ps)[i + 1].v < 0 THEN def ELSE Top(ps)[i + 1].v
Count(ps, i) == Larger(Arg(ps, i, 1), 1)

----------------------------------------------------------------------------
\* Renditions (SGR)

FlagOn == [n \in {1, 2, 3, 5, 6, 7, 8, 9, 53} |->
    CASE n = 1 -> "bold" [] n = 2 -> "dim" [] n = 3 -> "italic"
      [] n \in {5, 6} -> "blink" [] n = 7 -> "reverse"
      [] n = 8 -> "invisible" [] n = 9 -> "strike" [] OTHER -> "overline"]
FlagsOff == [n \in {22, 23, 25, 27, 28, 29, 55} |->
    CASE n = 22 -> {"bold", "dim"} [] n = 23 -> {"italic"} [] n = 25 -> {"blink"}
      [] n = 27 -> {"reverse"} [] n = 28 -> {"invisible"} [] n = 29 -> {"strike"}
      [] OTHER -> {"overline"}]

\* An extended colour from the values after 38, 48 or 58; Invalid leaves the
\* colour as it was.
Invalid == <<-1, -1>>
ExtColor(vs, colon) ==
    LET rgb == SubSeq(vs, IF colon /\ Len(vs) >= 5 THEN 3 ELSE 2, Len(vs))
    IN  IF vs[1] = 5 /\ Len(vs) >= 2 /\ vs[2] \in 0..255 THEN <<vs[2]>>
        ELSE IF vs[1] = 2 /\ Len(rgb) >= 3 /\ \A i \in 1..3 : rgb[i] <= 255
             THEN [i \in 1..3 |-> Larger(rgb[i], 0)]
        ELSE Invalid

WithColor(a, v, c) ==
    IF c = Invalid THEN a
    ELSE IF v = 38 THEN [a EXCEPT !.fg = c]
    ELSE IF v = 48 THEN [a EXCEPT !.bg = c] ELSE [a EXCEPT !.ulc = c]

\* One parameter, with its sub-parameters, other than an extended colour.
SgrOne(a, v, subs) ==
    CASE v <= 0 -> Plain
      [] v \in DOMAIN FlagOn   -> [a EXCEPT !.flags = @ \cup {FlagOn[v]}]
      [] v \in DOMAIN FlagsOff -> [a EXCEPT !.flags = @ \ FlagsOff[v]]
      [] v = 4  -> [a EXCEPT !.ul = IF subs = <<>> THEN 1
                                    ELSE IF subs[1] <= 0 THEN 0
                                    ELSE IF subs[1] <= 5 THEN subs[1] ELSE 1]
      [] v = 21 -> [a EXCEPT !.ul = 2]
      [] v = 24 -> [a EXCEPT !.ul = 0]
      [] v \in 30..37   -> [a EXCEPT !.fg = <<v - 30>>]
      [] v \in 40..47   -> [a EXCEPT !.bg = <<v - 40>>]
      [] v \in 90..97   -> [a EXCEPT !.fg = <<v - 82>>]
      [] v \in 100..107 -> [a EXCEPT !.bg = <<v - 92>>]
      [] v = 39 -> [a EXCEPT !.fg = <<>>]
      [] v = 49 -> [a EXCEPT !.bg = <<>>]
      [] v = 59 -> [a EXCEPT !.ulc = <<>>]
      [] OTHER -> a

\* The parameters from i on, in order.  The semicolon form of an extended
\* colour takes the parameters after it; cut short, it ends the sequence.
RECURSIVE SgrFrom(_, _, _)
SgrFrom(a, ps, i) ==
    LET v     == ps[i].v
        after == {j \in (i + 1)..Len(ps) : ~ps[j].sub}
        j     == IF after = {} THEN Len(ps) + 1 ELSE CHOOSE k \in after : \A m \in after : k <= m
        subs  == [k \in 1..(j - 1 - i) |-> ps[i + k].v]
        form  == IF j > Len(ps) THEN 0 ELSE ps[j].v
        used  == CASE form = 5 -> 2 [] form = 2 -> 4 [] OTHER -> 0
        vs    == [k \in 1..used |-> ps[j + k - 1].v]
    IN  IF i > Len(ps) THEN a
        ELSE IF v \notin {38, 48, 58} THEN SgrFrom(SgrOne(a, v, subs), ps, j)
        ELSE IF subs # <<>> THEN SgrFrom(WithColor(a, v, ExtColor(subs, TRUE)), ps, j)
        ELSE IF used = 0 \/ j + used - 1 > Len(ps) THEN a
        ELSE SgrFrom(WithColor(a, v, ExtColor(vs, FALSE)), ps, j + used)

Sgr(s, ps) ==
    [s EXCEPT !.pen = IF ps = <<>> THEN Plain ELSE SgrFrom(@, ps, 1)]

----------------------------------------------------------------------------
\* Control sequences

\* REP: the last glyph again, n times.
RECURSIVE Repeat(_, _)
Repeat(s, n) ==
    IF n = 0 \/ s.last.r = "" THEN s
    ELSE Repeat(PrintGlyph(s, s.last.r, s.last.w), n - 1)

\* What a sequence without marker or intermediate does to the screen.
PlainOpN(s, f, ps, n) ==
        CASE f = "A" -> CursorUp(s, n)
          [] f \in {"B", "e"} -> CursorDown(s, n)
          [] f \in {"C", "a"} -> MoveTo(s, s.cx + n, s.cy)
          [] f = "D" -> MoveTo(s, s.cx - n, s.cy)
          [] f = "E" -> [CursorDown(s, n) EXCEPT !.cx = 0]
          [] f = "F" -> [CursorUp(s, n) EXCEPT !.cx = 0]
          [] f \in {"G", "bquote"} -> MoveTo(s, n - 1, s.cy)
          [] f \in {"H", "f"} -> MoveToOrigin(s, Count(ps, 1) - 1, n - 1)
          [] f = "d" -> MoveToOrigin(s, s.cx, n - 1)
          [] f = "I" -> TabForward(s, n)
          [] f = "Z" -> TabBackward(s, n)
          [] f = "J" -> EraseDisplay(s, Arg(ps, 0, 0))
          [] f = "K" -> EraseInLine(s, Arg(ps, 0, 0))
          [] f = "@" -> InsertChars(s, n)
          [] f = "P" -> DeleteChars(s, n)
          [] f = "X" -> EraseChars(s, n)
          [] f = "L" -> InsertLines(s, n)
          [] f = "M" -> DeleteLines(s, n)
          [] f = "S" -> ScrollUp(s, s.top, s.bottom, n, TRUE)
          [] f = "T" -> IF Len(Top(ps)) <= 1 THEN ScrollDown(s, s.top, s.bottom, n) ELSE s
          [] f = "b" -> Repeat(s, n)
          [] f = "r" -> SetRegion(s, n, Arg(ps, 1, 0))
          [] f = "s" -> IF ps = <<>> THEN SaveCursor(s) ELSE s
          [] f = "u" -> IF ps = <<>> THEN RestoreCursor(s) ELSE s
          [] f = "g" -> CASE Arg(ps, 0, 0) = 0 -> ClearTab(s)
                          [] Arg(ps, 0, 0) = 3 -> [s EXCEPT !.tabs = {}]
                          [] OTHER -> s
          [] f = "m" -> Sgr(s, ps)
          [] f \in {"h", "l"} ->
                IF \E i \in DOMAIN Top(ps) : Top(ps)[i].v = 4
                THEN [s EXCEPT !.modes.insert = f = "h"] ELSE s
          [] OTHER -> s
PlainOp(s, f, ps) == PlainOpN(s, f, ps, Count(ps, 0))

\* The answer to a query, if it has one.
CPR(s, private) ==
    <<"CPR", s.cy + 1 - (IF s.modes.origin THEN s.top ELSE 0), s.cx + 1, private>>
Window(s, ps) ==
    LET n == Arg(ps, 0, 0)
    IN  CASE n \in {11, 13, 16} -> <<<<"window", n>>>>
          [] n \in {14, 15} -> <<<<"window", n, s.rows * 16, s.cols * 8>>>>
          [] n \in {18, 19} -> <<<<"window", n, s.rows, s.cols>>>>
          [] OTHER -> <<>>

\* DECRQM: 1 set, 2 reset, 0 not recognised.
ModeState(s, private, mode) ==
    LET m == s.modes
        Is(v) == IF v THEN 1 ELSE 2
    IN  IF ~private THEN IF mode = 4 THEN Is(m.insert) ELSE 0
        ELSE CASE mode = 1 -> Is(m.appCursor)
               [] mode = 6 -> Is(m.origin)
               [] mode = 7 -> Is(m.autowrap)
               [] mode \in MouseModes -> Is(m.mouse = mode)
               [] mode = 25 -> Is(m.visible)
               [] mode \in {47, 1047, 1049} -> Is(s.active = "alt")
               [] mode = 66 -> Is(m.appKeypad)
               [] mode = 1004 -> Is(m.focus)
               [] mode \in MouseEncodings -> Is(m.encoding = mode)
               [] mode = 2004 -> Is(m.paste)
               [] OTHER -> 0

\* Slip: only the cursor report is taken for a query.
OnlyCPRRemoved(f, ps) == f = "n" /\ Arg(ps, 0, 0) = 6

\* Sequences that are taken out of the forward stream, and their answers.
PlainRemoved(f, ps) == f \in {"n", "c", "x"} \/ (f = "t" /\ Arg(ps, 0, 0) \notin {22, 23})
PlainReplies(s, f, ps) ==
    CASE f = "n" /\ Arg(ps, 0, 0) = 5 -> <<<<"status">>>>
      [] f = "n" /\ Arg(ps, 0, 0) = 6 -> <<CPR(s, FALSE)>>
      [] f = "c" /\ Arg(ps, 0, 0) = 0 -> <<<<"DA1">>>>
      [] f = "t" -> Window(s, ps)
      [] OTHER -> <<>>

PrivateOp(s, f, ps) ==
    CASE f = "J" -> EraseDisplay(s, Arg(ps, 0, 0))
      [] f = "K" -> EraseInLine(s, Arg(ps, 0, 0))
      [] f = "W" /\ Arg(ps, 0, 0) = 5 -> [s EXCEPT !.tabs = DefaultTabs(0, s.cols)]
      [] OTHER -> s
PrivateRemoved(f) == f \in {"n", "u", "S", "m", "c"}
PrivateReplies(s, f, ps) ==
    IF f = "n" /\ Arg(ps, 0, 0) = 6 THEN <<CPR(s, TRUE)>> ELSE <<>>

OtherRemoved(priv, f, ps) ==
    f \in {"c", "u"} \/ (f = "q" /\ priv = ">" /\ Arg(ps, 0, 0) = 0)
OtherReplies(priv, f, ps) ==
    CASE f = "c" /\ priv = ">" /\ Arg(ps, 0, 0) = 0 -> <<<<"DA2">>>>
      [] f = "q" /\ priv = ">" /\ Arg(ps, 0, 0) = 0 -> <<<<"XTVERSION">>>>
      [] OTHER -> <<>>

InterOp(s, priv, im, f, ps) ==
    CASE im = " " /\ f = "q" /\ priv = "" /\ Arg(ps, 0, 0) <= 6 ->
              [s EXCEPT !.cursorStyle = Arg(ps, 0, 0)]
      [] im = "!" /\ f = "p" /\ priv = "" -> SoftReset(s)
      [] OTHER -> s
InterRemoved(priv, im, f) == im = "$" /\ f = "p" /\ priv \in {"", "?"}
InterReplies(s, priv, im, f, ps) ==
    IF InterRemoved(priv, im, f)
    THEN <<<<"mode", Arg(ps, 0, 0), ModeState(s, priv = "?", Arg(ps, 0, 0))>>>> ELSE <<>>

\* The sequence applied and answered, and forwarded unless it is removed.
Settle(w, s, replies, removed) ==
    LET t == [w EXCEPT !.scr = s, !.reply = @ \o replies]
    IN  IF removed THEN Take(t, "sequence") ELSE Emit(t, w.seq)

\* DECSET and DECRST.  Buffer switches, DECCOLM and Win32 input are taken out;
\* the modes between them are written out again at their place.
Switches == {47, 1047, 1049}
Filtered == Switches \cup {3, 9001}

RECURSIVE SetModes(_, _, _)
SetModes(s, vs, set) ==
    IF vs = <<>> THEN s ELSE SetModes(SetMode(s, Head(vs), set), Tail(vs), set)

Flush(w, keep, set) == IF keep = <<>> THEN w ELSE Emit(w, DecMode(keep, set))

RECURSIVE MixedModes(_, _, _, _)
MixedModes(w, vs, keep, set) ==
    LET v == Head(vs)
        f == Flush(w, keep, set)
        s == AltScreen(w.scr, v, set)
    IN  IF vs = <<>> THEN Flush(w, keep, set)
        ELSE IF v \in {-1, 3, 9001} THEN MixedModes(w, Tail(vs), keep, set)
        ELSE IF v \in Switches
             THEN MixedModes(IF AltChanged(w.scr, s, v, set) THEN Paint(f, s)
                             ELSE Take(On(f, s), "switch"),
                             Tail(vs), <<>>, set)
        ELSE MixedModes(On(w, SetMode(w.scr, v, set)), Tail(vs), Append(keep, v), set)

DecSet(w, ps, set) ==
    LET vs == [i \in DOMAIN Top(ps) |-> Top(ps)[i].v]
    IN  IF \E i \in DOMAIN vs : vs[i] \in Filtered
         THEN MixedModes(Take(w, "sequence"), vs, <<>>, set)
        ELSE Settle(w, SetModes(w.scr, vs, set), <<>>, FALSE)

\* A sequence by its parts: marker, parameters, intermediates, final.
ApplyCSI(w, priv, ps, inter, f) ==
    IF inter # <<>>
    THEN Settle(w, InterOp(w.scr, priv, inter[1], f, ps),
                InterReplies(w.scr, priv, inter[1], f, ps), InterRemoved(priv, inter[1], f))
    ELSE IF priv = ""
         THEN Settle(w, PlainOp(w.scr, f, ps), PlainReplies(w.scr, f, ps), PlainRemoved(f, ps))
    ELSE IF priv = "?"
         THEN IF f \in {"h", "l"} THEN DecSet(w, ps, f = "h")
              ELSE Settle(w, PrivateOp(w.scr, f, ps), PrivateReplies(w.scr, f, ps),
                          PrivateRemoved(f))
    ELSE Settle(w, w.scr, OtherReplies(priv, f, ps), OtherRemoved(priv, f, ps))

\* A complete sequence in w.seq.  One that is malformed is forwarded and does
\* nothing.
DispatchCSI(w) ==
    LET f      == Last(w.seq)
        all    == SubSeq(w.seq, 3, Len(w.seq) - 1)
        marked == all # <<>> /\ Head(all) \in {"<", "=", ">", "?"}
        priv   == IF marked THEN Head(all) ELSE ""
        body   == IF marked THEN Tail(all) ELSE all
        k      == Until(body, Inters)
        raw    == SubSeq(body, 1, k)
        inter  == SubSeq(body, k + 1, Len(body))
        good   == /\ \A i \in DOMAIN inter : inter[i] \in Inters \cup {"DEL"}
                  /\ \A i \in DOMAIN raw : raw[i] \in DigitBytes \cup {":", ";", "DEL"}
                  /\ Len(inter) <= 1
    IN  IF ~good THEN Emit(w, w.seq)
        ELSE ApplyCSI(w, priv, ParseParams(raw), inter, f)

----------------------------------------------------------------------------
\* Escape sequences and strings

DispatchEsc(w, f) ==
    LET s == Forget(w.scr)
        t == CASE f = "7" -> SaveCursor(s)
               [] f = "8" -> RestoreCursor(s)
               [] f = "D" -> Index(Unwrapped(s))
               [] f = "E" -> Index(CarriageReturn(s))
               [] f = "M" -> ReverseIndex(Unwrapped(s))
               [] f = "=" -> [s EXCEPT !.modes.appKeypad = TRUE]
               [] f = ">" -> [s EXCEPT !.modes.appKeypad = FALSE]
               [] f = "H" -> SetTab(s)
               [] f = "n" -> [s EXCEPT !.gl = 2]
               [] f = "o" -> [s EXCEPT !.gl = 3]
               [] OTHER -> s
    IN  IF f = "c" THEN Paint(w, FullReset(s))
        ELSE IF f = "Z" THEN Answer(On(w, s), <<"DA1">>)
        ELSE Emit(On(w, t), w.seq)

Slot94 == "(" :> 0 @@ ")" :> 1 @@ "*" :> 2 @@ "+" :> 3
Slot96 == "-" :> 1 @@ "." :> 2 @@ "/" :> 3
DispatchEscInter(w) ==
    LET s     == Forget(w.scr)
        f     == Last(w.seq)
        inter == w.seq[2]
        t == CASE inter \in DOMAIN Slot94 ->
                    [s EXCEPT !.g[Slot94[inter]] = IF f = "0" THEN "0" ELSE "B"]
               [] inter \in DOMAIN Slot96 -> [s EXCEPT !.g[Slot96[inter]] = "B"]
               [] inter = "#" /\ f = "8" -> AlignmentTest(s)
               [] OTHER -> s
    IN  Emit(On(w, IF Len(w.seq) = 3 THEN t ELSE s), w.seq)

\* An OSC: titles are kept, colour, palette and clipboard queries removed.
Query == <<"?">>
OscReplies(num, parts, st) ==
    LET asked == {i \in DOMAIN parts : parts[i] = Query /\ num + i - 1 \in 10..12}
    IN  SelectSeq([i \in DOMAIN parts |->
                      IF i \in asked THEN <<"color", num + i - 1, st>> ELSE <<>>],
                  LAMBDA r : r # <<>>)
Osc(w, payload, st) ==
    LET fields == Split(payload, {";"})
        num    == IF fields[1] # <<>> /\ \A i \in DOMAIN fields[1] : fields[1][i] \in DigitBytes
                  THEN Number(fields[1], MaxValue) ELSE -1
        parts  == Tail(fields)
        asks   == CASE num = 4 -> \E i \in DOMAIN parts : i % 2 = 0 /\ parts[i] = Query
                    [] num \in 10..19 -> \E i \in DOMAIN parts : parts[i] = Query
                    [] num = 52 -> Len(parts) = 2 /\ parts[2] = Query
                    [] OTHER -> FALSE
        title  == SelectSeq(Joined(parts, ";"), LAMBDA b : b \notin C0 \cup {"DEL"})
    IN  Settle(w, [w.scr EXCEPT !.title = IF num \in {0, 2} THEN title ELSE @],
               IF num \in 10..19 THEN OscReplies(num, parts, st) ELSE <<>>, asks)

\* DECRQSS and XTGETTCAP are answered with "invalid" and removed.
Dcs(w, payload) ==
    IF Len(payload) >= 2 /\ payload[1] \in {"$", "+"} /\ payload[2] = "q"
    THEN Answer(w, <<"DCS", payload[1]>>) ELSE Emit(w, w.seq)

\* A kitty graphics query is an APC "G..." with a control "a=q".
IsKittyGraphicsQuery(payload) ==
    /\ payload # <<>> /\ payload[1] = "G"
    /\ LET ctrl == Split(Split(Tail(payload), {";"})[1], {","})
       IN  \E i \in DOMAIN ctrl : ctrl[i] = <<"a", "=", "q">>

FinishString(w, st) ==
    LET payload == SubSeq(w.seq, 3, Len(w.seq) - (IF st THEN 2 ELSE 1))
        v == On(w, Forget(w.scr))
        t == CASE w.kind = "]" -> Osc(v, payload, st)
               [] w.kind = "P" -> Dcs(v, payload)
               [] w.kind = "_" /\ IsKittyGraphicsQuery(payload) -> Take(v, "sequence")
               [] OTHER -> Emit(v, v.seq)
    IN  Ground(t)

----------------------------------------------------------------------------
\* The state machine.  A step takes one or more bytes of p: it is a pair of
\* the terminal after it and how many it took.

\* An unfinished sequence is forwarded unchanged and forgotten.
Abort(w) ==
    [Ground(IF w.csiOver \/ w.strOver THEN w ELSE Emit(w, w.seq))
        EXCEPT !.csiOver = FALSE, !.strOver = FALSE]

\* The loop of printASCII: in bulk what ends before the last column, glyph by
\* glyph the rest and whatever a mode or a character set makes unusual.
LineGlyph(s, b) == IF s.g[s.gl] = "0" /\ b \in Lower THEN "line" ELSE b
RECURSIVE PrintASCII(_, _)
PrintASCII(s, run) ==
    LET n == Smaller(Len(run), s.cols - 1 - s.cx)
    IN  IF run = <<>> THEN s
        ELSE IF CanRun(s, n)
             THEN PrintASCII(PrintRun(s, SubSeq(run, 1, n)), SubSeq(run, n + 1, Len(run)))
        ELSE PrintASCII(PrintGlyph(s, LineGlyph(s, run[1]), 1), Tail(run))

Control(w, b) ==
    LET s == Forget(w.scr)
        t == CASE b = "BS" -> Backspace(s)
               [] b = "HT" -> TabForward(s, 1)
               [] b = "LF" -> Index(Unwrapped(s))
               [] b = "CR" -> CarriageReturn(s)
               [] b = "SO" -> [s EXCEPT !.gl = 1]
               [] b = "SI" -> [s EXCEPT !.gl = 0]
               [] OTHER -> s
    IN  IF b = "ENQ" THEN Take(On(w, s), "sequence") ELSE Emit(On(w, t), <<b>>)

\* A code point, or U+FFFD for a byte that starts or continues none.
Rune(w, r, bytes) ==
    Emit(IF r = "C1" THEN w ELSE On(w, PrintRune(w.scr, r, Width(r))), bytes)
HighStep(w, p) ==
    LET whole == p[1] \in DOMAIN Leads /\ p[2] = "cont"
        n     == IF whole THEN 2 ELSE 1
    IN  IF p[1] \in DOMAIN Leads /\ Len(p) = 1 THEN <<[w EXCEPT !.held = p], 1>>
        ELSE <<Rune(w, IF whole THEN Leads[p[1]] ELSE "U+FFFD", SubSeq(p, 1, n)), n>>

GroundStep(w, p) ==
    LET b    == Head(p)
        n    == Until(p, Others)
        run  == SubSeq(p, 1, n)
    IN  CASE b \in Printable -> <<Emit(On(w, PrintASCII(w.scr, run)), run), n>>
          [] b = "ESC" -> <<[w EXCEPT !.seq = <<b>>, !.state = "esc"], 1>>
          [] b \in {"CAN", "SUB", "DEL"} ->
                <<Emit(IF b = "DEL" THEN w ELSE On(w, Forget(w.scr)), <<b>>), 1>>
          [] b \in C0 -> <<Control(w, b), 1>>
          [] OTHER -> HighStep(w, p)

\* Bytes that interrupt any escape sequence.
Interrupts == C0 \cup {"ESC", "CAN", "SUB"}
CommonC0(w, b) ==
    CASE b = "ESC" -> [Broken(Abort(w), "escape") EXCEPT !.seq = <<"ESC">>, !.state = "esc"]
      [] b \in {"CAN", "SUB"} -> Emit(Abort(w), <<b>>)
      [] OTHER -> Control(w, b)

Hold(w, b) == [w EXCEPT !.seq = Append(@, b)]

EscByte(w, b) ==
    CASE b \in Interrupts -> <<CommonC0(w, b), 1>>
      [] b = "DEL" -> <<Hold(w, b), 1>>
      [] b \in Inters -> <<[Hold(w, b) EXCEPT !.state = "escInter"], 1>>
      [] b = "[" -> <<[Hold(w, b) EXCEPT !.state = "csi", !.csiOver = FALSE], 1>>
      [] b \in {"]", "P", "X", "^", "_"} ->
            <<[Hold(w, b) EXCEPT !.state = "string", !.kind = b, !.strOver = FALSE], 1>>
      [] b \in High -> <<Broken(Abort(w), "escape"), 0>>
      [] OTHER -> <<Ground(DispatchEsc(Hold(w, b), b)), 1>>

EscInterByte(w, b) ==
    CASE b \in Interrupts -> <<CommonC0(w, b), 1>>
      [] b = "DEL" -> <<Hold(w, b), 1>>
      [] b \in Inters /\ Len(w.seq) < 16 -> <<Hold(w, b), 1>>
      [] b \in Params \cup Finals -> <<Ground(DispatchEscInter(Hold(w, b))), 1>>
      [] OTHER -> <<Broken(Abort(w), "escape"), 0>>

\* A sequence that outgrows the cap passes through from there on, unread.
CsiByte(w, b) ==
    LET h    == Hold(w, b)
        rep  == IF b = "b" THEN h ELSE On(h, Forget(h.scr))
        over == Spill([w EXCEPT !.seq = <<>>, !.csiOver = TRUE], h.seq)
    IN  CASE b \in Interrupts -> <<CommonC0(w, b), 1>>
          [] b \in Params \cup Inters \cup {"DEL"} ->
                IF w.csiOver THEN <<Emit(w, <<b>>), 1>>
                ELSE IF Len(h.seq) > w.lim.csi THEN <<over, 1>> ELSE <<h, 1>>
          [] b \in Finals ->
                IF w.csiOver
                THEN <<[Emit(w, <<b>>) EXCEPT !.state = "ground", !.csiOver = FALSE], 1>>
                ELSE <<Ground(DispatchCSI(rep)), 1>>
          [] OTHER -> <<Broken(Abort(w), "escape"), 0>>

\* String content, passed through once it outgrows the cap.
StringAppend(w, data) ==
    IF w.strOver \/ data = <<>> THEN Emit(w, data)
    ELSE IF Len(w.seq) + Len(data) > w.lim.str
         THEN Spill([w EXCEPT !.seq = <<>>, !.strOver = TRUE], w.seq \o data)
    ELSE [w EXCEPT !.seq = @ \o data]

EndPassthrough(w) == Ground([w EXCEPT !.strOver = FALSE])

StringStep(w, p) ==
    LET n    == Until(p, {"ESC", "BEL", "CAN", "SUB"})
        t    == StringAppend(w, SubSeq(p, 1, n))
        c    == p[n + 1]
        v == CASE c = "BEL" /\ t.kind # "]" -> StringAppend(t, <<c>>)
               [] c = "BEL" /\ t.kind = "]" /\ t.strOver -> EndPassthrough(Emit(t, <<c>>))
               [] c = "BEL" /\ t.kind = "]" /\ ~t.strOver -> FinishString(Hold(t, c), FALSE)
               [] c \in {"CAN", "SUB"} -> Emit(Abort(t), <<c>>)
               [] c = "ESC" -> [t EXCEPT !.seq = IF t.strOver THEN <<c>> ELSE Append(@, c),
                                         !.state = "stringEsc"]
    IN  IF n = Len(p) THEN <<t, n>> ELSE <<v, n + 1>>

\* ESC \ ends a string; any other byte makes the ESC the start of a sequence
\* and abandons the string, which is forwarded and not acted on.
StringEscByte(w, b) ==
    IF b = "\\"
    THEN IF w.strOver THEN <<EndPassthrough(Emit(w, <<"ESC", b>>)), 1>>
         ELSE <<FinishString(Hold(w, b), TRUE), 1>>
    ELSE <<[Broken(IF w.strOver THEN w ELSE Emit(w, Front(w.seq)), "string")
               EXCEPT !.seq = <<"ESC">>, !.strOver = FALSE, !.state = "esc"], 0>>

Step(w, p) ==
    CASE w.state = "ground"    -> GroundStep(w, p)
      [] w.state = "string"    -> StringStep(w, p)
      [] w.state = "esc"       -> EscByte(w, Head(p))
      [] w.state = "escInter"  -> EscInterByte(w, Head(p))
      [] w.state = "csi"       -> CsiByte(w, Head(p))
      [] w.state = "stringEsc" -> StringEscByte(w, Head(p))

\* From a terminal that has taken n bytes of p, the rest of p.
RECURSIVE Steps(_, _)
Steps(taken, p) ==
    LET rest == SubSeq(p, taken[2] + 1, Len(p))
    IN  IF rest = <<>> THEN taken[1] ELSE Steps(Step(taken[1], rest), rest)
Fresh(w) == [w EXCEPT !.out = <<>>, !.reply = <<>>, !.held = <<>>, !.taken = {}]

\* Slip: an incomplete character is held and then forgotten.
FeedForgetting(w, p) == Steps(<<Fresh(w), 0>>, p)

\* Feed: the bytes of an incomplete character from last time come first.
Feed(w, p) == Steps(<<Fresh(w), 0>>, w.held \o p)

----------------------------------------------------------------------------
\* A history line printed on a scratch row without autowrap, as cellsFromText
\* does when a taller screen pulls it back.
TextBytes(text) ==
    FlattenSeq([i \in DOMAIN text |-> GlyphBytes(text[i].r) \o
        FlattenSeq([j \in DOMAIN text[i].comb |-> GlyphBytes(text[i].comb[j])])])
LineFromText(cols, text) ==
    LET new == NewScreen(cols, 1, 0)
        row == NewTerminal([new EXCEPT !.modes.autowrap = FALSE], MaxCSI, MaxString)
    IN  [cells |-> Feed(row, TextBytes(text)).scr.lines["main"][0].cells,
         used |-> text # <<>>]

Resize(s, wantCols, wantRows) ==
    LET cols == Clamp(wantCols, 1, MaxDim)
        rows == Clamp(wantRows, 1, MaxDim)
        n    == PullCount(s, rows)
    IN  ResizeWith(s, cols, rows,
            [i \in 1..n |-> LineFromText(cols, s.hist[Len(s.hist) - n + i].text)])
=============================================================================
