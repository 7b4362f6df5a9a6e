----------------------------- MODULE MC_Terminal -----------------------------
(* Small worlds for Terminal: each lets pieces of output that share a       *)
(* mechanism meet in every order.                                           *)
EXTENDS Terminal

Zwsp == <<"lead_mark", "cont">>
MCBoundary == Zwsp \o Zwsp

Sets(n) == DecMode(<<n>>, TRUE)
Clears(n) == DecMode(<<n>>, FALSE)
Seq1(f) == CSI \o <<f>>
SeqN(n, f) == CSI \o Decimal(n) \o <<f>>
Seqs(ns, f) == CSI \o Numbers(ns) \o <<f>>
Esc(f) == <<"ESC", f>>
Wide == <<"lead_wide", "cont">>
OscBel(body) == <<"ESC", "]">> \o body \o <<"BEL">>

Plainly(cols, rows, limit, depth, pieces) ==
    [cols |-> cols, rows |-> rows, limit |-> limit, pieces |-> pieces, sizes |-> {},
     follow |-> FALSE, attach |-> {0}, feeds |-> depth]

\* Wide glyphs and marks against the edits that cut them and a pending wrap.
Edits == Plainly(4, 2, 1, 3,
    {<<"a", "b", "c">>, Wide \o <<"d">>, <<"a", "lead_mark", "cont">>, Wide \o Wide,
     SeqN(2, "G"), Seq1("P"), Seq1("@"), Seq1("X"), Seq1("K"), SeqN(1, "K"),
     SeqN(2, "b"), SeqN(4, "h"), Clears(7)})
\* Code points that join the previous cell or widen it.
Joins == Plainly(3, 1, 1, 4,
    {<<"lead_flag", "cont">>, <<"lead_zwj", "cont">>, <<"lead_vs16", "cont">>,
     <<"lead_line", "cont">>, SeqN(2, "G"), SeqN(2, "b")})
\* Regions, the history and what clears into it.
Scrolls == Plainly(2, 3, 2, 4,
    {<<"a", "LF">>, Seqs(<<1, 2>>, "r"), Seqs(<<2, 3>>, "r"), Sets(6), Esc("M"), Seq1("S"),
     SeqN(2, "T"), Seq1("L"), SeqN(2, "M"), SeqN(2, "J"), Seq1("J"), SeqN(3, "J")})
\* Buffer switches, saved cursors and resets.
Switching == Plainly(3, 2, 1, 3,
    {<<"a", "b", "c">>, <<"LF", "x">>, Esc("7"), Esc("8"), Sets(1049), Clears(1049), Sets(47),
     Clears(1047), DecMode(<<1049, 7>>, FALSE), DecMode(<<25, 1047, 6>>, TRUE), Esc("c"),
     CSI \o <<"!", "p">>, Sets(6), Seqs(<<1, 2>>, "r"), SeqN(44, "m") \o <<"SO">>, Sets(1048)})
\* Sizes.
Sizing == [Plainly(3, 2, 2, 3,
    {<<"a", "b", "c">>, Wide \o <<"LF">>, <<"LF", "LF", "x">>, SeqN(2, "J"), Sets(1049), Clears(1049), Esc("7"),
     Seqs(<<1, 2>>, "r")}) EXCEPT !.sizes = {<<2, 1>>, <<3, 3>>, <<4, 2>>}]
\* Sequences cut anywhere, broken off, or too long to hold.
Sequences == Plainly(3, 1, 1, 4,
    {<<"ESC">>, <<"[">>, <<"6", "n">>, <<"]", "2", ";">>, <<"BEL">>, <<"\\">>,
     <<"lead_wide">>, <<"cont">>,
     Numbers(<<1, 1, 1, 1, 1, 1, 1, 1, 1>>)})
\* Renditions.
Colours == Plainly(3, 1, 0, 3,
    {<<"a">>, Seq1("K"), Seqs(<<1, 31>>, "m"), SeqN(0, "m"), SeqN(22, "m"), SeqN(39, "m"),
     Seqs(<<38, 5, 9>>, "m"), CSI \o <<"4", ":", "3", "m">>, SeqN(97, "m"),
     CSI \o <<"4", "8", ":", "2", ":", ":", "1", ":", "2", ":", "3", "m">>,
     Seqs(<<58, 2, 1, 2, 3>>, "m"), Seqs(<<38, 5>>, "m")})
\* Queries.
Queries == Plainly(3, 2, 0, 2,
    {<<"a", "LF">>, <<"ESC", "[", "CAN", "ESC", "]", "2", "SUB">>, SeqN(6, "n"), SeqN(5, "n"), Seq1("c"), CSI \o <<">", "c">>,
     CSI \o <<">", "q">>, SeqN(18, "t"), SeqN(22, "t"), CSI \o <<"?", "6", "n">>, CSI \o <<"?", "u">>,
     CSI \o <<"?", "7", "$", "p">>, CSI \o <<"4", "$", "p">>, Esc("Z"), <<"ENQ">>, Sets(6),
     OscBel(<<"1", "0", ";", "?">>), OscBel(<<"4", ";", "1", ";", "?">>), OscBel(<<"5", "2", ";", "c", ";", "?">>),
     OscBel(<<"2", ";", "x">>), <<"ESC", "P", "+", "q", "ESC", "\\">>,
     <<"ESC", "_", "G", "a", "=", "q", ";", "ESC", "\\">>})
\* Modes, character sets, tab stops.
Modal == Plainly(10, 1, 0, 3,
    {<<"q", "HT">>, <<"ESC", "H">>, Seq1("Z"), SeqN(3, "g"), DecMode(<<1, 2004>>, TRUE),
     Sets(1000) \o Sets(1006), Clears(1002), Clears(25) \o Esc("="), Esc("n"),
     <<"ESC", "(", "0">>, <<"ESC", "#", "8">>, CSI \o <<"4", " ", "q">>, DecMode(<<3, 1004>>, TRUE)})
\* Marks in the log, cut off, overlong, one inside another, and boundaries
\* that overlap.
MCPieces ==
    {<<"ESC", "]", "1", "3", "3", ";">>, <<"D", ";", "7">>, <<"A", "BEL">>, <<"ESC", "\\">>,
     Zwsp, <<"lead_mark">>}
Marks == [Plainly(1, 1, 0, MaxPieces, MCPieces) EXCEPT !.attach = {}, !.follow = TRUE]

MCWorlds ==
    {Edits, Joins, Scrolls, Switching, Sizing, Sequences, Colours, Queries, Modal, Marks}

\* No follower is special.
MCSymmetry == Permutations(Followers)
=============================================================================
