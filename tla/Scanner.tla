------------------------------ MODULE Scanner ------------------------------
(***************************************************************************)
(* The mark scanner (detect/scanner.go): it reads the raw log from some    *)
(* offset on as it grows, in whatever pieces the reads return, and reports *)
(* the OSC 133 marks, the sentinel and the boundary text that follows a    *)
(* sentinel, each with the offsets it starts and ends at.                  *)
(*                                                                         *)
(* The boundary is a plain text of repeated characters, so a match may     *)
(* begin inside a failed one.  MarksIn says which marks a stream holds,    *)
(* without reading it byte by byte.                                        *)
(***************************************************************************)
EXTENDS Bytes

CONSTANTS PayloadCap,   \* longest OSC payload collected (payloadCap)
          Boundary      \* the bytes of core.SentinelBoundary

ASSUME ScannerAssumption == PayloadCap \in Nat /\ Boundary \in Seq(STRING) \ {<<>>}

NewScanner(base) == [state |-> "ground", pos |-> base, markStart |-> 0, payload |-> <<>>,
                     bnd |-> 0, marks |-> {}]

\* The mark a payload stands for.  ExitCode is -1 when absent or not a number.
ExitFrom(fields) ==
    IF Len(fields) < 3 \/ fields[3] = <<>> \/ ToSet(fields[3]) \ DigitBytes # {}
    THEN -1 ELSE Number(fields[3], 255)
PromptKinds == {"A", "B", "C", "D"}
MarkOf(payload, start, end) ==
    LET fields == Split(payload, {";"})
        named(k) == [kind |-> k, exit |-> ExitFrom(fields), start |-> start, end |-> end]
    IN  CASE /\ fields[1] = <<"1", "3", "3">>
             /\ Len(fields) >= 2 /\ Len(fields[2]) = 1 /\ fields[2][1] \in PromptKinds
                 -> {named(fields[2][1])}
          [] /\ fields[1] = <<"7", "7", "7", "9">>
             /\ Len(fields) >= 3 /\ fields[2] = <<"p">> -> {named("sentinel")}
          [] OTHER -> {}
BoundaryMark(start, end) == [kind |-> "boundary", exit |-> -1, start |-> start, end |-> end]

\* Slip: after a mismatch the match starts over.
MatchedAfresh(bnd, b) == IF Boundary[bnd + 1] = b THEN bnd + 1 ELSE 0

\* The match of the boundary after byte b: on a mismatch, the longest prefix
\* of it that ends what was seen.
Matched(bnd, b) ==
    LET seen == Append(SubSeq(Boundary, 1, bnd), b)
        fits == {n \in 0..bnd : \A k \in 1..n : Boundary[k] = seen[bnd + 1 - n + k]}
    IN  IF Boundary[bnd + 1] = b THEN bnd + 1
        ELSE CHOOSE n \in fits : \A k \in fits : k <= n

\* One byte, at offset sc.pos.
Finish(sc, end) ==
    [sc EXCEPT !.marks = @ \cup MarkOf(sc.payload, sc.markStart, end), !.state = "ground"]
GroundByte(sc, b, end) ==
    LET n == Matched(sc.bnd, b)
    IN  IF b = "ESC" THEN [sc EXCEPT !.state = "esc", !.markStart = end - 1, !.bnd = 0]
        ELSE IF n = Len(Boundary)
             THEN [sc EXCEPT !.bnd = 0, !.marks = @ \cup {BoundaryMark(end - n, end)}]
        ELSE [sc EXCEPT !.bnd = n]
EscapeByte(sc, b, end) ==
    CASE b = "]"   -> [sc EXCEPT !.state = "osc", !.payload = <<>>]
      [] b = "ESC" -> [sc EXCEPT !.markStart = end - 1]
      [] OTHER     -> [sc EXCEPT !.state = "ground"]
OscByte(sc, b, end) ==
    LET more == Append(sc.payload, b)
    IN  CASE b = "BEL" -> Finish(sc, end)
          [] b = "ESC" -> [sc EXCEPT !.state = "oscEsc"]
          [] OTHER -> IF Len(more) > PayloadCap
                      THEN [sc EXCEPT !.state = "ground", !.payload = <<>>]
                      ELSE [sc EXCEPT !.payload = more]
\* Slip: an ESC inside an OSC that ends nothing starts nothing either.
OscEscByteDropping(sc, b, end) ==
    IF b = "\\" THEN Finish(sc, end) ELSE [sc EXCEPT !.state = "ground"]
OscEscByte(sc, b, end) ==
    CASE b = "\\"  -> Finish(sc, end)
      [] b = "]"   -> [sc EXCEPT !.state = "osc", !.markStart = end - 2, !.payload = <<>>]
      [] b = "ESC" -> [sc EXCEPT !.state = "esc", !.markStart = end - 1]
      [] OTHER     -> [sc EXCEPT !.state = "ground"]

ScanByte(sc, b) ==
    LET end == sc.pos + 1
        t == CASE sc.state = "ground" -> GroundByte(sc, b, end)
               [] sc.state = "esc"    -> EscapeByte(sc, b, end)
               [] sc.state = "osc"    -> OscByte(sc, b, end)
               [] sc.state = "oscEsc" -> OscEscByte(sc, b, end)
    IN  [t EXCEPT !.pos = end]

\* Feed: one byte after the other.
Scan(sc, chunk) ==
    LET After[k \in 0..Len(chunk)] == IF k = 0 THEN sc ELSE ScanByte(After[k - 1], chunk[k])
    IN  After[Len(chunk)]

----------------------------------------------------------------------------
\* What a stream holds whose first byte is at offset base: byte k of it is at
\* offset base + k - 1.

\* The OSC that starts at i has not ended before j.
OscOpen(stream, i, j) ==
    /\ i \in 1..(j - 2) /\ stream[i] = "ESC" /\ stream[i + 1] = "]"
    /\ j - (i + 2) <= PayloadCap
    /\ \A k \in (i + 2)..(j - 1) : stream[k] \notin {"ESC", "BEL"}

\* It ends there: each starts at its own ESC ], whatever was going on before
\* it, and ends at the first terminator if no other ESC comes before that.
Closes(stream, i, j) ==
    /\ OscOpen(stream, i, j)
    /\ \/ stream[j] = "BEL"
       \/ stream[j] = "ESC" /\ j < Len(stream) /\ stream[j + 1] = "\\"
Closed(stream) ==
    {p \in (1..Len(stream)) \X (1..Len(stream)) : Closes(stream, p[1], p[2])}
OscMark(stream, base, i, j) ==
    MarkOf(SubSeq(stream, i + 2, j - 1), base + i - 1,
           base + (IF stream[j] = "BEL" THEN j ELSE j + 1))
OscMarks(stream, base) == UNION {OscMark(stream, base, p[1], p[2]) : p \in Closed(stream)}

\* Text: what neither is an ESC or the byte after it, nor belongs to an OSC.
IsText(stream, k) ==
    \A e \in 1..k : stream[e] = "ESC" => (k > e + 1 /\ ~OscOpen(stream, e, k))

\* The boundaries of a stream: leftmost first, no two overlapping.
Occurrences(stream) ==
    {i \in 1..(Len(stream) - Len(Boundary) + 1) :
        \A k \in 1..Len(Boundary) :
            stream[i + k - 1] = Boundary[k] /\ IsText(stream, i + k - 1)}
LeftmostFirst(taken, all) ==
    \A i \in all : (i \in taken) <=> (\A g \in taken : g < i => g + Len(Boundary) <= i)
Starts(stream) ==
    CHOOSE taken \in SUBSET Occurrences(stream) : LeftmostFirst(taken, Occurrences(stream))
BoundaryMarks(stream, base) ==
    {BoundaryMark(base + i - 1, base + i + Len(Boundary) - 1) : i \in Starts(stream)}

MarksIn(stream, base) == OscMarks(stream, base) \cup BoundaryMarks(stream, base)
=============================================================================
