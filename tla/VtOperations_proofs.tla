------------------------ MODULE VtOperations_proofs ------------------------
(***************************************************************************)
(* The screen is in order after any sequence of its operations, with any   *)
(* arguments, at any size and any history limit.                           *)
(*                                                                         *)
(* What is claimed of a screen (ScreenInvariants, OnlyScrolledLinesReturn) *)
(* is not inductive: a cell must be of one of three kinds for a split to   *)
(* leave a row in order, a saved cursor must be a position that a restore  *)
(* can clamp, and the count of scrolled lines must stay one when a full    *)
(* history drops its oldest.  Good adds all that.  The proof goes from the *)
(* cells of a row (no operation leaves half a glyph) over rows and buffers *)
(* and the history to one lemma per operation, and from those to one per   *)
(* action of VtOperations.                                                 *)
(***************************************************************************)
EXTENDS VtOperations, FiniteSetTheorems, TLAPS

----------------------------------------------------------------------------
\* Rows of cells

\* A cell, and a row: halves of wide glyphs come in pairs.
CellFields == {"r", "half", "a", "comb"}
IsCell(c) == DOMAIN c = CellFields /\ c.half \in {"none", "wide", "pad"}
Row(cells, cols) ==
    /\ DOMAIN cells = 0..(cols - 1)
    /\ \A x \in 0..(cols - 1) : IsCell(cells[x])
    /\ Paired(cells, cols)

\* A cell that is no half of a glyph.
Lone(c) == IsCell(c) /\ c.half = "none"

\* An erased cell (cell{}) is no half of a wide glyph.
LEMMA ZeroCellLone == Lone(ZeroCell)
  BY DEF Lone, IsCell, CellFields, ZeroCell, Cell

\* Cells whose halves have their other half next to them are a row (the wide and
\* pad flags of screen.go).
LEMMA RowOfHalves ==
  ASSUME NEW cols \in Nat \ {0}, NEW t, DOMAIN t = 0..(cols - 1),
         \A i \in 0..(cols - 1) : IsCell(t[i]),
         \A i \in 0..(cols - 1) : t[i].half = "wide" => i + 1 < cols /\ t[i + 1].half = "pad",
         \A i \in 0..(cols - 1) : t[i].half = "pad" => i > 0 /\ t[i - 1].half = "wide"
  PROVE  Row(t, cols)
  BY DEF Row, Paired

\* Conversely, in a row every half has its other half next to it (the wide and
\* pad flags of screen.go).
LEMMA HalvesOfRow ==
  ASSUME NEW cols \in Nat \ {0}, NEW t, Row(t, cols)
  PROVE  /\ \A i \in 0..(cols - 1) : t[i].half = "wide" => i + 1 < cols /\ t[i + 1].half = "pad"
         /\ \A i \in 0..(cols - 1) : t[i].half = "pad" => i > 0 /\ t[i - 1].half = "wide"
  BY DEF Row, Paired

\* Cells from lo to hi replaced by lone ones: a row stays one if no glyph
\* reaches across either end (splitWide, fillCells, printASCII).
LEMMA ReplacedRow ==
  ASSUME NEW cols \in Nat \ {0}, NEW cells, Row(cells, cols),
         NEW lo \in 0..(cols - 1), NEW hi \in 0..(cols - 1), lo <= hi,
         cells[lo].half # "pad", cells[hi].half # "wide",
         NEW t, DOMAIN t = 0..(cols - 1),
         \A i \in 0..(cols - 1) : IsCell(t[i])
            /\ t[i].half = IF lo <= i /\ i <= hi THEN "none" ELSE cells[i].half
  PROVE  Row(t, cols)
  <1>1. /\ \A i \in 0..(cols - 1) :
              cells[i].half = "wide" => i + 1 < cols /\ cells[i + 1].half = "pad"
        /\ \A i \in 0..(cols - 1) :
              cells[i].half = "pad" => i > 0 /\ cells[i - 1].half = "wide"
    BY HalvesOfRow
  <1>2. ASSUME NEW i \in 0..(cols - 1), t[i].half = "wide"
        PROVE  i + 1 < cols /\ t[i + 1].half = "pad"
    <2>1. ~(lo <= i /\ i <= hi) /\ cells[i].half = "wide"
      BY <1>2
    <2>2. i + 1 \in 0..(cols - 1) /\ cells[i + 1].half = "pad"
      BY <1>1, <2>1
    <2>3. i + 1 # lo
      BY <2>2
    <2>4. ~(lo <= i + 1 /\ i + 1 <= hi)
      BY <2>1, <2>3
    <2> QED
      BY <2>2, <2>4
  <1>3. ASSUME NEW i \in 0..(cols - 1), t[i].half = "pad"
        PROVE  i > 0 /\ t[i - 1].half = "wide"
    <2>1. ~(lo <= i /\ i <= hi) /\ cells[i].half = "pad"
      BY <1>3
    <2>2. i - 1 \in 0..(cols - 1) /\ cells[i - 1].half = "wide"
      BY <1>1, <2>1
    <2>3. i - 1 # hi
      BY <2>2
    <2>4. ~(lo <= i - 1 /\ i - 1 <= hi)
      BY <2>1, <2>3
    <2> QED
      BY <2>2, <2>4
  <1> QED
    BY <1>2, <1>3, RowOfHalves

\* Splitting a glyph clears both of its cells and nothing else (splitWide).
LEMMA SplitWideRow ==
  ASSUME NEW cols \in Nat \ {0}, NEW cells, Row(cells, cols), NEW x \in 0..(cols - 1)
  PROVE  /\ Row(SplitWide(cells, x), cols)
         /\ SplitWide(cells, x)[x].half = "none"
         /\ \A i \in 0..(cols - 1) : SplitWide(cells, x)[i].half \in {cells[i].half, "none"}
  <1> DEFINE t == SplitWide(cells, x)
  <1>1. CASE cells[x].half = "none"
    BY <1>1 DEF SplitWide
  <1>2. CASE cells[x].half = "wide"
    <2>1. x + 1 < cols /\ cells[x + 1].half = "pad"
      BY <1>2 DEF Row, Paired
    <2>2. t = [i \in 0..(cols - 1) |-> IF i = x \/ i = x + 1 THEN ZeroCell ELSE cells[i]]
      BY <1>2, <2>1 DEF SplitWide, Row
    <2>3. \A i \in 0..(cols - 1) : t[i] = IF i = x \/ i = x + 1 THEN ZeroCell ELSE cells[i]
      BY <2>2
    <2> HIDE DEF t
    <2>4. \A i \in 0..(cols - 1) :
              IsCell(t[i]) /\ t[i].half = IF i = x \/ i = x + 1 THEN "none" ELSE cells[i].half
      BY <2>3, ZeroCellLone DEF Row, Lone
    <2>5. Row(t, cols)
      <3>1. x + 1 \in 0..(cols - 1) /\ x <= x + 1
        BY <2>1
      <3>2. \A i \in 0..(cols - 1) : IsCell(t[i])
               /\ t[i].half = IF x <= i /\ i <= x + 1 THEN "none" ELSE cells[i].half
        BY <2>4
      <3>3. DOMAIN t = 0..(cols - 1) /\ cells[x].half # "pad" /\ cells[x + 1].half # "wide"
        BY <1>2, <2>1, <2>2
      <3> QED
        BY <3>1, <3>2, <3>3, ReplacedRow
    <2> QED
      BY <2>4, <2>5 DEF t
  <1>3. CASE cells[x].half = "pad"
    <2>1. x > 0 /\ cells[x - 1].half = "wide"
      BY <1>3 DEF Row, Paired
    <2>2. t = [i \in 0..(cols - 1) |-> IF i = x \/ i = x - 1 THEN ZeroCell ELSE cells[i]]
      BY <1>3, <2>1 DEF SplitWide, Row
    <2>3. \A i \in 0..(cols - 1) : t[i] = IF i = x \/ i = x - 1 THEN ZeroCell ELSE cells[i]
      BY <2>2
    <2> HIDE DEF t
    <2>4. \A i \in 0..(cols - 1) :
              IsCell(t[i]) /\ t[i].half = IF i = x \/ i = x - 1 THEN "none" ELSE cells[i].half
      BY <2>3, ZeroCellLone DEF Row, Lone
    <2>5. Row(t, cols)
      <3>1. x - 1 \in 0..(cols - 1) /\ x - 1 <= x
        BY <2>1
      <3>2. \A i \in 0..(cols - 1) : IsCell(t[i])
               /\ t[i].half = IF x - 1 <= i /\ i <= x THEN "none" ELSE cells[i].half
        BY <2>4
      <3>3. DOMAIN t = 0..(cols - 1) /\ cells[x - 1].half # "pad" /\ cells[x].half # "wide"
        BY <1>3, <2>1, <2>2
      <3> QED
        BY <3>1, <3>2, <3>3, ReplacedRow
    <2> QED
      BY <2>4, <2>5 DEF t
  <1> QED
    BY <1>1, <1>2, <1>3 DEF Row, IsCell

\* The same where the code looks first at which half it has before it.
LEMMA SplitHalfRow ==
  ASSUME NEW cols \in Nat \ {0}, NEW cells, Row(cells, cols), NEW x \in 0..(cols - 1),
         NEW half \in {"wide", "pad"}
  PROVE  /\ Row(SplitHalf(cells, x, half), cols)
         /\ SplitHalf(cells, x, half)[x].half # half
         /\ \A i \in 0..(cols - 1) :
                SplitHalf(cells, x, half)[i].half \in {cells[i].half, "none"}
  BY SplitWideRow DEF SplitHalf

\* Erasing a range of columns first splits the glyphs its two ends cut
\* (eraseCells, fillCells).
LEMMA FillRow ==
  ASSUME NEW cols \in Nat \ {0}, NEW cells, Row(cells, cols),
         NEW first \in Nat, NEW last \in Nat, first < last, last <= cols,
         NEW blank, Lone(blank)
  PROVE  Row(FillCells(cells, cols, first, last, blank), cols)
  <1> DEFINE left == SplitHalf(cells, first, "pad")
             split == SplitHalf(left, last - 1, "wide")
             t == FillCells(cells, cols, first, last, blank)
  <1>0. first \in 0..(cols - 1) /\ last - 1 \in 0..(cols - 1)
    OBVIOUS
  <1>1. Row(left, cols) /\ left[first].half # "pad"
    BY <1>0, SplitHalfRow
  <1>3. t = [i \in 0..(cols - 1) |-> IF i \in first..(last - 1) THEN blank ELSE split[i]]
    BY DEF FillCells
  <1> HIDE DEF left
  <1>2. Row(split, cols) /\ split[last - 1].half # "wide" /\ split[first].half # "pad"
    BY <1>0, <1>1, SplitHalfRow
  <1> HIDE DEF split, t
  <1>4. \A i \in 0..(cols - 1) : t[i] = IF i \in first..(last - 1) THEN blank ELSE split[i]
    BY <1>3
  <1>5. \A i \in 0..(cols - 1) : IsCell(t[i])
            /\ t[i].half = IF first <= i /\ i <= last - 1 THEN "none" ELSE split[i].half
    BY <1>2, <1>4 DEF Row, Lone
  <1>6. Row(t, cols)
    <2>1. first <= last - 1 /\ DOMAIN t = 0..(cols - 1)
      BY <1>3
    <2> DEFINE hi == last - 1
    <2>2. hi \in 0..(cols - 1) /\ split[hi].half # "wide" /\ first <= hi
      BY <1>0, <1>2, <2>1
    <2>3. \A i \in 0..(cols - 1) : IsCell(t[i])
              /\ t[i].half = IF first <= i /\ i <= hi THEN "none" ELSE split[i].half
      BY <1>5
    <2> HIDE DEF hi
    <2> QED
      BY <1>0, <1>2, <2>1, <2>2, <2>3, ReplacedRow
  <1> QED
    BY <1>6 DEF t

\* Blanks inserted at a column: the glyph they cut in two and the one pushed over
\* the edge are cleared (insertCells).
LEMMA InsertRow ==
  ASSUME NEW cols \in Nat \ {0}, NEW cells, Row(cells, cols), NEW x \in 0..(cols - 1),
         NEW count \in Nat, NEW blank, Lone(blank)
  PROVE  Row(InsertCells(cells, cols, x, count, blank), cols)
  <1> DEFINE n == Smaller(count, cols - x)
             split == SplitHalf(cells, x, "pad")
             moved == [i \in 0..(cols - 1) |->
                         IF i < x THEN split[i]
                         ELSE IF i < x + n THEN blank ELSE split[i - n]]
             t == InsertCells(cells, cols, x, count, blank)
  <1>1. Row(split, cols) /\ split[x].half # "pad"
    BY SplitHalfRow
  <1>2. n \in Nat /\ x + n <= cols
    BY DEF Smaller
  <1>3. CASE n = 0
    BY <1>3 DEF InsertCells
  <1>4. CASE n > 0
    <2>1. t = [i \in 0..(cols - 1) |->
                 IF i = cols - 1 /\ moved[i].half = "wide" THEN ZeroCell ELSE moved[i]]
      BY <1>2, <1>4 DEF InsertCells
    <2> HIDE DEF split, t
    <2>2. \A i \in 0..(cols - 1) : moved[i] = IF i < x THEN split[i]
                                              ELSE IF i < x + n THEN blank ELSE split[i - n]
      OBVIOUS
    <2> HIDE DEF moved, n
    <2>3. \A i \in 0..(cols - 1) : IsCell(moved[i])
             /\ moved[i].half = IF i < x THEN split[i].half
                                ELSE IF i < x + n THEN "none" ELSE split[i - n].half
      BY <1>1, <1>2, <2>2 DEF Row, Lone
    <2>4. \A i \in 0..(cols - 1) : IsCell(t[i])
             /\ t[i].half = IF i = cols - 1 /\ moved[i].half = "wide" THEN "none"
                            ELSE moved[i].half
      BY <2>1, <2>3, ZeroCellLone DEF Lone
    <2>h. /\ \A i \in 0..(cols - 1) :
                split[i].half = "wide" => i + 1 < cols /\ split[i + 1].half = "pad"
          /\ \A i \in 0..(cols - 1) :
                split[i].half = "pad" => i > 0 /\ split[i - 1].half = "wide"
      BY <1>1, HalvesOfRow
    <2>5. ASSUME NEW i \in 0..(cols - 1), t[i].half = "wide"
          PROVE  i + 1 < cols /\ t[i + 1].half = "pad"
      <3>1. i + 1 \in 0..(cols - 1) /\ moved[i].half = "wide"
        BY <2>4, <2>5
      <3>2. CASE i < x
        <4>1. split[i].half = "wide" /\ split[i + 1].half = "pad"
          BY <2>3, <2>h, <3>1, <3>2
        <4>2. i + 1 < x
          BY <1>1, <3>2, <4>1
        <4>3. moved[i + 1].half = "pad"
          BY <2>3, <3>1, <4>1, <4>2
        <4> QED
          BY <2>4, <3>1, <4>3
      <3>3. CASE ~(i < x)
        <4>1. ~(i < x + n) /\ split[i - n].half = "wide" /\ i - n \in 0..(cols - 1)
          BY <1>2, <2>3, <3>1, <3>3
        <4>2. (i + 1) - n = (i - n) + 1 /\ split[(i - n) + 1].half = "pad"
          BY <1>2, <2>h, <4>1
        <4>3. moved[i + 1].half = "pad"
          BY <1>2, <2>3, <3>1, <4>1, <4>2
        <4> QED
          BY <2>4, <3>1, <4>3
      <3> QED
        BY <3>2, <3>3
    <2>6. ASSUME NEW i \in 0..(cols - 1), t[i].half = "pad"
          PROVE  i > 0 /\ t[i - 1].half = "wide"
      <3>1. moved[i].half = "pad"
        BY <2>4, <2>6
      <3>2. i - 1 \in 0..(cols - 1) /\ moved[i - 1].half = "wide"
        <4>1. CASE i < x
          <5>1. split[i].half = "pad"
            BY <2>3, <3>1, <4>1
          <5>2. i - 1 \in 0..(cols - 1) /\ i - 1 < x /\ split[i - 1].half = "wide"
            BY <2>h, <4>1, <5>1
          <5> QED
            BY <2>3, <5>2
        <4>2. CASE ~(i < x)
          <5>1. ~(i < x + n) /\ split[i - n].half = "pad" /\ i - n \in 0..(cols - 1)
            BY <1>2, <2>3, <3>1, <4>2
          <5>2. i - n # x
            BY <1>1, <5>1
          <5>3. i - 1 \in 0..(cols - 1) /\ ~(i - 1 < x) /\ ~(i - 1 < x + n)
            BY <1>2, <5>1, <5>2
          <5>4. (i - 1) - n = (i - n) - 1 /\ split[(i - n) - 1].half = "wide"
            BY <1>2, <2>h, <5>1
          <5> QED
            BY <2>3, <5>3, <5>4
        <4> QED
          BY <4>1, <4>2
      <3>3. i - 1 # cols - 1
        OBVIOUS
      <3> QED
        BY <2>4, <3>2, <3>3
    <2>7. Row(t, cols)
      BY <2>1, <2>4, <2>5, <2>6, RowOfHalves
    <2> QED
      BY <2>7 DEF t
  <1> QED
    BY <1>2, <1>3, <1>4

\* Cells deleted at a column: the glyphs cut at either end are cleared
\* (deleteCells).
LEMMA DeleteRow ==
  ASSUME NEW cols \in Nat \ {0}, NEW cells, Row(cells, cols), NEW x \in 0..(cols - 1),
         NEW count \in Nat, NEW blank, Lone(blank)
  PROVE  Row(DeleteCells(cells, cols, x, count, blank), cols)
  <1> DEFINE n == Smaller(count, cols - x)
             left == SplitHalf(cells, x, "pad")
             split == IF x + n < cols THEN SplitHalf(left, x + n, "pad") ELSE left
             t == DeleteCells(cells, cols, x, count, blank)
  <1>1. Row(left, cols) /\ left[x].half # "pad"
    BY SplitHalfRow
  <1>2. n \in Nat /\ x + n <= cols
    BY DEF Smaller
  <1>3. CASE n = 0
    BY <1>3 DEF DeleteCells
  <1>4. CASE n > 0
    <2>1. t = [i \in 0..(cols - 1) |->
                 IF i < x THEN split[i] ELSE IF i + n < cols THEN split[i + n] ELSE blank]
      BY <1>2, <1>4 DEF DeleteCells
    <2> HIDE DEF left, n
    <2>2. Row(split, cols) /\ split[x].half # "pad" /\ (x + n < cols => split[x + n].half # "pad")
      <3>1. CASE x + n < cols
        <4>1. x + n \in 0..(cols - 1)
          BY <1>2, <3>1
        <4> QED
          BY <1>1, <3>1, <4>1, SplitHalfRow
      <3>2. CASE ~(x + n < cols)
        BY <1>1, <3>2
      <3> QED
        BY <3>1, <3>2
    <2> HIDE DEF split, t
    <2>4. \A i \in 0..(cols - 1) : IsCell(t[i])
             /\ t[i].half = IF i < x THEN split[i].half
                            ELSE IF i + n < cols THEN split[i + n].half ELSE "none"
      BY <1>2, <2>1, <2>2 DEF Row, Lone
    <2>h. /\ \A i \in 0..(cols - 1) :
                split[i].half = "wide" => i + 1 < cols /\ split[i + 1].half = "pad"
          /\ \A i \in 0..(cols - 1) :
                split[i].half = "pad" => i > 0 /\ split[i - 1].half = "wide"
      BY <2>2, HalvesOfRow
    <2>5. ASSUME NEW i \in 0..(cols - 1), t[i].half = "wide"
          PROVE  i + 1 < cols /\ t[i + 1].half = "pad"
      <3>1. CASE i < x
        <4>1. i + 1 \in 0..(cols - 1) /\ split[i + 1].half = "pad"
          BY <2>4, <2>5, <2>h, <3>1
        <4>2. i + 1 < x
          BY <2>2, <3>1, <4>1
        <4> QED
          BY <2>4, <4>1, <4>2
      <3>2. CASE ~(i < x)
        <4>1. i + n < cols /\ split[i + n].half = "wide" /\ i + n \in 0..(cols - 1)
          BY <1>2, <2>4, <2>5, <3>2
        <4>2. (i + n) + 1 < cols /\ split[(i + n) + 1].half = "pad"
          BY <2>h, <4>1
        <4>3. i + 1 \in 0..(cols - 1) /\ ~(i + 1 < x) /\ (i + 1) + n = (i + n) + 1
          BY <1>2, <3>2, <4>2
        <4> QED
          BY <2>4, <4>2, <4>3
      <3> QED
        BY <3>1, <3>2
    <2>6. ASSUME NEW i \in 0..(cols - 1), t[i].half = "pad"
          PROVE  i > 0 /\ t[i - 1].half = "wide"
      <3>1. CASE i < x
        <4>1. i - 1 \in 0..(cols - 1) /\ i - 1 < x /\ split[i - 1].half = "wide"
          BY <2>4, <2>6, <2>h, <3>1
        <4> QED
          BY <2>4, <4>1
      <3>2. CASE ~(i < x)
        <4>1. i + n < cols /\ split[i + n].half = "pad" /\ i + n \in 0..(cols - 1)
          BY <1>2, <2>4, <2>6, <3>2
        <4>2. i > x
          BY <2>2, <3>2, <4>1
        <4>3. i - 1 + n = i + n - 1 /\ split[i + n - 1].half = "wide"
          BY <1>2, <2>h, <4>1
        <4> QED
          BY <1>2, <2>4, <4>1, <4>2, <4>3
      <3> QED
        BY <3>1, <3>2
    <2>7. Row(t, cols)
      BY <2>1, <2>4, <2>5, <2>6, RowOfHalves
    <2> QED
      BY <2>7 DEF t
  <1> QED
    BY <1>2, <1>3, <1>4

\* A glyph of width one or two replaces what it overlaps, whole glyphs at a time
\* (printGlyph).
LEMMA PutRow ==
  ASSUME NEW cols \in Nat \ {0}, NEW cells, Row(cells, cols), NEW x \in 0..(cols - 1),
         NEW r, NEW w \in {1, 2}, x + w <= cols, NEW pen
  PROVE  Row(PutCells(cells, x, r, w, pen), cols)
  <1> DEFINE here == SplitWide(cells, x)
             next == IF w = 2 THEN SplitWide(here, x + 1) ELSE here
             t == PutCells(cells, x, r, w, pen)
  <1>1. Row(here, cols) /\ here[x].half = "none"
    BY SplitWideRow
  <1>2. t = [i \in 0..(cols - 1) |->
               IF i = x THEN Cell(r, IF w = 2 THEN "wide" ELSE "none", pen)
               ELSE IF w = 2 /\ i = x + 1 THEN Cell("", "pad", pen) ELSE next[i]]
    BY DEF PutCells, Row
  <1> HIDE DEF here
  <1>3. /\ Row(next, cols) /\ next[x].half = "none"
        /\ w = 2 => next[x + 1].half = "none"
    <2>1. CASE w = 2
      <3>1. x + 1 \in 0..(cols - 1)
        BY <2>1
      <3> QED
        BY <1>1, <2>1, <3>1, SplitWideRow
    <2>2. CASE w # 2
      BY <1>1, <2>2
    <2> QED
      BY <2>1, <2>2
  <1> HIDE DEF next, t
  <1>4. \A i \in 0..(cols - 1) : IsCell(t[i])
           /\ t[i].half = IF i = x THEN IF w = 2 THEN "wide" ELSE "none"
                          ELSE IF w = 2 /\ i = x + 1 THEN "pad" ELSE next[i].half
    BY <1>2, <1>3 DEF Row, IsCell, Cell, CellFields
  <1>h. /\ \A i \in 0..(cols - 1) :
              next[i].half = "wide" => i + 1 < cols /\ next[i + 1].half = "pad"
        /\ \A i \in 0..(cols - 1) :
              next[i].half = "pad" => i > 0 /\ next[i - 1].half = "wide"
    BY <1>3, HalvesOfRow
  <1>5. ASSUME NEW i \in 0..(cols - 1), t[i].half = "wide"
        PROVE  i + 1 < cols /\ t[i + 1].half = "pad"
    <2>1. CASE i = x
      <3>1. w = 2 /\ x + 1 \in 0..(cols - 1)
        BY <1>4, <1>5, <2>1
      <3> QED
        BY <1>4, <2>1, <3>1
    <2>2. CASE i # x
      <3>1. next[i].half = "wide" /\ ~(w = 2 /\ i = x + 1)
        BY <1>4, <1>5, <2>2
      <3>2. i + 1 \in 0..(cols - 1) /\ next[i + 1].half = "pad"
        BY <1>h, <3>1
      <3>3. i + 1 # x /\ ~(w = 2 /\ i + 1 = x + 1)
        BY <1>3, <2>2, <3>2
      <3> QED
        BY <1>4, <3>2, <3>3
    <2> QED
      BY <2>1, <2>2
  <1>6. ASSUME NEW i \in 0..(cols - 1), t[i].half = "pad"
        PROVE  i > 0 /\ t[i - 1].half = "wide"
    <2>1. CASE w = 2 /\ i = x + 1
      <3>1. i - 1 = x
        BY <2>1
      <3> QED
        BY <1>4, <2>1, <3>1
    <2>2. CASE ~(w = 2 /\ i = x + 1)
      <3>1. i # x /\ next[i].half = "pad"
        BY <1>4, <1>6, <2>2
      <3>2. i - 1 \in 0..(cols - 1) /\ next[i - 1].half = "wide"
        BY <1>h, <3>1
      <3>3. i - 1 # x /\ ~(w = 2 /\ i - 1 = x + 1)
        BY <1>3, <3>2
      <3> QED
        BY <1>4, <3>2, <3>3
    <2> QED
      BY <2>1, <2>2
  <1>7. Row(t, cols)
    BY <1>2, <1>4, <1>5, <1>6, RowOfHalves
  <1> QED
    BY <1>7 DEF t

\* A run of narrow glyphs can cut a glyph only at its two ends, the two that the
\* bulk path splits (printASCII).
LEMMA PutRunRow ==
  ASSUME NEW cols \in Nat \ {0}, NEW cells, Row(cells, cols), NEW x \in 0..(cols - 1),
         NEW run, Len(run) \in Nat \ {0}, x + Len(run) <= cols, NEW pen
  PROVE  Row(PutRun(cells, x, run, pen), cols)
  <1> DEFINE n == Len(run)
             here == SplitHalf(cells, x, "pad")
             ends == SplitHalf(here, x + n - 1, "wide")
             t == PutRun(cells, x, run, pen)
  <1>0. n \in Nat \ {0} /\ x + n <= cols /\ x + n - 1 \in 0..(cols - 1)
    OBVIOUS
  <1>1. Row(here, cols) /\ here[x].half # "pad"
    BY SplitHalfRow
  <1>2. t = [i \in 0..(cols - 1) |->
               IF i \in x..(x + n - 1) THEN Cell(run[i - x + 1], "none", pen) ELSE ends[i]]
    BY DEF PutRun, Row
  <1> HIDE DEF here
  <1>3. Row(ends, cols) /\ ends[x].half # "pad" /\ ends[x + n - 1].half # "wide"
    BY <1>0, <1>1, SplitHalfRow
  <1> HIDE DEF ends, t, n
  <1>4. \A i \in 0..(cols - 1) : IsCell(t[i])
           /\ t[i].half = IF x <= i /\ i <= x + n - 1 THEN "none" ELSE ends[i].half
    BY <1>2, <1>3 DEF Row, IsCell, Cell, CellFields
  <1>5. x <= x + n - 1 /\ DOMAIN t = 0..(cols - 1)
    BY <1>0, <1>2
  <1>7. Row(t, cols)
    <2> DEFINE hi == x + n - 1
    <2>1. hi \in 0..(cols - 1) /\ ends[hi].half # "wide" /\ x <= hi
      BY <1>0, <1>3, <1>5
    <2>2. \A i \in 0..(cols - 1) : IsCell(t[i])
             /\ t[i].half = IF x <= i /\ i <= hi THEN "none" ELSE ends[i].half
      BY <1>4
    <2> HIDE DEF hi
    <2>3. x \in 0..(cols - 1)
      OBVIOUS
    <2> QED
      BY SMTT(60), <1>3, <1>5, <2>1, <2>2, <2>3, ReplacedRow
  <1> QED
    BY <1>7 DEF t

\* A row cut to fewer columns loses the glyph the edge cuts; a longer one gets
\* blanks (fitCells).
LEMMA FitRow ==
  ASSUME NEW old \in Nat \ {0}, NEW cols \in Nat \ {0}, NEW cells, Row(cells, old)
  PROVE  Row(FitCells(cells, old, cols), cols)
  <1> DEFINE t == FitCells(cells, old, cols)
  <1>1. t = [x \in 0..(cols - 1) |->
               IF x >= old THEN ZeroCell
               ELSE IF old > cols /\ x = cols - 1 /\ cells[x].half = "wide" THEN ZeroCell
               ELSE cells[x]]
    BY DEF FitCells
  <1> HIDE DEF t
  <1>2. \A i \in 0..(cols - 1) : IsCell(t[i])
           /\ t[i].half = IF i >= old THEN "none"
                          ELSE IF old > cols /\ i = cols - 1 /\ cells[i].half = "wide" THEN "none"
                          ELSE cells[i].half
    BY <1>1, ZeroCellLone DEF Row, Lone
  <1>h. /\ \A i \in 0..(old - 1) :
              cells[i].half = "wide" => i + 1 < old /\ cells[i + 1].half = "pad"
        /\ \A i \in 0..(old - 1) :
              cells[i].half = "pad" => i > 0 /\ cells[i - 1].half = "wide"
    BY HalvesOfRow
  <1>3. ASSUME NEW i \in 0..(cols - 1), t[i].half = "wide"
        PROVE  i + 1 < cols /\ t[i + 1].half = "pad"
    <2>1. i \in 0..(old - 1) /\ cells[i].half = "wide" /\ ~(old > cols /\ i = cols - 1)
      BY <1>2, <1>3
    <2>2. i + 1 \in 0..(old - 1) /\ cells[i + 1].half = "pad"
      BY <1>h, <2>1
    <2>3. i + 1 \in 0..(cols - 1)
      BY <2>1, <2>2
    <2> QED
      BY <1>2, <2>2, <2>3
  <1>4. ASSUME NEW i \in 0..(cols - 1), t[i].half = "pad"
        PROVE  i > 0 /\ t[i - 1].half = "wide"
    <2>1. i \in 0..(old - 1) /\ cells[i].half = "pad"
      BY <1>2, <1>4
    <2>2. i - 1 \in 0..(old - 1) /\ i - 1 \in 0..(cols - 1) /\ cells[i - 1].half = "wide"
      BY <1>h, <2>1
    <2> QED
      BY <1>2, <2>2
  <1>5. Row(t, cols)
    BY <1>1, <1>2, <1>3, <1>4, RowOfHalves
  <1> QED
    BY <1>5 DEF t

\* Cells that are no halves at all are a row (a blank line, DECALN).
LEMMA LoneRow ==
  ASSUME NEW cols \in Nat \ {0}, NEW t, DOMAIN t = 0..(cols - 1),
         \A i \in 0..(cols - 1) : Lone(t[i])
  PROVE  Row(t, cols)
  BY DEF Row, Paired, Lone

\* A cell that keeps its kind may change its glyph and its marks (combine,
\* joinPrev).
LEMMA TouchRow ==
  ASSUME NEW cols \in Nat \ {0}, NEW cells, Row(cells, cols), NEW x \in 0..(cols - 1),
         NEW c, IsCell(c), c.half = cells[x].half
  PROVE  Row([cells EXCEPT ![x] = c], cols)
  <1> DEFINE t == [cells EXCEPT ![x] = c]
  <1>1. /\ DOMAIN t = 0..(cols - 1)
        /\ \A i \in 0..(cols - 1) : IsCell(t[i]) /\ t[i].half = cells[i].half
    BY DEF Row
  <1> HIDE DEF t
  <1>2. Row(t, cols)
    BY <1>1 DEF Row, Paired
  <1> QED
    BY <1>2 DEF t
----------------------------------------------------------------------------
\* The invariant

\* The fields of a screen, of its modes and of a saved cursor: an update of one
\* must reach one that is there.
ScreenFields ==
    {"cols", "rows", "limit", "lines", "active", "hist", "hscrolled", "title", "cx", "cy",
     "pendingWrap", "pen", "g", "gl", "saved", "top", "bottom", "tabs", "modes",
     "cursorStyle", "last"}
ModeFields == DOMAIN DefaultModes
SaveFields == DOMAIN NoSave

LineOK(line, cols) == DOMAIN line = {"cells", "used"} /\ Row(line.cells, cols)

\* Sizes, which buffer is shown, and the history limit.
Geometry(s) ==
    /\ DOMAIN s = ScreenFields
    /\ s.cols \in 1..MaxDim
    /\ s.rows \in 1..MaxDim
    /\ s.limit \in Nat
    /\ s.active \in Buffers
    /\ DOMAIN s.modes = ModeFields
\* A pending wrap waits in the last column, and only with autowrap on.
Cursor(s) ==
    /\ s.cx \in 0..(s.cols - 1)
    /\ s.cy \in 0..(s.rows - 1)
    /\ s.pendingWrap => s.cx = s.cols - 1 /\ s.modes.autowrap
Margins(s) == s.top \in Nat /\ s.bottom \in Nat /\ s.top <= s.bottom /\ s.bottom < s.rows
Stops(s) == s.tabs \subseteq 0..(s.cols - 1)

\* A saved cursor may be anywhere: a restore clamps it.
Saves(s) ==
    /\ DOMAIN s.saved = Buffers
    /\ \A b \in Buffers :
          DOMAIN s.saved[b] = SaveFields /\ s.saved[b].x \in Int /\ s.saved[b].y \in Int

\* Both buffers have the screen's size, the hidden one too.
Sheets(s) ==
    /\ DOMAIN s.lines = Buffers
    /\ \A b \in Buffers :
          /\ DOMAIN s.lines[b] = 0..(s.rows - 1)
          /\ \A y \in 0..(s.rows - 1) : LineOK(s.lines[b][y], s.cols)

\* The newest n lines of a history arrived by scrolling.
Scrolled(h, n) == \A i \in 1..Len(h) : i > Len(h) - n => h[i].how = "scroll"
IsHistory(h) == \E S : h \in Seq(S)
History(s) ==
    /\ IsHistory(s.hist)
    /\ Len(s.hist) <= s.limit
    /\ s.hscrolled \in Nat
    /\ Scrolled(s.hist, s.hscrolled)

Good(s) ==
    Geometry(s) /\ Cursor(s) /\ Margins(s) /\ Stops(s) /\ Saves(s) /\ Sheets(s) /\ History(s)

\* The bounded history keeps the newest lines, at most its limit of them; if the
\* newest k had scrolled in and n more do, the newest k + n have (history.push).
LEMMA PushHistory ==
  ASSUME NEW h, IsHistory(h), NEW limit \in Nat, NEW n \in Nat, NEW texts, DOMAIN texts = 1..n,
         NEW how
  PROVE  /\ IsHistory(Push(h, limit, texts, how))
         /\ Len(Push(h, limit, texts, how)) <= limit
         /\ \A k \in Nat : Scrolled(h, k) /\ how = "scroll"
                              => Scrolled(Push(h, limit, texts, how), k + n)
         /\ Scrolled(Push(h, limit, texts, how), 0)
  <1> DEFINE more == [i \in 1..n |-> [text |-> texts[i], how |-> how]]
             all == h \o more
             over == Larger(Len(all) - limit, 0)
             p == SubSeq(all, over + 1, Len(all))
  <1>1. PICK S : h \in Seq(S)
    BY DEF IsHistory
  <1> DEFINE T == S \cup {more[i] : i \in 1..n}
  <1>2. h \in Seq(T) /\ more \in Seq(T) /\ Len(more) = n
    BY <1>1
  <1>3. Push(h, limit, texts, how) = p
    BY DEF Push
  <1>4. /\ all \in Seq(T)
        /\ Len(all) = Len(h) + n
        /\ \A i \in 1..Len(all) : all[i] = IF i <= Len(h) THEN h[i] ELSE more[i - Len(h)]
    BY <1>2
  <1>5. \A i \in 1..n : more[i].how = how
    OBVIOUS
  <1>6. Len(h) \in Nat
    BY <1>1
  <1> HIDE DEF more, all, T
  <1>7. over \in Nat /\ over <= Len(all) /\ Len(all) - over <= limit
    BY <1>4, <1>6 DEF Larger
  <1> HIDE DEF over
  <1>8. /\ p \in Seq(T)
        /\ Len(p) = Len(all) - over
        /\ \A i \in 1..Len(p) : p[i] = all[over + i]
    BY <1>4, <1>6, <1>7
  <1> HIDE DEF p
  <1>9. ASSUME NEW k \in Nat, Scrolled(h, k), how = "scroll"
        PROVE  Scrolled(p, k + n)
    <2> SUFFICES ASSUME NEW i \in 1..Len(p), i > Len(p) - (k + n)
                 PROVE  p[i].how = "scroll"
      BY DEF Scrolled
    <2>1. over + i \in 1..Len(all) /\ over + i > Len(h) - k
      BY <1>4, <1>6, <1>7, <1>8
    <2>2. CASE over + i <= Len(h)
      BY <1>4, <1>6, <1>7, <1>8, <1>9, <2>1, <2>2 DEF Scrolled
    <2>3. CASE over + i > Len(h)
      <3>1. (over + i) - Len(h) \in 1..n
        BY <1>4, <1>6, <1>7, <2>1, <2>3
      <3> QED
        <4>1. p[i] = all[over + i]
          BY <1>8
        <4>2. all[over + i] = more[(over + i) - Len(h)]
          <5>1. ~(over + i <= Len(h))
            BY <1>6, <2>1, <2>3
          <5> QED
            BY <1>4, <2>1, <5>1
        <4>3. more[(over + i) - Len(h)].how = how
          BY <1>5, <3>1
        <4> QED
          BY <1>9, <4>1, <4>2, <4>3
    <2> QED
      BY <1>6, <1>7, <2>2, <2>3
  <1>10. Scrolled(p, 0)
    BY <1>4, <1>6, <1>7, <1>8 DEF Scrolled
  <1> QED
    BY <1>3, <1>7, <1>8, <1>9, <1>10 DEF IsHistory
----------------------------------------------------------------------------
\* Rows and buffers

\* Two screens that differ at most in what their buffers hold and what the
\* history has.
Kept(s, t) ==
    /\ t.cols = s.cols /\ t.rows = s.rows /\ t.limit = s.limit /\ t.active = s.active
    /\ t.cx = s.cx /\ t.cy = s.cy /\ t.pendingWrap = s.pendingWrap /\ t.modes = s.modes
    /\ t.top = s.top /\ t.bottom = s.bottom

\* What an erase leaves behind is a row of lone cells (blank).
LEMMA BlankIsALine ==
  ASSUME NEW s, Good(s)
  PROVE  Lone(Blank(s)) /\ LineOK(BlankLine(s), s.cols)
  <1>1. Lone(Blank(s))
    BY DEF Lone, IsCell, CellFields, Blank, Cell
  <1>2. s.cols \in Nat \ {0}
    BY ScreenAssumption DEF Good, Geometry
  <1>3. Row([x \in 0..(s.cols - 1) |-> Blank(s)], s.cols)
    BY <1>1, <1>2, LoneRow
  <1> QED
    BY <1>1, <1>3 DEF LineOK, BlankLine

\* The rows of the active buffer, and the one under the cursor, are rows of the
\* screen's width (Screen.buf).
LEMMA LineOfGood ==
  ASSUME NEW s, Good(s), NEW y \in 0..(s.rows - 1)
  PROVE  LineOK(Lines(s)[y], s.cols) /\ Row(Lines(s)[y].cells, s.cols)
  BY DEF Good, Geometry, Sheets, Lines, LineOK

\* The cursor is on the screen and stands on one of its rows (Screen.cx, Screen.cy).
LEMMA CursorRow ==
  ASSUME NEW s, Good(s)
  PROVE  /\ s.cols \in Nat \ {0} /\ s.rows \in Nat \ {0}
         /\ s.cx \in 0..(s.cols - 1) /\ s.cy \in 0..(s.rows - 1)
         /\ Row(RowCells(s), s.cols)
  BY LineOfGood, ScreenAssumption DEF Good, Geometry, Cursor, RowCells

\* New rows for the active buffer are all that changes when a screen is edited.
LEMMA WithLinesGood ==
  ASSUME NEW s, Good(s), NEW ls, DOMAIN ls = 0..(s.rows - 1),
         \A y \in 0..(s.rows - 1) : LineOK(ls[y], s.cols)
  PROVE  Good(WithLines(s, ls)) /\ Kept(s, WithLines(s, ls))
  <1> DEFINE t == WithLines(s, ls)
  <1>1. /\ DOMAIN t = ScreenFields
        /\ \A f \in ScreenFields : f # "lines" => t[f] = s[f]
        /\ t.lines = [s.lines EXCEPT ![s.active] = ls]
    BY DEF Good, Geometry, WithLines, ScreenFields
  <1> HIDE DEF t
  <1>2. Kept(s, t)
    BY <1>1 DEF Kept, ScreenFields
  <1>3. /\ t.tabs = s.tabs /\ t.saved = s.saved
        /\ t.hist = s.hist /\ t.hscrolled = s.hscrolled
    BY <1>1 DEF ScreenFields
  <1>4. Geometry(t) /\ Cursor(t) /\ Margins(t) /\ Stops(t) /\ Saves(t) /\ History(t)
    BY <1>1, <1>2, <1>3 DEF Good, Geometry, Cursor, Margins, Stops, Saves, History, Kept
  <1>5. Sheets(t)
    BY <1>1, <1>2 DEF Good, Geometry, Sheets, Kept
  <1> QED
    BY <1>2, <1>4, <1>5 DEF Good, t

\* One new row under the same conditions.
LEMMA WithLineGood ==
  ASSUME NEW s, Good(s), NEW y, NEW cells, Row(cells, s.cols), NEW used
  PROVE  Good(WithLine(s, y, cells, used)) /\ Kept(s, WithLine(s, y, cells, used))
  <1> DEFINE ls == [z \in 0..(s.rows - 1) |->
                      IF z = y THEN [cells |-> cells, used |-> used] ELSE Lines(s)[z]]
  <1>1. \A z \in 0..(s.rows - 1) : LineOK(ls[z], s.cols)
    BY LineOfGood DEF LineOK
  <1>2. DOMAIN ls = 0..(s.rows - 1)
    OBVIOUS
  <1>3. WithLine(s, y, cells, used) = WithLines(s, ls)
    BY DEF WithLine
  <1> HIDE DEF ls
  <1> QED
    BY <1>1, <1>2, <1>3, WithLinesGood

\* Erasing part of a row, whatever the columns asked for (eraseCells).
LEMMA EraseCellsGood ==
  ASSUME NEW s, Good(s), NEW y \in 0..(s.rows - 1), NEW from \in Int, NEW to \in Int
  PROVE  Good(EraseCells(s, y, from, to)) /\ Kept(s, EraseCells(s, y, from, to))
  <1> DEFINE first == Larger(from, 0)
             last == Smaller(to, s.cols)
             cells == FillCells(Lines(s)[y].cells, s.cols, first, last, Blank(s))
             used == Lines(s)[y].used /\ ~(first = 0 /\ last = s.cols)
  <1>1. s.cols \in Nat \ {0}
    BY CursorRow
  <1>2. CASE first >= last
    BY <1>2 DEF EraseCells, Kept
  <1>3. CASE ~(first >= last)
    <2>1. first \in Nat /\ last \in Nat /\ first < last /\ last <= s.cols
      BY <1>1, <1>3 DEF Larger, Smaller
    <2>2. EraseCells(s, y, from, to) = WithLine(s, y, cells, used)
      BY <1>3 DEF EraseCells
    <2> HIDE DEF first, last
    <2>3. Row(cells, s.cols)
      BY <1>1, <2>1, LineOfGood, FillRow, BlankIsALine
    <2> HIDE DEF cells, used
    <2> QED
      BY <2>2, <2>3, WithLineGood
  <1> QED
    BY <1>2, <1>3

\* Erasing whole rows (eraseLine).
LEMMA EraseRowsGood ==
  ASSUME NEW s, Good(s), NEW first, NEW last
  PROVE  Good(EraseRows(s, first, last)) /\ Kept(s, EraseRows(s, first, last))
  <1> DEFINE ls == [y \in 0..(s.rows - 1) |->
                      IF y \in first..last THEN BlankLine(s) ELSE Lines(s)[y]]
  <1>1. \A z \in 0..(s.rows - 1) : LineOK(ls[z], s.cols)
    BY LineOfGood, BlankIsALine
  <1>2. DOMAIN ls = 0..(s.rows - 1)
    OBVIOUS
  <1>3. EraseRows(s, first, last) = WithLines(s, ls)
    BY DEF EraseRows
  <1> HIDE DEF ls
  <1> QED
    BY <1>1, <1>2, <1>3, WithLinesGood

----------------------------------------------------------------------------
\* The history

\* A new history and a new count of scrolled lines that fit together.
LEMMA WithHistoryGood ==
  ASSUME NEW s, Good(s), NEW h, IsHistory(h), Len(h) <= s.limit,
         NEW k \in Nat, Scrolled(h, k), NEW t,
         t = [s EXCEPT !.hist = h, !.hscrolled = k]
  PROVE  Good(t) /\ Kept(s, t) /\ t.lines = s.lines
  <1>1. /\ DOMAIN t = ScreenFields
        /\ \A f \in ScreenFields : f \notin {"hist", "hscrolled"} => t[f] = s[f]
        /\ t.hist = h /\ t.hscrolled = k
    BY DEF Good, Geometry, ScreenFields
  <1>2. Kept(s, t)
    BY <1>1 DEF Kept, ScreenFields
  <1>3. t.tabs = s.tabs /\ t.saved = s.saved /\ t.lines = s.lines
    BY <1>1 DEF ScreenFields
  <1>4. Geometry(t) /\ Cursor(t) /\ Margins(t) /\ Stops(t) /\ Saves(t) /\ Sheets(t)
    BY <1>1, <1>2, <1>3 DEF Good, Geometry, Cursor, Margins, Stops, Saves, Sheets, Kept
  <1>5. History(t)
    BY <1>1, <1>2 DEF History, Kept
  <1> QED
    BY <1>2, <1>3, <1>4, <1>5 DEF Good

\* What pushing the texts of rows does to a screen's history (pushHistory):
\* the count grows with the lines when they scrolled, and is 0 when they did not.
LEMMA PushedTexts ==
  ASSUME NEW s, History(s), s.limit \in Nat, NEW lines, NEW n \in Nat, NEW how
  PROVE  LET h == Push(s.hist, s.limit, Texts(s, lines, n), how)
         IN  /\ IsHistory(h) /\ Len(h) <= s.limit /\ Scrolled(h, 0)
             /\ how = "scroll" => Scrolled(h, s.hscrolled + n)
  <1>1. DOMAIN Texts(s, lines, n) = 1..n
    BY DEF Texts
  <1>2. IsHistory(s.hist) /\ s.limit \in Nat /\ s.hscrolled \in Nat /\ Scrolled(s.hist, s.hscrolled)
    BY DEF History
  <1> QED
    BY <1>1, <1>2, PushHistory

\* Scrolling up moves rows within the region, fills with blanks, and pushes what
\* leaves the top of the main screen (scrollUp).
LEMMA ScrollUpGood ==
  ASSUME NEW s, Good(s), NEW top \in Nat, NEW bottom \in Nat, bottom < s.rows,
         NEW count \in Nat, NEW toHistory
  PROVE  Good(ScrollUp(s, top, bottom, count, toHistory))
         /\ Kept(s, ScrollUp(s, top, bottom, count, toHistory))
  <1> DEFINE n == Smaller(count, bottom - top + 1)
             saved == toHistory /\ top = 0 /\ s.active = "main" /\ s.limit > 0
             h == Push(s.hist, s.limit, Texts(s, Lines(s), n), "scroll")
             t == IF saved
                  THEN [ToHistory(s, n, "scroll") EXCEPT !.hscrolled = @ + n]
                  ELSE s
             ls == [y \in 0..(s.rows - 1) |->
                     IF y < top \/ y > bottom THEN Lines(s)[y]
                     ELSE IF y + n <= bottom THEN Lines(s)[y + n]
                     ELSE BlankLine(s)]
  <1>1. CASE n <= 0
    BY <1>1 DEF ScrollUp, Kept
  <1>2. CASE ~(n <= 0)
    <2>1. n \in Nat
      BY <1>2 DEF Smaller
    <2>2. ScrollUp(s, top, bottom, count, toHistory) = WithLines(t, ls)
      BY <1>2 DEF ScrollUp
    <2>3. Good(t) /\ Kept(s, t)
      <3>1. CASE saved
        <4>1. DOMAIN s = ScreenFields /\ s.hscrolled \in Nat
          BY DEF Good, Geometry, History
        <4>2. t = [s EXCEPT !.hist = h, !.hscrolled = s.hscrolled + n]
          BY <3>1, <4>1 DEF ToHistory, ScreenFields
        <4>3. IsHistory(h) /\ Len(h) <= s.limit /\ Scrolled(h, s.hscrolled + n)
          <5>1. History(s) /\ s.limit \in Nat
            BY DEF Good, Geometry
          <5> QED
            BY <2>1, <5>1, PushedTexts
        <4>4. s.hscrolled + n \in Nat
          BY <2>1, <4>1
        <4> HIDE DEF h, t, n
        <4> QED
          BY <4>2, <4>3, <4>4, WithHistoryGood
      <3>2. CASE ~saved
        BY <3>2 DEF Kept
      <3> QED
        BY <3>1, <3>2
    <2> HIDE DEF t, n
    <2>4. \A y \in 0..(s.rows - 1) : LineOK(ls[y], s.cols)
      BY <2>1, LineOfGood, BlankIsALine, CursorRow
    <2>5. DOMAIN ls = 0..(s.rows - 1)
      OBVIOUS
    <2> HIDE DEF ls
    <2>6. Good(WithLines(t, ls)) /\ Kept(t, WithLines(t, ls))
      BY <2>3, <2>4, <2>5, WithLinesGood DEF Kept
    <2> QED
      BY <2>2, <2>3, <2>6 DEF Kept
  <1> QED
    BY <1>1, <1>2

\* Scrolling down moves rows within the region and fills with blanks
\* (scrollDown).
LEMMA ScrollDownGood ==
  ASSUME NEW s, Good(s), NEW top \in Nat, NEW bottom \in Nat, bottom < s.rows,
         NEW count \in Nat
  PROVE  Good(ScrollDown(s, top, bottom, count)) /\ Kept(s, ScrollDown(s, top, bottom, count))
  <1> DEFINE n == Smaller(count, bottom - top + 1)
             ls == [y \in 0..(s.rows - 1) |->
                     IF y < top \/ y > bottom THEN Lines(s)[y]
                     ELSE IF y - n >= top THEN Lines(s)[y - n]
                     ELSE BlankLine(s)]
  <1>1. CASE n <= 0
    BY <1>1 DEF ScrollDown, Kept
  <1>2. CASE ~(n <= 0)
    <2>1. n \in Nat
      BY <1>2 DEF Smaller
    <2>2. ScrollDown(s, top, bottom, count) = WithLines(s, ls)
      BY <1>2 DEF ScrollDown
    <2> HIDE DEF n
    <2>3. \A y \in 0..(s.rows - 1) : LineOK(ls[y], s.cols)
      BY <2>1, LineOfGood, BlankIsALine, CursorRow
    <2>4. DOMAIN ls = 0..(s.rows - 1)
      OBVIOUS
    <2> HIDE DEF ls
    <2> QED
      BY <2>2, <2>3, <2>4, WithLinesGood
  <1> QED
    BY <1>1, <1>2

\* A clear pushes rows that did not scroll, so it forgets how many of the history
\* did (clearToHistory).
LEMMA ClearToHistoryGood ==
  ASSUME NEW s, Good(s)
  PROVE  Good(ClearToHistory(s)) /\ Kept(s, ClearToHistory(s))
  <1> DEFINE Used(y) == Lines(s)[y].used
             rows == {y \in 0..(s.rows - 1) : \E z \in y..(s.rows - 1) : Used(z)}
             last == Cardinality(rows)
             h == Push(s.hist, s.limit, Texts(s, Lines(s), last), "clear")
             t == [s EXCEPT !.hist = h, !.hscrolled = 0]
  <1>1. last \in Nat
    <2>1. IsFiniteSet(0..(s.rows - 1))
      BY CursorRow, FS_Interval
    <2>2. rows \subseteq 0..(s.rows - 1)
      OBVIOUS
    <2> HIDE DEF rows
    <2> QED
      BY <2>1, <2>2, FS_Subset, FS_CardinalityType
  <1>2. ClearToHistory(s) = EraseRows(t, 0, s.rows - 1)
    <2>1. DOMAIN s = ScreenFields
      BY DEF Good, Geometry
    <2>2. [ToHistory(s, last, "clear") EXCEPT !.hscrolled = 0] = t
      BY <2>1 DEF ToHistory, ScreenFields
    <2> QED
      BY <2>2 DEF ClearToHistory
  <1> HIDE DEF last
  <1>3. IsHistory(h) /\ Len(h) <= s.limit /\ Scrolled(h, 0)
    <2>1. History(s) /\ s.limit \in Nat
      BY DEF Good, Geometry
    <2> QED
      BY <1>1, <2>1, PushedTexts
  <1> HIDE DEF h
  <1>4. Good(t) /\ Kept(s, t)
    BY <1>3, WithHistoryGood
  <1> HIDE DEF t
  <1> QED
    BY <1>2, <1>4, EraseRowsGood DEF Kept

----------------------------------------------------------------------------
\* The cursor

\* A screen with the buffers and the history of another.
SameSheets(s, t) ==
    /\ t.cols = s.cols /\ t.rows = s.rows /\ t.limit = s.limit
    /\ t.lines = s.lines /\ t.hist = s.hist /\ t.hscrolled = s.hscrolled
    /\ t.active \in Buffers

\* An operation that leaves buffers and history alone has only the cursor, the
\* margins, the stops and the saved cursors to answer for.
LEMMA SameSheetsGood ==
  ASSUME NEW s, Good(s), NEW t, DOMAIN t = ScreenFields, SameSheets(s, t),
         DOMAIN t.modes = ModeFields, Cursor(t), Margins(t), Stops(t), Saves(t)
  PROVE  Good(t)
  BY DEF Good, Geometry, Sheets, History, SameSheets

\* Only what the cursor draws with, and where, is different.
SameFrame(s, t) ==
    /\ t.top = s.top /\ t.bottom = s.bottom /\ t.tabs = s.tabs /\ t.saved = s.saved
\* One that leaves those alone too has only the cursor.
LEMMA CursorGood ==
  ASSUME NEW s, Good(s), NEW t, DOMAIN t = ScreenFields, SameSheets(s, t), SameFrame(s, t),
         DOMAIN t.modes = ModeFields, Cursor(t)
  PROVE  Good(t)
  BY SameSheetsGood DEF Good, SameSheets, SameFrame, Margins, Stops, Saves

\* Cursor movement is confined to the screen and cancels a pending wrap (moveTo).
LEMMA MoveToGood ==
  ASSUME NEW s, Good(s), NEW x \in Int, NEW y \in Int
  PROVE  Good(MoveTo(s, x, y))
  <1> DEFINE t == MoveTo(s, x, y)
  <1>1. /\ DOMAIN t = ScreenFields
        /\ SameSheets(s, t) /\ SameFrame(s, t) /\ t.modes = s.modes
        /\ t.pendingWrap = FALSE
        /\ t.cx = Clamp(x, 0, s.cols - 1) /\ t.cy = Clamp(y, 0, s.rows - 1)
    BY DEF MoveTo, Good, Geometry, ScreenFields, SameSheets, SameFrame
  <1> HIDE DEF t
  <1>2. Cursor(t)
    BY <1>1, CursorRow DEF Cursor, Clamp, SameSheets
  <1>3. DOMAIN t.modes = ModeFields
    BY <1>1 DEF Good, Geometry
  <1> QED
    BY <1>1, <1>2, <1>3, CursorGood DEF t

\* The bounds of a screen, in the form arithmetic needs (moveTo, scrollUp and the
\* rest compute with them).
LEMMA InBounds ==
  ASSUME NEW s, Good(s)
  PROVE  /\ s.cols \in Nat \ {0} /\ s.rows \in Nat \ {0}
         /\ s.cx \in 0..(s.cols - 1) /\ s.cy \in 0..(s.rows - 1)
         /\ s.top \in Nat /\ s.bottom \in Nat /\ s.top <= s.bottom /\ s.bottom < s.rows
  BY CursorRow DEF Good, Margins

\* In origin mode the row is counted from the top margin (moveToOrigin).
LEMMA MoveToOriginGood ==
  ASSUME NEW s, Good(s), NEW x \in Int, NEW y \in Int
  PROVE  Good(MoveToOrigin(s, x, y))
  <1>1. Clamp(y + s.top, s.top, s.bottom) \in Int
    BY InBounds DEF Clamp
  <1> QED
    BY <1>1, MoveToGood DEF MoveToOrigin

\* Up and down stop at the margin they start inside of (cursorUp, cursorDown).
LEMMA CursorUpDownGood ==
  ASSUME NEW s, Good(s), NEW n \in Nat
  PROVE  Good(CursorUp(s, n)) /\ Good(CursorDown(s, n))
  <1>1. s.cx \in Int /\ Larger(s.cy - n, IF s.cy >= s.top THEN s.top ELSE 0) \in Int
    BY InBounds DEF Larger
  <1>2. Smaller(s.cy + n, IF s.cy <= s.bottom THEN s.bottom ELSE s.rows - 1) \in Int
    BY InBounds DEF Smaller
  <1> QED
    BY <1>1, <1>2, MoveToGood DEF CursorUp, CursorDown

\* A cursor that stays on its row with no wrap pending (CR, BS, tabs).
LEMMA ColumnGood ==
  ASSUME NEW s, Good(s), NEW x \in 0..(s.cols - 1), NEW t,
         t = [s EXCEPT !.cx = x, !.pendingWrap = FALSE]
  PROVE  Good(t) /\ SameSheets(s, t) /\ SameFrame(s, t) /\ t.active = s.active
         /\ t.cx = x /\ t.cy = s.cy /\ t.pendingWrap = FALSE /\ t.modes = s.modes
         /\ t.pen = s.pen
  <1>1. /\ DOMAIN t = ScreenFields
        /\ SameSheets(s, t) /\ SameFrame(s, t) /\ t.modes = s.modes
        /\ t.pendingWrap = FALSE /\ t.cx = x /\ t.cy = s.cy
        /\ t.active = s.active /\ t.pen = s.pen
    BY DEF Good, Geometry, ScreenFields, SameSheets, SameFrame
  <1>2. Cursor(t)
    BY <1>1, CursorRow DEF Cursor, SameSheets
  <1>3. DOMAIN t.modes = ModeFields
    BY <1>1 DEF Good, Geometry
  <1> QED
    BY <1>1, <1>2, <1>3, CursorGood

\* Cancelling a pending wrap disturbs nothing (pendingWrap = false).
LEMMA UnwrappedGood ==
  ASSUME NEW s, Good(s)
  PROVE  LET t == Unwrapped(s)
         IN  /\ Good(t) /\ SameSheets(s, t) /\ SameFrame(s, t) /\ t.active = s.active
             /\ t.cx = s.cx /\ t.cy = s.cy /\ t.pendingWrap = FALSE /\ t.modes = s.modes
             /\ t.pen = s.pen
  <1>1. DOMAIN s = ScreenFields
    BY DEF Good, Geometry
  <1> DEFINE t == Unwrapped(s)
  <1>2. t = [s EXCEPT !.cx = s.cx, !.pendingWrap = FALSE]
    BY <1>1 DEF Unwrapped, ScreenFields
  <1>3. s.cx \in 0..(s.cols - 1)
    BY CursorRow
  <1> HIDE DEF t
  <1>4. /\ DOMAIN t = ScreenFields
        /\ SameSheets(s, t) /\ SameFrame(s, t) /\ t.modes = s.modes
        /\ t.pendingWrap = FALSE /\ t.cx = s.cx /\ t.cy = s.cy
        /\ t.active = s.active /\ t.pen = s.pen
    BY <1>2 DEF Good, Geometry, ScreenFields, SameSheets, SameFrame
  <1>5. Good(t)
    BY <1>2, <1>3, ColumnGood
  <1> QED
    BY <1>4, <1>5 DEF t

\* CR and BS (carriageReturn, backspace).
LEMMA CarriageGood ==
  ASSUME NEW s, Good(s)
  PROVE  Good(CarriageReturn(s)) /\ Good(Backspace(s))
  <1>1. 0 \in 0..(s.cols - 1) /\ Larger(s.cx - 1, 0) \in 0..(s.cols - 1)
    BY CursorRow DEF Larger
  <1>2. DOMAIN s = ScreenFields
    BY DEF Good, Geometry
  <1>3. Backspace(s) = [s EXCEPT !.cx = Larger(s.cx - 1, 0), !.pendingWrap = FALSE]
    BY <1>2 DEF Backspace, ScreenFields
  <1> QED
    BY <1>1, <1>3, ColumnGood DEF CarriageReturn

\* A tab stops at a stop or at the edge, never beyond (tabForward, tabBackward).
LEMMA TabGood ==
  ASSUME NEW s, Good(s), NEW n \in Nat
  PROVE  Good(TabForward(s, n)) /\ Good(TabBackward(s, n))
  <1> DEFINE ahead == {x \in (s.cx + 1)..(s.cols - 1) : x \in s.tabs \/ x = s.cols - 1}
             NthA(x) == Cardinality({y \in ahead : y <= x}) = n
             to == IF \E x \in ahead : NthA(x) THEN CHOOSE x \in ahead : NthA(x) ELSE s.cols - 1
             behind == {x \in 0..(s.cx - 1) : x \in s.tabs \/ x = 0}
             NthB(x) == Cardinality({y \in behind : y >= x}) = n
             back == IF \E x \in behind : NthB(x) THEN CHOOSE x \in behind : NthB(x) ELSE 0
  <1>1. DOMAIN s = ScreenFields
    BY DEF Good, Geometry
  <1>2. Good(TabForward(s, n))
    <2>1. to \in 0..(s.cols - 1)
      <3>1. ahead \subseteq 0..(s.cols - 1) /\ s.cols - 1 \in 0..(s.cols - 1)
        BY CursorRow
      <3> HIDE DEF ahead
      <3> QED
        BY <3>1
    <2>2. CASE s.pendingWrap
      BY <2>2 DEF TabForward
    <2>3. CASE ~s.pendingWrap
      <3>1. TabForward(s, n) = [s EXCEPT !.cx = to]
        BY <2>3 DEF TabForward
      <3> HIDE DEF to
      <3> DEFINE t == [s EXCEPT !.cx = to]
      <3>2. /\ DOMAIN t = ScreenFields
            /\ SameSheets(s, t) /\ SameFrame(s, t) /\ t.modes = s.modes
            /\ t.pendingWrap = s.pendingWrap /\ t.cx = to /\ t.cy = s.cy
        BY <1>1 DEF Good, Geometry, ScreenFields, SameSheets, SameFrame
      <3> HIDE DEF t
      <3>3. Cursor(t)
        BY <2>1, <2>3, <3>2, CursorRow DEF Cursor, SameSheets
      <3>4. DOMAIN t.modes = ModeFields
        BY <3>2 DEF Good, Geometry
      <3>5. Good(t)
        BY <3>2, <3>3, <3>4, CursorGood
      <3> QED
        BY <3>1, <3>5 DEF t
    <2> QED
      BY <2>2, <2>3
  <1>3. Good(TabBackward(s, n))
    <2>1. back \in 0..(s.cols - 1)
      <3>1. behind \subseteq 0..(s.cols - 1) /\ 0 \in 0..(s.cols - 1)
        BY CursorRow
      <3> HIDE DEF behind
      <3> QED
        BY <3>1
    <2>2. TabBackward(s, n) = [s EXCEPT !.cx = back, !.pendingWrap = FALSE]
      BY DEF TabBackward
    <2> HIDE DEF back
    <2> QED
      BY <2>1, <2>2, ColumnGood
  <1> QED
    BY <1>2, <1>3

\* A region that would have fewer than two rows is ignored, so the margins stay
\* in order whatever the arguments (DECSTBM in csiPlain).
LEMMA RegionGood ==
  ASSUME NEW s, Good(s), NEW topArg \in Nat \ {0}, NEW bottomArg \in Int
  PROVE  Good(SetRegion(s, topArg, bottomArg))
  <1> DEFINE top == topArg - 1
             bottom == IF bottomArg - 1 \in 0..(s.rows - 1) THEN bottomArg - 1 ELSE s.rows - 1
             t == [s EXCEPT !.top = top, !.bottom = bottom]
  <1>1. top \in Nat /\ bottom \in 0..(s.rows - 1)
    BY CursorRow
  <1>2. SetRegion(s, topArg, bottomArg) = IF top < bottom THEN MoveToOrigin(t, 0, 0) ELSE s
    BY DEF SetRegion
  <1> HIDE DEF top, bottom
  <1>3. /\ DOMAIN t = ScreenFields /\ SameSheets(s, t)
        /\ t.cx = s.cx /\ t.cy = s.cy /\ t.pendingWrap = s.pendingWrap /\ t.modes = s.modes
        /\ t.top = top /\ t.bottom = bottom /\ t.tabs = s.tabs /\ t.saved = s.saved
    BY DEF Good, Geometry, ScreenFields, SameSheets
  <1> HIDE DEF t
  <1>4. ASSUME top < bottom PROVE Good(t)
    <2>1. Cursor(t) /\ Stops(t) /\ Saves(t) /\ DOMAIN t.modes = ModeFields
      BY <1>3 DEF Good, Geometry, Cursor, Stops, Saves, SameSheets
    <2>2. Margins(t)
      BY <1>1, <1>3, <1>4, CursorRow DEF Margins, SameSheets
    <2> QED
      BY <1>3, <2>1, <2>2, SameSheetsGood
  <1> QED
    BY <1>2, <1>4, MoveToOriginGood

\* Any set of columns of the screen will do for tab stops (resetTabs, HTS, TBC).
LEMMA StopsGood ==
  ASSUME NEW s, Good(s), NEW T, T \subseteq 0..(s.cols - 1)
  PROVE  Good([s EXCEPT !.tabs = T])
  <1> DEFINE t == [s EXCEPT !.tabs = T]
  <1>1. /\ DOMAIN t = ScreenFields /\ SameSheets(s, t)
        /\ t.cx = s.cx /\ t.cy = s.cy /\ t.pendingWrap = s.pendingWrap /\ t.modes = s.modes
        /\ t.top = s.top /\ t.bottom = s.bottom /\ t.tabs = T /\ t.saved = s.saved
    BY DEF Good, Geometry, ScreenFields, SameSheets
  <1> HIDE DEF t
  <1>2. /\ Cursor(t) /\ Margins(t) /\ Stops(t) /\ Saves(t) /\ DOMAIN t.modes = ModeFields
    BY <1>1 DEF Good, Geometry, Cursor, Margins, Stops, Saves, SameSheets
  <1>3. Good(t)
    BY <1>1, <1>2, SameSheetsGood
  <1> QED
    BY <1>3 DEF t

----------------------------------------------------------------------------
\* Edits

\* ICH, DCH and ECH with any count (insertCells, deleteCells, eraseCells).
LEMMA EditCharsGood ==
  ASSUME NEW s, Good(s), NEW n \in Nat
  PROVE  Good(InsertChars(s, n)) /\ Good(DeleteChars(s, n)) /\ Good(EraseChars(s, n))
  <1> DEFINE u == Unwrapped(s)
             inserted == InsertCells(RowCells(s), s.cols, s.cx, n, Blank(s))
             deleted == DeleteCells(RowCells(s), s.cols, s.cx, n, Blank(s))
  <1>1. Good(u) /\ u.cols = s.cols /\ u.rows = s.rows
    BY UnwrappedGood DEF SameSheets
  <1>2. Row(inserted, s.cols) /\ Row(deleted, s.cols)
    BY CursorRow, BlankIsALine, InsertRow, DeleteRow
  <1>3. InsertChars(s, n) = WithLine(u, u.cy, inserted, Lines(u)[u.cy].used)
    BY DEF InsertChars, WithCells, WithRow
  <1>4. DeleteChars(s, n) = WithLine(u, u.cy, deleted, Lines(u)[u.cy].used)
    BY DEF DeleteChars, WithCells, WithRow
  <1>5. EraseChars(s, n) = EraseCells(u, s.cy, s.cx, s.cx + n)
    BY DEF EraseChars
  <1> HIDE DEF u, inserted, deleted
  <1>6. Good(InsertChars(s, n)) /\ Good(DeleteChars(s, n))
    BY <1>1, <1>2, <1>3, <1>4, WithLineGood
  <1>7. s.cy \in 0..(u.rows - 1) /\ s.cx \in Int /\ s.cx + n \in Int
    BY <1>1, CursorRow
  <1>8. Good(EraseChars(s, n))
    BY <1>1, <1>5, <1>7, EraseCellsGood
  <1> QED
    BY <1>6, <1>8

\* IL and DL from any row, in or out of the region (insertLines, deleteLines).
LEMMA EditLinesGood ==
  ASSUME NEW s, Good(s), NEW n \in Nat
  PROVE  Good(InsertLines(s, n)) /\ Good(DeleteLines(s, n))
  <1>1. s.cy \in Nat /\ EditBottom(s) \in Nat /\ EditBottom(s) < s.rows
    BY InBounds DEF EditBottom
  <1>2. Good(ScrollDown(s, s.cy, EditBottom(s), n))
    BY <1>1, ScrollDownGood
  <1>3. Good(ScrollUp(s, s.cy, EditBottom(s), n, FALSE))
    BY <1>1, ScrollUpGood
  <1> QED
    BY <1>2, <1>3, UnwrappedGood DEF InsertLines, DeleteLines

\* SU and SD with any count (scrollUp, scrollDown on the region).
LEMMA ScrollRegionGood ==
  ASSUME NEW s, Good(s), NEW n \in Nat
  PROVE  Good(ScrollUp(s, s.top, s.bottom, n, TRUE)) /\ Good(ScrollDown(s, s.top, s.bottom, n))
  BY InBounds, ScrollUpGood, ScrollDownGood

\* ED with any argument: it clears into the history, in part, or the history
\* (eraseDisplay).
LEMMA EraseDisplayGood ==
  ASSUME NEW s, Good(s), NEW mode \in Int
  PROVE  Good(EraseDisplay(s, mode))
  <1>1. s.cx \in Int /\ s.cx + 1 \in Int /\ s.cols \in Int /\ s.cy \in 0..(s.rows - 1)
    BY InBounds
  <1>2. Good(ClearToHistory(s)) /\ Good(EraseRows(s, 0, s.rows - 1))
    BY ClearToHistoryGood, EraseRowsGood
  <1>3. Good(EraseRows(EraseCells(s, s.cy, s.cx, s.cols), s.cy + 1, s.rows - 1))
    BY <1>1, EraseCellsGood, EraseRowsGood
  <1>4. Good(EraseCells(EraseRows(s, 0, s.cy - 1), s.cy, 0, s.cx + 1))
    <2>1. Good(EraseRows(s, 0, s.cy - 1)) /\ EraseRows(s, 0, s.cy - 1).rows = s.rows
      BY EraseRowsGood DEF Kept
    <2> QED
      BY <1>1, <2>1, EraseCellsGood
  <1>5. Good([s EXCEPT !.hist = <<>>, !.hscrolled = 0])
    <2>1. IsHistory(<<>>)
      <3>1. <<>> \in Seq({})
        OBVIOUS
      <3> QED
        BY <3>1 DEF IsHistory
    <2>2. Len(<<>>) <= s.limit /\ Scrolled(<<>>, 0)
      BY DEF Good, Geometry, Scrolled
    <2> QED
      BY <2>1, <2>2, WithHistoryGood
  <1>6. CASE mode = 3
    BY <1>5, <1>6 DEF EraseDisplay
  <1>7. CASE mode \in 0..2
    <2> DEFINE clear == /\ CanScrollOnClear(s)
                        /\ mode = 2 \/ (mode = 0 /\ s.cx = 0 /\ s.cy = 0)
               t == IF clear THEN ClearToHistory(s)
                    ELSE IF mode = 0
                         THEN EraseRows(EraseCells(s, s.cy, s.cx, s.cols), s.cy + 1, s.rows - 1)
                    ELSE IF mode = 1
                         THEN EraseCells(EraseRows(s, 0, s.cy - 1), s.cy, 0, s.cx + 1)
                    ELSE EraseRows(s, 0, s.rows - 1)
    <2>1. EraseDisplay(s, mode) = Unwrapped(t)
      BY <1>7 DEF EraseDisplay, Unwrapped
    <2>2. Good(t)
      BY <1>2, <1>3, <1>4
    <2> HIDE DEF t
    <2> QED
      BY <2>1, <2>2, UnwrappedGood
  <1>8. CASE mode # 3 /\ mode \notin 0..2
    BY <1>8 DEF EraseDisplay
  <1> QED
    BY <1>6, <1>7, <1>8

\* EL with any argument (eraseInLine).
LEMMA EraseInLineGood ==
  ASSUME NEW s, Good(s), NEW mode \in Int
  PROVE  Good(EraseInLine(s, mode))
  <1> DEFINE from == IF mode = 0 THEN s.cx ELSE 0
             to == IF mode = 1 THEN s.cx + 1 ELSE s.cols
             t == EraseCells(s, s.cy, from, to)
  <1>1. from \in Int /\ to \in Int /\ s.cy \in 0..(s.rows - 1)
    BY InBounds
  <1>2. EraseInLine(s, mode) = IF mode \in 0..2 THEN Unwrapped(t) ELSE s
    BY DEF EraseInLine, Unwrapped
  <1> HIDE DEF from, to
  <1>3. Good(t)
    BY <1>1, EraseCellsGood
  <1> QED
    BY <1>2, <1>3, UnwrappedGood

----------------------------------------------------------------------------
\* Printing

\* Pen, character sets, title, cursor style and the memory of REP are free.
Dressed(s, t) ==
    /\ DOMAIN t = ScreenFields /\ SameSheets(s, t) /\ SameFrame(s, t) /\ t.active = s.active
    /\ t.cx = s.cx /\ t.cy = s.cy /\ t.pendingWrap = s.pendingWrap
    /\ t.modes = s.modes
\* What a glyph would be drawn with is no part of the invariant (pen, lastRune).
LEMMA DressedGood ==
  ASSUME NEW s, Good(s), NEW t, Dressed(s, t)
  PROVE  Good(t)
  <1>1. Cursor(t) /\ DOMAIN t.modes = ModeFields
    BY DEF Dressed, Good, Geometry, Cursor, SameSheets
  <1> QED
    BY <1>1, CursorGood DEF Dressed

\* Nor is the memory of REP (lastRune).
LEMMA LastGood ==
  ASSUME NEW s, Good(s), NEW v
  PROVE  Good([s EXCEPT !.last = v])
  <1> DEFINE t == [s EXCEPT !.last = v]
  <1>1. Dressed(s, t)
    BY DEF Good, Geometry, ScreenFields, SameSheets, SameFrame, Dressed
  <1> HIDE DEF t
  <1>2. Good(t)
    BY <1>1, DressedGood
  <1> QED
    BY <1>2 DEF t

\* What a line feed leaves of the cursor.
Column(s, t) ==
    t.cols = s.cols /\ t.cx = s.cx /\ t.pendingWrap = s.pendingWrap /\ t.modes = s.modes

\* The cursor may go to any row of the screen and keep its column.
LEMMA RowChangeGood ==
  ASSUME NEW s, Good(s), NEW y \in 0..(s.rows - 1), NEW t, t = [s EXCEPT !.cy = y]
  PROVE  Good(t) /\ Column(s, t)
  <1>1. /\ DOMAIN t = ScreenFields /\ SameSheets(s, t) /\ SameFrame(s, t)
        /\ t.cx = s.cx /\ t.cy = y /\ t.pendingWrap = s.pendingWrap /\ t.modes = s.modes
    BY DEF Good, Geometry, ScreenFields, SameSheets, SameFrame
  <1>2. Cursor(t) /\ DOMAIN t.modes = ModeFields /\ Column(s, t)
    BY <1>1 DEF Good, Geometry, Cursor, SameSheets, Column
  <1> QED
    BY <1>1, <1>2, CursorGood

\* Down one row, or a scroll on the bottom margin: the column and a pending wrap
\* stay (index).
LEMMA IndexGood ==
  ASSUME NEW s, Good(s)
  PROVE  Good(Index(s)) /\ Column(s, Index(s))
  <1>1. CASE s.cy = s.bottom
    <2>1. Index(s) = ScrollUp(s, s.top, s.bottom, 1, TRUE)
      BY <1>1 DEF Index
    <2>2. s.top \in Nat /\ s.bottom \in Nat /\ s.bottom < s.rows /\ 1 \in Nat
      BY InBounds
    <2>3. Good(Index(s)) /\ Kept(s, Index(s))
      BY <2>1, <2>2, ScrollUpGood
    <2> QED
      BY <2>3 DEF Kept, Column
  <1>2. CASE s.cy # s.bottom /\ s.cy < s.rows - 1
    <2>1. Index(s) = [s EXCEPT !.cy = s.cy + 1] /\ s.cy + 1 \in 0..(s.rows - 1)
      BY <1>2, InBounds DEF Index
    <2>2. Good(Index(s))
      BY <2>1, RowChangeGood
    <2>3. Column(s, Index(s))
      BY <2>1, RowChangeGood
    <2> QED
      BY <2>2, <2>3
  <1>3. CASE s.cy # s.bottom /\ ~(s.cy < s.rows - 1)
    BY <1>3 DEF Index, Column
  <1> QED
    BY <1>1, <1>2, <1>3

\* Up one row, or a scroll down on the top margin (reverseIndex).
LEMMA ReverseIndexGood ==
  ASSUME NEW s, Good(s)
  PROVE  Good(ReverseIndex(s))
  <1>1. CASE s.cy = s.top
    BY <1>1, InBounds, ScrollDownGood DEF ReverseIndex
  <1>2. CASE s.cy # s.top /\ s.cy > 0
    <2>1. ReverseIndex(s) = [s EXCEPT !.cy = s.cy - 1] /\ s.cy - 1 \in 0..(s.rows - 1)
      BY <1>2, InBounds DEF ReverseIndex
    <2> QED
      BY <2>1, RowChangeGood
  <1>3. CASE s.cy # s.top /\ ~(s.cy > 0)
    BY <1>3 DEF ReverseIndex
  <1> QED
    BY <1>1, <1>2, <1>3

\* A glyph that fits is written and the cursor moves past it, or stays in the last
\* column with a wrap pending if autowrap allows one (printGlyph).
LEMMA PutGood ==
  ASSUME NEW s, Good(s), NEW r, NEW w \in {1, 2}, s.cx + w <= s.cols
  PROVE  Good(Put(s, r, w))
  <1> DEFINE x == s.cx
             cells == IF s.modes.insert
                      THEN InsertCells(RowCells(s), s.cols, x, w, Blank(s)) ELSE RowCells(s)
             fits == x + w < s.cols
             put == PutCells(cells, x, r, w, s.pen)
             t == WithRow(s, put, TRUE)
             u == [t EXCEPT !.last = [r |-> r, w |-> w],
                            !.cx = IF fits THEN x + w ELSE s.cols - 1,
                            !.pendingWrap = IF fits THEN @ ELSE s.modes.autowrap]
  <1>1. Row(cells, s.cols)
    BY CursorRow, BlankIsALine, InsertRow
  <1> HIDE DEF cells
  <1>2. Row(put, s.cols)
    BY <1>1, CursorRow, PutRow
  <1>3. Put(s, r, w) = u
    BY DEF Put, cells
  <1> HIDE DEF put
  <1>4. Good(t) /\ Kept(s, t)
    BY <1>2, WithLineGood DEF WithRow
  <1> HIDE DEF t
  <1>5. /\ DOMAIN u = ScreenFields /\ SameSheets(t, u) /\ SameFrame(t, u)
        /\ u.cx = (IF fits THEN x + w ELSE s.cols - 1) /\ u.cy = t.cy
        /\ u.pendingWrap = (IF fits THEN t.pendingWrap ELSE s.modes.autowrap)
        /\ u.modes = t.modes
    BY <1>4 DEF Good, Geometry, ScreenFields, SameSheets, SameFrame
  <1> HIDE DEF u
  <1>6. Cursor(u)
    <2>1. u.cx \in 0..(u.cols - 1)
      BY <1>4, <1>5, InBounds DEF SameSheets, Kept
    <2>2. u.cy \in 0..(u.rows - 1)
      BY <1>4, <1>5, InBounds DEF SameSheets, Kept
    <2>3. ASSUME u.pendingWrap PROVE u.cx = u.cols - 1 /\ u.modes.autowrap
      BY <1>4, <1>5, <2>3, InBounds DEF SameSheets, Kept, Good, Cursor
    <2> QED
      BY <2>1, <2>2, <2>3 DEF Cursor
  <1>7. DOMAIN u.modes = ModeFields
    BY <1>4, <1>5 DEF Good, Geometry
  <1>8. Good(u)
    BY <1>4, <1>5, <1>6, <1>7, CursorGood
  <1> QED
    BY <1>3, <1>8

\* A glyph of either width at any cursor: wrapped first, dropped, or written
\* (printGlyph).
LEMMA PrintGlyphGood ==
  ASSUME NEW s, Good(s), NEW r, NEW w \in {1, 2}
  PROVE  Good(PrintGlyph(s, r, w))
  <1>1. ASSUME NEW t, Good(t), ~t.pendingWrap, ~(w = 2 /\ t.cols < 2)
        PROVE  Good(PutWrapped(t, r, w))
    <2>1. CASE w = 2 /\ t.cx = t.cols - 1
      <3> DEFINE u == [t EXCEPT !.cx = 0]
      <3>1. DOMAIN t = ScreenFields /\ 0 \in 0..(t.cols - 1)
        BY <1>1, InBounds DEF Good, Geometry
      <3>2. /\ DOMAIN u = ScreenFields /\ SameSheets(t, u) /\ SameFrame(t, u)
            /\ u.cx = 0 /\ u.cy = t.cy /\ u.pendingWrap = t.pendingWrap /\ u.modes = t.modes
        BY <1>1 DEF Good, Geometry, ScreenFields, SameSheets, SameFrame
      <3>3. PutWrapped(t, r, w) = IF ~t.modes.autowrap THEN t ELSE Put(Index(u), r, w)
        BY <2>1 DEF PutWrapped
      <3> HIDE DEF u
      <3>4. Good(u)
        <4>1. Cursor(u) /\ DOMAIN u.modes = ModeFields
          BY <1>1, <3>1, <3>2, InBounds DEF Good, Geometry, Cursor, SameSheets
        <4> QED
          BY <1>1, <3>2, <4>1, CursorGood
      <3>5. Good(Index(u)) /\ Column(u, Index(u))
        BY <3>4, IndexGood
      <3>6. Index(u).cx + w <= Index(u).cols
        BY <1>1, <3>2, <3>5, InBounds DEF Column, SameSheets
      <3> QED
        BY <1>1, <3>3, <3>5, <3>6, PutGood
    <2>2. CASE ~(w = 2 /\ t.cx = t.cols - 1)
      <3>1. PutWrapped(t, r, w) = Put(t, r, w)
        BY <2>2 DEF PutWrapped
      <3>2. t.cx + w <= t.cols
        BY <1>1, <2>2, InBounds
      <3> QED
        BY <1>1, <3>1, <3>2, PutGood
    <2> QED
      BY <2>1, <2>2
  <1> DEFINE c == [s EXCEPT !.pendingWrap = FALSE, !.cx = 0]
  <1>2. CASE w = 2 /\ s.cols < 2
    BY <1>2 DEF PrintGlyph
  <1>3. CASE ~(w = 2 /\ s.cols < 2) /\ s.pendingWrap
    <2>1. PrintGlyph(s, r, w) = PutWrapped(Index(c), r, w)
      BY <1>3 DEF PrintGlyph
    <2>2. DOMAIN s = ScreenFields /\ 0 \in 0..(s.cols - 1)
      BY InBounds DEF Good, Geometry
    <2>3. c = [s EXCEPT !.cx = 0, !.pendingWrap = FALSE]
      BY <2>2 DEF ScreenFields
    <2> HIDE DEF c
    <2>4. Good(c) /\ c.cols = s.cols /\ ~c.pendingWrap
      <3>1. Good(c)
        BY <2>2, <2>3, ColumnGood
      <3>2. c.cols = s.cols /\ ~c.pendingWrap
        BY <2>2, <2>3 DEF ScreenFields
      <3> QED
        BY <3>1, <3>2
    <2>5. Good(Index(c)) /\ Column(c, Index(c))
      BY <2>4, IndexGood
    <2> QED
      BY <1>1, <1>3, <2>1, <2>4, <2>5 DEF Column
  <1>4. CASE ~(w = 2 /\ s.cols < 2) /\ ~s.pendingWrap
    <2>1. PrintGlyph(s, r, w) = PutWrapped(s, r, w)
      BY <1>4 DEF PrintGlyph
    <2> QED
      BY <1>1, <1>4, <2>1
  <1> QED
    BY <1>2, <1>3, <1>4

\* The bulk path for text stops short of the last column, so no wrap can be
\* pending after it (printASCII).
LEMMA PrintRunGood ==
  ASSUME NEW s, Good(s), NEW run, CanRun(s, Len(run))
  PROVE  Good(PrintRun(s, run))
  <1> DEFINE put == PutRun(RowCells(s), s.cx, run, s.pen)
             t == WithRow(s, put, TRUE)
             u == [t EXCEPT !.cx = @ + Len(run), !.last = [r |-> run[Len(run)], w |-> 1]]
  <1>1. Len(run) \in Nat \ {0} /\ s.cx + Len(run) <= s.cols - 1 /\ ~s.pendingWrap
    BY InBounds DEF CanRun
  <1>2. Row(put, s.cols)
    BY <1>1, CursorRow, PutRunRow
  <1>3. PrintRun(s, run) = u
    BY DEF PrintRun
  <1> HIDE DEF put
  <1>4. Good(t) /\ Kept(s, t)
    BY <1>2, WithLineGood DEF WithRow
  <1> HIDE DEF t
  <1>5. /\ DOMAIN u = ScreenFields /\ SameSheets(t, u) /\ SameFrame(t, u)
        /\ u.cx = t.cx + Len(run) /\ u.cy = t.cy /\ u.pendingWrap = t.pendingWrap
        /\ u.modes = t.modes
    BY <1>4 DEF Good, Geometry, ScreenFields, SameSheets, SameFrame
  <1> HIDE DEF u
  <1>6. Cursor(u)
    BY <1>1, <1>4, <1>5, InBounds DEF Cursor, SameSheets, Kept
  <1>7. DOMAIN u.modes = ModeFields
    BY <1>4, <1>5 DEF Good, Geometry
  <1>8. Good(u)
    BY <1>4, <1>5, <1>6, <1>7, CursorGood
  <1> QED
    BY <1>3, <1>8

\* The cell a zero-width code point attaches to is in the row and is not the
\* right half of a glyph (prevCellX).
LEMMA PrevCellInRow ==
  ASSUME NEW s, Good(s), PrevCellX(s) >= 0
  PROVE  /\ PrevCellX(s) \in 0..(s.cols - 1)
         /\ IsCell(RowCells(s)[PrevCellX(s)])
         /\ RowCells(s)[PrevCellX(s)].half # "pad"
  <1> DEFINE vx == IF s.pendingWrap THEN s.cols ELSE s.cx
             cells == RowCells(s)
             x == vx - 1
  <1>1. vx \in 0..s.cols /\ s.cols \in Nat \ {0} /\ Row(cells, s.cols)
    BY CursorRow
  <1>2. PrevCellX(s) = IF vx = 0 THEN -1
                       ELSE IF cells[x].half = "pad"
                            THEN IF vx = 1 \/ cells[x - 1].half # "wide" THEN -1 ELSE x - 1
                       ELSE IF cells[x].half = "wide" THEN -1 ELSE x
    BY DEF PrevCellX
  <1> HIDE DEF vx, cells
  <1>3. vx # 0
    BY <1>2
  <1>4. CASE cells[x].half = "pad"
    <2>1. PrevCellX(s) = x - 1 /\ vx # 1 /\ cells[x - 1].half = "wide"
      BY <1>1, <1>2, <1>3, <1>4
    <2>2. x - 1 \in 0..(s.cols - 1)
      BY <1>1, <1>3, <2>1
    <2>3. IsCell(cells[x - 1])
      BY <1>1, <2>2 DEF Row
    <2> QED
      BY <2>1, <2>2, <2>3 DEF cells
  <1>5. CASE cells[x].half # "pad"
    <2>1. PrevCellX(s) = x
      BY <1>1, <1>2, <1>3, <1>5
    <2>2. x \in 0..(s.cols - 1)
      BY <1>1, <1>3
    <2>3. IsCell(cells[x])
      BY <1>1, <2>2 DEF Row
    <2> QED
      BY <1>5, <2>1, <2>2, <2>3 DEF cells
  <1> QED
    BY <1>4, <1>5

\* A narrow cell and the blank to its right become the two halves of a glyph
\* (widen).
LEMMA WidenRow ==
  ASSUME NEW cols \in Nat \ {0}, NEW cells, Row(cells, cols), NEW x \in Nat, x + 1 < cols,
         cells[x].half = "none", cells[x + 1].half = "none", NEW a
  PROVE  Row([cells EXCEPT ![x].half = "wide", ![x + 1] = Cell("", "pad", a)], cols)
  <1> DEFINE t == [cells EXCEPT ![x].half = "wide", ![x + 1] = Cell("", "pad", a)]
             wide == [cells[x] EXCEPT !.half = "wide"]
  <1>1. x \in 0..(cols - 1) /\ x + 1 \in 0..(cols - 1) /\ x # x + 1
    OBVIOUS
  <1>2. t = [i \in 0..(cols - 1) |-> IF i = x THEN wide
                                     ELSE IF i = x + 1 THEN Cell("", "pad", a) ELSE cells[i]]
    BY <1>1 DEF Row
  <1>3. IsCell(wide) /\ wide.half = "wide"
    BY <1>1 DEF Row, IsCell, CellFields
  <1>4. IsCell(Cell("", "pad", a)) /\ Cell("", "pad", a).half = "pad"
    BY DEF IsCell, CellFields, Cell
  <1> HIDE DEF t, wide
  <1>5. \A i \in 0..(cols - 1) : IsCell(t[i])
           /\ t[i].half = IF i = x THEN "wide" ELSE IF i = x + 1 THEN "pad" ELSE cells[i].half
    BY <1>2, <1>3, <1>4 DEF Row
  <1>h. /\ \A i \in 0..(cols - 1) :
              cells[i].half = "wide" => i + 1 < cols /\ cells[i + 1].half = "pad"
        /\ \A i \in 0..(cols - 1) :
              cells[i].half = "pad" => i > 0 /\ cells[i - 1].half = "wide"
    BY HalvesOfRow
  <1>6. ASSUME NEW i \in 0..(cols - 1), t[i].half = "wide"
        PROVE  i + 1 < cols /\ t[i + 1].half = "pad"
    <2>1. CASE i = x
      BY <1>1, <1>5, <2>1
    <2>2. CASE i # x
      <3>1. cells[i].half = "wide"
        BY <1>5, <1>6, <2>2
      <3>2. i + 1 \in 0..(cols - 1) /\ cells[i + 1].half = "pad"
        BY <1>h, <3>1
      <3>3. i + 1 # x /\ i + 1 # x + 1
        BY <1>6, <2>2, <3>2
      <3> QED
        BY <1>5, <3>2, <3>3
    <2> QED
      BY <2>1, <2>2
  <1>7. ASSUME NEW i \in 0..(cols - 1), t[i].half = "pad"
        PROVE  i > 0 /\ t[i - 1].half = "wide"
    <2>1. CASE i = x + 1
      BY <1>1, <1>5, <2>1
    <2>2. CASE i # x + 1
      <3>1. cells[i].half = "pad"
        BY <1>5, <1>7, <2>2
      <3>2. i - 1 \in 0..(cols - 1) /\ cells[i - 1].half = "wide"
        BY <1>h, <3>1
      <3>3. i - 1 # x /\ i - 1 # x + 1
        BY <1>7, <2>2, <3>2
      <3> QED
        BY <1>5, <3>2, <3>3
    <2> QED
      BY <2>1, <2>2
  <1>8. Row(t, cols)
    BY <1>2, <1>5, <1>6, <1>7, RowOfHalves
  <1> QED
    BY <1>8 DEF t

\* A narrow glyph that claims the cell to its right splits what was there, and the
\* cursor moves with it (widen).
LEMMA WidenGood ==
  ASSUME NEW s, Good(s), NEW x \in 0..(s.cols - 1), RowCells(s)[x].half = "none"
  PROVE  Good(Widen(s, x))
  <1> DEFINE cells == SplitWide(RowCells(s), x + 1)
             row == [cells EXCEPT ![x].half = "wide", ![x + 1] = Cell("", "pad", cells[x].a)]
             nx == IF s.pendingWrap THEN s.cols + 1 ELSE s.cx + 1
             t == WithCells(s, row)
             u == [t EXCEPT !.cx = Smaller(nx, s.cols - 1),
                            !.pendingWrap = nx >= s.cols /\ s.modes.autowrap]
  <1>1. CASE x + 1 >= s.cols
    BY <1>1 DEF Widen
  <1>2. CASE ~(x + 1 >= s.cols)
    <2>1. Widen(s, x) = u
      BY <1>2 DEF Widen
    <2>2. s.cols \in Nat \ {0} /\ x \in Nat /\ x + 1 < s.cols /\ x + 1 \in 0..(s.cols - 1)
      BY <1>2, CursorRow
    <2>3. Row(cells, s.cols) /\ cells[x].half = "none" /\ cells[x + 1].half = "none"
      BY <2>2, CursorRow, SplitWideRow
    <2> HIDE DEF cells
    <2>4. Row(row, s.cols)
      BY <2>2, <2>3, WidenRow
    <2> HIDE DEF row
    <2>5. Good(t) /\ Kept(s, t)
      BY <2>4, WithLineGood DEF WithCells, WithRow
    <2> HIDE DEF t
    <2>6. /\ DOMAIN u = ScreenFields /\ SameSheets(t, u) /\ SameFrame(t, u)
          /\ u.cx = Smaller(nx, s.cols - 1) /\ u.cy = t.cy
          /\ u.pendingWrap = (nx >= s.cols /\ s.modes.autowrap)
          /\ u.modes = t.modes
      BY <2>5 DEF Good, Geometry, ScreenFields, SameSheets, SameFrame
    <2> HIDE DEF u
    <2>7. nx \in Nat \ {0}
      BY InBounds
    <2> HIDE DEF nx
    <2>8. Cursor(u)
      <3>1. u.cx \in 0..(u.cols - 1) /\ u.cy \in 0..(u.rows - 1)
        BY <2>2, <2>5, <2>6, <2>7, InBounds DEF SameSheets, Kept, Smaller
      <3>2. ASSUME u.pendingWrap PROVE u.cx = u.cols - 1 /\ u.modes.autowrap
        <4>1. nx >= s.cols /\ s.modes.autowrap
          BY <2>6, <3>2
        <4> QED
          BY <2>2, <2>5, <2>6, <2>7, <4>1 DEF SameSheets, Kept, Smaller
      <3> QED
        BY <3>1, <3>2 DEF Cursor
    <2>9. DOMAIN u.modes = ModeFields
      BY <2>5, <2>6 DEF Good, Geometry
    <2>10. Good(u)
      BY <2>5, <2>6, <2>8, <2>9, CursorGood
    <2> QED
      BY <2>1, <2>10
  <1> QED
    BY <1>1, <1>2

\* The row just written is the row under the cursor (combine, joinPrev).
LEMMA RowCellsWritten ==
  ASSUME NEW s, Good(s), NEW cells, NEW used
  PROVE  RowCells(WithRow(s, cells, used)) = cells
  <1> DEFINE ls == [z \in 0..(s.rows - 1) |->
                      IF z = s.cy THEN [cells |-> cells, used |-> used] ELSE Lines(s)[z]]
             t == WithLines(s, ls)
  <1>1. WithRow(s, cells, used) = t
    BY DEF WithRow, WithLine
  <1>2. t.cy = s.cy /\ t.active = s.active /\ t.lines[s.active] = ls
    BY DEF Good, Geometry, Sheets, WithLines, ScreenFields
  <1>3. ls[s.cy].cells = cells
    BY CursorRow
  <1> QED
    BY <1>1, <1>2, <1>3 DEF RowCells, Lines

\* A mark is added to the glyph before the cursor, never to the right half of one
\* (combine).
LEMMA CombineGood ==
  ASSUME NEW s, Good(s), NEW mark
  PROVE  Good(Combine(s, mark))
  <1> DEFINE x == PrevCellX(s)
             c == RowCells(s)[x]
             touched == [c EXCEPT !.r = IF @ = "" THEN " " ELSE @, !.comb = Append(@, mark)]
             row == [RowCells(s) EXCEPT ![x] = touched]
             t == WithRow(s, row, TRUE)
             u == IF x < 0 \/ Len(c.comb) >= MaxComb THEN s
                  ELSE IF mark = "VS16" /\ c.half # "wide" THEN Widen(t, x) ELSE t
  <1>1. Combine(s, mark) = [u EXCEPT !.last = [r |-> "", w |-> 0]]
    BY DEF Combine
  <1>2. Good(u)
    <2>1. CASE x < 0 \/ Len(c.comb) >= MaxComb
      BY <2>1
    <2>2. CASE ~(x < 0 \/ Len(c.comb) >= MaxComb)
      <3>1. x \in 0..(s.cols - 1) /\ IsCell(c) /\ c.half # "pad"
        <4>1. PrevCellX(s) >= 0
          BY <2>2, InBounds DEF PrevCellX
        <4> QED
          BY <4>1, PrevCellInRow
      <3>2. IsCell(touched) /\ touched.half = c.half
        BY <3>1 DEF IsCell, CellFields
      <3> HIDE DEF touched
      <3>3. Row(row, s.cols)
        BY <3>1, <3>2, CursorRow, TouchRow
      <3>4. row[x] = touched
        BY <3>1, CursorRow DEF Row
      <3> HIDE DEF row
      <3>5. Good(t) /\ Kept(s, t)
        BY <3>3, WithLineGood DEF WithRow
      <3>6. RowCells(t)[x].half = c.half
        BY <3>2, <3>4, RowCellsWritten
      <3> HIDE DEF t
      <3>7. CASE mark = "VS16" /\ c.half # "wide"
        <4>1. u = Widen(t, x)
          BY <2>2, <3>7
        <4>2. RowCells(t)[x].half = "none" /\ x \in 0..(t.cols - 1)
          BY <3>1, <3>5, <3>6, <3>7 DEF IsCell, Kept
        <4> HIDE DEF x
        <4> QED
          BY <3>5, <4>1, <4>2, WidenGood
      <3>8. CASE ~(mark = "VS16" /\ c.half # "wide")
        BY <2>2, <3>5, <3>8
      <3> QED
        BY <3>7, <3>8
    <2> QED
      BY <2>1, <2>2
  <1> HIDE DEF u
  <1>3. Good([u EXCEPT !.last = [r |-> "", w |-> 0]])
    BY <1>2, LastGood
  <1> QED
    BY <1>1, <1>3

\* A code point that joins the previous cell leaves the row as it was, or widens a
\* narrow glyph (joinPrev).
LEMMA JoinPrevGood ==
  ASSUME NEW s, Good(s), NEW r, JoinsPrev(s, r)
  PROVE  Good(JoinPrev(s, r))
  <1> DEFINE x == PrevCellX(s)
             c == RowCells(s)[x]
             touched == [c EXCEPT !.comb =
                            IF Len(@) < MaxComb \/ CompletesFlag(s, r) THEN Append(@, r) ELSE @]
             row == [RowCells(s) EXCEPT ![x] = touched]
             t == WithCells(s, row)
             u == IF CompletesFlag(s, r) THEN Widen(t, x) ELSE t
  <1>1. JoinPrev(s, r) = [u EXCEPT !.last = [r |-> "", w |-> 0]]
    BY DEF JoinPrev
  <1>2. Good(u)
    <2>1. x \in 0..(s.cols - 1) /\ IsCell(c) /\ c.half # "pad"
      <3>1. PrevCellX(s) >= 0
        BY DEF JoinsPrev, FollowsZWJ, CompletesFlag
      <3> QED
        BY <3>1, PrevCellInRow
    <2>2. IsCell(touched) /\ touched.half = c.half
      BY <2>1 DEF IsCell, CellFields
    <2> HIDE DEF touched
    <2>3. Row(row, s.cols)
      BY <2>1, <2>2, CursorRow, TouchRow
    <2>4. row[x] = touched
      BY <2>1, CursorRow DEF Row
    <2> HIDE DEF row
    <2>5. Good(t) /\ Kept(s, t)
      BY <2>3, WithLineGood DEF WithCells, WithRow
    <2>6. RowCells(t)[x].half = c.half
      BY <2>2, <2>4, RowCellsWritten DEF WithCells
    <2> HIDE DEF t
    <2>7. CASE CompletesFlag(s, r)
      <3>1. c.half # "wide"
        BY <2>7 DEF CompletesFlag
      <3>2. RowCells(t)[x].half = "none" /\ x \in 0..(t.cols - 1)
        BY <2>1, <2>5, <2>6, <3>1 DEF IsCell, Kept
      <3>3. u = Widen(t, x)
        BY <2>7
      <3> HIDE DEF x, u
      <3> QED
        BY <2>5, <3>2, <3>3, WidenGood
    <2>8. CASE ~CompletesFlag(s, r)
      BY <2>5, <2>8
    <2> QED
      BY <2>7, <2>8
  <1> HIDE DEF u
  <1>3. Good([u EXCEPT !.last = [r |-> "", w |-> 0]])
    BY <1>2, LastGood
  <1> QED
    BY <1>1, <1>3

----------------------------------------------------------------------------
\* Saved cursors, buffers and modes

\* Saving the cursor changes the slot of the active buffer only (saveCursor).
LEMMA SaveCursorGood ==
  ASSUME NEW s, Good(s)
  PROVE  Good(SaveCursor(s)) /\ SaveCursor(s).active = s.active
  <1> DEFINE t == SaveCursor(s)
             slot == [valid |-> TRUE, x |-> s.cx, y |-> s.cy, pendingWrap |-> s.pendingWrap,
                      pen |-> s.pen, origin |-> s.modes.origin, g |-> s.g, gl |-> s.gl]
  <1>1. /\ DOMAIN t = ScreenFields /\ SameSheets(s, t) /\ t.active = s.active
        /\ t.cx = s.cx /\ t.cy = s.cy /\ t.pendingWrap = s.pendingWrap /\ t.modes = s.modes
        /\ t.top = s.top /\ t.bottom = s.bottom /\ t.tabs = s.tabs
        /\ t.saved = [s.saved EXCEPT ![s.active] = slot]
    BY DEF SaveCursor, Good, Geometry, ScreenFields, SameSheets
  <1> HIDE DEF t
  <1>2. DOMAIN slot = SaveFields /\ slot.x \in Int /\ slot.y \in Int
    BY InBounds DEF SaveFields, NoSave
  <1> HIDE DEF slot
  <1>3. Saves(t)
    BY <1>1, <1>2 DEF Good, Geometry, Saves
  <1>4. Cursor(t) /\ Margins(t) /\ Stops(t) /\ DOMAIN t.modes = ModeFields
    BY <1>1 DEF Good, Geometry, Cursor, Margins, Stops, SameSheets
  <1>5. Good(t)
    BY <1>1, <1>3, <1>4, SameSheetsGood
  <1> QED
    BY <1>1, <1>5 DEF t

\* A restored cursor is clamped to the screen, and its pending wrap returns only in
\* the last column with autowrap on (restoreCursor).
LEMMA RestoreCursorGood ==
  ASSUME NEW s, Good(s)
  PROVE  Good(RestoreCursor(s))
  <1> DEFINE sc == IF s.saved[s.active].valid THEN s.saved[s.active] ELSE NoSave
             x == Clamp(sc.x, 0, s.cols - 1)
             y == Clamp(sc.y, 0, s.rows - 1)
             t == RestoreCursor(s)
  <1>1. sc.x \in Int /\ sc.y \in Int
    BY DEF Good, Geometry, Saves, NoSave
  <1>2. /\ DOMAIN t = ScreenFields /\ SameSheets(s, t) /\ SameFrame(s, t)
        /\ t.cx = x /\ t.cy = y
        /\ t.pendingWrap = (sc.pendingWrap /\ s.modes.autowrap /\ x = s.cols - 1)
        /\ t.modes = [s.modes EXCEPT !.origin = sc.origin]
    BY DEF RestoreCursor, Good, Geometry, ScreenFields, SameSheets, SameFrame
  <1> HIDE DEF t, sc
  <1>3. x \in 0..(s.cols - 1) /\ y \in 0..(s.rows - 1)
    BY <1>1, InBounds DEF Clamp
  <1>4. DOMAIN t.modes = ModeFields /\ t.modes.autowrap = s.modes.autowrap
    BY <1>2 DEF Good, Geometry, ModeFields, DefaultModes
  <1> HIDE DEF x, y
  <1>5. Cursor(t)
    BY <1>2, <1>3, <1>4 DEF Cursor, SameSheets
  <1>6. Good(t)
    BY <1>2, <1>4, <1>5, CursorGood
  <1> QED
    BY <1>6 DEF t

\* Either buffer has the screen's size, so a switch needs no repair
\* (switchBuffer).
LEMMA SwitchBufferGood ==
  ASSUME NEW s, Good(s), NEW buf \in Buffers
  PROVE  Good(SwitchBuffer(s, buf))
  <1> DEFINE t == SwitchBuffer(s, buf)
  <1>1. /\ DOMAIN t = ScreenFields /\ SameSheets(s, t) /\ SameFrame(s, t)
        /\ t.cx = s.cx /\ t.cy = s.cy /\ t.pendingWrap = s.pendingWrap /\ t.modes = s.modes
    BY DEF SwitchBuffer, Good, Geometry, ScreenFields, SameSheets, SameFrame
  <1> HIDE DEF t
  <1>2. Cursor(t) /\ DOMAIN t.modes = ModeFields
    BY <1>1 DEF Good, Geometry, Cursor, SameSheets
  <1>3. Good(t)
    BY <1>1, <1>2, CursorGood
  <1> QED
    BY <1>3 DEF t

\* Either buffer may be cleared, active or not (clearBuffer).
LEMMA ClearBufferGood ==
  ASSUME NEW s, Good(s), NEW buf \in Buffers
  PROVE  Good(ClearBuffer(s, buf)) /\ Kept(s, ClearBuffer(s, buf))
  <1> DEFINE t == ClearBuffer(s, buf)
             ls == [y \in 0..(s.rows - 1) |-> BlankLine(s)]
  <1>1. /\ DOMAIN t = ScreenFields
        /\ \A f \in ScreenFields : f # "lines" => t[f] = s[f]
        /\ t.lines = [s.lines EXCEPT ![buf] = ls]
    BY DEF Good, Geometry, ClearBuffer, ScreenFields
  <1>2. DOMAIN ls = 0..(s.rows - 1) /\ \A y \in 0..(s.rows - 1) : LineOK(ls[y], s.cols)
    BY BlankIsALine
  <1> HIDE DEF t, ls
  <1>3. Kept(s, t)
    BY <1>1 DEF Kept, ScreenFields
  <1>4. /\ t.tabs = s.tabs /\ t.saved = s.saved
        /\ t.hist = s.hist /\ t.hscrolled = s.hscrolled
    BY <1>1 DEF ScreenFields
  <1>5. Geometry(t) /\ Cursor(t) /\ Margins(t) /\ Stops(t) /\ Saves(t) /\ History(t)
    BY <1>1, <1>3, <1>4 DEF Good, Geometry, Cursor, Margins, Stops, Saves, History, Kept
  <1>6. Sheets(t)
    BY <1>1, <1>2, <1>3 DEF Good, Geometry, Sheets, Kept
  <1> QED
    BY <1>3, <1>5, <1>6 DEF Good, t

\* ?47, ?1047 and ?1049 in both directions (altScreen).
LEMMA AltScreenGood ==
  ASSUME NEW s, Good(s), NEW v, NEW set
  PROVE  Good(AltScreen(s, v, set))
  <1>1. Good(SaveCursor(s)) /\ Good(SwitchBuffer(s, "main")) /\ Good(SwitchBuffer(s, "alt"))
    BY SaveCursorGood, SwitchBufferGood DEF Buffers
  <1>2. Good(RestoreCursor(SwitchBuffer(s, "main")))
    BY <1>1, RestoreCursorGood
  <1>3. Good(SwitchBuffer(ClearBuffer(SaveCursor(s), "alt"), "alt"))
    BY <1>1, ClearBufferGood, SwitchBufferGood DEF Buffers
  <1>4. Good(SwitchBuffer(ClearBuffer(s, "alt"), "main"))
    BY ClearBufferGood, SwitchBufferGood DEF Buffers
  <1> QED
    BY <1>1, <1>2, <1>3, <1>4 DEF AltScreen

\* Modes other than autowrap are free.
Tuned(s, t) ==
    /\ DOMAIN t = ScreenFields /\ SameSheets(s, t) /\ SameFrame(s, t)
    /\ t.cx = s.cx /\ t.cy = s.cy /\ t.pendingWrap = s.pendingWrap
    /\ DOMAIN t.modes = ModeFields /\ t.modes.autowrap = s.modes.autowrap
\* Modes other than autowrap are no part of the invariant (setDECMode).
LEMMA TunedGood ==
  ASSUME NEW s, Good(s), NEW t, Tuned(s, t)
  PROVE  Good(t)
  <1>1. Cursor(t)
    BY DEF Tuned, Good, Cursor, SameSheets
  <1> QED
    BY <1>1, CursorGood DEF Tuned

\* Each of those modes, one by one (setDECMode).
LEMMA ModeTuned ==
  ASSUME NEW s, Good(s), NEW v
  PROVE  /\ Good([s EXCEPT !.modes.appCursor = v])
         /\ Good([s EXCEPT !.modes.appKeypad = v])
         /\ Good([s EXCEPT !.modes.visible = v])
         /\ Good([s EXCEPT !.modes.focus = v])
         /\ Good([s EXCEPT !.modes.paste = v])
         /\ Good([s EXCEPT !.modes.mouse = v])
         /\ Good([s EXCEPT !.modes.encoding = v])
         /\ Good([s EXCEPT !.modes.insert = v])
         /\ Good([s EXCEPT !.modes.origin = v])
  <1> USE DEF Good, Geometry, Tuned, SameSheets, SameFrame, ScreenFields, ModeFields, DefaultModes
  <1>1. Tuned(s, [s EXCEPT !.modes.appCursor = v])
    OBVIOUS
  <1>2. Tuned(s, [s EXCEPT !.modes.appKeypad = v])
    OBVIOUS
  <1>3. Tuned(s, [s EXCEPT !.modes.visible = v])
    OBVIOUS
  <1>4. Tuned(s, [s EXCEPT !.modes.focus = v])
    OBVIOUS
  <1>5. Tuned(s, [s EXCEPT !.modes.paste = v])
    OBVIOUS
  <1>6. Tuned(s, [s EXCEPT !.modes.mouse = v])
    OBVIOUS
  <1>7. Tuned(s, [s EXCEPT !.modes.encoding = v])
    OBVIOUS
  <1>8. Tuned(s, [s EXCEPT !.modes.insert = v])
    OBVIOUS
  <1>9. Tuned(s, [s EXCEPT !.modes.origin = v])
    OBVIOUS
  <1> HIDE DEF Good, Geometry, Tuned, SameSheets, SameFrame, ScreenFields, ModeFields, DefaultModes
  <1>10. /\ Good([s EXCEPT !.modes.appCursor = v])
         /\ Good([s EXCEPT !.modes.appKeypad = v])
         /\ Good([s EXCEPT !.modes.visible = v])
    BY <1>1, <1>2, <1>3, TunedGood
  <1>11. /\ Good([s EXCEPT !.modes.focus = v])
         /\ Good([s EXCEPT !.modes.paste = v])
         /\ Good([s EXCEPT !.modes.mouse = v])
    BY <1>4, <1>5, <1>6, TunedGood
  <1>12. /\ Good([s EXCEPT !.modes.encoding = v])
         /\ Good([s EXCEPT !.modes.insert = v])
         /\ Good([s EXCEPT !.modes.origin = v])
    BY <1>7, <1>8, <1>9, TunedGood
  <1> QED
    BY <1>10, <1>11, <1>12

\* Pen, character sets, cursor style and title (sgr, dispatchEscInter, osc).
LEMMA PassiveGood ==
  ASSUME NEW s, Good(s), NEW v
  PROVE  /\ Good([s EXCEPT !.pen = v])
         /\ Good([s EXCEPT !.gl = v])
         /\ Good([s EXCEPT !.cursorStyle = v])
         /\ Good([s EXCEPT !.title = v])
         /\ \A i : Good([s EXCEPT !.g[i] = v])
  <1> USE DEF Good, Geometry, Tuned, SameSheets, SameFrame, ScreenFields
  <1>1. Tuned(s, [s EXCEPT !.pen = v])
    OBVIOUS
  <1>2. Tuned(s, [s EXCEPT !.gl = v])
    OBVIOUS
  <1>3. Tuned(s, [s EXCEPT !.cursorStyle = v])
    OBVIOUS
  <1>4. Tuned(s, [s EXCEPT !.title = v])
    OBVIOUS
  <1>5. ASSUME NEW i PROVE Tuned(s, [s EXCEPT !.g[i] = v])
    OBVIOUS
  <1> HIDE DEF Good, Geometry, Tuned, SameSheets, SameFrame, ScreenFields
  <1>6. Good([s EXCEPT !.pen = v]) /\ Good([s EXCEPT !.gl = v])
    BY <1>1, <1>2, TunedGood
  <1>7. Good([s EXCEPT !.cursorStyle = v]) /\ Good([s EXCEPT !.title = v])
    BY <1>3, <1>4, TunedGood
  <1>8. \A i : Good([s EXCEPT !.g[i] = v])
    BY <1>5, TunedGood
  <1> QED
    BY <1>6, <1>7, <1>8

\* Turning autowrap off drops a pending wrap (setDECMode, mode 7).
LEMMA AutowrapGood ==
  ASSUME NEW s, Good(s), NEW set
  PROVE  Good([s EXCEPT !.modes.autowrap = set, !.pendingWrap = @ /\ set])
  <1> DEFINE t == [s EXCEPT !.modes.autowrap = set, !.pendingWrap = @ /\ set]
  <1>1. /\ DOMAIN t = ScreenFields /\ SameSheets(s, t) /\ SameFrame(s, t)
        /\ t.cx = s.cx /\ t.cy = s.cy /\ t.pendingWrap = (s.pendingWrap /\ set)
        /\ DOMAIN t.modes = ModeFields /\ t.modes.autowrap = set
    BY DEF Good, Geometry, SameSheets, SameFrame, ScreenFields, ModeFields, DefaultModes
  <1> HIDE DEF t
  <1>2. Cursor(t)
    BY <1>1 DEF Good, Cursor, SameSheets
  <1>3. Good(t)
    BY <1>1, <1>2, CursorGood
  <1> QED
    BY <1>3 DEF t

\* Every DEC private mode, known or not (setDECMode).
LEMMA SetModeGood ==
  ASSUME NEW s, Good(s), NEW v \in Int, NEW set
  PROVE  Good(SetMode(s, v, set))
  <1>1. CASE v = 1
    <2>1. SetMode(s, v, set) = [s EXCEPT !.modes.appCursor = set]
      BY <1>1 DEF SetMode, MouseModes, MouseEncodings
    <2>2. Good([s EXCEPT !.modes.appCursor = set])
      BY ModeTuned
    <2> QED
      BY <2>1, <2>2
  <1>2. CASE v = 6
    <2>1. SetMode(s, v, set) = MoveToOrigin([s EXCEPT !.modes.origin = set], 0, 0)
      BY <1>2 DEF SetMode, MouseModes, MouseEncodings
    <2>2. Good([s EXCEPT !.modes.origin = set])
      BY ModeTuned
    <2> QED
      BY <2>1, <2>2, MoveToOriginGood
  <1>3. CASE v = 7
    <2>1. SetMode(s, v, set) = [s EXCEPT !.modes.autowrap = set, !.pendingWrap = @ /\ set]
      BY <1>3 DEF SetMode, MouseModes, MouseEncodings
    <2>2. Good([s EXCEPT !.modes.autowrap = set, !.pendingWrap = @ /\ set])
      BY AutowrapGood
    <2> QED
      BY <2>1, <2>2
  <1>4. CASE v = 25
    <2>1. SetMode(s, v, set) = [s EXCEPT !.modes.visible = set]
      BY <1>4 DEF SetMode, MouseModes, MouseEncodings
    <2>2. Good([s EXCEPT !.modes.visible = set])
      BY ModeTuned
    <2> QED
      BY <2>1, <2>2
  <1>5. CASE v = 66
    <2>1. SetMode(s, v, set) = [s EXCEPT !.modes.appKeypad = set]
      BY <1>5 DEF SetMode, MouseModes, MouseEncodings
    <2>2. Good([s EXCEPT !.modes.appKeypad = set])
      BY ModeTuned
    <2> QED
      BY <2>1, <2>2
  <1>6. CASE v = 1004
    <2>1. SetMode(s, v, set) = [s EXCEPT !.modes.focus = set]
      BY <1>6 DEF SetMode, MouseModes, MouseEncodings
    <2>2. Good([s EXCEPT !.modes.focus = set])
      BY ModeTuned
    <2> QED
      BY <2>1, <2>2
  <1>7. CASE v = 2004
    <2>1. SetMode(s, v, set) = [s EXCEPT !.modes.paste = set]
      BY <1>7 DEF SetMode, MouseModes, MouseEncodings
    <2>2. Good([s EXCEPT !.modes.paste = set])
      BY ModeTuned
    <2> QED
      BY <2>1, <2>2
  <1>8. CASE v = 1048
    BY <1>8, SaveCursorGood, RestoreCursorGood DEF SetMode, MouseModes, MouseEncodings
  <1>9. CASE v \in MouseModes
    <2>1. SetMode(s, v, set) = [s EXCEPT !.modes.mouse = (IF set THEN v ELSE 0)]
      BY <1>9 DEF SetMode, MouseModes, MouseEncodings
    <2>2. Good([s EXCEPT !.modes.mouse = (IF set THEN v ELSE 0)])
      BY ModeTuned
    <2> QED
      BY <2>1, <2>2
  <1>10. CASE v \in MouseEncodings
    <2>1. SetMode(s, v, set) = [s EXCEPT !.modes.encoding = (IF set THEN v ELSE 0)]
      BY <1>10 DEF SetMode, MouseModes, MouseEncodings
    <2>2. Good([s EXCEPT !.modes.encoding = (IF set THEN v ELSE 0)])
      BY ModeTuned
    <2> QED
      BY <2>1, <2>2
  <1>11. CASE v \notin {1, 6, 7, 25, 66, 1004, 2004, 1048} \cup MouseModes \cup MouseEncodings
    <2>1. SetMode(s, v, set) = s
      BY <1>11 DEF SetMode, MouseModes, MouseEncodings
    <2> QED
      BY <2>1
  <1> QED
    BY <1>1, <1>2, <1>3, <1>4, <1>5, <1>6, <1>7, <1>8, <1>9, <1>10, <1>11

----------------------------------------------------------------------------
\* Resets

\* A reset leaves the buffers and the history alone and puts everything else in
\* its power-on state: one lemma for a new screen and for RIS (resetState).
LEMMA ResetStateGood ==
  ASSUME NEW s, Geometry(s), Sheets(s), History(s)
  PROVE  Good(ResetState(s))
  <1> DEFINE t == ResetState(s)
  <1>1. /\ DOMAIN t = ScreenFields
        /\ t.cols = s.cols /\ t.rows = s.rows /\ t.limit = s.limit /\ t.active = s.active
        /\ t.lines = s.lines /\ t.hist = s.hist /\ t.hscrolled = s.hscrolled
    BY DEF ResetState, Geometry, ScreenFields
  <1>2. /\ t.cx = 0 /\ t.cy = 0 /\ t.pendingWrap = FALSE
        /\ t.top = 0 /\ t.bottom = s.rows - 1 /\ t.tabs = DefaultTabs(0, s.cols)
        /\ t.modes = DefaultModes /\ t.saved = [b \in Buffers |-> NoSave]
    BY DEF ResetState, Geometry, ScreenFields
  <1> HIDE DEF t
  <1>3. s.cols \in Nat \ {0} /\ s.rows \in Nat \ {0}
    BY ScreenAssumption DEF Geometry
  <1>4. Geometry(t) /\ Sheets(t) /\ History(t)
    BY <1>1, <1>2 DEF Geometry, Sheets, History, ModeFields
  <1>5. Cursor(t) /\ Margins(t)
    BY <1>1, <1>2, <1>3 DEF Cursor, Margins
  <1>6. Stops(t)
    BY <1>1, <1>2 DEF Stops, DefaultTabs
  <1>7. Saves(t)
    BY <1>2 DEF Saves, SaveFields, NoSave
  <1> QED
    BY <1>4, <1>5, <1>6, <1>7 DEF Good, t

\* A new screen is clamped to the sizes the code allows and is blank (New).
LEMMA NewScreenGood ==
  ASSUME NEW c \in Int, NEW r \in Int, NEW limit \in Int
  PROVE  Good(NewScreen(c, r, limit))
  <1> DEFINE cols == Clamp(c, 1, MaxDim)
             rows == Clamp(r, 1, MaxDim)
             s == [cols |-> cols, rows |-> rows, limit |-> Larger(limit, 0),
            lines |-> [b \in Buffers |-> [y \in 0..(rows - 1) |-> EmptyLine(cols)]],
            active |-> "main", hist |-> <<>>, hscrolled |-> 0, title |-> <<>>,
            cx |-> 0, cy |-> 0, pendingWrap |-> FALSE, pen |-> Plain, g |-> Ascii,
            gl |-> 0, saved |-> [b \in Buffers |-> NoSave], top |-> 0,
            bottom |-> rows - 1, tabs |-> {}, modes |-> DefaultModes,
            cursorStyle |-> 0, last |-> [r |-> "", w |-> 0]]
  <1>1. NewScreen(c, r, limit) = ResetState(s)
    BY DEF NewScreen
  <1>2. cols \in 1..MaxDim /\ rows \in 1..MaxDim /\ Larger(limit, 0) \in Nat
    BY ScreenAssumption DEF Clamp, Larger
  <1> HIDE DEF cols, rows
  <1>3. LineOK(EmptyLine(cols), cols)
    <2>1. cols \in Nat \ {0}
      BY <1>2, ScreenAssumption
    <2>2. Row(ZeroCells(cols), cols)
      BY <2>1, LoneRow, ZeroCellLone DEF ZeroCells
    <2> QED
      BY <2>2 DEF LineOK, EmptyLine
  <1>4. Geometry(s)
    BY <1>2 DEF Geometry, ScreenFields, Buffers, ModeFields
  <1>5. Sheets(s)
    BY <1>3 DEF Sheets
  <1>6. s.hist \in Seq({}) /\ Len(s.hist) = 0 /\ s.hscrolled = 0 /\ s.limit \in Nat
    BY <1>2
  <1> HIDE DEF s
  <1>7. History(s)
    BY <1>6 DEF History, IsHistory, Scrolled
  <1> QED
    BY <1>1, <1>4, <1>5, <1>7, ResetStateGood

\* RIS clears the main screen into the history, the alternate one outright, and
\* resets the rest (fullReset).
LEMMA FullResetGood ==
  ASSUME NEW s, Good(s)
  PROVE  Good(FullReset(s))
  <1> DEFINE a == ClearBuffer(SwitchBuffer(s, "main"), "alt")
             t == [a EXCEPT !.pen = Plain]
             u == IF CanScrollOnClear(t) THEN ClearToHistory(t) ELSE ClearBuffer(t, "main")
  <1>1. Good(a)
    BY SwitchBufferGood, ClearBufferGood DEF Buffers
  <1>2. FullReset(s) = ResetState(u)
    BY DEF FullReset
  <1> HIDE DEF a
  <1>3. Good(t)
    BY <1>1, PassiveGood
  <1> HIDE DEF t
  <1>4. Good(u)
    BY <1>3, ClearToHistoryGood, ClearBufferGood DEF Buffers
  <1> HIDE DEF u
  <1> QED
    BY <1>2, <1>4, ResetStateGood DEF Good

\* DECSTR keeps the contents and the cursor's place; the pending wrap it drops
\* is what keeps the cursor in order (softReset).
LEMMA SoftResetGood ==
  ASSUME NEW s, Good(s)
  PROVE  Good(SoftReset(s))
  <1> DEFINE t == SoftReset(s)
  <1>1. /\ DOMAIN t = ScreenFields /\ SameSheets(s, t)
        /\ t.cx = s.cx /\ t.cy = s.cy /\ t.pendingWrap = FALSE
        /\ t.top = 0 /\ t.bottom = s.rows - 1 /\ t.tabs = s.tabs
        /\ t.saved = [b \in Buffers |-> NoSave]
    BY DEF SoftReset, Good, Geometry, ScreenFields, SameSheets
  <1>2. DOMAIN t.modes = ModeFields
    BY DEF SoftReset, Good, Geometry, ScreenFields, ModeFields, DefaultModes
  <1> HIDE DEF t
  <1>3. Cursor(t) /\ Margins(t) /\ Stops(t)
    BY <1>1, InBounds DEF Cursor, Margins, Stops, SameSheets, Good
  <1>4. Saves(t)
    BY <1>1 DEF Saves, SaveFields, NoSave
  <1>5. Good(t)
    BY <1>1, <1>2, <1>3, <1>4, SameSheetsGood
  <1> QED
    BY <1>5 DEF t

\* DECALN fills the screen with narrow glyphs and puts the margins back to its
\* edges before the cursor goes home (alignmentTest).
LEMMA AlignmentTestGood ==
  ASSUME NEW s, Good(s)
  PROVE  Good(AlignmentTest(s))
  <1> DEFINE cells == [x \in 0..(s.cols - 1) |-> Cell("E", "none", Plain)]
             ls == [y \in 0..(s.rows - 1) |-> [cells |-> cells, used |-> TRUE]]
             t == WithLines(s, ls)
             u == [t EXCEPT !.top = 0, !.bottom = s.rows - 1, !.modes.origin = FALSE]
  <1>1. AlignmentTest(s) = MoveTo(u, 0, 0)
    BY DEF AlignmentTest
  <1>2. Row(cells, s.cols)
    BY InBounds, LoneRow DEF Lone, IsCell, CellFields, Cell
  <1> HIDE DEF cells
  <1>3. DOMAIN ls = 0..(s.rows - 1) /\ \A y \in 0..(s.rows - 1) : LineOK(ls[y], s.cols)
    BY <1>2 DEF LineOK
  <1> HIDE DEF ls
  <1>4. Good(t) /\ Kept(s, t)
    BY <1>3, WithLinesGood
  <1> HIDE DEF t
  <1>5. /\ DOMAIN u = ScreenFields /\ SameSheets(t, u)
        /\ u.cx = t.cx /\ u.cy = t.cy /\ u.pendingWrap = t.pendingWrap
        /\ u.top = 0 /\ u.bottom = s.rows - 1 /\ u.tabs = t.tabs /\ u.saved = t.saved
        /\ u.modes = [t.modes EXCEPT !.origin = FALSE]
    BY <1>4 DEF Good, Geometry, ScreenFields, SameSheets
  <1> HIDE DEF u
  <1>6. DOMAIN u.modes = ModeFields /\ u.modes.autowrap = t.modes.autowrap
    BY <1>4, <1>5 DEF Good, Geometry, ModeFields, DefaultModes
  <1>7. Cursor(u) /\ Stops(u) /\ Saves(u)
    BY <1>4, <1>5, <1>6 DEF Good, Cursor, Stops, Saves, SameSheets
  <1>8. Margins(u)
    BY <1>4, <1>5, InBounds DEF Margins, Kept, SameSheets
  <1>9. Good(u)
    BY <1>4, <1>5, <1>6, <1>7, <1>8, SameSheetsGood
  <1> QED
    BY <1>1, <1>9, MoveToGood

----------------------------------------------------------------------------
\* Size

\* A screen halfway through a resize: its buffers have their size, its cursors
\* and margins may still be those of the old one.
Loose(s) ==
    /\ Geometry(s) /\ Stops(s) /\ Saves(s) /\ Sheets(s) /\ History(s)
    /\ s.cx \in Int /\ s.cy \in Int
    /\ s.pendingWrap => s.cx = s.cols - 1 /\ s.modes.autowrap

\* Columns cut or added: a wide glyph cut in half is cleared, tab stops beyond
\* the edge go, and a wrap that was pending in the old last column is dropped
\* (resizeCols).
LEMMA ResizeColsLoose ==
  ASSUME NEW s, Good(s), NEW cols \in 1..MaxDim
  PROVE  LET t == ResizeCols(s, cols)
         IN  /\ Loose(t) /\ t.cols = cols /\ t.rows = s.rows
             /\ t.hist = s.hist /\ t.hscrolled = s.hscrolled
  <1> DEFINE t == ResizeCols(s, cols)
             new == [b \in Buffers |-> [y \in 0..(s.rows - 1) |->
                        [s.lines[b][y] EXCEPT !.cells = FitCells(@, s.cols, cols)]]]
             stops == {x \in s.tabs : x < cols} \cup DefaultTabs(s.cols, cols)
  <1>0. s.cols \in Nat \ {0} /\ cols \in Nat \ {0}
    BY InBounds, ScreenAssumption
  <1>1. CASE cols = s.cols
    <2>1. t = s
      BY <1>1 DEF ResizeCols
    <2>2. Loose(s)
      BY InBounds DEF Good, Cursor, Loose
    <2> QED
      BY <1>1, <2>1, <2>2
  <1>2. CASE cols # s.cols
    <2>1. /\ DOMAIN t = ScreenFields
          /\ t.cols = cols /\ t.rows = s.rows /\ t.limit = s.limit /\ t.active = s.active
          /\ t.hist = s.hist /\ t.hscrolled = s.hscrolled /\ t.modes = s.modes
          /\ t.saved = s.saved /\ t.cx = s.cx /\ t.cy = s.cy
      BY <1>2 DEF ResizeCols, Good, Geometry, ScreenFields
    <2>2. t.pendingWrap = FALSE /\ t.lines = new /\ t.tabs = stops
      BY <1>2 DEF ResizeCols, Good, Geometry, ScreenFields
    <2> HIDE DEF t
    <2>3. ASSUME NEW b \in Buffers, NEW y \in 0..(s.rows - 1)
          PROVE  LineOK(new[b][y], cols)
      <3> DEFINE line == s.lines[b][y]
                 fit == [line EXCEPT !.cells = FitCells(@, s.cols, cols)]
      <3>1. DOMAIN line = {"cells", "used"} /\ Row(line.cells, s.cols)
        BY DEF Good, Sheets, LineOK
      <3> HIDE DEF line
      <3>2. Row(FitCells(line.cells, s.cols, cols), cols)
        BY <1>0, <3>1, FitRow
      <3>3. DOMAIN fit = {"cells", "used"} /\ fit.cells = FitCells(line.cells, s.cols, cols)
        BY <3>1
      <3> HIDE DEF fit
      <3>4. LineOK(fit, cols)
        BY <3>2, <3>3 DEF LineOK
      <3> QED
        BY <3>4 DEF fit, line
    <2>4. \A b \in Buffers : DOMAIN new[b] = 0..(s.rows - 1)
      OBVIOUS
    <2>5. DOMAIN new = Buffers
      OBVIOUS
    <2> HIDE DEF new
    <2>6. Sheets(t)
      BY <2>1, <2>2, <2>3, <2>4, <2>5 DEF Sheets
    <2>7. Stops(t)
      BY <1>0, <2>1, <2>2 DEF Good, Stops, DefaultTabs
    <2>8. Geometry(t) /\ Saves(t) /\ History(t)
      BY <2>1 DEF Good, Geometry, Saves, History
    <2>9. t.cx \in Int /\ t.cy \in Int
      BY <2>1, InBounds
    <2>10. Loose(t)
      BY <2>2, <2>6, <2>7, <2>8, <2>9 DEF Loose
    <2> QED
      BY <2>1, <2>10 DEF t
  <1> QED
    BY <1>1, <1>2

\* A shorter screen loses at most the rows it has too many, a taller one none
\* (resizeRows).
LEMMA LostRows ==
  ASSUME NEW s, s.rows \in Nat, NEW rows \in Nat, NEW y \in Int
  PROVE  /\ Lost(s, rows, y) \in Nat
         /\ rows >= s.rows => Lost(s, rows, y) = 0
  BY DEF Lost, Larger, Smaller

\* The rows of a resized buffer: each is a row pulled back out of the history,
\* an old one or a blank one (resizeRows).
LEMMA FitRowsGood ==
  ASSUME NEW s, Loose(s), NEW buf \in Buffers, NEW rows \in Nat,
         NEW n \in Nat, NEW pulled, Len(pulled) = n,
         \A i \in 1..n : LineOK(pulled[i], s.cols),
         NEW lost \in Nat
  PROVE  LET ls == FitRows(s, buf, rows, pulled, lost)
         IN  DOMAIN ls = 0..(rows - 1) /\ \A y \in 0..(rows - 1) : LineOK(ls[y], s.cols)
  <1> DEFINE ls == FitRows(s, buf, rows, pulled, lost)
  <1>1. s.cols \in Nat \ {0} /\ s.rows \in Nat
    BY ScreenAssumption DEF Loose, Geometry
  <1>2. LineOK(EmptyLine(s.cols), s.cols)
    <2>1. Row(ZeroCells(s.cols), s.cols)
      BY <1>1, LoneRow, ZeroCellLone DEF ZeroCells
    <2> QED
      BY <2>1 DEF LineOK, EmptyLine
  <1>3. ls = [y \in 0..(rows - 1) |->
                 IF y < n THEN pulled[y + 1]
                 ELSE IF y - n + lost < s.rows THEN s.lines[buf][y - n + lost]
                 ELSE EmptyLine(s.cols)]
    BY DEF FitRows
  <1> HIDE DEF ls
  <1>4. \A y \in 0..(s.rows - 1) : LineOK(s.lines[buf][y], s.cols)
    BY DEF Loose, Sheets
  <1>5. ASSUME NEW y \in 0..(rows - 1)
        PROVE  LineOK(ls[y], s.cols)
    <2>1. CASE y < n
      BY <1>3, <2>1
    <2>2. CASE ~(y < n) /\ y - n + lost < s.rows
      <3>1. y - n + lost \in 0..(s.rows - 1)
        BY <1>1, <2>2
      <3> QED
        BY <1>3, <1>4, <2>2, <3>1
    <2>3. CASE ~(y < n) /\ ~(y - n + lost < s.rows)
      BY <1>2, <1>3, <2>3
    <2> QED
      BY <2>1, <2>2, <2>3
  <1>6. DOMAIN ls = 0..(rows - 1)
    BY <1>3
  <1> QED
    BY <1>5, <1>6 DEF ls

\* Taking the pulled lines off the history leaves the newest of the rest
\* scrolled ones (resizeRows).
LEMMA PulledHistory ==
  ASSUME NEW s, History(s), NEW n \in Nat, n <= Len(s.hist), n <= s.hscrolled
  PROVE  LET h == SubSeq(s.hist, 1, Len(s.hist) - n)
         IN  IsHistory(h) /\ Len(h) <= Len(s.hist) /\ Scrolled(h, s.hscrolled - n)
  <1> DEFINE h == SubSeq(s.hist, 1, Len(s.hist) - n)
  <1>1. PICK S : s.hist \in Seq(S)
    BY DEF History, IsHistory
  <1>2. Len(s.hist) \in Nat
    BY <1>1
  <1>3. /\ h \in Seq(S) /\ Len(h) = Len(s.hist) - n
        /\ \A i \in 1..Len(h) : h[i] = s.hist[i]
    BY <1>1, <1>2
  <1> HIDE DEF h
  <1>4. s.hscrolled \in Nat /\ Scrolled(s.hist, s.hscrolled)
    BY DEF History
  <1>5. ASSUME NEW i \in 1..Len(h), i > Len(h) - (s.hscrolled - n)
        PROVE  h[i].how = "scroll"
    <2>1. i \in 1..Len(s.hist) /\ i > Len(s.hist) - s.hscrolled
      BY <1>2, <1>3, <1>4, <1>5
    <2>2. s.hist[i].how = "scroll"
      BY <1>4, <2>1 DEF Scrolled
    <2> QED
      BY <1>3, <2>2
  <1>6. IsHistory(h) /\ Scrolled(h, s.hscrolled - n)
    BY <1>3, <1>5 DEF IsHistory, Scrolled
  <1>7. Len(h) <= Len(s.hist)
    BY <1>2, <1>3
  <1> QED
    BY <1>6, <1>7 DEF h

\* Rows cut or added: what leaves the top of the main screen goes into the
\* history as scrolled, what comes back was scrolled (resizeRows).
LEMMA ResizeRowsLoose ==
  ASSUME NEW s, Loose(s), NEW rows \in 1..MaxDim,
         NEW pulled, Len(pulled) = PullCount(s, rows),
         \A i \in 1..PullCount(s, rows) : LineOK(pulled[i], s.cols)
  PROVE  Loose(ResizeRows(s, rows, pulled))
  <1> DEFINE altLost  == IF s.active = "alt" THEN Lost(s, rows, s.cy) ELSE Lost(s, rows, 0)
             liveRow  == s.cy - altLost
             mainLost == Lost(s, rows, MainRow(s, liveRow))
             n        == PullCount(s, rows)
             mainRow  == MainRow(s, liveRow) - mainLost + n
             keep     == mainLost > 0 /\ s.limit > 0
             push     == Push(s.hist, s.limit, Texts(s, s.lines["main"], mainLost), "scroll")
             short    == SubSeq(s.hist, 1, Len(s.hist) - n)
             main     == FitRows(s, "main", rows, pulled, mainLost)
             alt      == FitRows(s, "alt", rows, <<>>, altLost)
             t        == ResizeRows(s, rows, pulled)
  <1>0. /\ s.rows \in Nat \ {0} /\ s.cols \in Nat \ {0} /\ rows \in Nat \ {0}
        /\ s.cy \in Int /\ s.limit \in Nat /\ s.hscrolled \in Nat /\ Len(s.hist) \in Nat
        /\ Len(s.hist) <= s.limit
    <2>1. PICK S : s.hist \in Seq(S)
      BY DEF Loose, History, IsHistory
    <2>2. Len(s.hist) \in Nat
      BY <2>1
    <2> QED
      BY <2>2, ScreenAssumption DEF Loose, Geometry, History
  <1>1. altLost \in Nat
    <2>1. s.rows \in Nat /\ rows \in Nat
      BY <1>0
    <2>2. s.cy \in Int
      BY <1>0
    <2>3. Lost(s, rows, s.cy) \in Nat
      BY <2>1, <2>2, LostRows
    <2>4. Lost(s, rows, 0) \in Nat
      BY <2>1, LostRows
    <2> QED
      BY <2>3, <2>4
  <1>2. MainRow(s, liveRow) \in Int
    <2>1. liveRow \in Int
      BY <1>0, <1>1
    <2>2. s.saved["main"].y \in Int
      BY DEF Loose, Saves, Buffers
    <2> QED
      BY <1>0, <2>1, <2>2 DEF MainRow, Clamp
  <1>3. mainLost \in Nat /\ (rows >= s.rows => mainLost = 0)
    BY <1>0, <1>2, LostRows
  <1>4. /\ n \in Nat /\ n <= Len(s.hist) /\ n <= s.hscrolled
        /\ rows <= s.rows => n = 0
    BY <1>0 DEF PullCount, Smaller, Larger
  <1>5. keep => n = 0
    BY <1>0, <1>3, <1>4
  <1>6. liveRow \in Int /\ mainRow \in Int
    BY <1>0, <1>1, <1>2, <1>3, <1>4
  <1>7. CASE rows = s.rows
    BY <1>7 DEF ResizeRows
  <1>8. CASE rows # s.rows
    <2>1. /\ DOMAIN t = ScreenFields
          /\ t.cols = s.cols /\ t.rows = rows /\ t.limit = s.limit /\ t.active = s.active
          /\ t.modes = s.modes /\ t.tabs = s.tabs
          /\ t.cx = s.cx /\ t.pendingWrap = s.pendingWrap
      BY <1>8 DEF ResizeRows, Loose, Geometry, ScreenFields
    <2>2. t.lines = [b \in Buffers |-> IF b = "main" THEN main ELSE
                        FitRows(s, b, rows, <<>>, altLost)]
      BY <1>8 DEF ResizeRows, Loose, Geometry, ScreenFields
    <2>3. /\ t.hist = IF keep THEN push ELSE short
          /\ t.hscrolled = s.hscrolled - n + (IF keep THEN mainLost ELSE 0)
      BY <1>8 DEF ResizeRows, Loose, Geometry, ScreenFields
    <2>4. t.cy = IF s.active = "main" THEN mainRow ELSE liveRow
      BY <1>8 DEF ResizeRows, Loose, Geometry, ScreenFields
    <2>5. t.saved = [s.saved EXCEPT !["main"].y =
                        IF s.active = "alt" /\ s.saved["main"].valid THEN mainRow ELSE @]
      BY <1>8 DEF ResizeRows, Loose, Geometry, ScreenFields
    <2> HIDE DEF t, mainLost, altLost, n
    <2>6. DOMAIN main = 0..(rows - 1) /\ \A y \in 0..(rows - 1) : LineOK(main[y], s.cols)
      <3>1. Len(pulled) = n /\ \A i \in 1..n : LineOK(pulled[i], s.cols)
        BY DEF n
      <3> QED
        BY <1>0, <1>3, <1>4, <3>1, FitRowsGood DEF Buffers
    <2>7. DOMAIN alt = 0..(rows - 1) /\ \A y \in 0..(rows - 1) : LineOK(alt[y], s.cols)
      <3> DEFINE none == <<>>
      <3>1. Len(none) = 0 /\ \A i \in 1..0 : LineOK(none[i], s.cols)
        OBVIOUS
      <3> QED
        BY <1>0, <1>1, <3>1, FitRowsGood DEF Buffers
    <2>8. Sheets(t)
      <3>1. /\ DOMAIN t.lines = Buffers
            /\ t.lines["main"] = main /\ t.lines["alt"] = alt
        BY <2>2 DEF Buffers
      <3> HIDE DEF main, alt
      <3>2. ASSUME NEW b \in Buffers
            PROVE  t.lines[b] = main \/ t.lines[b] = alt
        BY <3>1 DEF Buffers
      <3> QED
        BY <2>1, <2>6, <2>7, <3>1, <3>2 DEF Sheets
    <2>9. History(t)
      <3>1. CASE keep
        <4>1. IsHistory(push) /\ Len(push) <= s.limit /\ Scrolled(push, s.hscrolled + mainLost)
          BY <1>0, <1>3, PushedTexts DEF Loose
        <4> HIDE DEF push
        <4> QED
          BY <1>0, <1>3, <1>5, <2>1, <2>3, <3>1, <4>1 DEF History
      <3>2. CASE ~keep
        <4>1. IsHistory(short) /\ Len(short) <= Len(s.hist) /\ Scrolled(short, s.hscrolled - n)
          BY <1>4, PulledHistory DEF Loose
        <4>2. Len(short) \in Nat
          BY <4>1 DEF IsHistory
        <4> HIDE DEF short, keep
        <4> QED
          BY <1>0, <1>4, <2>1, <2>3, <3>2, <4>1, <4>2 DEF History
      <3> QED
        BY <3>1, <3>2
    <2> HIDE DEF mainRow, liveRow
    <2>10. Saves(t)
      BY <1>6, <2>5 DEF Loose, Saves, Buffers, SaveFields, NoSave
    <2>11. Geometry(t) /\ Stops(t)
      BY <2>1 DEF Loose, Geometry, Stops
    <2>12. t.cx \in Int /\ t.cy \in Int /\ (t.pendingWrap => t.cx = t.cols - 1 /\ t.modes.autowrap)
      BY <1>6, <2>1, <2>4 DEF Loose
    <2>13. Loose(t)
      BY <2>8, <2>9, <2>10, <2>11, <2>12 DEF Loose
    <2> QED
      BY <2>13 DEF t
  <1> QED
    BY <1>7, <1>8

\* At the end of a resize the margins are at the edges and every cursor is
\* inside (the end of Resize).
LEMMA ConfinedGood ==
  ASSUME NEW s, Loose(s)
  PROVE  Good(Confined(s))
  <1> DEFINE t == Confined(s)
  <1>0. s.rows \in Nat \ {0} /\ s.cols \in Nat \ {0} /\ s.cx \in Int /\ s.cy \in Int
    BY ScreenAssumption DEF Loose, Geometry
  <1>1. /\ DOMAIN t = ScreenFields /\ SameSheets(s, t)
        /\ t.modes = s.modes /\ t.tabs = s.tabs /\ t.pendingWrap = s.pendingWrap
        /\ t.top = 0 /\ t.bottom = s.rows - 1
        /\ t.cx = Clamp(s.cx, 0, s.cols - 1) /\ t.cy = Clamp(s.cy, 0, s.rows - 1)
    BY DEF Confined, Loose, Geometry, ScreenFields, SameSheets
  <1>2. t.saved = [b \in Buffers |->
            [s.saved[b] EXCEPT !.x = Clamp(@, 0, s.cols - 1), !.y = Clamp(@, 0, s.rows - 1)]]
    BY DEF Confined, Loose, Geometry, ScreenFields
  <1> HIDE DEF t
  <1>3. Cursor(t)
    BY <1>0, <1>1 DEF Cursor, Clamp, SameSheets, Loose
  <1>4. Margins(t)
    BY <1>0, <1>1 DEF Margins, SameSheets
  <1>5. Stops(t)
    BY <1>1 DEF Stops, SameSheets, Loose
  <1>6. Saves(t)
    <2>1. ASSUME NEW b \in Buffers
          PROVE  DOMAIN t.saved[b] = SaveFields /\ t.saved[b].x \in Int /\ t.saved[b].y \in Int
      <3> DEFINE v == s.saved[b]
      <3>1. DOMAIN v = SaveFields /\ v.x \in Int /\ v.y \in Int
        BY DEF Loose, Saves
      <3>2. t.saved[b] = [v EXCEPT !.x = Clamp(@, 0, s.cols - 1), !.y = Clamp(@, 0, s.rows - 1)]
        BY <1>2
      <3> HIDE DEF v
      <3>3. Clamp(v.x, 0, s.cols - 1) \in Int /\ Clamp(v.y, 0, s.rows - 1) \in Int
        BY <1>0, <3>1 DEF Clamp
      <3> QED
        BY <3>1, <3>2, <3>3 DEF SaveFields, NoSave
    <2>2. DOMAIN t.saved = Buffers
      BY <1>2
    <2> QED
      BY <2>1, <2>2 DEF Saves
  <1>7. Geometry(t) /\ Sheets(t) /\ History(t)
    BY <1>1 DEF Loose, Geometry, Sheets, History, SameSheets
  <1> QED
    BY <1>3, <1>4, <1>5, <1>6, <1>7 DEF Good, t

\* Any new size, with any lines the history may hand back (Resize).
LEMMA ResizeGood ==
  ASSUME NEW s, Good(s), NEW cols \in 1..MaxDim, NEW rows \in 1..MaxDim,
         NEW pulled \in [1..PullCount(s, rows) -> Printed(cols)]
  PROVE  Good(ResizeWith(s, cols, rows, pulled))
  <1> DEFINE u == ResizeCols(s, cols)
             n == PullCount(s, rows)
  <1>1. /\ Loose(u) /\ u.cols = cols /\ u.rows = s.rows
        /\ u.hist = s.hist /\ u.hscrolled = s.hscrolled
    BY ResizeColsLoose
  <1>2. ResizeWith(s, cols, rows, pulled) =
           IF cols = s.cols /\ rows = s.rows THEN s ELSE Confined(ResizeRows(u, rows, pulled))
    BY DEF ResizeWith
  <1> HIDE DEF u
  <1>3. PullCount(u, rows) = n
    BY <1>1 DEF PullCount
  <1>4. n \in Nat
    <2>1. PICK S : s.hist \in Seq(S)
      BY DEF Good, History, IsHistory
    <2>2. Len(s.hist) \in Nat /\ s.hscrolled \in Nat /\ s.rows \in Nat /\ rows \in Nat
      BY <2>1, InBounds, ScreenAssumption DEF Good, History
    <2> QED
      BY <2>2 DEF PullCount, Smaller, Larger
  <1> HIDE DEF n
  <1>5. Len(pulled) = n
    BY <1>4 DEF n
  <1>6. ASSUME NEW i \in 1..n
        PROVE  LineOK(pulled[i], cols)
    <2>1. pulled[i] \in Printed(cols)
      BY DEF n
    <2>2. /\ DOMAIN pulled[i] = {"cells", "used"}
          /\ pulled[i].cells \in [0..(cols - 1) -> Cells] /\ Paired(pulled[i].cells, cols)
      BY <2>1 DEF Printed
    <2>3. \A c \in Cells : IsCell(c)
      BY DEF Cells, IsCell, CellFields
    <2>4. Row(pulled[i].cells, cols)
      BY <2>2, <2>3 DEF Row
    <2> QED
      BY <2>2, <2>4 DEF LineOK
  <1>7. Loose(ResizeRows(u, rows, pulled))
    BY <1>1, <1>3, <1>5, <1>6, ResizeRowsLoose
  <1> QED
    BY <1>2, <1>7, ConfinedGood

----------------------------------------------------------------------------
\* The theorems

\* A new screen is in order, whatever size and history limit it is asked for
\* (New).
LEMMA InitGood == Init => Good(scr)
  BY NewScreenGood DEF Init

\* Text, however it is printed, and a code point that joins the previous cell
\* (printGlyph, printASCII, combine, joinPrev, REP).
LEMMA WriteGood == Good(scr) /\ Write => Good(scr')
  <1> SUFFICES ASSUME Good(scr), Write PROVE Good(scr')
    OBVIOUS
  <1>1. CASE \E r \in Glyphs, w \in {1, 2} : scr' = PrintGlyph(scr, r, w)
    BY <1>1, PrintGlyphGood
  <1>2. CASE \E run \in Seq(Glyphs) : CanRun(scr, Len(run)) /\ scr' = PrintRun(scr, run)
    BY <1>2, PrintRunGood
  <1>3. CASE \E mark \in Glyphs : scr' = Combine(scr, mark)
    BY <1>3, CombineGood
  <1>4. CASE \E r \in Glyphs : JoinsPrev(scr, r) /\ scr' = JoinPrev(scr, r)
    BY <1>4, JoinPrevGood
  <1>5. CASE scr' = [scr EXCEPT !.last = [r |-> "", w |-> 0]]
    <2> DEFINE v == [r |-> "", w |-> 0]
    <2>1. Good([scr EXCEPT !.last = v])
      BY LastGood
    <2> QED
      BY <1>5, <2>1
  <1> QED
    BY <1>1, <1>2, <1>3, <1>4, <1>5 DEF Write

\* Line feeds, RI, CR and BS (control, dispatchEsc).
LEMMA FeedGood == Good(scr) /\ Feed => Good(scr')
  <1> SUFFICES ASSUME Good(scr), Feed PROVE Good(scr')
    OBVIOUS
  <1>1. Good(Unwrapped(scr))
    BY UnwrappedGood
  <1>2. Good(CarriageReturn(scr)) /\ Good(Backspace(scr))
    BY CarriageGood
  <1>3. Good(Index(Unwrapped(scr))) /\ Good(Index(CarriageReturn(scr)))
    BY <1>1, <1>2, IndexGood
  <1>4. Good(ReverseIndex(Unwrapped(scr)))
    BY <1>1, ReverseIndexGood
  <1> QED
    BY <1>2, <1>3, <1>4 DEF Feed

\* ED, EL and ECH with any argument.
LEMMA EraseGood == Good(scr) /\ Erase => Good(scr')
  <1> SUFFICES ASSUME Good(scr), Erase PROVE Good(scr')
    OBVIOUS
  <1>1. CASE \E mode \in Int : scr' = EraseDisplay(scr, mode)
    BY <1>1, EraseDisplayGood
  <1>2. CASE \E mode \in Int : scr' = EraseInLine(scr, mode)
    BY <1>2, EraseInLineGood
  <1>3. CASE \E n \in Some : scr' = EraseChars(scr, n)
    BY <1>3, EditCharsGood DEF Some
  <1> QED
    BY <1>1, <1>2, <1>3 DEF Erase

\* ICH, DCH, IL, DL, SU and SD with any count.
LEMMA ShiftGood == Good(scr) /\ Shift => Good(scr')
  <1> SUFFICES ASSUME Good(scr), NEW n \in Some,
                      \/ scr' = InsertChars(scr, n)
                      \/ scr' = DeleteChars(scr, n)
                      \/ scr' = InsertLines(scr, n)
                      \/ scr' = DeleteLines(scr, n)
                      \/ scr' = ScrollUp(scr, scr.top, scr.bottom, n, TRUE)
                      \/ scr' = ScrollDown(scr, scr.top, scr.bottom, n)
               PROVE  Good(scr')
    BY DEF Shift
  <1>1. n \in Nat
    BY DEF Some
  <1>2. Good(InsertChars(scr, n)) /\ Good(DeleteChars(scr, n))
    BY <1>1, EditCharsGood
  <1>3. Good(InsertLines(scr, n)) /\ Good(DeleteLines(scr, n))
    BY <1>1, EditLinesGood
  <1>4. /\ Good(ScrollUp(scr, scr.top, scr.bottom, n, TRUE))
        /\ Good(ScrollDown(scr, scr.top, scr.bottom, n))
    BY <1>1, ScrollRegionGood
  <1> QED
    BY <1>2, <1>3, <1>4

\* Cursor movement with any argument, tabs, and DECSTBM.
LEMMA MoveGood == Good(scr) /\ Move => Good(scr')
  <1> SUFFICES ASSUME Good(scr), Move PROVE Good(scr')
    OBVIOUS
  <1>1. CASE \E x, y \in Int : scr' = MoveTo(scr, x, y)
    BY <1>1, MoveToGood
  <1>2. CASE \E x, y \in Int : scr' = MoveToOrigin(scr, x, y)
    BY <1>2, MoveToOriginGood
  <1>3. CASE \E n \in Some : scr' = CursorUp(scr, n) \/ scr' = CursorDown(scr, n)
    BY <1>3, CursorUpDownGood DEF Some
  <1>4. CASE \E n \in Some : scr' = TabForward(scr, n) \/ scr' = TabBackward(scr, n)
    BY <1>4, TabGood DEF Some
  <1>5. CASE \E top \in Some, bottom \in Int : scr' = SetRegion(scr, top, bottom)
    BY <1>5, RegionGood DEF Some
  <1> QED
    BY <1>1, <1>2, <1>3, <1>4, <1>5 DEF Move

\* HTS, TBC and the default tab stops.
LEMMA TabsGood == Good(scr) /\ Tabs => Good(scr')
  <1> SUFFICES ASSUME Good(scr), Tabs PROVE Good(scr')
    OBVIOUS
  <1>1. scr.tabs \subseteq 0..(scr.cols - 1) /\ scr.cx \in 0..(scr.cols - 1)
    BY InBounds DEF Good, Stops
  <1>2. CASE scr' = SetTab(scr)
    <2> DEFINE T == scr.tabs \cup {scr.cx}
    <2>1. T \subseteq 0..(scr.cols - 1)
      BY <1>1
    <2>2. scr' = [scr EXCEPT !.tabs = T]
      BY <1>2 DEF SetTab
    <2> HIDE DEF T
    <2> QED
      BY <2>1, <2>2, StopsGood
  <1>3. CASE scr' = ClearTab(scr)
    <2> DEFINE T == scr.tabs \ {scr.cx}
    <2>1. T \subseteq 0..(scr.cols - 1)
      BY <1>1
    <2>2. scr' = [scr EXCEPT !.tabs = T]
      BY <1>3 DEF ClearTab
    <2> HIDE DEF T
    <2> QED
      BY <2>1, <2>2, StopsGood
  <1>4. CASE scr' = [scr EXCEPT !.tabs = {}]
    <2> DEFINE T == {}
    <2>1. T \subseteq 0..(scr.cols - 1)
      OBVIOUS
    <2>2. Good([scr EXCEPT !.tabs = T])
      BY <2>1, StopsGood
    <2> QED
      BY <1>4, <2>2
  <1>5. CASE scr' = [scr EXCEPT !.tabs = DefaultTabs(0, scr.cols)]
    <2>1. DefaultTabs(0, scr.cols) \subseteq 0..(scr.cols - 1)
      BY DEF DefaultTabs
    <2> QED
      BY <1>5, <2>1, StopsGood
  <1> QED
    BY <1>2, <1>3, <1>4, <1>5 DEF Tabs

\* Modes, renditions, character sets, cursor style and title.
LEMMA ModeGood == Good(scr) /\ Mode => Good(scr')
  <1> SUFFICES ASSUME Good(scr), Mode PROVE Good(scr')
    OBVIOUS
  <1>1. CASE \E v \in Int, set \in BOOLEAN : scr' = SetMode(scr, v, set)
    BY <1>1, SetModeGood
  <1>2. CASE \E set \in BOOLEAN : scr' = [scr EXCEPT !.modes.insert = set]
    <2>1. PICK set \in BOOLEAN : scr' = [scr EXCEPT !.modes.insert = set]
      BY <1>2
    <2>2. Good([scr EXCEPT !.modes.insert = set])
      BY ModeTuned
    <2> QED
      BY <2>1, <2>2
  <1>3. CASE \E set \in BOOLEAN : scr' = [scr EXCEPT !.modes.appKeypad = set]
    <2>1. PICK set \in BOOLEAN : scr' = [scr EXCEPT !.modes.appKeypad = set]
      BY <1>3
    <2>2. Good([scr EXCEPT !.modes.appKeypad = set])
      BY ModeTuned
    <2> QED
      BY <2>1, <2>2
  <1>4. CASE \E a \in Pens : scr' = [scr EXCEPT !.pen = a]
    <2>1. PICK a \in Pens : scr' = [scr EXCEPT !.pen = a]
      BY <1>4
    <2>2. Good([scr EXCEPT !.pen = a])
      BY PassiveGood
    <2> QED
      BY <2>1, <2>2
  <1>5. CASE \E i \in 0..3, c \in Charsets : scr' = [scr EXCEPT !.g[i] = c]
    <2>1. PICK i \in 0..3, c \in Charsets : scr' = [scr EXCEPT !.g[i] = c]
      BY <1>5
    <2>2. Good([scr EXCEPT !.g[i] = c])
      BY PassiveGood
    <2> QED
      BY <2>1, <2>2
  <1>6. CASE \E i \in 0..3 : scr' = [scr EXCEPT !.gl = i]
    <2>1. PICK i \in 0..3 : scr' = [scr EXCEPT !.gl = i]
      BY <1>6
    <2>2. Good([scr EXCEPT !.gl = i])
      BY PassiveGood
    <2> QED
      BY <2>1, <2>2
  <1>7. CASE \E i \in 0..6 : scr' = [scr EXCEPT !.cursorStyle = i]
    <2>1. PICK i \in 0..6 : scr' = [scr EXCEPT !.cursorStyle = i]
      BY <1>7
    <2>2. Good([scr EXCEPT !.cursorStyle = i])
      BY PassiveGood
    <2> QED
      BY <2>1, <2>2
  <1>8. CASE \E t \in Seq(Glyphs) : scr' = [scr EXCEPT !.title = t]
    <2>1. PICK t \in Seq(Glyphs) : scr' = [scr EXCEPT !.title = t]
      BY <1>8
    <2>2. Good([scr EXCEPT !.title = t])
      BY PassiveGood
    <2> QED
      BY <2>1, <2>2
  <1> QED
    BY <1>1, <1>2, <1>3, <1>4, <1>5, <1>6, <1>7, <1>8 DEF Mode

\* The invariant is inductive: no operation of the screen, with any argument,
\* leaves it.
LEMMA StepGood == Good(scr) /\ [Next]_scr => Good(scr')
  <1> SUFFICES ASSUME Good(scr), [Next]_scr PROVE Good(scr')
    OBVIOUS
  <1>1. CASE Write
    BY <1>1, WriteGood
  <1>2. CASE Feed
    BY <1>2, FeedGood
  <1>3. CASE Erase
    BY <1>3, EraseGood
  <1>4. CASE Shift
    BY <1>4, ShiftGood
  <1>5. CASE Move
    BY <1>5, MoveGood
  <1>6. CASE Tabs
    BY <1>6, TabsGood
  <1>7. CASE Save
    BY <1>7, SaveCursorGood, RestoreCursorGood DEF Save
  <1>8. CASE Switch
    BY <1>8, AltScreenGood DEF Switch
  <1>9. CASE Mode
    BY <1>9, ModeGood
  <1>10. CASE Reset
    BY <1>10, FullResetGood, SoftResetGood, AlignmentTestGood DEF Reset
  <1>11. CASE Resize
    BY <1>11, ResizeGood DEF Resize
  <1>12. CASE UNCHANGED scr
    BY <1>12
  <1> QED
    BY <1>1, <1>2, <1>3, <1>4, <1>5, <1>6, <1>7, <1>8, <1>9, <1>10, <1>11, <1>12 DEF Next

\* What the invariant says of the screen the tests look at (checkInvariants).
LEMMA GoodIsInvariants == Good(scr) => ScreenInvariants
  <1> SUFFICES ASSUME Good(scr) PROVE ScreenInvariants
    OBVIOUS
  <1>1. /\ scr.cols \in 1..MaxDim /\ scr.rows \in 1..MaxDim
        /\ Len(scr.hist) <= scr.limit
        /\ scr.tabs \subseteq 0..(scr.cols - 1)
    BY DEF Good, Geometry, History, Stops
  <1>2. /\ scr.cx \in 0..(scr.cols - 1) /\ scr.cy \in 0..(scr.rows - 1)
        /\ scr.pendingWrap => scr.cx = scr.cols - 1 /\ scr.modes.autowrap
    BY DEF Good, Cursor
  <1>3. 0 <= scr.top /\ scr.top <= scr.bottom /\ scr.bottom < scr.rows
    BY DEF Good, Margins
  <1>4. ASSUME NEW b \in Buffers
        PROVE  /\ DOMAIN scr.lines[b] = 0..(scr.rows - 1)
               /\ \A y \in 0..(scr.rows - 1) : RowOK(scr.lines[b][y], scr.cols)
    BY DEF Good, Sheets, LineOK, Row, RowOK
  <1> QED
    BY <1>1, <1>2, <1>3, <1>4 DEF ScreenInvariants

\* The newest hscrolled lines of the history are the ones a resize may pull
\* back (resizeRows).
LEMMA GoodIsScrolled == Good(scr) => OnlyScrolledLinesReturn
  <1> SUFFICES ASSUME Good(scr) PROVE OnlyScrolledLinesReturn
    OBVIOUS
  <1> DEFINE h == scr.hist
             k == Smaller(scr.hscrolled, Len(h))
             p == SubSeq(h, Len(h) - k + 1, Len(h))
  <1>1. PICK S : h \in Seq(S)
    BY DEF Good, History, IsHistory
  <1>2. Len(h) \in Nat /\ scr.hscrolled \in Nat /\ Scrolled(h, scr.hscrolled)
    BY <1>1 DEF Good, History
  <1>3. k \in Nat /\ k <= Len(h) /\ k <= scr.hscrolled
    BY <1>2 DEF Smaller
  <1> HIDE DEF k
  <1>4. p \in Seq(S) /\ Len(p) = k /\ \A i \in 1..Len(p) : p[i] = h[Len(h) - k + i]
    BY <1>1, <1>2, <1>3
  <1>5. Newest = p
    BY DEF Newest, k
  <1> HIDE DEF p
  <1>6. ASSUME NEW i \in 1..Len(p)
        PROVE  p[i].how = "scroll"
    <2>1. Len(h) - k + i \in 1..Len(h) /\ Len(h) - k + i > Len(h) - scr.hscrolled
      BY <1>2, <1>3, <1>4, <1>6
    <2>2. h[Len(h) - k + i].how = "scroll"
      BY <1>2, <2>1 DEF Scrolled
    <2> QED
      BY <1>4, <2>2
  <1>7. DOMAIN p = 1..Len(p)
    BY <1>4
  <1> QED
    BY <1>5, <1>6, <1>7 DEF OnlyScrolledLinesReturn

InOrder == Good(scr)

\* Every screen a program can draw is in order: whatever operations it asks for,
\* with whatever arguments, at whatever size and history limit (screen.go).
THEOREM InductiveScreen == Spec => []InOrder
  <1>1. Init => InOrder
    BY InitGood DEF InOrder
  <1>2. InOrder /\ [Next]_scr => InOrder'
    BY StepGood DEF InOrder
  <1> QED
    BY <1>1, <1>2, PTL DEF Spec

\* Sizes, cursor, margins, tab stops and history within their bounds, and never
\* half of a wide glyph in either buffer: what checkInvariants of
\* vt/fuzz_test.go tries with random input holds for every input.
THEOREM ScreenIsAlwaysInOrder == Spec => []ScreenInvariants
  <1>1. InOrder => ScreenInvariants
    BY GoodIsInvariants DEF InOrder
  <1> QED
    BY <1>1, InductiveScreen, PTL

\* A window that grows never brings back what a clear put into the history, only
\* what scrolled there (hscrolled).
THEOREM ClearedStaysCleared == Spec => []OnlyScrolledLinesReturn
  <1>1. InOrder => OnlyScrolledLinesReturn
    BY GoodIsScrolled DEF InOrder
  <1> QED
    BY <1>1, InductiveScreen, PTL
=============================================================================
