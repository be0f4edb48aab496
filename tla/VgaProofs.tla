----------------------------- MODULE VgaProofs ------------------------------
(***************************************************************************)
(* Theorems about Vga for every screen: whatever is printed and erased, no *)
(* pixel outside the framebuffer is written, and nothing is counted behind *)
(* the cursor.                                                             *)
(*                                                                         *)
(* And, unless someone backspaces over a full row, the pixels are those of *)
(* a Terminal: each function of vga.c changes the characters on the screen *)
(* as the terminal's action does, because no two cells share a pixel.      *)
(***************************************************************************)
EXTENDS VgaTerminal, TLAPS

Lengths == [Rows -> 0..BYTE_VALUES-1]
Pictures == [FbIndex -> 0..255]

Consoles == [cursor_row : Rows, cursor_column : Nat, line_len : Lengths,
             fb : Pictures, wild : BOOLEAN]

\* NothingBelowCursor of a console k.
TextEndsAtCursor(k) ==
  /\ k.line_len[k.cursor_row] <= k.cursor_column
  /\ \A r \in Rows : r > k.cursor_row => k.line_len[r] = 0

\* A backspace over a wrapped row may leave the cursor right of the screen, but
\* not on the last row and not further right than a length can say.
CursorReachable(column, row) ==
  column < VGA_WIDTH \/ (row < VGA_HEIGHT - 1 /\ column < BYTE_VALUES)

\* The inductive invariant, of a console k.
Good(k) ==
  /\ k \in Consoles
  /\ k.wild = FALSE
  /\ TextEndsAtCursor(k)
  /\ CursorReachable(k.cursor_column, k.cursor_row)

-----------------------------------------------------------------------------
(* Arithmetic.                                                             *)

\* Products are monotonic.
LEMMA MulMonotonic ==
  ASSUME NEW a \in Nat, NEW b \in Nat, NEW c \in Nat, a <= b
  PROVE  a * c <= b * c
  OBVIOUS

\* A quotient times its divisor does not exceed the dividend.
LEMMA DivBound ==
  ASSUME NEW a \in Nat, NEW b \in Nat \ {0}
  PROVE  a \div b \in Nat /\ (a \div b) * b <= a
  OBVIOUS

\* The constants and what vga_init computes from them.
LEMMA Geometry ==
  /\ FB_WIDTH \in Nat \ {0} /\ FB_HEIGHT \in Nat \ {0} /\ PITCH \in Nat \ {0}
  /\ GLYPH_W \in Nat \ {0} /\ GLYPH_H \in Nat \ {0} /\ BYTE_VALUES \in Nat \ {0}
  /\ VGA_WIDTH \in Nat \ {0} /\ VGA_HEIGHT \in Nat \ {0}
  /\ VGA_WIDTH * GLYPH_W <= PITCH
  /\ VGA_HEIGHT * GLYPH_H <= FB_HEIGHT
<1>1. /\ FB_WIDTH \in Nat \ {0} /\ FB_HEIGHT \in Nat \ {0} /\ PITCH \in Nat \ {0}
      /\ GLYPH_W \in Nat \ {0} /\ GLYPH_H \in Nat \ {0} /\ BYTE_VALUES \in Nat \ {0}
      /\ MAX_ROWS \in Nat \ {0} /\ FB_WIDTH <= PITCH
      /\ VGA_WIDTH >= 1 /\ VGA_HEIGHT >= 1
  BY GeometryAssumption
<1> DEFINE w == FB_WIDTH \div GLYPH_W
           h == FB_HEIGHT \div GLYPH_H
<1>2. w \in Nat /\ w * GLYPH_W <= FB_WIDTH
  BY <1>1, DivBound
<1>3. h \in Nat /\ h * GLYPH_H <= FB_HEIGHT
  BY <1>1, DivBound
<1>4. VGA_WIDTH = w /\ VGA_HEIGHT = IF h > MAX_ROWS THEN MAX_ROWS ELSE h
  BY DEF VGA_WIDTH, VGA_HEIGHT
<1> HIDE DEF w, h
<1>5. VGA_WIDTH \in Nat \ {0} /\ VGA_WIDTH * GLYPH_W <= PITCH
  <2>1. w * GLYPH_W \in Nat
    BY <1>1, <1>2
  <2> QED
    BY <1>1, <1>2, <1>4, <2>1
<1>6. VGA_HEIGHT \in Nat \ {0} /\ VGA_HEIGHT <= h
  BY <1>1, <1>3, <1>4
<1>7. VGA_HEIGHT * GLYPH_H <= h * GLYPH_H
  BY <1>1, <1>3, <1>6, MulMonotonic
<1>8. VGA_HEIGHT * GLYPH_H <= FB_HEIGHT
  <2>1. VGA_HEIGHT * GLYPH_H \in Nat /\ h * GLYPH_H \in Nat
    BY <1>1, <1>3, <1>6
  <2> QED
    BY <1>1, <1>3, <1>7, <2>1
<1> QED
  BY <1>1, <1>5, <1>6, <1>8

\* A pixel of scan line y, x pixels from its beginning, is in the framebuffer
\* when the scan line is and x does not reach behind the last one.
LEMMA PixelInside ==
  ASSUME NEW y \in Nat, NEW lines \in Nat, NEW x \in Nat,
         y + lines <= FB_HEIGHT, x < lines * PITCH
  PROVE  y * PITCH + x \in FbIndex
<1> USE Geometry
<1>1. (y + lines) * PITCH <= FB_HEIGHT * PITCH
  BY MulMonotonic
<1>2. (y + lines) * PITCH = y * PITCH + lines * PITCH
  OBVIOUS
<1>3. y * PITCH \in Nat /\ lines * PITCH \in Nat /\ FB_HEIGHT * PITCH \in Nat
  OBVIOUS
<1> QED
  BY <1>1, <1>2, <1>3 DEF FbIndex

\* A cell of the text area lies in the framebuffer.
LEMMA CellInside ==
  ASSUME NEW column \in Columns, NEW row \in Rows
  PROVE  Pixels({column}, row) \subseteq FbIndex
<1> USE Geometry
<1>1. column \in Nat /\ row \in Nat /\ column + 1 <= VGA_WIDTH /\ row + 1 <= VGA_HEIGHT
  BY DEF Columns, Rows
<1>2. SUFFICES ASSUME NEW y \in 0..GLYPH_H-1, NEW x \in 0..GLYPH_W-1
               PROVE  (row * GLYPH_H + y) * PITCH + (column * GLYPH_W + x) \in FbIndex
  BY DEF Pixels
<1>3. (row + 1) * GLYPH_H <= FB_HEIGHT
  <2>1. (row + 1) * GLYPH_H <= VGA_HEIGHT * GLYPH_H
    BY <1>1, MulMonotonic
  <2>2. (row + 1) * GLYPH_H \in Nat /\ VGA_HEIGHT * GLYPH_H \in Nat
    BY <1>1
  <2> QED
    BY <2>1, <2>2
<1>4. row * GLYPH_H + y \in Nat /\ row * GLYPH_H + y + 1 <= FB_HEIGHT
  <2>1. (row + 1) * GLYPH_H = row * GLYPH_H + GLYPH_H /\ row * GLYPH_H \in Nat
    BY <1>1
  <2> QED
    BY <2>1, <1>3
<1>5. (column + 1) * GLYPH_W <= PITCH
  <2>1. (column + 1) * GLYPH_W <= VGA_WIDTH * GLYPH_W
    BY <1>1, MulMonotonic
  <2>2. (column + 1) * GLYPH_W \in Nat /\ VGA_WIDTH * GLYPH_W \in Nat
    BY <1>1
  <2> QED
    BY <2>1, <2>2
<1>6. column * GLYPH_W + x \in Nat /\ column * GLYPH_W + x < 1 * PITCH
  <2>1. (column + 1) * GLYPH_W = column * GLYPH_W + GLYPH_W /\ column * GLYPH_W \in Nat
    BY <1>1
  <2> QED
    BY <2>1, <1>5
<1> HIDE DEF Pixels
<1> QED
  BY <1>4, <1>6, PixelInside

\* So does, on any row but the last, the place the code's arithmetic gives a
\* cell right of the text area.
LEMMA CellBehindRowInside ==
  ASSUME NEW column \in Nat, column < BYTE_VALUES, NEW row \in Rows, row < VGA_HEIGHT - 1
  PROVE  Pixels({column}, row) \subseteq FbIndex
<1> USE Geometry
<1>1. row \in Nat /\ row + 2 <= VGA_HEIGHT
  BY DEF Rows
<1>2. SUFFICES ASSUME NEW y \in 0..GLYPH_H-1, NEW x \in 0..GLYPH_W-1
               PROVE  (row * GLYPH_H + y) * PITCH + (column * GLYPH_W + x) \in FbIndex
  BY DEF Pixels
<1>3. (row + 2) * GLYPH_H <= FB_HEIGHT
  <2>1. (row + 2) * GLYPH_H <= VGA_HEIGHT * GLYPH_H
    BY <1>1, MulMonotonic
  <2>2. (row + 2) * GLYPH_H \in Nat /\ VGA_HEIGHT * GLYPH_H \in Nat
    BY <1>1
  <2> QED
    BY <2>1, <2>2
<1>4. row * GLYPH_H + y \in Nat /\ (row * GLYPH_H + y) + (GLYPH_H + 1) <= FB_HEIGHT
  <2>1. (row + 2) * GLYPH_H = row * GLYPH_H + GLYPH_H + GLYPH_H /\ row * GLYPH_H \in Nat
    BY <1>1
  <2> QED
    BY <2>1, <1>3
<1>5. (column + 1) * GLYPH_W <= (GLYPH_H + 1) * PITCH
  <2>1. (column + 1) * GLYPH_W <= BYTE_VALUES * GLYPH_W
    BY MulMonotonic
  <2>2. (column + 1) * GLYPH_W \in Nat /\ BYTE_VALUES * GLYPH_W \in Nat
        /\ (GLYPH_H + 1) * PITCH \in Nat
    OBVIOUS
  <2> QED
    BY <2>1, <2>2, WideAssumption
<1>6. column * GLYPH_W + x \in Nat /\ column * GLYPH_W + x < (GLYPH_H + 1) * PITCH
  <2>1. (column + 1) * GLYPH_W = column * GLYPH_W + GLYPH_W /\ column * GLYPH_W \in Nat
    OBVIOUS
  <2>2. (GLYPH_H + 1) * PITCH \in Nat
    OBVIOUS
  <2> QED
    BY <2>1, <2>2, <1>5
<1> DEFINE line == row * GLYPH_H + y
           left == column * GLYPH_W + x
           deep == GLYPH_H + 1
<1>7. line \in Nat /\ left \in Nat /\ deep \in Nat
      /\ line + deep <= FB_HEIGHT /\ left < deep * PITCH
  BY <1>4, <1>6
<1> HIDE DEF line, left, deep
<1>8. line * PITCH + left \in FbIndex
  BY <1>7, PixelInside
<1> QED
  BY <1>8 DEF line, left

\* A pixel that scrolls takes its value from inside the framebuffer.
LEMMA ScrolledInside ==
  ASSUME NEW k \in FbIndex, k \in Scrolled
  PROVE  k + GLYPH_H * PITCH \in FbIndex
<1> USE Geometry
<1>1. PICK y \in GLYPH_H..VGA_HEIGHT*GLYPH_H-1, x \in 0..VGA_WIDTH*GLYPH_W-1 :
        k = (y - GLYPH_H) * PITCH + x
  BY DEF Scrolled
<1>2. VGA_HEIGHT * GLYPH_H \in Nat /\ VGA_WIDTH * GLYPH_W \in Nat
  OBVIOUS
<1>3. y \in Nat /\ y + 1 <= FB_HEIGHT /\ x \in Nat /\ x < 1 * PITCH
  BY <1>1, <1>2
<1>4. k + GLYPH_H * PITCH = y * PITCH + x
  <2>1. (y - GLYPH_H) * PITCH = y * PITCH - GLYPH_H * PITCH
    BY <1>3
  <2>2. y * PITCH \in Nat /\ GLYPH_H * PITCH \in Nat
    BY <1>3
  <2> QED
    BY <1>1, <1>3, <2>1, <2>2
<1> QED
  BY <1>3, <1>4, PixelInside

-----------------------------------------------------------------------------
(* The operators.                                                          *)

\* Drawing inside the framebuffer changes nothing but pixels.
LEMMA DrawGood ==
  ASSUME NEW k \in Consoles, k.wild = FALSE,
         NEW columns \in SUBSET Nat, NEW row \in Nat, NEW c \in 0..255,
         Pixels(columns, row) \subseteq FbIndex
  PROVE  /\ draw_cells(k, columns, row, c) \in Consoles
         /\ draw_cells(k, columns, row, c).wild = FALSE
         /\ draw_cells(k, columns, row, c).line_len = k.line_len
         /\ draw_cells(k, columns, row, c).cursor_row = k.cursor_row
         /\ draw_cells(k, columns, row, c).cursor_column = k.cursor_column
<1> DEFINE cell == Pixels(columns, row)
           picture == [n \in FbIndex |-> IF n \in cell THEN c ELSE k.fb[n]]
           spilt == k.wild \/ ~(cell \subseteq FbIndex)
<1>1. picture \in Pictures
  BY DEF Pictures, Consoles
<1>2. spilt = FALSE
  BY DEF Consoles
<1>3. draw_cells(k, columns, row, c) = [k EXCEPT !.fb = picture, !.wild = spilt]
  BY DEF draw_cells
<1> HIDE DEF picture, spilt
<1> QED
  BY <1>1, <1>2, <1>3 DEF Consoles

\* The last row lies in the framebuffer.
LEMMA RowInside ==
  Pixels(Columns, VGA_HEIGHT - 1) \subseteq FbIndex
<1>1. VGA_HEIGHT - 1 \in Rows
  BY Geometry DEF Rows
<1>2. ASSUME NEW column \in Columns
      PROVE  Pixels({column}, VGA_HEIGHT - 1) \subseteq FbIndex
  BY <1>1, <1>2, CellInside
<1> QED
  BY <1>2 DEF Pixels

\* Scrolling keeps to the framebuffer and moves the lengths with the rows.
LEMMA UpGood ==
  ASSUME NEW k \in Consoles, k.wild = FALSE
  PROVE  /\ vga_up(k) \in Consoles
         /\ vga_up(k).wild = FALSE
         /\ vga_up(k).line_len
              = [r \in Rows |-> IF r < VGA_HEIGHT - 1 THEN k.line_len[r + 1] ELSE 0]
<1> DEFINE picture == [n \in FbIndex |-> IF n \in Scrolled
                                       THEN k.fb[n + GLYPH_H * PITCH] ELSE k.fb[n]]
           lengths == [r \in Rows |->
                         IF r < VGA_HEIGHT - 1 THEN k.line_len[r + 1] ELSE 0]
           moved == [k EXCEPT !.fb = picture, !.line_len = lengths]
<1>1. picture \in Pictures
  BY ScrolledInside DEF Pictures, Consoles
<1>2. lengths \in Lengths
  <2>1. \A r \in Rows : r < VGA_HEIGHT - 1 => r + 1 \in Rows
    BY Geometry DEF Rows
  <2>2. 0 \in 0..BYTE_VALUES-1
    BY Geometry
  <2> QED
    BY <2>1, <2>2 DEF Lengths, Consoles
<1>3. vga_up(k) = draw_cells(moved, Columns, VGA_HEIGHT - 1, Blank)
  BY DEF vga_up
<1>4. /\ moved \in Consoles /\ moved.wild = FALSE /\ moved.line_len = lengths
  <2> HIDE DEF picture, lengths
  <2> QED
    BY <1>1, <1>2 DEF Consoles
<1> HIDE DEF moved
<1>5. Blank \in 0..255
  BY DEF Blank
<1> DEFINE drawn == draw_cells(moved, Columns, VGA_HEIGHT - 1, Blank)
<1>6. drawn \in Consoles /\ drawn.wild = FALSE /\ drawn.line_len = moved.line_len
  <2>1. Columns \in SUBSET Nat /\ VGA_HEIGHT - 1 \in Nat
    BY Geometry DEF Columns
  <2> QED
    BY <2>1, <1>4, <1>5, RowInside, DrawGood
<1>7. vga_up(k) = drawn
  BY <1>3
<1> HIDE DEF drawn
<1> QED
  BY <1>4, <1>6, <1>7

\* Moving the cursor changes the cursor.
LEMMA MoveGood ==
  ASSUME NEW k \in Consoles, NEW column \in Nat, NEW row \in Rows
  PROVE  /\ vga_move_cursor(k, column, row) \in Consoles
         /\ vga_move_cursor(k, column, row).wild = k.wild
         /\ vga_move_cursor(k, column, row).line_len = k.line_len
         /\ vga_move_cursor(k, column, row).cursor_row = row
         /\ vga_move_cursor(k, column, row).cursor_column = column
BY DEF vga_move_cursor, Consoles

\* After a line feed the cursor is at the beginning of an empty row.
LEMMA NextRowGood ==
  ASSUME NEW k \in Consoles, k.wild = FALSE,
         \A r \in Rows : r > k.cursor_row => k.line_len[r] = 0
  PROVE  Good(NextRow(k))
<1> USE Geometry
<1>1. k.cursor_row \in Nat /\ k.cursor_row < VGA_HEIGHT
  BY DEF Consoles, Rows
<1>2. CASE k.cursor_row + 1 >= VGA_HEIGHT
  <2>1. NextRow(k) = vga_move_cursor(vga_up(k), 0, VGA_HEIGHT - 1)
    BY <1>2 DEF NextRow
  <2>2. VGA_HEIGHT - 1 \in Rows /\ ~(VGA_HEIGHT - 1 < VGA_HEIGHT - 1)
    BY DEF Rows
  <2>3. vga_up(k).line_len[VGA_HEIGHT - 1] = 0
    BY <2>2, UpGood
  <2>4. \A r \in Rows : ~(r > VGA_HEIGHT - 1)
    BY DEF Rows
  <2> DEFINE up == vga_up(k)
             next == vga_move_cursor(up, 0, VGA_HEIGHT - 1)
  <2>5. /\ next \in Consoles /\ next.wild = FALSE /\ next.line_len = vga_up(k).line_len
        /\ next.cursor_row = VGA_HEIGHT - 1 /\ next.cursor_column = 0
    <3>1. up \in Consoles /\ up.wild = FALSE
      BY UpGood
    <3> HIDE DEF up
    <3>2. /\ next \in Consoles /\ next.wild = up.wild /\ next.line_len = up.line_len
          /\ next.cursor_row = VGA_HEIGHT - 1 /\ next.cursor_column = 0
      BY <2>2, <3>1, MoveGood
    <3> QED
      BY <3>1, <3>2 DEF up
  <2> HIDE DEF next
  <2>6. Good(next)
    BY <2>3, <2>4, <2>5 DEF Good, TextEndsAtCursor, CursorReachable
  <2> QED
    BY <2>1, <2>6 DEF next, up
<1>3. CASE ~(k.cursor_row + 1 >= VGA_HEIGHT)
  <2> DEFINE next == vga_move_cursor(k, 0, k.cursor_row + 1)
  <2>1. NextRow(k) = next
    BY <1>3 DEF NextRow
  <2>2. k.cursor_row + 1 \in Rows
    BY <1>1, <1>3 DEF Rows
  <2>3. /\ next \in Consoles /\ next.wild = FALSE
        /\ next.line_len = k.line_len
        /\ next.cursor_row = k.cursor_row + 1 /\ next.cursor_column = 0
    BY <2>2, MoveGood
  <2> HIDE DEF next
  <2>4. next.line_len[next.cursor_row] = 0
    BY <1>1, <2>2, <2>3
  <2>5. \A r \in Rows : r > k.cursor_row + 1 => next.line_len[r] = 0
    BY <1>1, <2>3 DEF Rows
  <2>6. Good(next)
    BY <2>3, <2>4, <2>5 DEF Good, TextEndsAtCursor, CursorReachable
  <2> QED
    BY <2>1, <2>6
<1> QED
  BY <1>2, <1>3

\* A reachable cursor stands on a cell inside the framebuffer.
LEMMA CursorInside ==
  ASSUME NEW column \in Nat, NEW row \in Rows, CursorReachable(column, row)
  PROVE  Pixels({column}, row) \subseteq FbIndex
<1>1. CASE column < VGA_WIDTH
  <2>1. column \in Columns
    BY <1>1, Geometry DEF Columns
  <2> QED
    BY <2>1, CellInside
<1>2. CASE row < VGA_HEIGHT - 1 /\ column < BYTE_VALUES
  BY <1>2, CellBehindRowInside
<1> QED
  BY <1>1, <1>2 DEF CursorReachable

\* The same for the drawing of one cell there.
LEMMA DrawCellGood ==
  ASSUME NEW k \in Consoles, k.wild = FALSE,
         NEW column \in Nat, NEW row \in Rows, NEW c \in 0..255,
         CursorReachable(column, row)
  PROVE  /\ draw_cell(k, column, row, c) \in Consoles
         /\ draw_cell(k, column, row, c).wild = FALSE
         /\ draw_cell(k, column, row, c).line_len = k.line_len
         /\ draw_cell(k, column, row, c).cursor_row = k.cursor_row
         /\ draw_cell(k, column, row, c).cursor_column = k.cursor_column
<1>1. Pixels({column}, row) \subseteq FbIndex
  BY CursorInside
<1>2. {column} \in SUBSET Nat /\ row \in Nat
  BY DEF Rows
<1> DEFINE columns == {column}
<1>3. draw_cell(k, column, row, c) = draw_cells(k, columns, row, c)
  BY DEF draw_cell
<1> HIDE DEF columns
<1>4. /\ draw_cells(k, columns, row, c) \in Consoles
      /\ draw_cells(k, columns, row, c).wild = FALSE
      /\ draw_cells(k, columns, row, c).line_len = k.line_len
      /\ draw_cells(k, columns, row, c).cursor_row = k.cursor_row
      /\ draw_cells(k, columns, row, c).cursor_column = k.cursor_column
  BY <1>1, <1>2, DrawGood DEF columns
<1> QED
  BY <1>3, <1>4

\* Setting one length keeps a console well typed.
LEMMA SetLengthGood ==
  ASSUME NEW k \in Consoles, NEW row \in Rows, NEW n \in 0..BYTE_VALUES-1
  PROVE  /\ [k EXCEPT !.line_len[row] = n] \in Consoles
         /\ [k EXCEPT !.line_len[row] = n].wild = k.wild
         /\ [k EXCEPT !.line_len[row] = n].line_len = [k.line_len EXCEPT ![row] = n]
         /\ [k EXCEPT !.line_len[row] = n].cursor_row = k.cursor_row
         /\ [k EXCEPT !.line_len[row] = n].cursor_column = k.cursor_column
<1> DEFINE lengths == [k.line_len EXCEPT ![row] = n]
<1>1. lengths \in Lengths
  BY DEF Lengths, Consoles
<1>2. [k EXCEPT !.line_len[row] = n] = [k EXCEPT !.line_len = lengths]
  OBVIOUS
<1> HIDE DEF lengths
<1>3. /\ [k EXCEPT !.line_len = lengths] \in Consoles
      /\ [k EXCEPT !.line_len = lengths].wild = k.wild
      /\ [k EXCEPT !.line_len = lengths].line_len = lengths
      /\ [k EXCEPT !.line_len = lengths].cursor_row = k.cursor_row
      /\ [k EXCEPT !.line_len = lengths].cursor_column = k.cursor_column
  BY <1>1 DEF Consoles
<1> QED
  BY <1>2, <1>3 DEF lengths

\* Erasing at a reachable position above which nothing is counted.
LEMMA EraseGood ==
  ASSUME NEW k \in Consoles, k.wild = FALSE,
         NEW column \in Nat, NEW row \in Rows, CursorReachable(column, row),
         \A r \in Rows : r > row => k.line_len[r] = 0
  PROVE  Good(Erase(k, column, row))
<1> DEFINE blanked == clear_cell(k, column, row)
           n == IF column < k.line_len[row] THEN column ELSE k.line_len[row]
           cut == [blanked EXCEPT !.line_len[row] = n]
           next == vga_move_cursor(cut, column, row)
<1>1. /\ blanked \in Consoles /\ blanked.wild = FALSE
      /\ blanked.line_len = k.line_len
  <2>1. Blank \in 0..255
    BY DEF Blank
  <2>2. blanked = draw_cell(k, column, row, Blank)
    BY DEF clear_cell
  <2>3. /\ draw_cell(k, column, row, Blank) \in Consoles
        /\ draw_cell(k, column, row, Blank).wild = FALSE
        /\ draw_cell(k, column, row, Blank).line_len = k.line_len
    BY <2>1, DrawCellGood
  <2> HIDE DEF blanked
  <2> QED
    BY <2>2, <2>3
<1>2. n \in 0..BYTE_VALUES-1 /\ n <= column
  BY Geometry DEF Consoles, Lengths
<1>3. Erase(k, column, row) = next
  <2>1. blanked.line_len[row] = k.line_len[row]
    BY <1>1
  <2>2. Erase(k, column, row)
          = vga_move_cursor(
              [blanked EXCEPT !.line_len[row] =
                 IF column < blanked.line_len[row] THEN column
                 ELSE blanked.line_len[row]], column, row)
    BY DEF Erase
  <2> QED
    BY <2>1, <2>2
<1> HIDE DEF blanked, n
<1>4. /\ cut \in Consoles /\ cut.wild = FALSE
      /\ cut.line_len = [k.line_len EXCEPT ![row] = n]
  BY <1>1, <1>2, SetLengthGood
<1> HIDE DEF cut
<1>5. /\ next \in Consoles /\ next.wild = FALSE
      /\ next.line_len = [k.line_len EXCEPT ![row] = n]
      /\ next.cursor_row = row /\ next.cursor_column = column
  BY <1>4, MoveGood
<1> HIDE DEF next
<1>6. next.line_len[row] = n /\ \A r \in Rows : r > row => next.line_len[r] = 0
  <2>1. k.line_len \in Lengths
    BY DEF Consoles
  <2>2. \A r \in Rows : r > row => r # row
    BY DEF Rows
  <2> QED
    BY <1>5, <2>1, <2>2 DEF Lengths
<1>7. Good(next)
  BY <1>2, <1>5, <1>6 DEF Good, TextEndsAtCursor
<1> QED
  BY <1>3, <1>7

\* A backspace, in the row or into the row above.
LEMMA BackspaceGood ==
  ASSUME NEW k \in Consoles, Good(k)
  PROVE  Good(Backspace(k))
<1> USE Geometry
<1>1. /\ k \in Consoles /\ k.wild = FALSE
      /\ k.line_len[k.cursor_row] <= k.cursor_column
      /\ \A r \in Rows : r > k.cursor_row => k.line_len[r] = 0
      /\ CursorReachable(k.cursor_column, k.cursor_row)
  BY DEF Good, TextEndsAtCursor
<1>2. k.cursor_row \in Rows /\ k.cursor_column \in Nat /\ k.line_len \in Lengths
  BY <1>1 DEF Consoles
<1>3. CASE k.cursor_column # 0
  <2>1. Backspace(k) = Erase(k, k.cursor_column - 1, k.cursor_row)
    BY <1>3 DEF Backspace
  <2>2. k.cursor_column - 1 \in Nat
    BY <1>2, <1>3
  <2>3. CursorReachable(k.cursor_column - 1, k.cursor_row)
    BY <1>1, <1>2 DEF CursorReachable, Rows
  <2> QED
    BY <1>1, <1>2, <2>1, <2>2, <2>3, EraseGood
<1>4. CASE k.cursor_column = 0 /\ k.cursor_row = 0
  BY <1>4 DEF Backspace
<1>5. CASE k.cursor_column = 0 /\ k.cursor_row # 0
  <2> DEFINE above == k.cursor_row - 1
             behind == k.line_len[above]
  <2>1. Backspace(k) = Erase(k, behind, above)
    BY <1>5 DEF Backspace
  <2>2. above \in Rows /\ above < VGA_HEIGHT - 1
    BY <1>2, <1>5 DEF Rows
  <2>3. behind \in Nat /\ behind < BYTE_VALUES
    BY <1>2, <2>2 DEF Lengths
  <2>4. CursorReachable(behind, above)
    BY <2>2, <2>3 DEF CursorReachable
  <2>5. k.line_len[k.cursor_row] = 0
    BY <1>1, <1>2, <1>5 DEF Lengths
  <2>6. \A r \in Rows : r > above => k.line_len[r] = 0
    BY <1>1, <1>2, <2>5 DEF Rows
  <2> HIDE DEF above, behind
  <2> QED
    BY <1>1, <2>1, <2>2, <2>3, <2>4, <2>6, EraseGood
<1> QED
  BY <1>3, <1>4, <1>5

\* A tab never moves the cursor back.
LEMMA TabGood ==
  ASSUME NEW k \in Consoles, Good(k)
  PROVE  Good(Tab(k))
<1> USE Geometry
<1>1. /\ k.wild = FALSE
      /\ k.line_len[k.cursor_row] <= k.cursor_column
      /\ \A r \in Rows : r > k.cursor_row => k.line_len[r] = 0
  BY DEF Good, TextEndsAtCursor
<1>2. k.cursor_row \in Rows /\ k.cursor_column \in Nat /\ k.line_len \in Lengths
  BY DEF Consoles
<1> DEFINE column == k.cursor_column + 2 - (k.cursor_column % 2)
           next == vga_move_cursor(k, column, k.cursor_row)
<1>3. column \in Nat /\ k.cursor_column < column
  BY <1>2
<1>4. Tab(k) = IF column >= VGA_WIDTH THEN NextRow(k) ELSE next
  BY DEF Tab
<1> HIDE DEF column
<1>5. CASE column >= VGA_WIDTH
  BY <1>1, <1>4, <1>5, NextRowGood
<1>6. CASE ~(column >= VGA_WIDTH)
  <2>1. /\ next \in Consoles /\ next.wild = FALSE /\ next.line_len = k.line_len
        /\ next.cursor_row = k.cursor_row /\ next.cursor_column = column
    BY <1>1, <1>2, <1>3, MoveGood
  <2>2. k.line_len[k.cursor_row] <= column
    BY <1>1, <1>2, <1>3 DEF Lengths
  <2>3. CursorReachable(column, k.cursor_row)
    BY <1>3, <1>6 DEF CursorReachable
  <2> HIDE DEF next
  <2>4. Good(next)
    BY <1>1, <2>1, <2>2, <2>3 DEF Good, TextEndsAtCursor
  <2> QED
    BY <1>4, <1>6, <2>4
<1> QED
  BY <1>5, <1>6

\* A printed character is counted, and the cursor moves behind it.
LEMMA PrintGlyphGood ==
  ASSUME NEW k \in Consoles, Good(k), NEW c \in 0..255
  PROVE  Good(PrintGlyph(k, c))
<1>1. /\ k.wild = FALSE
      /\ k.line_len[k.cursor_row] <= k.cursor_column
      /\ \A r \in Rows : r > k.cursor_row => k.line_len[r] = 0
      /\ CursorReachable(k.cursor_column, k.cursor_row)
  BY DEF Good, TextEndsAtCursor
<1>2. k.cursor_row \in Rows /\ k.cursor_column \in Nat /\ k.line_len \in Lengths
  BY DEF Consoles
<1> DEFINE row == k.cursor_row
           column == k.cursor_column
           cell == draw_cell(k, column, row, c)
           n == IF column + 1 > k.line_len[row] THEN (column + 1) % BYTE_VALUES
                ELSE k.line_len[row]
           drawn == [cell EXCEPT !.line_len[row] = n]
           next == vga_move_cursor(drawn, column + 1, row)
<1>3. /\ cell \in Consoles /\ cell.wild = FALSE /\ cell.line_len = k.line_len
      /\ cell.cursor_row = row /\ cell.cursor_column = column
  <2>1. k.wild = FALSE /\ row \in Rows /\ column \in Nat /\ CursorReachable(column, row)
    BY <1>1, <1>2
  <2> HIDE DEF row, column, cell
  <2>2. /\ draw_cell(k, column, row, c) \in Consoles
        /\ draw_cell(k, column, row, c).wild = FALSE
        /\ draw_cell(k, column, row, c).line_len = k.line_len
        /\ draw_cell(k, column, row, c).cursor_row = k.cursor_row
        /\ draw_cell(k, column, row, c).cursor_column = k.cursor_column
    BY <2>1, DrawCellGood
  <2> QED
    BY <2>2 DEF row, column, cell
<1>4. n \in 0..BYTE_VALUES-1 /\ n <= column + 1
  BY <1>1, <1>2, Geometry DEF Lengths
<1>5. PrintGlyph(k, c) = IF column + 1 >= VGA_WIDTH THEN NextRow(drawn) ELSE next
  <2>1. cell.line_len[row] = k.line_len[row]
    BY <1>3
  <2>2. drawn = [cell EXCEPT !.line_len[row] =
                   IF column + 1 > cell.line_len[row] THEN (column + 1) % BYTE_VALUES
                   ELSE cell.line_len[row]]
    BY <2>1
  <2> QED
    BY <2>2 DEF PrintGlyph
<1> HIDE DEF cell, n
<1>6. /\ drawn \in Consoles /\ drawn.wild = FALSE
      /\ drawn.line_len = [k.line_len EXCEPT ![row] = n]
      /\ drawn.cursor_row = row
  BY <1>2, <1>3, <1>4, SetLengthGood
<1> HIDE DEF drawn
<1>7. \A r \in Rows : r > row => drawn.line_len[r] = 0
  <2>1. \A r \in Rows : r > row => r # row
    BY <1>2 DEF Rows
  <2> QED
    BY <1>1, <1>2, <1>6, <2>1 DEF Lengths
<1>8. CASE column + 1 >= VGA_WIDTH
  BY <1>5, <1>6, <1>7, <1>8, NextRowGood
<1>9. CASE ~(column + 1 >= VGA_WIDTH)
  <2>1. column + 1 \in Nat
    BY <1>2
  <2>2. /\ next \in Consoles /\ next.wild = FALSE /\ next.line_len = drawn.line_len
        /\ next.cursor_row = row /\ next.cursor_column = column + 1
    BY <1>2, <1>6, <2>1, MoveGood
  <2> HIDE DEF next
  <2>3. next.line_len[row] = n
    BY <1>2, <1>6, <2>2 DEF Lengths
  <2>4. CursorReachable(column + 1, row)
    BY <1>2, <1>9, Geometry DEF CursorReachable
  <2>5. Good(next)
    BY <1>4, <1>7, <2>2, <2>3, <2>4 DEF Good, TextEndsAtCursor
  <2> QED
    BY <1>5, <1>9, <2>5
<1> QED
  BY <1>8, <1>9

\* Whatever vga_putc is given, it keeps a good console good.
LEMMA PutcGood ==
  ASSUME NEW k \in Consoles, Good(k), NEW c \in 0..255
  PROVE  Good(vga_putc(k, c))
<1>1. CASE Printable(c)
  <2>1. vga_putc(k, c) = PrintGlyph(k, c)
    BY <1>1 DEF vga_putc, NL, TAB, BS, Printable
  <2> QED
    BY <2>1, PrintGlyphGood
<1>2. CASE ~Printable(c) /\ c = NL
  <2>1. /\ k.wild = FALSE
        /\ \A r \in Rows : r > k.cursor_row => k.line_len[r] = 0
    BY DEF Good, TextEndsAtCursor
  <2>2. vga_putc(k, c) = NextRow(k)
    BY <1>2 DEF vga_putc, NL, TAB, BS, Printable
  <2> QED
    BY <2>1, <2>2, NextRowGood
<1>3. CASE c = TAB
  <2>1. vga_putc(k, c) = Tab(k)
    BY <1>3 DEF vga_putc, NL, TAB, BS, Printable
  <2> QED
    BY <2>1, TabGood
<1>4. CASE c = BS
  <2>1. vga_putc(k, c) = Backspace(k)
    BY <1>4 DEF vga_putc, NL, TAB, BS, Printable
  <2> QED
    BY <2>1, BackspaceGood
<1>5. CASE ~Printable(c) /\ c \notin {NL, TAB, BS}
  <2>1. vga_putc(k, c) = k
    BY <1>5 DEF vga_putc
  <2> QED
    BY <2>1
<1> QED
  BY <1>1, <1>2, <1>3, <1>4, <1>5

\* Clearing the screen makes any well typed console a good one.
LEMMA ClearGood ==
  ASSUME NEW k \in Consoles, k.wild = FALSE
  PROVE  Good(vga_clear_screen(k))
<1> USE Geometry
<1> DEFINE picture == [n \in FbIndex |-> IF n % PITCH < FB_WIDTH THEN Blank ELSE k.fb[n]]
           lengths == [r \in Rows |-> 0]
           empty == [k EXCEPT !.fb = picture, !.line_len = lengths]
           next == vga_move_cursor(empty, 0, 0)
<1>1. picture \in Pictures
  BY DEF Pictures, Consoles, Blank
<1>2. lengths \in Lengths /\ \A r \in Rows : lengths[r] = 0
  BY DEF Lengths
<1>3. vga_clear_screen(k) = next
  BY DEF vga_clear_screen
<1> HIDE DEF picture, lengths
<1>4. empty \in Consoles /\ empty.wild = FALSE /\ empty.line_len = lengths
  BY <1>1, <1>2 DEF Consoles
<1>5. 0 \in Rows
  BY DEF Rows
<1> HIDE DEF empty
<1>6. /\ next \in Consoles /\ next.wild = FALSE /\ next.line_len = lengths
      /\ next.cursor_row = 0 /\ next.cursor_column = 0
  BY <1>4, <1>5, MoveGood
<1> HIDE DEF next
<1>7. Good(next)
  BY <1>2, <1>5, <1>6 DEF Good, TextEndsAtCursor, CursorReachable
<1> QED
  BY <1>3, <1>7

-----------------------------------------------------------------------------
(* The operators of Vga keep a sound console sound.                        *)

\* No row of a console q is longer than the screen is wide.
RowsFit(q) == \A r \in Rows : q.line_len[r] <= VGA_WIDTH

\* What every call and every single store keeps, of a console q.
Sound(q) ==
  /\ q \in Consoles
  /\ q.wild = FALSE
  /\ q.cursor_column \in Columns
  /\ RowsFit(q)

\* Columns and rows are numbers, and the first of both exist.
LEMMA Places ==
  /\ Columns \in SUBSET Nat /\ Rows \in SUBSET Nat
  /\ 0 \in Columns /\ 0 \in Rows
  /\ VGA_HEIGHT - 1 \in Rows
  /\ \A n \in Nat : n < VGA_WIDTH => n \in Columns
  /\ \A n \in Nat : n < VGA_HEIGHT => n \in Rows
BY Geometry DEF Columns, Rows

\* A cell on the screen is drawn inside the framebuffer.
LEMMA DrawSound ==
  ASSUME NEW q, Sound(q), NEW x \in Columns, NEW y \in Rows, NEW c \in 0..255
  PROVE  /\ Sound(draw_cell(q, x, y, c))
         /\ draw_cell(q, x, y, c).line_len = q.line_len
<1>1. q \in Consoles /\ q.wild = FALSE
  BY DEF Sound
<1>2. x \in Nat /\ CursorReachable(x, y)
  BY Geometry DEF Columns, CursorReachable
<1> DEFINE drawn == draw_cell(q, x, y, c)
<1>3. /\ drawn \in Consoles /\ drawn.wild = FALSE
      /\ drawn.line_len = q.line_len
      /\ drawn.cursor_column = q.cursor_column
  BY <1>1, <1>2, DrawCellGood
<1> HIDE DEF drawn
<1>4. Sound(drawn) /\ drawn.line_len = q.line_len
  BY <1>3 DEF Sound, RowsFit
<1> QED
  BY <1>4 DEF drawn

\* A length that fits the row may be stored at any time.
LEMMA LengthSound ==
  ASSUME NEW q, Sound(q), NEW y \in Rows, NEW n \in 0..BYTE_VALUES-1, n <= VGA_WIDTH
  PROVE  Sound([q EXCEPT !.line_len[y] = n])
<1>1. q \in Consoles /\ q.line_len \in Lengths
  BY DEF Sound, Consoles
<1> DEFINE next == [q EXCEPT !.line_len[y] = n]
<1>2. /\ next \in Consoles /\ next.wild = q.wild
      /\ next.line_len = [q.line_len EXCEPT ![y] = n]
      /\ next.cursor_column = q.cursor_column
  BY <1>1, SetLengthGood
<1> HIDE DEF next
<1>3. RowsFit(next)
  BY <1>1, <1>2 DEF Sound, RowsFit, Lengths
<1>4. Sound(next)
  BY <1>2, <1>3 DEF Sound
<1> QED
  BY <1>4 DEF next

\* So may the cursor, whatever the place on the screen it goes to.
LEMMA MoveSound ==
  ASSUME NEW q, Sound(q), NEW x \in Columns, NEW y \in Rows
  PROVE  Sound(vga_move_cursor(q, x, y))
<1>1. q \in Consoles /\ x \in Nat
  BY Places DEF Sound
<1> DEFINE next == vga_move_cursor(q, x, y)
<1>2. /\ next \in Consoles /\ next.wild = q.wild
      /\ next.line_len = q.line_len /\ next.cursor_column = x
  BY <1>1, MoveGood
<1> HIDE DEF next
<1>3. Sound(next)
  BY <1>2 DEF Sound, RowsFit
<1> QED
  BY <1>3 DEF next

\* The lengths scroll with the rows: none grows.
LEMMA NextRowSound ==
  ASSUME NEW q, Sound(q)
  PROVE  Sound(NextRow(q))
<1>1. q \in Consoles /\ q.wild = FALSE /\ q.line_len \in Lengths /\ q.cursor_row \in Rows
  BY DEF Sound, Consoles
<1>2. CASE q.cursor_row + 1 >= VGA_HEIGHT
  <2> DEFINE up == vga_up(q)
  <2>1. /\ up \in Consoles /\ up.wild = FALSE
        /\ up.line_len = [r \in Rows |-> IF r < VGA_HEIGHT - 1
                                         THEN q.line_len[r + 1] ELSE 0]
    BY <1>1, UpGood
  <2>2. NextRow(q) = vga_move_cursor(up, 0, VGA_HEIGHT - 1)
    BY <1>2 DEF NextRow
  <2> HIDE DEF up
  <2>3. RowsFit(up)
    <3>1. \A r \in Rows : r < VGA_HEIGHT - 1 => r + 1 \in Rows
      BY Geometry DEF Rows
    <3> QED
      BY <2>1, <3>1, Geometry DEF Sound, RowsFit
  <2> DEFINE next == vga_move_cursor(up, 0, VGA_HEIGHT - 1)
  <2>4. /\ next \in Consoles /\ next.wild = up.wild
        /\ next.line_len = up.line_len /\ next.cursor_column = 0
    <3>1. up \in Consoles /\ 0 \in Nat /\ VGA_HEIGHT - 1 \in Rows
      BY <2>1, Places
    <3> QED
      BY <3>1, MoveGood
  <2> HIDE DEF next
  <2>5. Sound(next)
    BY <2>1, <2>3, <2>4, Places DEF Sound, RowsFit
  <2> QED
    BY <2>2, <2>5 DEF next
<1>3. CASE ~(q.cursor_row + 1 >= VGA_HEIGHT)
  <2>1. q.cursor_row + 1 \in Rows
    BY <1>1, <1>3, Geometry DEF Rows
  <2>2. NextRow(q) = vga_move_cursor(q, 0, q.cursor_row + 1)
    BY <1>3 DEF NextRow
  <2> QED
    BY <2>1, <2>2, Places, MoveSound
<1> QED
  BY <1>2, <1>3

\* Erasing shortens a row.
LEMMA EraseSound ==
  ASSUME NEW q, Sound(q), NEW x \in Columns, NEW y \in Rows
  PROVE  Sound(Erase(q, x, y))
<1> DEFINE blanked == clear_cell(q, x, y)
           n == IF x < q.line_len[y] THEN x ELSE q.line_len[y]
           cut == [blanked EXCEPT !.line_len[y] = n]
<1>1. q.line_len[y] \in 0..BYTE_VALUES-1 /\ q.line_len[y] <= VGA_WIDTH
  BY DEF Sound, Consoles, Lengths, RowsFit
<1>2. n \in 0..BYTE_VALUES-1 /\ n <= VGA_WIDTH
  BY <1>1, Geometry DEF Columns
<1>3. Sound(blanked) /\ blanked.line_len = q.line_len
  <2>1. blanked = draw_cell(q, x, y, Blank) /\ Blank \in 0..255
    BY DEF clear_cell, Blank
  <2> HIDE DEF blanked
  <2> QED
    BY <2>1, DrawSound
<1>4. Erase(q, x, y) = vga_move_cursor(cut, x, y)
  <2>1. blanked.line_len[y] = q.line_len[y]
    BY <1>3
  <2>2. Erase(q, x, y)
          = vga_move_cursor(
              [blanked EXCEPT !.line_len[y] =
                 IF x < blanked.line_len[y] THEN x ELSE blanked.line_len[y]], x, y)
    BY DEF Erase
  <2> QED
    BY <2>1, <2>2
<1> HIDE DEF blanked, n
<1>5. Sound(cut)
  BY <1>2, <1>3, LengthSound
<1> HIDE DEF cut
<1> QED
  BY <1>4, <1>5, MoveSound

\* A backspace stays on the screen unless the row above is full.
LEMMA BackspaceSound ==
  ASSUME NEW q, Sound(q),
         q.cursor_column = 0 /\ q.cursor_row > 0
           => ~(q.line_len[q.cursor_row - 1] >= VGA_WIDTH)
  PROVE  Sound(Backspace(q))
<1>1. q.cursor_row \in Rows /\ q.cursor_column \in Columns /\ q.line_len \in Lengths
  BY DEF Sound, Consoles
<1>2. CASE q.cursor_column # 0
  <2>1. Backspace(q) = Erase(q, q.cursor_column - 1, q.cursor_row)
    BY <1>2 DEF Backspace
  <2>2. q.cursor_column - 1 \in Columns
    BY <1>1, <1>2, Geometry DEF Columns
  <2> QED
    BY <1>1, <2>1, <2>2, EraseSound
<1>3. CASE q.cursor_column = 0 /\ q.cursor_row = 0
  BY <1>3 DEF Backspace
<1>4. CASE q.cursor_column = 0 /\ q.cursor_row # 0
  <2> DEFINE above == q.cursor_row - 1
             behind == q.line_len[above]
  <2>1. Backspace(q) = Erase(q, behind, above)
    BY <1>4 DEF Backspace
  <2>2. above \in Rows /\ q.cursor_row > 0
    BY <1>1, <1>4, Geometry DEF Rows
  <2>3. behind \in Nat /\ behind < VGA_WIDTH
    BY <1>1, <1>4, <2>2, Geometry DEF Lengths
  <2>4. behind \in Columns
    BY <2>3, Places
  <2> HIDE DEF above, behind
  <2> QED
    BY <2>1, <2>2, <2>4, EraseSound
<1> QED
  BY <1>2, <1>3, <1>4

\* A tab goes to the next row where the screen ends.
LEMMA TabSound ==
  ASSUME NEW q, Sound(q)
  PROVE  Sound(Tab(q))
<1>1. q.cursor_row \in Rows /\ q.cursor_column \in Nat
  BY DEF Sound, Consoles
<1> DEFINE x == q.cursor_column + 2 - (q.cursor_column % 2)
<1>2. x \in Nat
  BY <1>1
<1>3. Tab(q) = IF x >= VGA_WIDTH THEN NextRow(q)
               ELSE vga_move_cursor(q, x, q.cursor_row)
  BY DEF Tab
<1> HIDE DEF x
<1>4. CASE x >= VGA_WIDTH
  BY <1>3, <1>4, NextRowSound
<1>5. CASE ~(x >= VGA_WIDTH)
  <2>1. x \in Columns
    BY <1>2, <1>5, Geometry, Places
  <2> QED
    BY <1>1, <1>3, <1>5, <2>1, MoveSound
<1> QED
  BY <1>4, <1>5

\* The length stored behind the cell just drawn fits the row.
LEMMA CountFits ==
  ASSUME NEW x \in Columns
  PROVE  /\ (x + 1) % BYTE_VALUES \in 0..BYTE_VALUES-1
         /\ (x + 1) % BYTE_VALUES <= VGA_WIDTH
<1>1. x + 1 \in Nat /\ x + 1 <= VGA_WIDTH /\ BYTE_VALUES \in Nat \ {0} /\ VGA_WIDTH \in Nat
  BY Geometry DEF Columns
<1>2. (x + 1) % BYTE_VALUES \in 0..BYTE_VALUES-1
  BY <1>1
<1>3. (x + 1) % BYTE_VALUES <= x + 1
  BY <1>1
<1> QED
  BY <1>1, <1>2, <1>3

\* A printed character.
LEMMA PrintGlyphSound ==
  ASSUME NEW q, Sound(q), NEW c \in 0..255
  PROVE  Sound(PrintGlyph(q, c))
<1> DEFINE y == q.cursor_row
           x == q.cursor_column
           cell == draw_cell(q, x, y, c)
           n == IF x + 1 > q.line_len[y] THEN (x + 1) % BYTE_VALUES ELSE q.line_len[y]
           drawn == [cell EXCEPT !.line_len[y] = n]
<1>1. x \in Columns /\ y \in Rows
  BY DEF Sound, Consoles
<1>2. Sound(cell) /\ cell.line_len = q.line_len
  BY <1>1, DrawSound
<1>3. n \in 0..BYTE_VALUES-1 /\ n <= VGA_WIDTH
  <2>1. q.line_len[y] \in 0..BYTE_VALUES-1 /\ q.line_len[y] <= VGA_WIDTH
    BY <1>1 DEF Sound, Consoles, Lengths, RowsFit
  <2> QED
    BY <1>1, <2>1, CountFits
<1>4. PrintGlyph(q, c) = IF x + 1 >= VGA_WIDTH THEN NextRow(drawn)
                         ELSE vga_move_cursor(drawn, x + 1, y)
  <2>1. cell.line_len[y] = q.line_len[y]
    BY <1>2
  <2>2. drawn = [cell EXCEPT !.line_len[y] =
                   IF x + 1 > cell.line_len[y] THEN (x + 1) % BYTE_VALUES
                   ELSE cell.line_len[y]]
    BY <2>1
  <2> QED
    BY <2>2 DEF PrintGlyph
<1> HIDE DEF cell, n
<1>5. Sound(drawn)
  BY <1>1, <1>2, <1>3, LengthSound
<1> HIDE DEF drawn
<1>6. CASE x + 1 >= VGA_WIDTH
  BY <1>4, <1>5, <1>6, NextRowSound
<1>7. CASE ~(x + 1 >= VGA_WIDTH)
  <2>1. x + 1 \in Columns
    BY <1>1, <1>7, Geometry DEF Columns
  <2> HIDE DEF x, y
  <2> QED
    BY <1>1, <1>4, <1>5, <1>7, <2>1, MoveSound
<1> QED
  BY <1>6, <1>7

\* A whole echo keeps the console sound.
LEMMA PutcSound ==
  ASSUME NEW q, Sound(q), NEW c \in 0..255,
         c = BS /\ q.cursor_column = 0 /\ q.cursor_row > 0
           => ~(q.line_len[q.cursor_row - 1] >= VGA_WIDTH)
  PROVE  Sound(vga_putc(q, c))
<1>1. CASE Printable(c)
  <2>1. vga_putc(q, c) = PrintGlyph(q, c)
    BY <1>1 DEF vga_putc, NL, TAB, BS, Printable
  <2> QED
    BY <2>1, PrintGlyphSound
<1>2. CASE ~Printable(c) /\ c = NL
  <2>1. vga_putc(q, c) = NextRow(q)
    BY <1>2 DEF vga_putc, NL, TAB, BS, Printable
  <2> QED
    BY <2>1, NextRowSound
<1>3. CASE c = TAB
  <2>1. vga_putc(q, c) = Tab(q)
    BY <1>3 DEF vga_putc, NL, TAB, BS, Printable
  <2> QED
    BY <2>1, TabSound
<1>4. CASE c = BS
  <2>1. vga_putc(q, c) = Backspace(q)
    BY <1>4 DEF vga_putc, NL, TAB, BS, Printable
  <2> QED
    BY <1>4, <2>1, BackspaceSound
<1>5. CASE ~Printable(c) /\ c \notin {NL, TAB, BS}
  BY <1>5 DEF vga_putc
<1> QED
  BY <1>1, <1>2, <1>3, <1>4, <1>5

-----------------------------------------------------------------------------
(* Cells and pixels.                                                       *)

\* A scan line and a place on it are determined by the index of the pixel.
LEMMA SamePixel ==
  ASSUME NEW y \in Nat, NEW w \in Nat, NEW x \in 0..PITCH-1, NEW z \in 0..PITCH-1,
         y * PITCH + x = w * PITCH + z
  PROVE  y = w /\ x = z
<1> USE Geometry
<1>1. ASSUME NEW a \in Nat, NEW b \in Nat, a < b, NEW i \in 0..PITCH-1, NEW j \in 0..PITCH-1
      PROVE  a * PITCH + i # b * PITCH + j
  <2>1. (a + 1) * PITCH <= b * PITCH
    BY <1>1, MulMonotonic
  <2>2. (a + 1) * PITCH = a * PITCH + PITCH /\ a * PITCH \in Nat /\ b * PITCH \in Nat
    OBVIOUS
  <2> QED
    BY <2>1, <2>2
<1>2. ~(y < w) /\ ~(w < y)
  BY <1>1
<1>3. y = w
  BY <1>2
<1>4. y * PITCH \in Nat
  OBVIOUS
<1> QED
  BY <1>3, <1>4

\* The same for the pixels of a row of cells: GLYPH_W to a column.
LEMMA SameColumn ==
  ASSUME NEW x \in Nat, NEW z \in Nat, NEW i \in 0..GLYPH_W-1, NEW j \in 0..GLYPH_W-1,
         x * GLYPH_W + i = z * GLYPH_W + j
  PROVE  x = z
<1> USE Geometry
<1>1. ASSUME NEW a \in Nat, NEW b \in Nat, a < b, NEW m \in 0..GLYPH_W-1, NEW n \in 0..GLYPH_W-1
      PROVE  a * GLYPH_W + m # b * GLYPH_W + n
  <2>1. (a + 1) * GLYPH_W <= b * GLYPH_W
    BY <1>1, MulMonotonic
  <2>2. (a + 1) * GLYPH_W = a * GLYPH_W + GLYPH_W /\ a * GLYPH_W \in Nat /\ b * GLYPH_W \in Nat
    OBVIOUS
  <2> QED
    BY <2>1, <2>2
<1> QED
  BY <1>1

\* And GLYPH_H scan lines to a row.
LEMMA SameRow ==
  ASSUME NEW y \in Nat, NEW w \in Nat, NEW i \in 0..GLYPH_H-1, NEW j \in 0..GLYPH_H-1,
         y * GLYPH_H + i = w * GLYPH_H + j
  PROVE  y = w
<1> USE Geometry
<1>1. ASSUME NEW a \in Nat, NEW b \in Nat, a < b, NEW m \in 0..GLYPH_H-1, NEW n \in 0..GLYPH_H-1
      PROVE  a * GLYPH_H + m # b * GLYPH_H + n
  <2>1. (a + 1) * GLYPH_H <= b * GLYPH_H
    BY <1>1, MulMonotonic
  <2>2. (a + 1) * GLYPH_H = a * GLYPH_H + GLYPH_H /\ a * GLYPH_H \in Nat /\ b * GLYPH_H \in Nat
    OBVIOUS
  <2> QED
    BY <2>1, <2>2
<1> QED
  BY <1>1

\* Where the pixels of a cell on the screen lie: scan line and place on it.
LEMMA PixelPlace ==
  ASSUME NEW x \in Columns, NEW y \in Rows, NEW i \in 0..GLYPH_W-1, NEW j \in 0..GLYPH_H-1
  PROVE  /\ y * GLYPH_H + j \in 0..VGA_HEIGHT*GLYPH_H-1
         /\ x * GLYPH_W + i \in 0..VGA_WIDTH*GLYPH_W-1
         /\ x * GLYPH_W + i \in 0..PITCH-1
         /\ x * GLYPH_W + i < FB_WIDTH
<1> USE Geometry
<1>1. x \in Nat /\ y \in Nat /\ x + 1 <= VGA_WIDTH /\ y + 1 <= VGA_HEIGHT
  BY DEF Columns, Rows
<1>2. (x + 1) * GLYPH_W <= VGA_WIDTH * GLYPH_W /\ (y + 1) * GLYPH_H <= VGA_HEIGHT * GLYPH_H
  BY <1>1, MulMonotonic
<1>3. /\ (x + 1) * GLYPH_W = x * GLYPH_W + GLYPH_W /\ x * GLYPH_W \in Nat
      /\ (y + 1) * GLYPH_H = y * GLYPH_H + GLYPH_H /\ y * GLYPH_H \in Nat
      /\ VGA_WIDTH * GLYPH_W \in Nat /\ VGA_HEIGHT * GLYPH_H \in Nat
  BY <1>1
<1>4. VGA_WIDTH * GLYPH_W <= FB_WIDTH
  <2>1. FB_WIDTH \in Nat /\ GLYPH_W \in Nat \ {0}
    OBVIOUS
  <2>2. (FB_WIDTH \div GLYPH_W) * GLYPH_W <= FB_WIDTH
    BY <2>1, DivBound
  <2> QED
    BY <2>2 DEF VGA_WIDTH
<1>5. y * GLYPH_H + j \in 0..VGA_HEIGHT*GLYPH_H-1
  BY <1>2, <1>3
<1>6. x * GLYPH_W + i \in 0..VGA_WIDTH*GLYPH_W-1
  BY <1>2, <1>3
<1>7. x * GLYPH_W + i \in 0..PITCH-1 /\ x * GLYPH_W + i < FB_WIDTH
  BY <1>2, <1>3, <1>4
<1> QED
  BY <1>5, <1>6, <1>7

\* A pixel of a cell, by its place in the glyph.
LEMMA PixelOf ==
  ASSUME NEW x, NEW y, NEW p
  PROVE  p \in Pixels({x}, y) <=>
           \E j \in 0..GLYPH_H-1, i \in 0..GLYPH_W-1 :
             p = (y * GLYPH_H + j) * PITCH + (x * GLYPH_W + i)
BY DEF Pixels

\* No pixel belongs to two cells.
LEMMA CellsApart ==
  ASSUME NEW x \in Columns, NEW y \in Rows, NEW z \in Columns, NEW w \in Rows,
         NEW p \in Pixels({x}, y), p \in Pixels({z}, w)
  PROVE  x = z /\ y = w
<1>1. PICK j \in 0..GLYPH_H-1, i \in 0..GLYPH_W-1 :
        p = (y * GLYPH_H + j) * PITCH + (x * GLYPH_W + i)
  BY PixelOf
<1>2. PICK m \in 0..GLYPH_H-1, n \in 0..GLYPH_W-1 :
        p = (w * GLYPH_H + m) * PITCH + (z * GLYPH_W + n)
  BY PixelOf
<1> DEFINE a == y * GLYPH_H + j
           b == w * GLYPH_H + m
           c == x * GLYPH_W + i
           d == z * GLYPH_W + n
<1>3. a \in Nat /\ b \in Nat /\ c \in 0..PITCH-1 /\ d \in 0..PITCH-1
  <2>1. a \in 0..VGA_HEIGHT*GLYPH_H-1 /\ c \in 0..PITCH-1
    BY PixelPlace
  <2>2. b \in 0..VGA_HEIGHT*GLYPH_H-1 /\ d \in 0..PITCH-1
    BY PixelPlace
  <2> HIDE DEF a, b, c, d
  <2> QED
    BY <2>1, <2>2
<1>4. a * PITCH + c = b * PITCH + d
  BY <1>1, <1>2
<1>5. a = b /\ c = d
  <2> HIDE DEF a, b, c, d
  <2> QED
    BY <1>3, <1>4, SamePixel
<1>6. x \in Nat /\ z \in Nat /\ y \in Nat /\ w \in Nat
  BY DEF Columns, Rows
<1>7. y = w
  BY <1>5, <1>6, SameRow
<1>8. x = z
  BY <1>5, <1>6, SameColumn
<1> QED
  BY <1>7, <1>8

\* The first pixel of a cell is one of them.
LEMMA FirstPixel ==
  ASSUME NEW x \in Columns, NEW y \in Rows
  PROVE  y * GLYPH_H * PITCH + x * GLYPH_W \in Pixels({x}, y)
<1> USE Geometry
<1>1. x \in Nat /\ y \in Nat /\ 0 \in 0..GLYPH_H-1 /\ 0 \in 0..GLYPH_W-1
  BY DEF Columns, Rows
<1>2. y * GLYPH_H \in Nat /\ x * GLYPH_W \in Nat
  BY <1>1
<1>3. y * GLYPH_H + 0 = y * GLYPH_H /\ x * GLYPH_W + 0 = x * GLYPH_W
  BY <1>2
<1>4. y * GLYPH_H * PITCH + x * GLYPH_W = (y * GLYPH_H + 0) * PITCH + (x * GLYPH_W + 0)
  BY <1>3
<1> QED
  BY <1>1, <1>4, PixelOf

\* A cell whose pixels all belong to one character shows it.
LEMMA CellIs ==
  ASSUME NEW q, NEW x \in Columns, NEW y \in Rows, NEW c \in 0..255,
         \A p \in Pixels({x}, y) : q.fb[p] = c
  PROVE  CellAt(q, x, y) = c
BY FirstPixel DEF CellAt

\* The pixels of the cell below are GLYPH_H scan lines further.
LEMMA PixelBelow ==
  ASSUME NEW x \in Columns, NEW y \in Rows, NEW j \in 0..GLYPH_H-1, NEW i \in 0..GLYPH_W-1
  PROVE  (y * GLYPH_H + j) * PITCH + (x * GLYPH_W + i) + GLYPH_H * PITCH
           = ((y + 1) * GLYPH_H + j) * PITCH + (x * GLYPH_W + i)
<1> USE Geometry
<1>1. x \in Nat /\ y \in Nat
  BY DEF Columns, Rows
<1>2. (y + 1) * GLYPH_H + j = (y * GLYPH_H + j) + GLYPH_H /\ y * GLYPH_H + j \in Nat
  BY <1>1
<1> DEFINE a == y * GLYPH_H + j
<1>3. (a + GLYPH_H) * PITCH = a * PITCH + GLYPH_H * PITCH
      /\ a * PITCH \in Nat /\ GLYPH_H * PITCH \in Nat /\ x * GLYPH_W + i \in Nat
  <2>1. a \in Nat
    BY <1>2
  <2> HIDE DEF a
  <2> QED
    BY <1>1, <2>1
<1>4. a * PITCH + (x * GLYPH_W + i) + GLYPH_H * PITCH = (a + GLYPH_H) * PITCH + (x * GLYPH_W + i)
  <2> HIDE DEF a
  <2> QED
    BY <1>3
<1> QED
  BY <1>2, <1>4

\* A picture moved up by GLYPH_H scan lines shows what the cell below showed.
LEMMA CellMoved ==
  ASSUME NEW q, NEW r, NEW x \in Columns, NEW y \in Rows, y + 1 \in Rows,
         \A p \in Pixels({x}, y) : r.fb[p] = q.fb[p + GLYPH_H * PITCH]
  PROVE  CellAt(r, x, y) = CellAt(q, x, y + 1)
<1> USE Geometry
<1> DEFINE d == GLYPH_H * PITCH
           first == y * GLYPH_H * PITCH + x * GLYPH_W
           below == (y + 1) * GLYPH_H * PITCH + x * GLYPH_W
<1>1. \A c : (\A p \in Pixels({x}, y) : r.fb[p] = c)
             <=> (\A p \in Pixels({x}, y + 1) : q.fb[p] = c)
  <2> TAKE c
  <2>1. ASSUME \A p \in Pixels({x}, y) : r.fb[p] = c, NEW p \in Pixels({x}, y + 1)
        PROVE  q.fb[p] = c
    <3>1. PICK j \in 0..GLYPH_H-1, i \in 0..GLYPH_W-1 :
            p = ((y + 1) * GLYPH_H + j) * PITCH + (x * GLYPH_W + i)
      BY PixelOf
    <3> DEFINE u == (y * GLYPH_H + j) * PITCH + (x * GLYPH_W + i)
    <3>2. u \in Pixels({x}, y)
      BY PixelOf
    <3>3. u + GLYPH_H * PITCH = p
      BY <3>1, PixelBelow
    <3> HIDE DEF u
    <3> QED
      BY <2>1, <3>2, <3>3
  <2>2. ASSUME \A p \in Pixels({x}, y + 1) : q.fb[p] = c, NEW p \in Pixels({x}, y)
        PROVE  r.fb[p] = c
    <3>1. PICK j \in 0..GLYPH_H-1, i \in 0..GLYPH_W-1 :
            p = (y * GLYPH_H + j) * PITCH + (x * GLYPH_W + i)
      BY PixelOf
    <3>2. p + GLYPH_H * PITCH = ((y + 1) * GLYPH_H + j) * PITCH + (x * GLYPH_W + i)
      BY <3>1, PixelBelow
    <3>3. p + GLYPH_H * PITCH \in Pixels({x}, y + 1)
      BY <3>2, PixelOf
    <3> QED
      BY <2>2, <3>3
  <2> QED
    BY <2>1, <2>2
<1>2. r.fb[first] = q.fb[below]
  <2>1. first \in Pixels({x}, y)
    BY FirstPixel
  <2>2. first + d = below
    <3>1. y * GLYPH_H \in Nat /\ x * GLYPH_W \in Nat /\ (y + 1) * GLYPH_H = y * GLYPH_H + GLYPH_H
      BY DEF Columns, Rows
    <3>2. \A a \in Nat : (a + GLYPH_H) * PITCH = a * PITCH + GLYPH_H * PITCH
                         /\ a * PITCH \in Nat /\ GLYPH_H * PITCH \in Nat
      OBVIOUS
    <3> DEFINE a == y * GLYPH_H
               e == x * GLYPH_W
    <3>3. a \in Nat /\ e \in Nat /\ first = a * PITCH + e /\ below = (a + GLYPH_H) * PITCH + e
      BY <3>1
    <3> HIDE DEF a, e, first, below
    <3> QED
      BY <3>2, <3>3
  <2> HIDE DEF first, below
  <2> QED
    BY <2>1, <2>2
<1> HIDE DEF first, below
<1> DEFINE one == \E c \in 0..255 : \A p \in Pixels({x}, y) : r.fb[p] = c
           other == \E c \in 0..255 : \A p \in Pixels({x}, y + 1) : q.fb[p] = c
<1>3. one <=> other
  BY <1>1
<1>4. CellAt(r, x, y) = IF one THEN r.fb[first] ELSE -1
  BY DEF CellAt, first
<1>5. CellAt(q, x, y + 1) = IF other THEN q.fb[below] ELSE -1
  BY DEF CellAt, below
<1> HIDE DEF one, other
<1> QED
  BY <1>2, <1>3, <1>4, <1>5

\* A cell none of whose pixels changes shows what it showed.
LEMMA CellKept ==
  ASSUME NEW q, NEW r, NEW x \in Columns, NEW y \in Rows,
         \A p \in Pixels({x}, y) : r.fb[p] = q.fb[p]
  PROVE  CellAt(r, x, y) = CellAt(q, x, y)
<1>1. \A c : (\A p \in Pixels({x}, y) : r.fb[p] = c) <=> (\A p \in Pixels({x}, y) : q.fb[p] = c)
  OBVIOUS
<1>2. r.fb[y * GLYPH_H * PITCH + x * GLYPH_W] = q.fb[y * GLYPH_H * PITCH + x * GLYPH_W]
  BY FirstPixel
<1> QED
  BY <1>1, <1>2 DEF CellAt

-----------------------------------------------------------------------------
(* What the operators of Vga show.                                         *)

\* The characters a console q shows.
Text(q) == [r \in Rows |-> [x \in Columns |-> CellAt(q, x, r)]]

\* Only the picture counts.
LEMMA TextOfPicture ==
  ASSUME NEW q, NEW r, r.fb = q.fb
  PROVE  Text(r) = Text(q)
BY DEF Text, CellAt

\* The picture after a drawing.
LEMMA DrawPicture ==
  ASSUME NEW q \in Consoles, NEW columns, NEW row, NEW c
  PROVE  draw_cells(q, columns, row, c).fb
           = [p \in FbIndex |-> IF p \in Pixels(columns, row) THEN c ELSE q.fb[p]]
<1> DEFINE picture == [p \in FbIndex |-> IF p \in Pixels(columns, row) THEN c ELSE q.fb[p]]
           spilt == q.wild \/ ~(Pixels(columns, row) \subseteq FbIndex)
<1>1. draw_cells(q, columns, row, c) = [q EXCEPT !.fb = picture, !.wild = spilt]
  BY DEF draw_cells
<1> HIDE DEF picture, spilt
<1>2. draw_cells(q, columns, row, c).fb = picture
  BY <1>1 DEF Consoles
<1> QED
  BY <1>2 DEF picture

\* A text with the character of one cell replaced.
Put(text, x, y, c) == [text EXCEPT ![y][x] = c]

\* A cell on the screen is drawn, and no other.
LEMMA DrawText ==
  ASSUME NEW q \in Consoles, NEW x \in Columns, NEW y \in Rows, NEW c \in 0..255
  PROVE  Text(draw_cell(q, x, y, c)) = Put(Text(q), x, y, c)
<1> DEFINE drawn == draw_cell(q, x, y, c)
           cell == Pixels({x}, y)
<1>1. \A p \in FbIndex : drawn.fb[p] = IF p \in cell THEN c ELSE q.fb[p]
  <2> DEFINE columns == {x}
  <2>1. drawn = draw_cells(q, columns, y, c) /\ cell = Pixels(columns, y)
    BY DEF draw_cell
  <2> HIDE DEF columns, drawn, cell
  <2>2. drawn.fb = [p \in FbIndex |-> IF p \in cell THEN c ELSE q.fb[p]]
    BY <2>1, DrawPicture
  <2> QED
    BY <2>2
<1> HIDE DEF drawn
<1>2. CellAt(drawn, x, y) = c
  <2>1. \A p \in Pixels({x}, y) : drawn.fb[p] = c
    BY <1>1, CellInside
  <2> QED
    BY <2>1, CellIs
<1>3. ASSUME NEW z \in Columns, NEW w \in Rows, ~(z = x /\ w = y)
      PROVE  CellAt(drawn, z, w) = CellAt(q, z, w)
  <2>1. ASSUME NEW p \in Pixels({z}, w) PROVE drawn.fb[p] = q.fb[p]
    <3>1. p \in FbIndex
      BY CellInside
    <3>2. p \notin cell
      BY <1>3, CellsApart
    <3> QED
      BY <1>1, <3>1, <3>2
  <2> QED
    BY <2>1, CellKept
<1> HIDE DEF cell
<1>4. Text(drawn) = [r \in Rows |-> [z \in Columns |-> CellAt(drawn, z, r)]]
  BY DEF Text
<1>5. Put(Text(q), x, y, c)
        = [r \in Rows |-> [z \in Columns |-> IF z = x /\ r = y THEN c ELSE CellAt(q, z, r)]]
  BY DEF Text, Put
<1>6. \A r \in Rows, z \in Columns :
        CellAt(drawn, z, r) = IF z = x /\ r = y THEN c ELSE CellAt(q, z, r)
  BY <1>2, <1>3
<1> QED
  BY <1>4, <1>5, <1>6 DEF drawn

\* A pixel of a row that is not the last scrolls.
LEMMA CellScrolls ==
  ASSUME NEW x \in Columns, NEW y \in Rows, y + 1 \in Rows, NEW p \in Pixels({x}, y)
  PROVE  p \in Scrolled
<1> USE Geometry
<1>1. PICK j \in 0..GLYPH_H-1, i \in 0..GLYPH_W-1 :
        p = (y * GLYPH_H + j) * PITCH + (x * GLYPH_W + i)
  BY PixelOf
<1> DEFINE line == (y + 1) * GLYPH_H + j
           left == x * GLYPH_W + i
<1>2. line \in 0..VGA_HEIGHT*GLYPH_H-1 /\ left \in 0..VGA_WIDTH*GLYPH_W-1
  <2>1. line \in 0..VGA_HEIGHT*GLYPH_H-1
    BY PixelPlace
  <2>2. left \in 0..VGA_WIDTH*GLYPH_W-1
    BY PixelPlace
  <2> QED
    BY <2>1, <2>2
<1>3. line - GLYPH_H = y * GLYPH_H + j /\ line >= GLYPH_H
  <2>1. y \in Nat /\ (y + 1) * GLYPH_H = y * GLYPH_H + GLYPH_H /\ y * GLYPH_H \in Nat
    BY DEF Rows
  <2> QED
    BY <2>1
<1>4. p = (line - GLYPH_H) * PITCH + left
  BY <1>1, <1>3
<1> HIDE DEF line, left
<1>5. line \in GLYPH_H..VGA_HEIGHT*GLYPH_H-1
  <2>1. VGA_HEIGHT*GLYPH_H \in Nat
    OBVIOUS
  <2> QED
    BY <1>2, <1>3, <2>1
<1> QED
  BY <1>2, <1>4, <1>5 DEF Scrolled

\* A row that shows nothing.
BlankRow == [x \in Columns |-> Blank]

\* The pixels of a row are those of its cells.
LEMMA PixelOfRow ==
  ASSUME NEW y, NEW p
  PROVE  p \in Pixels(Columns, y) <=> \E x \in Columns : p \in Pixels({x}, y)
<1>1. p \in Pixels(Columns, y) <=>
        \E x \in Columns, j \in 0..GLYPH_H-1, i \in 0..GLYPH_W-1 :
          p = (y * GLYPH_H + j) * PITCH + (x * GLYPH_W + i)
  BY DEF Pixels
<1>2. \A x : p \in Pixels({x}, y) <=>
        \E j \in 0..GLYPH_H-1, i \in 0..GLYPH_W-1 :
          p = (y * GLYPH_H + j) * PITCH + (x * GLYPH_W + i)
  BY PixelOf
<1> QED
  BY <1>1, <1>2

\* The picture a scroll leaves.
LEMMA UpPicture ==
  ASSUME NEW q \in Consoles
  PROVE  vga_up(q).fb =
           [p \in FbIndex |-> IF p \in Pixels(Columns, VGA_HEIGHT - 1) THEN Blank
                              ELSE IF p \in Scrolled THEN q.fb[p + GLYPH_H * PITCH]
                              ELSE q.fb[p]]
<1> USE Geometry
<1> DEFINE up == vga_up(q)
           last == Pixels(Columns, VGA_HEIGHT - 1)
           picture == [p \in FbIndex |-> IF p \in Scrolled
                                         THEN q.fb[p + GLYPH_H * PITCH] ELSE q.fb[p]]
           lengths == [r \in Rows |-> IF r < VGA_HEIGHT - 1 THEN q.line_len[r + 1] ELSE 0]
           moved == [q EXCEPT !.fb = picture, !.line_len = lengths]
<1>1. moved.fb = picture /\ moved \in Consoles
  <2>1. picture \in Pictures
    BY ScrolledInside DEF Pictures, Consoles
  <2>2. lengths \in Lengths
    <3>1. \A r \in Rows : r < VGA_HEIGHT - 1 => r + 1 \in Rows
      BY DEF Rows
    <3>2. 0 \in 0..BYTE_VALUES-1
      OBVIOUS
    <3> QED
      BY <3>1, <3>2 DEF Lengths, Consoles
  <2> HIDE DEF picture, lengths
  <2> QED
    BY <2>1, <2>2 DEF Consoles
<1>2. up = draw_cells(moved, Columns, VGA_HEIGHT - 1, Blank)
  BY DEF vga_up
<1> HIDE DEF up, moved
<1>3. up.fb = [p \in FbIndex |-> IF p \in last THEN Blank ELSE moved.fb[p]]
  BY <1>1, <1>2, DrawPicture
<1> QED
  BY <1>1, <1>3 DEF up

\* Every row shows what the row below showed, the last one nothing.
LEMMA UpText ==
  ASSUME NEW q \in Consoles
  PROVE  Text(vga_up(q)) =
           [r \in Rows |-> IF r = VGA_HEIGHT - 1 THEN BlankRow ELSE Text(q)[r + 1]]
<1> USE Geometry
<1> DEFINE up == vga_up(q)
           last == Pixels(Columns, VGA_HEIGHT - 1)
<1>1. \A p \in FbIndex : up.fb[p] = IF p \in last THEN Blank ELSE
                                    IF p \in Scrolled THEN q.fb[p + GLYPH_H * PITCH]
                                    ELSE q.fb[p]
  BY UpPicture
<1> HIDE DEF up
<1>2. ASSUME NEW x \in Columns, NEW y \in Rows, y = VGA_HEIGHT - 1
      PROVE  CellAt(up, x, y) = Blank
  <2>1. ASSUME NEW p \in Pixels({x}, y) PROVE up.fb[p] = Blank
    <3>1. p \in FbIndex
      BY CellInside
    <3>2. p \in last
      BY <1>2, PixelOfRow
    <3> QED
      BY <1>1, <3>1, <3>2
  <2>2. Blank \in 0..255
    BY DEF Blank
  <2> QED
    BY <2>1, <2>2, CellIs
<1>3. ASSUME NEW x \in Columns, NEW y \in Rows, y # VGA_HEIGHT - 1
      PROVE  CellAt(up, x, y) = CellAt(q, x, y + 1) /\ y + 1 \in Rows
  <2>1. y + 1 \in Rows /\ VGA_HEIGHT - 1 \in Rows
    BY <1>3 DEF Rows
  <2>2. ASSUME NEW p \in Pixels({x}, y) PROVE up.fb[p] = q.fb[p + GLYPH_H * PITCH]
    <3>1. p \in FbIndex
      BY CellInside
    <3>2. p \in Scrolled
      BY <2>1, CellScrolls
    <3>3. p \notin last
      <4> SUFFICES ASSUME p \in last PROVE FALSE
        OBVIOUS
      <4>1. PICK z \in Columns : p \in Pixels({z}, VGA_HEIGHT - 1)
        BY PixelOfRow
      <4> QED
        BY <1>3, <2>1, <4>1, CellsApart
    <3> QED
      BY <1>1, <3>1, <3>2, <3>3
  <2> QED
    BY <2>1, <2>2, CellMoved
<1>4. \A r \in Rows, x \in Columns :
        CellAt(up, x, r) = IF r = VGA_HEIGHT - 1 THEN BlankRow[x] ELSE Text(q)[r + 1][x]
  BY <1>2, <1>3 DEF BlankRow, Text
<1>5. \A r \in Rows : r # VGA_HEIGHT - 1 => r + 1 \in Rows
  BY DEF Rows
<1>6. \A r \in Rows : [x \in Columns |-> CellAt(up, x, r)]
        = IF r = VGA_HEIGHT - 1 THEN BlankRow ELSE Text(q)[r + 1]
  <2> TAKE r \in Rows
  <2>1. CASE r = VGA_HEIGHT - 1
    BY <1>4, <2>1 DEF BlankRow
  <2>2. CASE r # VGA_HEIGHT - 1
    <3>1. Text(q)[r + 1] = [x \in Columns |-> CellAt(q, x, r + 1)]
      BY <1>5, <2>2 DEF Text
    <3>2. \A x \in Columns : CellAt(up, x, r) = CellAt(q, x, r + 1)
      BY <1>3, <2>2
    <3> QED
      BY <2>2, <3>1, <3>2
  <2> QED
    BY <2>1, <2>2
<1>7. Text(up) = [r \in Rows |-> [x \in Columns |-> CellAt(up, x, r)]]
  BY DEF Text
<1> QED
  BY <1>6, <1>7 DEF up

-----------------------------------------------------------------------------
(* Vga implements Terminal, on screens narrower than a length can count.   *)

\* What the terminal of the mapping is, now and after a step.
LEMMA Mapped ==
  /\ [r \in Rows |-> [x \in Columns |-> CellAt(con, x, r)]] = Text(con)
  /\ [r \in Rows |-> [x \in Columns |-> CellAt(con, x, r)]]' = Text(con')
BY DEF Text, CellAt

\* A line feed after the text was changed to that of a console q.
LEMMA NextRowFeeds ==
  ASSUME NEW q \in Consoles, q.wild = FALSE, q.cursor_row = con.cursor_row,
         con' = NextRow(q)
  PROVE  T!LineFeed(Text(q), q.line_len)
<1> USE Geometry
<1>1. q.cursor_row \in Rows /\ q.cursor_row \in Nat
  BY DEF Consoles, Rows
<1>2. CASE q.cursor_row + 1 >= VGA_HEIGHT
  <2> DEFINE up == vga_up(q)
  <2>1. q.cursor_row = VGA_HEIGHT - 1
    BY <1>1, <1>2 DEF Rows
  <2>2. /\ up \in Consoles /\ up.wild = FALSE
        /\ up.line_len = [r \in Rows |-> IF r < VGA_HEIGHT - 1 THEN q.line_len[r + 1] ELSE 0]
        /\ Text(up) = [r \in Rows |-> IF r = VGA_HEIGHT - 1 THEN BlankRow ELSE Text(q)[r + 1]]
    BY UpGood, UpText
  <2>3. con' = vga_move_cursor(up, 0, VGA_HEIGHT - 1)
    BY <1>2 DEF NextRow
  <2> HIDE DEF up
  <2>4. /\ con'.line_len = up.line_len /\ con'.cursor_row = VGA_HEIGHT - 1
        /\ con'.cursor_column = 0 /\ con'.fb = up.fb
    BY <2>2, <2>3 DEF vga_move_cursor, Consoles
  <2>5. Text(con') = Text(up)
    BY <2>4, TextOfPicture
  <2>6. \A r \in Rows : r < VGA_HEIGHT - 1 <=> r # VGA_HEIGHT - 1
    BY DEF Rows
  <2>7. con'.line_len = [r \in Rows |-> IF r = VGA_HEIGHT - 1 THEN 0 ELSE q.line_len[r + 1]]
    BY <2>2, <2>4, <2>6
  <2> QED
    BY <2>1, <2>2, <2>4, <2>5, <2>7, Mapped DEF T!LineFeed, T!Empty, BlankRow, Rows, Columns
<1>3. CASE ~(q.cursor_row + 1 >= VGA_HEIGHT)
  <2>1. con' = vga_move_cursor(q, 0, q.cursor_row + 1) /\ q.cursor_row < VGA_HEIGHT - 1
    BY <1>1, <1>3 DEF NextRow
  <2>2. /\ con'.line_len = q.line_len /\ con'.cursor_row = q.cursor_row + 1
        /\ con'.cursor_column = 0 /\ con'.fb = q.fb
    BY <2>1 DEF vga_move_cursor, Consoles
  <2>3. Text(con') = Text(q)
    BY <2>2, TextOfPicture
  <2> QED
    BY <2>1, <2>2, <2>3, Mapped DEF T!LineFeed
<1> QED
  BY <1>2, <1>3

\* Erasing a cell, wherever the cursor was.
LEMMA EraseErases ==
  ASSUME Sound(con), NEW x \in Columns, NEW y \in Rows, con' = Erase(con, x, y)
  PROVE  T!Erase(x, y)
<1> DEFINE blanked == clear_cell(con, x, y)
           n == IF x < con.line_len[y] THEN x ELSE con.line_len[y]
           lengths == [con.line_len EXCEPT ![y] = n]
           cut == [blanked EXCEPT !.line_len = lengths]
<1>1. con \in Consoles /\ con.wild = FALSE /\ con.line_len \in Lengths
  BY DEF Sound, Consoles
<1>2. /\ blanked \in Consoles /\ blanked.line_len = con.line_len
      /\ Text(blanked) = Put(Text(con), x, y, Blank)
  <2>1. blanked = draw_cell(con, x, y, Blank) /\ Blank \in 0..255
    BY DEF clear_cell, Blank
  <2> HIDE DEF blanked
  <2>2. Sound(blanked) /\ blanked.line_len = con.line_len
    BY <2>1, DrawSound
  <2>3. Text(blanked) = Put(Text(con), x, y, Blank)
    BY <1>1, <2>1, DrawText
  <2> QED
    BY <2>2, <2>3 DEF Sound
<1>3. con' = vga_move_cursor(cut, x, y)
  <2>1. blanked.line_len[y] = con.line_len[y]
    BY <1>2
  <2>2. con' = vga_move_cursor(
                 [blanked EXCEPT !.line_len[y] =
                    IF x < blanked.line_len[y] THEN x ELSE blanked.line_len[y]], x, y)
    BY DEF Erase
  <2>3. con' = vga_move_cursor([blanked EXCEPT !.line_len[y] = n], x, y)
    BY <2>1, <2>2
  <2>4. [blanked EXCEPT !.line_len[y] = n] = cut
    <3> HIDE DEF blanked, n
    <3>1. [blanked EXCEPT !.line_len[y] = n]
            = [blanked EXCEPT !.line_len = [blanked.line_len EXCEPT ![y] = n]]
      OBVIOUS
    <3> QED
      BY <1>2, <3>1
  <2> QED
    BY <2>3, <2>4
<1> HIDE DEF blanked, lengths
<1>4. /\ con'.line_len = lengths /\ con'.cursor_row = y /\ con'.cursor_column = x
      /\ con'.fb = blanked.fb
  BY <1>2, <1>3 DEF vga_move_cursor, Consoles
<1>5. Text(con') = Text(blanked)
  BY <1>4, TextOfPicture
<1>6. Text(con') = Put(Text(con), x, y, Blank)
  BY <1>2, <1>5
<1>7. con'.line_len = [con.line_len EXCEPT ![y] = IF x < @ THEN x ELSE @]
  BY <1>1, <1>4 DEF lengths, Lengths
<1> QED
  BY <1>4, <1>6, <1>7, Mapped DEF T!Erase, Put

\* A backspace that is not behind a full row.
LEMMA BackspaceErases ==
  ASSUME Sound(con), ~AtWrap, con' = Backspace(con)
  PROVE  T!Backspace \/ UNCHANGED con
<1> USE Geometry
<1>1. /\ con.cursor_row \in Rows /\ con.cursor_column \in Columns
      /\ con.line_len \in Lengths /\ RowsFit(con)
  BY DEF Sound, Consoles
<1>2. CASE con.cursor_column # 0
  <2>1. con' = Erase(con, con.cursor_column - 1, con.cursor_row)
    BY <1>2 DEF Backspace
  <2>2. con.cursor_column - 1 \in Columns /\ con.cursor_column > 0
    BY <1>1, <1>2 DEF Columns
  <2>3. T!Erase(con.cursor_column - 1, con.cursor_row)
    BY <1>1, <2>1, <2>2, EraseErases
  <2> QED
    BY <2>2, <2>3 DEF T!Backspace
<1>3. CASE con.cursor_column = 0 /\ con.cursor_row = 0
  BY <1>3 DEF Backspace
<1>4. CASE con.cursor_column = 0 /\ con.cursor_row # 0
  <2> DEFINE above == con.cursor_row - 1
             behind == con.line_len[above]
  <2>1. con' = Erase(con, behind, above)
    BY <1>4 DEF Backspace
  <2>2. above \in Rows /\ con.cursor_row > 0
    BY <1>1, <1>4 DEF Rows
  <2>3. behind \in Nat /\ behind < VGA_WIDTH
    BY <1>1, <1>4, <2>2 DEF Lengths, AtWrap
  <2>4. behind \in Columns
    BY <2>3, Places
  <2>5. behind # VGA_WIDTH
    BY <2>3
  <2>6. T!Erase(behind, above)
    <3> HIDE DEF above, behind
    <3> QED
      BY <2>1, <2>2, <2>4, EraseErases
  <2> QED
    BY <1>4, <2>2, <2>5, <2>6 DEF T!Backspace
<1> QED
  BY <1>2, <1>3, <1>4

\* A printed character.
LEMMA PrintGlyphTypes ==
  ASSUME VGA_WIDTH < BYTE_VALUES, Sound(con), NEW c \in 0..255, con' = PrintGlyph(con, c)
  PROVE  T!Type(c)
<1> DEFINE y == con.cursor_row
           x == con.cursor_column
           cell == draw_cell(con, x, y, c)
           n == IF x + 1 > con.line_len[y] THEN (x + 1) % BYTE_VALUES ELSE con.line_len[y]
           lengths == [con.line_len EXCEPT ![y] = n]
           drawn == [cell EXCEPT !.line_len = lengths]
           text == Put(Text(con), x, y, c)
<1>1. /\ con \in Consoles /\ con.wild = FALSE /\ x \in Columns /\ y \in Rows
      /\ con.line_len \in Lengths
  BY DEF Sound, Consoles
<1>2. /\ cell \in Consoles /\ cell.wild = FALSE /\ cell.line_len = con.line_len
      /\ cell.cursor_row = y
      /\ Text(cell) = text
  <2>1. CursorReachable(x, y) /\ x \in Nat
    BY <1>1, Geometry DEF CursorReachable, Columns
  <2> HIDE DEF x, y, cell
  <2>2. /\ draw_cell(con, x, y, c) \in Consoles
        /\ draw_cell(con, x, y, c).wild = FALSE
        /\ draw_cell(con, x, y, c).line_len = con.line_len
        /\ draw_cell(con, x, y, c).cursor_row = con.cursor_row
    BY <1>1, <2>1, DrawCellGood
  <2>3. Text(draw_cell(con, x, y, c)) = Put(Text(con), x, y, c)
    BY <1>1, DrawText
  <2> QED
    BY <2>2, <2>3 DEF cell, y
<1>3. /\ n \in 0..BYTE_VALUES-1
      /\ n = IF x < con.line_len[y] THEN con.line_len[y] ELSE x + 1
  <2>1. con.line_len[y] \in 0..BYTE_VALUES-1 /\ x \in Nat /\ x + 1 < BYTE_VALUES
    BY <1>1, Geometry DEF Lengths, Columns
  <2>2. (x + 1) % BYTE_VALUES = x + 1
    BY <2>1, Geometry
  <2> DEFINE l == con.line_len[y]
             m == (x + 1) % BYTE_VALUES
  <2>3. l \in 0..BYTE_VALUES-1 /\ x \in Nat /\ x + 1 < BYTE_VALUES /\ m = x + 1
    BY <2>1, <2>2
  <2>4. n = IF x + 1 > l THEN m ELSE l
    OBVIOUS
  <2> HIDE DEF x, y, l, m, n
  <2>5. n \in 0..BYTE_VALUES-1 /\ n = IF x < l THEN l ELSE x + 1
    BY <2>3, <2>4, Geometry
  <2> QED
    BY <2>5 DEF l
<1>4. lengths \in Lengths
  <2> HIDE DEF n, x, y
  <2> QED
    BY <1>1, <1>3 DEF Lengths
<1>5. lengths = [con.line_len EXCEPT ![y] = IF x < @ THEN @ ELSE x + 1]
  <2> HIDE DEF n, x, y
  <2> QED
    BY <1>1, <1>3 DEF Lengths
<1>6. con' = IF x + 1 >= VGA_WIDTH THEN NextRow(drawn) ELSE vga_move_cursor(drawn, x + 1, y)
  <2>1. cell.line_len[y] = con.line_len[y]
    BY <1>2
  <2> DEFINE counted == [cell EXCEPT !.line_len[y] = n]
  <2>2. counted = [cell EXCEPT !.line_len[y] =
                     IF x + 1 > cell.line_len[y] THEN (x + 1) % BYTE_VALUES
                     ELSE cell.line_len[y]]
    BY <2>1
  <2>3. con' = IF x + 1 >= VGA_WIDTH THEN NextRow(counted)
               ELSE vga_move_cursor(counted, x + 1, y)
    BY <2>2 DEF PrintGlyph
  <2>4. counted = drawn
    <3> HIDE DEF cell, n, x, y
    <3>1. [cell EXCEPT !.line_len[y] = n]
            = [cell EXCEPT !.line_len = [cell.line_len EXCEPT ![y] = n]]
      OBVIOUS
    <3> QED
      BY <1>2, <3>1
  <2> QED
    BY <2>3, <2>4
<1> HIDE DEF cell, lengths, text
<1>7. /\ drawn \in Consoles /\ drawn.wild = FALSE /\ drawn.cursor_row = y
      /\ drawn.line_len = lengths /\ drawn.fb = cell.fb
  BY <1>2, <1>4 DEF Consoles
<1> HIDE DEF drawn
<1>8. Text(drawn) = text
  BY <1>2, <1>7, TextOfPicture
<1>9. CASE x + 1 >= VGA_WIDTH
  <2>1. x = VGA_WIDTH - 1
    BY <1>1, <1>9, Geometry DEF Columns
  <2>2. T!LineFeed(text, lengths)
    <3>1. T!LineFeed(Text(drawn), drawn.line_len)
      BY <1>6, <1>7, <1>9, NextRowFeeds
    <3> QED
      BY <1>7, <1>8, <3>1
  <2> QED
    BY <1>5, <2>1, <2>2, Mapped DEF T!Type, text, Put
<1>10. CASE ~(x + 1 >= VGA_WIDTH)
  <2>1. con' = vga_move_cursor(drawn, x + 1, y) /\ x < VGA_WIDTH - 1
    BY <1>1, <1>6, <1>10, Geometry DEF Columns
  <2>2. /\ con'.line_len = lengths /\ con'.cursor_row = y
        /\ con'.cursor_column = x + 1 /\ con'.fb = drawn.fb
    BY <1>7, <2>1 DEF vga_move_cursor, Consoles
  <2>3. Text(con') = text
    BY <1>8, <2>2, TextOfPicture
  <2> QED
    BY <1>5, <2>1, <2>2, <2>3, Mapped DEF T!Type, text, Put
<1> QED
  BY <1>9, <1>10

\* Clearing leaves nothing on the screen.
LEMMA ClearText ==
  ASSUME NEW q \in Consoles
  PROVE  /\ Text(vga_clear_screen(q)) = [r \in Rows |-> BlankRow]
         /\ vga_clear_screen(q).line_len = [r \in Rows |-> 0]
         /\ vga_clear_screen(q).cursor_row = 0
         /\ vga_clear_screen(q).cursor_column = 0
<1> DEFINE picture == [n \in FbIndex |-> IF n % PITCH < FB_WIDTH THEN Blank ELSE q.fb[n]]
           lengths == [r \in Rows |-> 0]
           clear == vga_clear_screen(q)
<1>1. clear = vga_move_cursor([q EXCEPT !.fb = picture, !.line_len = lengths], 0, 0)
  BY DEF vga_clear_screen
<1> HIDE DEF picture, lengths, clear
<1>2. /\ clear.fb = picture /\ clear.line_len = lengths
      /\ clear.cursor_row = 0 /\ clear.cursor_column = 0
  BY <1>1 DEF vga_move_cursor, Consoles
<1>3. ASSUME NEW x \in Columns, NEW y \in Rows, NEW p \in Pixels({x}, y)
      PROVE  clear.fb[p] = Blank
  <2>1. p \in FbIndex
    BY CellInside
  <2>2. PICK j \in 0..GLYPH_H-1, i \in 0..GLYPH_W-1 :
          p = (y * GLYPH_H + j) * PITCH + (x * GLYPH_W + i)
    BY PixelOf
  <2> DEFINE line == y * GLYPH_H + j
             left == x * GLYPH_W + i
  <2>3. left \in 0..PITCH-1 /\ left < FB_WIDTH
    BY PixelPlace
  <2>4. line \in 0..VGA_HEIGHT*GLYPH_H-1
    BY PixelPlace
  <2>5. p = line * PITCH + left
    BY <2>2
  <2> HIDE DEF line, left
  <2>6. line \in Nat /\ p \in Nat
    BY <2>3, <2>4, <2>5, Geometry
  <2>7. /\ p \div PITCH \in Nat /\ p % PITCH \in 0..PITCH-1
        /\ p = PITCH * (p \div PITCH) + (p % PITCH)
    BY <2>6, Geometry
  <2>8. p % PITCH = left
    <3> DEFINE a == p \div PITCH
               b == p % PITCH
    <3>1. a \in Nat /\ b \in 0..PITCH-1 /\ p = PITCH * a + b
      BY <2>7
    <3> HIDE DEF a, b
    <3>2. a * PITCH + b = line * PITCH + left
      BY <2>5, <3>1, Geometry
    <3>3. b = left
      BY <2>3, <2>6, <3>1, <3>2, SamePixel
    <3> QED
      BY <3>3 DEF b
  <2>9. p % PITCH < FB_WIDTH
    BY <2>3, <2>8
  <2> QED
    BY <1>2, <2>1, <2>9 DEF picture
<1>4. \A x \in Columns, y \in Rows : CellAt(clear, x, y) = Blank
  <2> TAKE x \in Columns, y \in Rows
  <2>1. Blank \in 0..255
    BY DEF Blank
  <2>2. \A p \in Pixels({x}, y) : clear.fb[p] = Blank
    BY <1>3
  <2> QED
    BY <2>1, <2>2, CellIs
<1>5. Text(clear) = [r \in Rows |-> BlankRow]
  BY <1>4 DEF Text, BlankRow
<1> QED
  BY <1>2, <1>5 DEF clear, lengths

\* A tab moves on, or feeds a line.
LEMMA TabTabs ==
  ASSUME Sound(con), con' = Tab(con)
  PROVE  T!Tab
<1>1. /\ con \in Consoles /\ con.wild = FALSE
      /\ con.cursor_row \in Rows /\ con.cursor_column \in Nat
  BY DEF Sound, Consoles
<1> DEFINE x == con.cursor_column + 2 - (con.cursor_column % 2)
<1>2. x \in {con.cursor_column + 1, con.cursor_column + 2} /\ x % 2 = 0 /\ x \in Nat
  <2>1. ASSUME NEW n \in Nat
        PROVE  /\ n + 2 - (n % 2) \in {n + 1, n + 2} /\ (n + 2 - (n % 2)) % 2 = 0
               /\ n + 2 - (n % 2) \in Nat
    OBVIOUS
  <2> QED
    BY <1>1, <2>1
<1>3. con' = IF x >= VGA_WIDTH THEN NextRow(con)
             ELSE vga_move_cursor(con, x, con.cursor_row)
  BY DEF Tab
<1> HIDE DEF x
<1>4. CASE x >= VGA_WIDTH
  <2>1. T!LineFeed(Text(con), con.line_len)
    BY <1>1, <1>3, <1>4, NextRowFeeds
  <2>2. con.cursor_column + 2 >= VGA_WIDTH
    BY <1>1, <1>2, <1>4, Geometry
  <2> QED
    BY <2>1, <2>2, Mapped DEF T!Tab
<1>5. CASE ~(x >= VGA_WIDTH)
  <2>1. /\ con'.line_len = con.line_len /\ con'.cursor_row = con.cursor_row
        /\ con'.cursor_column = x /\ con'.fb = con.fb
    BY <1>1, <1>3, <1>5 DEF vga_move_cursor, Consoles
  <2>2. Text(con') = Text(con)
    BY <2>1, TextOfPicture
  <2>3. x < VGA_WIDTH
    BY <1>2, <1>5, Geometry
  <2> QED
    BY <1>2, <2>1, <2>2, <2>3, Mapped DEF T!Tab
<1> QED
  BY <1>4, <1>5

\* Every step of the console is one of the terminal.
LEMMA StepShows ==
  ASSUME VGA_WIDTH < BYTE_VALUES, Sound(con), [CarefulNext]_con
  PROVE  T!Next \/ UNCHANGED con
<1>1. con \in Consoles /\ con.wild = FALSE
  BY DEF Sound
<1>2. ASSUME NEW c \in Chars, PutcNotBackOverWrap(c) PROVE T!Next \/ UNCHANGED con
  <2>1. c \in 0..255 /\ con' = vga_putc(con, c) /\ ~(c = BS /\ AtWrap)
    BY <1>2, CharsAssumption DEF PutcNotBackOverWrap, Putc
  <2>2. CASE Printable(c)
    <3>1. con' = PrintGlyph(con, c)
      BY <2>1, <2>2 DEF vga_putc, NL, TAB, BS, Printable
    <3>2. T!Type(c)
      BY <2>1, <3>1, PrintGlyphTypes
    <3> QED
      BY <2>2, <3>2 DEF T!Next
  <2>3. CASE ~Printable(c) /\ c = NL
    <3>1. con' = NextRow(con)
      BY <2>1, <2>3 DEF vga_putc, NL, TAB, BS, Printable
    <3>2. T!LineFeed(Text(con), con.line_len)
      BY <1>1, <3>1, NextRowFeeds
    <3>3. T!Newline
      BY <3>2, Mapped DEF T!Newline
    <3> QED
      BY <3>3 DEF T!Next
  <2>4. CASE c = TAB
    <3>1. con' = Tab(con)
      BY <2>1, <2>4 DEF vga_putc, NL, TAB, BS, Printable
    <3> QED
      BY <3>1, TabTabs DEF T!Next
  <2>5. CASE c = BS
    <3>1. con' = Backspace(con)
      BY <2>1, <2>5 DEF vga_putc, NL, TAB, BS, Printable
    <3> QED
      BY <2>1, <2>5, <3>1, BackspaceErases DEF T!Next
  <2>6. CASE ~Printable(c) /\ c \notin {NL, TAB, BS}
    BY <2>1, <2>6 DEF vga_putc
  <2> QED
    BY <2>2, <2>3, <2>4, <2>5, <2>6
<1>3. ASSUME Clear PROVE T!Next
  <2>1. con' = vga_clear_screen(con)
    BY <1>3 DEF Clear
  <2>2. /\ Text(con') = [r \in Rows |-> BlankRow] /\ con'.line_len = [r \in Rows |-> 0]
        /\ con'.cursor_row = 0 /\ con'.cursor_column = 0
    BY <1>1, <2>1, ClearText
  <2>3. T!Clear
    BY <2>2, Mapped DEF T!Clear, T!Empty, BlankRow, Rows, Columns
  <2> QED
    BY <2>3 DEF T!Next
<1> QED
  BY <1>2, <1>3 DEF CarefulNext

-----------------------------------------------------------------------------
(* What line_len does not count is blank.                                  *)

\* Of a text and its lengths.
BlankBehind(text, lengths) ==
  \A r \in Rows, x \in Columns : x >= lengths[r] => text[r][x] = Blank

\* The inductive invariant of CarefulSpec, of a console q.
Neat(q) == Good(q) /\ Sound(q) /\ BlankBehind(Text(q), q.line_len)

\* A line feed moves text and lengths together.
LEMMA FeedBlank ==
  ASSUME NEW text, NEW lengths, BlankBehind(text, lengths), con.cursor_row \in Rows,
         T!LineFeed(text, lengths)
  PROVE  BlankBehind(Text(con'), con'.line_len)
<1>1. CASE /\ Text(con') = text /\ con'.line_len = lengths
  BY <1>1
<1>2. CASE /\ con.cursor_row = VGA_HEIGHT - 1
           /\ Text(con') = [r \in Rows |-> IF r = con.cursor_row THEN BlankRow ELSE text[r + 1]]
           /\ con'.line_len = [r \in Rows |-> IF r = con.cursor_row THEN 0 ELSE lengths[r + 1]]
  <2> SUFFICES ASSUME NEW r \in Rows, NEW x \in Columns, x >= con'.line_len[r]
               PROVE  Text(con')[r][x] = Blank
    BY DEF BlankBehind
  <2>1. CASE r = con.cursor_row
    BY <1>2, <2>1 DEF BlankRow
  <2>2. CASE r # con.cursor_row
    <3>1. r + 1 \in Rows
      BY <1>2, <2>2, Geometry DEF Rows
    <3> QED
      BY <1>2, <2>2, <3>1 DEF BlankBehind
  <2> QED
    BY <2>1, <2>2
<1> QED
  BY <1>1, <1>2, Mapped DEF T!LineFeed, T!Empty, BlankRow, Rows, Columns

\* One character replaced.
LEMMA PutAt ==
  ASSUME NEW q, NEW x \in Columns, NEW y \in Rows, NEW c, NEW r \in Rows, NEW z \in Columns
  PROVE  Put(Text(q), x, y, c)[r][z] = IF r = y /\ z = x THEN c ELSE Text(q)[r][z]
BY DEF Put, Text

\* Every step of the terminal keeps what is not counted blank, since nothing is
\* counted behind the cursor.
LEMMA StepBlank ==
  ASSUME Neat(con), T!Next
  PROVE  BlankBehind(Text(con'), con'.line_len)
<1> DEFINE y == con.cursor_row
           x == con.cursor_column
<1>1. /\ con.line_len \in Lengths /\ y \in Rows /\ x \in Columns
      /\ BlankBehind(Text(con), con.line_len) /\ con.line_len[y] <= x
  BY DEF Neat, Good, Sound, TextEndsAtCursor, Consoles
<1>2. /\ \A r \in Rows : con.line_len[r] \in Nat
      /\ \A z \in Columns : z \in Nat
  BY <1>1, Places DEF Lengths
<1>3. ASSUME NEW c, T!Type(c) PROVE BlankBehind(Text(con'), con'.line_len)
  <2> DEFINE text == Put(Text(con), x, y, c)
             n == IF x < con.line_len[y] THEN con.line_len[y] ELSE x + 1
             lengths == [con.line_len EXCEPT ![y] = n]
  <2>1. \/ T!LineFeed(text, lengths)
        \/ Text(con') = text /\ con'.line_len = lengths
    <3>1. lengths = [con.line_len EXCEPT ![y] = IF x < @ THEN @ ELSE x + 1]
      BY <1>1 DEF Lengths
    <3> HIDE DEF n, lengths
    <3> QED
      BY <1>3, <3>1, Mapped DEF T!Type, Put
  <2>2. BlankBehind(text, lengths)
    <3> SUFFICES ASSUME NEW r \in Rows, NEW z \in Columns, z >= lengths[r]
                 PROVE  text[r][z] = Blank
      BY DEF BlankBehind
    <3>1. n \in Nat /\ n >= con.line_len[y] /\ n >= x + 1
      BY <1>1, <1>2
    <3>2. lengths[r] = IF r = y THEN n ELSE con.line_len[r]
      BY <1>1 DEF Lengths
    <3> HIDE DEF n, lengths
    <3>3. ~(r = y /\ z = x)
      <4> SUFFICES ASSUME r = y, z = x PROVE FALSE
        OBVIOUS
      <4>1. x >= n /\ x \in Nat
        BY <1>1, <1>2, <3>2
      <4> HIDE DEF x, y
      <4> QED
        BY <3>1, <4>1
    <3>4. z >= con.line_len[r]
      <4>1. CASE r = y
        BY <1>1, <1>2, <3>1, <3>2, <4>1
      <4>2. CASE r # y
        BY <3>2, <4>2
      <4> QED
        BY <4>1, <4>2
    <3> HIDE DEF x, y
    <3> QED
      BY <1>1, <3>3, <3>4, PutAt DEF BlankBehind
  <2> HIDE DEF text, lengths
  <2> QED
    BY <1>1, <2>1, <2>2, FeedBlank
<1>4. ASSUME T!LineFeed(Text(con), con.line_len)
      PROVE  BlankBehind(Text(con'), con'.line_len)
  BY <1>1, <1>4, FeedBlank
<1>5. CASE T!Newline
  BY <1>4, <1>5, Mapped DEF T!Newline
<1>6. CASE T!Tab
  <2>1. \/ T!LineFeed(Text(con), con.line_len)
        \/ Text(con') = Text(con) /\ con'.line_len = con.line_len
    BY <1>6, Mapped DEF T!Tab
  <2> QED
    BY <1>1, <1>4, <2>1
<1>7. ASSUME NEW m \in Columns, NEW w \in Rows, T!Erase(m, w),
             con.line_len[w] <= m + 1
      PROVE  BlankBehind(Text(con'), con'.line_len)
  <2> DEFINE n == IF m < con.line_len[w] THEN m ELSE con.line_len[w]
             lengths == [con.line_len EXCEPT ![w] = n]
  <2>1. Text(con') = Put(Text(con), m, w, Blank) /\ con'.line_len = lengths
    <3>1. lengths = [con.line_len EXCEPT ![w] = IF m < @ THEN m ELSE @]
      BY <1>1 DEF Lengths
    <3> HIDE DEF n, lengths
    <3> QED
      BY <1>7, <3>1, Mapped DEF T!Erase, Put
  <2> SUFFICES ASSUME NEW r \in Rows, NEW z \in Columns, z >= lengths[r]
               PROVE  Put(Text(con), m, w, Blank)[r][z] = Blank
    BY <2>1 DEF BlankBehind
  <2>2. lengths[r] = IF r = w THEN n ELSE con.line_len[r]
    BY <1>1 DEF Lengths
  <2>3. (r = w /\ z = m) \/ z >= con.line_len[r]
    <3>1. con.line_len[r] \in Nat /\ con.line_len[w] \in Nat /\ z \in Nat /\ m \in Nat
      BY <1>2
    <3>2. CASE r = w
      <4>1. z >= n
        BY <2>2, <3>2
      <4> QED
        BY <1>7, <3>1, <3>2, <4>1
    <3>3. CASE r # w
      BY <2>2, <3>3
    <3> QED
      BY <3>2, <3>3
  <2> HIDE DEF lengths, n
  <2>4. CASE r = w /\ z = m
    BY <2>4, PutAt
  <2>5. CASE ~(r = w /\ z = m)
    <3>1. Put(Text(con), m, w, Blank)[r][z] = Text(con)[r][z]
      BY <2>5, PutAt
    <3> QED
      BY <1>1, <2>3, <2>5, <3>1 DEF BlankBehind
  <2> QED
    BY <2>4, <2>5
<1>8. CASE T!Backspace
  <2>1. CASE x > 0 /\ T!Erase(x - 1, y)
    <3>1. x - 1 \in Columns /\ con.line_len[y] <= (x - 1) + 1
      BY <1>1, <1>2, <2>1, Geometry DEF Columns
    <3> QED
      BY <1>1, <1>7, <2>1, <3>1
  <2>2. CASE /\ y > 0
             /\ T!Erase(IF con.line_len[y - 1] = VGA_WIDTH THEN VGA_WIDTH - 1
                        ELSE con.line_len[y - 1], y - 1)
    <3> DEFINE w == y - 1
               m == IF con.line_len[w] = VGA_WIDTH THEN VGA_WIDTH - 1 ELSE con.line_len[w]
    <3>1. w \in Rows
      BY <1>1, <2>2, Geometry DEF Rows
    <3>2. con.line_len[w] \in Nat /\ con.line_len[w] <= VGA_WIDTH
      BY <1>2, <3>1 DEF Neat, Sound, RowsFit
    <3>3. m \in Columns /\ con.line_len[w] <= m + 1
      BY <3>2, Geometry DEF Columns
    <3>4. T!Erase(m, w)
      BY <2>2
    <3> HIDE DEF m, w
    <3> QED
      BY <1>7, <3>1, <3>3, <3>4
  <2> QED
    BY <1>8, <2>1, <2>2 DEF T!Backspace
<1>9. CASE T!Clear
  <2>1. Text(con') = [r \in Rows |-> BlankRow]
    BY <1>9, Mapped DEF T!Clear, T!Empty, BlankRow, Rows, Columns
  <2> QED
    BY <2>1 DEF BlankBehind, BlankRow
<1> QED
  BY <1>3, <1>5, <1>6, <1>8, <1>9 DEF T!Next

\* Clearing makes a console neat.
LEMMA ClearNeat ==
  ASSUME NEW q \in Consoles, q.wild = FALSE
  PROVE  Neat(vga_clear_screen(q))
<1> DEFINE clear == vga_clear_screen(q)
<1>1. /\ Good(clear) /\ clear.line_len = [r \in Rows |-> 0] /\ clear.cursor_column = 0
      /\ Text(clear) = [r \in Rows |-> BlankRow]
  BY ClearGood, ClearText
<1> HIDE DEF clear
<1>2. Sound(clear)
  BY <1>1, Places, Geometry DEF Good, Sound, RowsFit
<1>3. BlankBehind(Text(clear), clear.line_len)
  BY <1>1 DEF BlankBehind, BlankRow
<1>4. Neat(clear)
  BY <1>1, <1>2, <1>3 DEF Neat
<1> QED
  BY <1>4 DEF clear

\* The console of vga_init is neat, and an empty terminal.
LEMMA InitNeat == Init => Neat(con) /\ T!Init
<1> DEFINE q == [cursor_row |-> 0, cursor_column |-> 0, line_len |-> [r \in Rows |-> 0],
                 fb |-> [n \in FbIndex |-> 0], wild |-> FALSE]
<1>1. q \in Consoles /\ q.wild = FALSE
  <2>1. 0 \in Rows /\ 0 \in 0..BYTE_VALUES-1
    BY Geometry DEF Rows
  <2> QED
    BY <2>1 DEF Consoles, Lengths, Pictures
<1>2. Init => con = vga_clear_screen(q)
  BY DEF Init
<1> HIDE DEF q
<1>3. /\ Text(vga_clear_screen(q)) = [r \in Rows |-> BlankRow]
      /\ vga_clear_screen(q).line_len = [r \in Rows |-> 0]
      /\ vga_clear_screen(q).cursor_row = 0
      /\ vga_clear_screen(q).cursor_column = 0
  BY <1>1, ClearText
<1>4. Init => T!Init
  BY <1>2, <1>3, Mapped DEF T!Init, T!Empty, BlankRow, Rows, Columns
<1>5. Init => Neat(con)
  BY <1>1, <1>2, ClearNeat
<1> QED
  BY <1>4, <1>5

\* Every step but a backspace behind a full row keeps it neat.
LEMMA NextNeat ==
  ASSUME VGA_WIDTH < BYTE_VALUES, Neat(con), [CarefulNext]_con
  PROVE  Neat(con') /\ (T!Next \/ UNCHANGED con)
<1>1. con \in Consoles /\ con.wild = FALSE /\ Good(con) /\ Sound(con)
  BY DEF Neat, Good
<1>2. T!Next \/ UNCHANGED con
  BY <1>1, StepShows
<1>3. ASSUME NEW c \in Chars, PutcNotBackOverWrap(c) PROVE Good(con') /\ Sound(con')
  <2>1. c \in 0..255 /\ con' = vga_putc(con, c) /\ ~(c = BS /\ AtWrap)
    BY <1>3, CharsAssumption DEF PutcNotBackOverWrap, Putc
  <2>2. c = BS /\ con.cursor_column = 0 /\ con.cursor_row > 0
          => ~(con.line_len[con.cursor_row - 1] >= VGA_WIDTH)
    BY <2>1 DEF AtWrap
  <2> QED
    BY <1>1, <2>1, <2>2, PutcGood, PutcSound
<1>4. CASE Clear
  BY <1>1, <1>2, <1>4, ClearNeat DEF Clear
<1>5. CASE UNCHANGED con
  BY <1>5
<1>6. ASSUME Good(con'), Sound(con') PROVE Neat(con')
  <2>1. CASE UNCHANGED con
    BY <2>1
  <2>2. CASE T!Next
    BY <1>6, <2>2, StepBlank DEF Neat
  <2> QED
    BY <1>2, <2>1, <2>2
<1> QED
  BY <1>2, <1>3, <1>4, <1>5, <1>6 DEF CarefulNext

-----------------------------------------------------------------------------
(* The theorems.                                                           *)

\* The console is good from vga_init on.
LEMMA InitGood == Init => Good(con)
<1> DEFINE k == [cursor_row |-> 0, cursor_column |-> 0, line_len |-> [r \in Rows |-> 0],
                 fb |-> [n \in FbIndex |-> 0], wild |-> FALSE]
<1>1. k \in Consoles /\ k.wild = FALSE
  <2>1. 0 \in Rows /\ 0 \in 0..BYTE_VALUES-1
    BY Geometry DEF Rows
  <2> QED
    BY <2>1 DEF Consoles, Lengths, Pictures
<1>2. Init => con = vga_clear_screen(k)
  BY DEF Init
<1> HIDE DEF k
<1> QED
  BY <1>1, <1>2, ClearGood

\* Every step keeps it good.
LEMMA NextGood == Good(con) /\ [Next]_con => Good(con)'
<1> SUFFICES ASSUME Good(con), [Next]_con PROVE Good(con')
  BY DEF Good, TextEndsAtCursor
<1>1. con \in Consoles /\ con.wild = FALSE
  BY DEF Good
<1>2. ASSUME NEW c \in Chars, Putc(c) PROVE Good(con')
  <2>1. c \in 0..255
    BY CharsAssumption
  <2> QED
    BY <1>1, <1>2, <2>1, PutcGood DEF Putc
<1>3. CASE Clear
  BY <1>1, <1>3, ClearGood DEF Clear
<1>4. CASE UNCHANGED con
  BY <1>4
<1> QED
  BY <1>2, <1>3, <1>4 DEF Next

\* The inductive invariant holds of every reachable console.
THEOREM AlwaysGood == Spec => []Good(con)
BY InitGood, NextGood, PTL DEF Spec

\* The console's fields stay in range.
THEOREM TypeCorrect == Spec => []TypeOK
<1>1. Good(con) => TypeOK
  BY DEF Good, TypeOK, Consoles, Lengths, Pictures
<1> QED
  BY <1>1, AlwaysGood, PTL

\* No sequence of characters makes vga.c write outside the framebuffer, on any
\* screen at least 228 pixels wide.
THEOREM NeverWild == Spec => []NoWildWrite
<1>1. Good(con) => NoWildWrite
  BY DEF Good, NoWildWrite
<1> QED
  BY <1>1, AlwaysGood, PTL

\* Nothing is ever counted behind the cursor.
THEOREM TextBeforeCursor == Spec => []NothingBelowCursor
<1>1. Good(con) => NothingBelowCursor
  BY DEF Good, TextEndsAtCursor, NothingBelowCursor
<1> QED
  BY <1>1, AlwaysGood, PTL

\* On every screen narrower than a length can count, and unless someone
\* backspaces over a full row, what line_len does not count is blank.
THEOREM CountedTextOnly ==
  ASSUME VGA_WIDTH < BYTE_VALUES PROVE CarefulSpec => []LineLenCounts
<1>1. Neat(con) => LineLenCounts
  <2> SUFFICES ASSUME Neat(con), NEW r \in Rows, NEW x \in Columns, x >= con.line_len[r]
               PROVE  Shows(x, r, Blank)
    BY DEF LineLenCounts
  <2>1. CellAt(con, x, r) = Blank
    BY DEF Neat, BlankBehind, Text
  <2>2. PICK c \in 0..255 : \A p \in Pixels({x}, r) : con.fb[p] = c
    <3> DEFINE one == \E c \in 0..255 : \A p \in Pixels({x}, r) : con.fb[p] = c
               first == con.fb[r * GLYPH_H * PITCH + x * GLYPH_W]
    <3>1. CellAt(con, x, r) = IF one THEN first ELSE -1
      BY DEF CellAt
    <3> HIDE DEF one, first
    <3>2. one
      BY <2>1, <3>1 DEF Blank
    <3> QED
      BY <3>2 DEF one
  <2>3. c = Blank
    BY <2>1, <2>2, CellIs
  <2> QED
    BY <2>2, <2>3 DEF Shows
<1>2. Neat(con) /\ [CarefulNext]_con => Neat(con)'
  BY NextNeat DEF Neat, Good, Sound, TextEndsAtCursor, RowsFit, BlankBehind, Text, CellAt
<1> QED
  BY <1>1, <1>2, InitNeat, PTL DEF CarefulSpec

\* And the console is a terminal: its pixels show what a grid of characters
\* with the same cursor would, through every wrap, scroll, tab and backspace.
THEOREM ConsoleIsTerminal ==
  ASSUME VGA_WIDTH < BYTE_VALUES PROVE CarefulSpec => ImplementsTerminal
<1>1. Neat(con) /\ [CarefulNext]_con => Neat(con)'
  BY NextNeat DEF Neat, Good, Sound, TextEndsAtCursor, RowsFit, BlankBehind, Text, CellAt
<1>2. Neat(con) /\ [CarefulNext]_con => [T!Next]_T!tvars
  <2> SUFFICES ASSUME Neat(con), [CarefulNext]_con PROVE T!Next \/ UNCHANGED T!tvars
    OBVIOUS
  <2>1. UNCHANGED con => UNCHANGED T!tvars
    BY Mapped DEF T!tvars
  <2> QED
    BY <2>1, NextNeat
<1> QED
  BY <1>1, <1>2, InitNeat, PTL DEF CarefulSpec, ImplementsTerminal, T!Spec
=============================================================================
