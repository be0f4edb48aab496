-------------------------------- MODULE Vga ---------------------------------
(***************************************************************************)
(* The text console of kernel/vga.c: 8x8 glyphs in a linear framebuffer.   *)
(*                                                                         *)
(* The console is one record, and every function of vga.c an operator from *)
(* a console to the console it leaves behind, so that the modules that     *)
(* print (the keyboard's echo, the shell) can compose them.                *)
(*                                                                         *)
(* Addresses are kept: a pixel is an index into the framebuffer and the    *)
(* scan lines are PITCH pixels apart, so that a cell outside the text area *)
(* lands where the code's arithmetic puts it.  Fonts and colours are not:  *)
(* a pixel holds the character whose glyph was drawn over it last (every   *)
(* colour the kernel prints with has a black background).                  *)
(***************************************************************************)
EXTENDS Integers

CONSTANTS
  FB_WIDTH, FB_HEIGHT,  \* the framebuffer, in pixels
  PITCH,                \* pixels from one scan line to the next (pitch_px)
  GLYPH_W, GLYPH_H,     \* size of a glyph: 8 and 8
  MAX_ROWS,             \* rows line_len has room for: 256
  BYTE_VALUES,          \* values of an element of line_len, a uint8_t: 256
  Chars                 \* the characters that are printed

\* Columns and rows of glyphs, computed by vga_init.
VGA_WIDTH == FB_WIDTH \div GLYPH_W
VGA_HEIGHT ==
  LET rows == FB_HEIGHT \div GLYPH_H IN IF rows > MAX_ROWS THEN MAX_ROWS ELSE rows

ASSUME GeometryAssumption ==
  /\ {FB_WIDTH, FB_HEIGHT, PITCH, GLYPH_W, GLYPH_H, MAX_ROWS, BYTE_VALUES}
       \subseteq Nat \ {0}
  /\ FB_WIDTH <= PITCH
  /\ VGA_WIDTH >= 1 /\ VGA_HEIGHT >= 1

\* The cursor is a uint16_t: no column or row of the screen reaches its limit.
ASSUME CursorAssumption ==
  VGA_WIDTH < 65535 /\ VGA_HEIGHT < 65535 /\ BYTE_VALUES < 65535

\* Nine scan lines hold 256 cells: every screen at least 228 pixels wide.  What
\* a backspace over a wrapped row may draw stays inside then.
ASSUME WideAssumption == BYTE_VALUES * GLYPH_W <= (GLYPH_H + 1) * PITCH

ASSUME CharsAssumption == Chars \subseteq 0..255

BS    == 8
TAB   == 9
NL    == 10
Blank == 32

Rows    == 0..VGA_HEIGHT-1
Columns == 0..VGA_WIDTH-1
FbIndex == 0..FB_HEIGHT*PITCH-1

-----------------------------------------------------------------------------

\* The pixels of the cells in the given columns of a row.
Pixels(columns, row) ==
  {(row * GLYPH_H + y) * PITCH + (column * GLYPH_W + x) :
     column \in columns, y \in 0..GLYPH_H-1, x \in 0..GLYPH_W-1}

\* A pixel outside the framebuffer is a wild write: it is only recorded.
draw_cells(con, columns, row, c) ==
  LET cell == Pixels(columns, row)
  IN  [con EXCEPT
         !.fb  = [k \in FbIndex |-> IF k \in cell THEN c ELSE con.fb[k]],
         !.wild = con.wild \/ ~(cell \subseteq FbIndex)]

draw_cell(con, column, row, c) == draw_cells(con, {column}, row, c)

clear_cell(con, column, row) == draw_cell(con, column, row, Blank)

vga_move_cursor(con, x, y) ==
  [con EXCEPT !.cursor_row = y, !.cursor_column = x]

\* Blanks every visible pixel; the padding of the scan lines is left alone.
vga_clear_screen(con) ==
  vga_move_cursor(
    [con EXCEPT
       !.fb = [k \in FbIndex |-> IF k % PITCH < FB_WIDTH THEN Blank ELSE con.fb[k]],
       !.line_len = [r \in Rows |-> 0]],
    0, 0)

\* The pixels that take their value from GLYPH_H scan lines below.
Scrolled ==
  {(y - GLYPH_H) * PITCH + x :
     y \in GLYPH_H..VGA_HEIGHT*GLYPH_H-1, x \in 0..VGA_WIDTH*GLYPH_W-1}

\* Mutant: the scroll that forgets that line_len scrolls too.
vga_up_keep_lengths(con) ==
  draw_cells(
    [con EXCEPT
       !.fb = [k \in FbIndex |->
                 IF k \in Scrolled THEN con.fb[k + GLYPH_H * PITCH] ELSE con.fb[k]]],
    Columns, VGA_HEIGHT - 1, Blank)

\* Mutant: the scroll that does not blank the last row.
vga_up_keep_last_row(con) ==
  [con EXCEPT
     !.fb = [k \in FbIndex |->
               IF k \in Scrolled THEN con.fb[k + GLYPH_H * PITCH] ELSE con.fb[k]],
     !.line_len = [r \in Rows |->
                     IF r < VGA_HEIGHT - 1 THEN con.line_len[r + 1] ELSE 0]]

\* Moves every row up by one, blanks the last one, and line_len with it.
vga_up(con) ==
  draw_cells(
    [con EXCEPT
       !.fb = [k \in FbIndex |->
                 IF k \in Scrolled THEN con.fb[k + GLYPH_H * PITCH] ELSE con.fb[k]],
       !.line_len = [r \in Rows |->
                       IF r < VGA_HEIGHT - 1 THEN con.line_len[r + 1] ELSE 0]],
    Columns, VGA_HEIGHT - 1, Blank)

-----------------------------------------------------------------------------
(* vga_putc, one operator for each kind of character.                      *)

\* Mutant: the row counted on at the bottom without a scroll.
NextRow_no_scroll(con) == vga_move_cursor(con, 0, con.cursor_row + 1)

\* To the beginning of the next row, scrolling at the bottom.
NextRow(con) ==
  IF con.cursor_row + 1 >= VGA_HEIGHT
  THEN vga_move_cursor(vga_up(con), 0, VGA_HEIGHT - 1)
  ELSE vga_move_cursor(con, 0, con.cursor_row + 1)

\* To the next even column.
Tab(con) ==
  LET column == con.cursor_column + 2 - (con.cursor_column % 2)
  IN  IF column >= VGA_WIDTH THEN NextRow(con)
      ELSE vga_move_cursor(con, column, con.cursor_row)

\* Mutant: the erased character still counts in line_len.
Erase_keep_length(con, column, row) ==
  vga_move_cursor(clear_cell(con, column, row), column, row)

\* Blanks the cell the cursor moves back to; the row ends there now.
Erase(con, column, row) ==
  vga_move_cursor(
    [clear_cell(con, column, row) EXCEPT
       !.line_len[row] = IF column < @ THEN column ELSE @],
    column, row)

\* One column back, or to the end of what was written on the row above.
Backspace(con) ==
  IF con.cursor_column # 0
  THEN Erase(con, con.cursor_column - 1, con.cursor_row)
  ELSE IF con.cursor_row = 0 THEN con
  ELSE Erase(con, con.line_len[con.cursor_row - 1], con.cursor_row - 1)

\* Mutant: one column too many before the line is wrapped.
PrintGlyph_wrap_late(con, c) ==
  LET row    == con.cursor_row
      column == con.cursor_column
      drawn  == [draw_cell(con, column, row, c) EXCEPT
                   !.line_len[row] =
                      IF column + 1 > @ THEN (column + 1) % BYTE_VALUES ELSE @]
  IN  IF column + 1 > VGA_WIDTH THEN NextRow(drawn)
      ELSE vga_move_cursor(drawn, column + 1, row)

PrintGlyph(con, c) ==
  LET row    == con.cursor_row
      column == con.cursor_column
      drawn  == [draw_cell(con, column, row, c) EXCEPT
                   !.line_len[row] =
                      IF column + 1 > @ THEN (column + 1) % BYTE_VALUES ELSE @]
  IN  IF column + 1 >= VGA_WIDTH THEN NextRow(drawn)
      ELSE vga_move_cursor(drawn, column + 1, row)

\* A char is signed: the bytes from 128 on are negative and print nothing.
Printable(c) == c \in 32..127

vga_putc(con, c) ==
  CASE Printable(c) -> PrintGlyph(con, c)
    [] c = NL       -> NextRow(con)
    [] c = TAB      -> Tab(con)
    [] c = BS       -> Backspace(con)
    [] OTHER        -> con

-----------------------------------------------------------------------------
VARIABLE con  \* [cursor_row, cursor_column, line_len, fb, wild]

\* kernel_main calls vga_init and vga_clear_screen before anything is printed.
Init ==
  con = vga_clear_screen(
          [cursor_row |-> 0, cursor_column |-> 0, line_len |-> [r \in Rows |-> 0],
           fb |-> [k \in FbIndex |-> 0], wild |-> FALSE])

Putc(c) == con' = vga_putc(con, c)

Clear == con' = vga_clear_screen(con)

Next == (\E c \in Chars : Putc(c)) \/ Clear

Spec == Init /\ [][Next]_con

\* The cursor wrapped at the end of a full row and a backspace follows.
AtWrap ==
  /\ con.cursor_column = 0 /\ con.cursor_row > 0
  /\ con.line_len[con.cursor_row - 1] >= VGA_WIDTH

\* Prints anything but that backspace.
PutcNotBackOverWrap(c) == ~(c = BS /\ AtWrap) /\ Putc(c)

CarefulNext == (\E c \in Chars : PutcNotBackOverWrap(c)) \/ Clear

CarefulSpec == Init /\ [][CarefulNext]_con

-----------------------------------------------------------------------------
(* Properties.                                                             *)

TypeOK ==
  con \in [cursor_row : Rows, cursor_column : Nat,
           line_len : [Rows -> 0..BYTE_VALUES-1],
           fb : [FbIndex -> 0..255], wild : BOOLEAN]

\* No sequence of characters draws outside the framebuffer, although a
\* backspace can leave the cursor in a column right of the screen.
NoWildWrite == ~con.wild

\* Nothing is counted behind the cursor: the row of the cursor ends at or
\* before it and the rows below are empty.  This is what makes a backspace into
\* the row above land behind its text.
NothingBelowCursor ==
  /\ con.line_len[con.cursor_row] <= con.cursor_column
  /\ \A r \in Rows : r > con.cursor_row => con.line_len[r] = 0

Shows(column, row, c) == \A k \in Pixels({column}, row) : con.fb[k] = c

\* "chars actually written on each row": what is not counted is blank.
LineLenCounts ==
  \A r \in Rows, x \in Columns : x >= con.line_len[r] => Shows(x, r, Blank)

\* "for correct '\b' across lines": the cursor never leaves the text area.
CursorOnScreen == con.cursor_column \in Columns
=============================================================================
