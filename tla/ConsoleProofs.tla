--------------------------- MODULE ConsoleProofs ----------------------------
(***************************************************************************)
(* Theorems about Console for every screen: until a backspace over a       *)
(* wrapped row is echoed, lost updates between vga_putc and the echo of    *)
(* the keyboard never put the cursor off the screen or a pixel outside the *)
(* framebuffer.                                                            *)
(*                                                                         *)
(* The invariant Good of VgaProofs does not survive the interrupts: a      *)
(* stale cursor stored late leaves text behind it.  What does is weaker    *)
(* and enough: every register and every half of the cursor holds a place   *)
(* on the screen, whoever wrote it, and no length exceeds the row.  That   *)
(* backspace breaks it; what outlives it is Typed, where the column may    *)
(* lie right of the screen.                                                *)
(*                                                                         *)
(* A call that nothing interrupts is followed step by step: Alone says at  *)
(* every point of vga_putc what it has done so far to the console it was   *)
(* called on, down to the rows the scroll has moved.                       *)
(***************************************************************************)
EXTENDS Console, VgaProofs

\* What the thread keeps in registers is a row of the screen and a column, which
\* may lie right of it.
Registers ==
  /\ char \in 0..255
  /\ column \in Nat
  /\ row \in Rows
  /\ k \in Nat
  /\ pc \in {"up_pixels", "up_lengths"} => k >= 1

Typed == con \in Consoles /\ Registers /\ overWrap \in BOOLEAN

\* Every half of the cursor, stored or in a register, is a place on the screen.
Placed == Sound(con) /\ column \in Columns

IInv == Typed /\ (~overWrap => Placed)

-----------------------------------------------------------------------------
(* What vga_putc does to any console, the cursor right of the screen too.  *)

\* Drawing changes nothing but pixels,
LEMMA DrawTyped ==
  ASSUME NEW q \in Consoles, NEW columns \in SUBSET Nat, NEW y \in Nat, NEW c \in 0..255
  PROVE  /\ draw_cells(q, columns, y, c) \in Consoles
         /\ draw_cells(q, columns, y, c).line_len = q.line_len
         /\ draw_cells(q, columns, y, c).cursor_row = q.cursor_row
         /\ draw_cells(q, columns, y, c).cursor_column = q.cursor_column
<1> DEFINE picture == [p \in FbIndex |-> IF p \in Pixels(columns, y) THEN c ELSE q.fb[p]]
           spilt == q.wild \/ ~(Pixels(columns, y) \subseteq FbIndex)
<1>1. picture \in Pictures
  BY DEF Pictures, Consoles
<1>2. spilt \in BOOLEAN
  BY DEF Consoles
<1>3. draw_cells(q, columns, y, c) = [q EXCEPT !.fb = picture, !.wild = spilt]
  BY DEF draw_cells
<1> HIDE DEF picture, spilt
<1> QED
  BY <1>1, <1>2, <1>3 DEF Consoles

\* and inside the framebuffer it is not noted as a wild write.
LEMMA DrawInside ==
  ASSUME NEW q \in Consoles, NEW columns, NEW y, NEW c,
         Pixels(columns, y) \subseteq FbIndex
  PROVE  draw_cells(q, columns, y, c).wild = q.wild
<1> DEFINE picture == [p \in FbIndex |-> IF p \in Pixels(columns, y) THEN c ELSE q.fb[p]]
           spilt == q.wild \/ ~(Pixels(columns, y) \subseteq FbIndex)
<1>1. q.wild \in BOOLEAN
  BY DEF Consoles
<1>2. spilt = q.wild
  BY <1>1
<1>3. draw_cells(q, columns, y, c) = [q EXCEPT !.fb = picture, !.wild = spilt]
  BY DEF draw_cells
<1> HIDE DEF picture, spilt
<1> QED
  BY <1>2, <1>3 DEF Consoles

\* A glyph, wherever it is drawn.
LEMMA GlyphTyped ==
  ASSUME NEW q \in Consoles, NEW x \in Nat, NEW y \in Rows, NEW c \in 0..255
  PROVE  /\ draw_cell(q, x, y, c) \in Consoles
         /\ draw_cell(q, x, y, c).line_len = q.line_len
         /\ draw_cell(q, x, y, c).cursor_row = q.cursor_row
         /\ draw_cell(q, x, y, c).cursor_column = q.cursor_column
<1> DEFINE columns == {x}
<1>1. columns \in SUBSET Nat /\ y \in Nat
  BY Places
<1>2. draw_cell(q, x, y, c) = draw_cells(q, columns, y, c)
  BY DEF draw_cell
<1> HIDE DEF columns
<1>3. /\ draw_cells(q, columns, y, c) \in Consoles
      /\ draw_cells(q, columns, y, c).line_len = q.line_len
      /\ draw_cells(q, columns, y, c).cursor_row = q.cursor_row
      /\ draw_cells(q, columns, y, c).cursor_column = q.cursor_column
  BY <1>1, DrawTyped
<1> QED
  BY <1>2, <1>3

\* The scroll draws on the last row only, which lies in the framebuffer.
LEMMA UpTyped ==
  ASSUME NEW q \in Consoles
  PROVE  /\ vga_up(q) \in Consoles /\ vga_up(q).wild = q.wild
         /\ vga_up(q).line_len
              = [r \in Rows |-> IF r < VGA_HEIGHT - 1 THEN q.line_len[r + 1] ELSE 0]
<1> DEFINE picture == [j \in FbIndex |-> IF j \in Scrolled
                                         THEN q.fb[j + GLYPH_H * PITCH] ELSE q.fb[j]]
           lengths == [r \in Rows |-> IF r < VGA_HEIGHT - 1 THEN q.line_len[r + 1] ELSE 0]
           moved == [q EXCEPT !.fb = picture, !.line_len = lengths]
           drawn == draw_cells(moved, Columns, VGA_HEIGHT - 1, Blank)
<1>1. picture \in Pictures
  BY ScrolledInside DEF Pictures, Consoles
<1>2. lengths \in Lengths
  <2>1. \A r \in Rows : r < VGA_HEIGHT - 1 => r + 1 \in Rows
    BY Geometry DEF Rows
  <2>2. 0 \in 0..BYTE_VALUES-1
    BY Geometry
  <2> QED
    BY <2>1, <2>2 DEF Lengths, Consoles
<1>3. vga_up(q) = drawn
  BY DEF vga_up
<1>4. moved \in Consoles /\ moved.wild = q.wild /\ moved.line_len = lengths
  <2> HIDE DEF picture, lengths
  <2> QED
    BY <1>1, <1>2 DEF Consoles
<1> HIDE DEF moved
<1>5. drawn \in Consoles /\ drawn.line_len = moved.line_len /\ drawn.wild = moved.wild
  <2> DEFINE last == VGA_HEIGHT - 1
  <2>1. Blank \in 0..255
    BY DEF Blank
  <2>2. Pixels(Columns, last) \subseteq FbIndex /\ Columns \in SUBSET Nat /\ last \in Nat
    BY RowInside, Places
  <2> HIDE DEF last
  <2>3. /\ draw_cells(moved, Columns, last, Blank) \in Consoles
        /\ draw_cells(moved, Columns, last, Blank).line_len = moved.line_len
    BY <1>4, <2>1, <2>2, DrawTyped
  <2>4. draw_cells(moved, Columns, last, Blank).wild = moved.wild
    BY <1>4, <2>2, DrawInside
  <2> QED
    BY <2>3, <2>4 DEF last
<1> HIDE DEF drawn
<1> QED
  BY <1>3, <1>4, <1>5

LEMMA MoveTyped ==
  ASSUME NEW q \in Consoles, NEW x \in Nat, NEW y \in Rows
  PROVE  vga_move_cursor(q, x, y) \in Consoles
BY DEF vga_move_cursor, Consoles

LEMMA NextRowTyped ==
  ASSUME NEW q \in Consoles
  PROVE  NextRow(q) \in Consoles
<1>1. q.cursor_row \in Nat /\ 0 \in Nat /\ VGA_HEIGHT - 1 \in Rows
  BY Places DEF Consoles
<1>2. CASE q.cursor_row + 1 >= VGA_HEIGHT
  <2> DEFINE up == vga_up(q)
  <2>1. up \in Consoles
    BY UpTyped
  <2>2. NextRow(q) = vga_move_cursor(up, 0, VGA_HEIGHT - 1)
    BY <1>2 DEF NextRow
  <2> HIDE DEF up
  <2> QED
    BY <1>1, <2>1, <2>2, MoveTyped
<1>3. CASE ~(q.cursor_row + 1 >= VGA_HEIGHT)
  <2>1. NextRow(q) = vga_move_cursor(q, 0, q.cursor_row + 1)
    BY <1>3 DEF NextRow
  <2>2. q.cursor_row + 1 \in Rows
    BY <1>1, <1>3, Geometry DEF Rows
  <2> QED
    BY <1>1, <2>1, <2>2, MoveTyped
<1> QED
  BY <1>2, <1>3

LEMMA EraseTyped ==
  ASSUME NEW q \in Consoles, NEW x \in Nat, NEW y \in Rows
  PROVE  Erase(q, x, y) \in Consoles
<1> DEFINE cell == draw_cell(q, x, y, Blank)
           n == IF x < cell.line_len[y] THEN x ELSE cell.line_len[y]
           drawn == [cell EXCEPT !.line_len[y] = n]
<1>1. cell \in Consoles
  <2>1. Blank \in 0..255
    BY DEF Blank
  <2> QED
    BY <2>1, GlyphTyped
<1>2. Erase(q, x, y) = vga_move_cursor(drawn, x, y)
  BY DEF Erase, clear_cell
<1> HIDE DEF cell
<1>3. n \in 0..BYTE_VALUES-1
  <2>1. cell.line_len[y] \in 0..BYTE_VALUES-1
    BY <1>1 DEF Consoles, Lengths
  <2> QED
    BY <2>1, Geometry
<1> HIDE DEF n
<1>4. drawn \in Consoles
  BY <1>1, <1>3, SetLengthGood
<1> HIDE DEF drawn
<1> QED
  BY <1>2, <1>4, MoveTyped

LEMMA PrintGlyphTyped ==
  ASSUME NEW q \in Consoles, NEW c \in 0..255
  PROVE  PrintGlyph(q, c) \in Consoles
<1> DEFINE x == q.cursor_column
           y == q.cursor_row
           cell == draw_cell(q, x, y, c)
           n == IF x + 1 > cell.line_len[y] THEN (x + 1) % BYTE_VALUES ELSE cell.line_len[y]
           drawn == [cell EXCEPT !.line_len[y] = n]
<1>1. x \in Nat /\ y \in Rows
  BY DEF Consoles
<1>2. cell \in Consoles
  <2> HIDE DEF x, y
  <2> QED
    BY <1>1, GlyphTyped
<1>3. PrintGlyph(q, c) = IF x + 1 >= VGA_WIDTH THEN NextRow(drawn)
                         ELSE vga_move_cursor(drawn, x + 1, y)
  BY DEF PrintGlyph
<1> HIDE DEF x, y, cell
<1>4. n \in 0..BYTE_VALUES-1
  BY <1>1, <1>2, Geometry DEF Consoles, Lengths
<1> HIDE DEF n
<1>5. drawn \in Consoles
  BY <1>1, <1>2, <1>4, SetLengthGood
<1> HIDE DEF drawn
<1>6. x + 1 \in Nat
  BY <1>1
<1> QED
  BY <1>1, <1>3, <1>5, <1>6, NextRowTyped, MoveTyped

\* Whatever is printed where, a console is left.
LEMMA PutcTyped ==
  ASSUME NEW q \in Consoles, NEW c \in 0..255
  PROVE  vga_putc(q, c) \in Consoles
<1>1. q.cursor_row \in Rows /\ q.cursor_column \in Nat /\ q.line_len \in Lengths
  BY DEF Consoles
<1>2. CASE Printable(c)
  <2>1. vga_putc(q, c) = PrintGlyph(q, c)
    BY <1>2 DEF vga_putc, NL, TAB, BS, Printable
  <2> QED
    BY <2>1, PrintGlyphTyped
<1>3. CASE ~Printable(c) /\ c = NL
  <2>1. vga_putc(q, c) = NextRow(q)
    BY <1>3 DEF vga_putc, NL, TAB, BS, Printable
  <2> QED
    BY <2>1, NextRowTyped
<1>4. CASE ~Printable(c) /\ c = TAB
  <2> DEFINE x == q.cursor_column + 2 - (q.cursor_column % 2)
  <2>1. x \in Nat
    BY <1>1
  <2>2. vga_putc(q, c) = Tab(q)
    BY <1>4 DEF vga_putc, NL, TAB, BS
  <2>3. Tab(q) = IF x >= VGA_WIDTH THEN NextRow(q)
                 ELSE vga_move_cursor(q, x, q.cursor_row)
    BY DEF Tab
  <2> HIDE DEF x
  <2> QED
    BY <1>1, <2>1, <2>2, <2>3, NextRowTyped, MoveTyped
<1>5. CASE ~Printable(c) /\ c = BS
  <2>1. vga_putc(q, c) = Backspace(q)
    BY <1>5 DEF vga_putc, BS, TAB, NL
  <2>2. CASE q.cursor_column # 0
    <3>1. q.cursor_column - 1 \in Nat
      BY <1>1, <2>2
    <3> QED
      BY <1>1, <2>1, <2>2, <3>1, EraseTyped DEF Backspace
  <2>3. CASE q.cursor_column = 0 /\ q.cursor_row = 0
    BY <2>1, <2>3 DEF Backspace
  <2>4. CASE q.cursor_column = 0 /\ q.cursor_row # 0
    <3>1. q.cursor_row - 1 \in Rows
      BY <1>1, <2>4, Geometry DEF Rows
    <3>2. q.line_len[q.cursor_row - 1] \in Nat
      BY <1>1, <3>1 DEF Lengths
    <3> QED
      BY <2>1, <2>4, <3>1, <3>2, EraseTyped DEF Backspace
  <2> QED
    BY <2>2, <2>3, <2>4
<1>6. CASE ~Printable(c) /\ c \notin {NL, TAB, BS}
  BY <1>6 DEF vga_putc
<1> QED
  BY <1>2, <1>3, <1>4, <1>5, <1>6

-----------------------------------------------------------------------------
(* The steps.                                                              *)

\* The row a call goes to is on the screen.
LEMMA ToRowKeeps ==
  ASSUME NEW y \in Nat, ToRow(y), row \in Rows, k \in Nat
  PROVE  /\ row' \in Rows /\ k' \in Nat
         /\ pc' \in {"up_pixels", "up_lengths"} => k' >= 1
<1>1. CASE y < VGA_HEIGHT
  BY <1>1, Places DEF ToRow
<1>2. CASE ~(y < VGA_HEIGHT)
  BY <1>2 DEF ToRow
<1> QED
  BY <1>1, <1>2

\* The last steps of a call: so is the column.
LEMMA ToColumnKeeps ==
  ASSUME NEW x \in Nat, Typed, ToColumn(x), UNCHANGED <<con, char, overWrap>>
  PROVE  Typed' /\ column' \in Columns
<1>1. /\ char \in 0..255 /\ column \in Nat /\ row \in Rows /\ k \in Nat
      /\ con \in Consoles /\ overWrap \in BOOLEAN
  BY DEF Typed, Registers
<1>2. row \in Nat /\ row + 1 \in Nat
  BY <1>1, Places
<1>3. column' \in Columns /\ column' \in Nat
  BY Places, Geometry DEF ToColumn
<1>4. ToRow(row) \/ ToRow(row + 1)
  BY DEF ToColumn
<1>5. /\ row' \in Rows /\ k' \in Nat
      /\ pc' \in {"up_pixels", "up_lengths"} => k' >= 1
  BY <1>1, <1>2, <1>4, ToRowKeeps
<1> QED
  BY <1>1, <1>3, <1>5 DEF Typed, Registers

\* Every step of the thread, and the interrupt, keep the types.
LEMMA NextTyped == Typed /\ [ConsoleNext]_cvars => Typed'
<1> SUFFICES ASSUME Typed, [ConsoleNext]_cvars PROVE Typed'
  OBVIOUS
<1>1. /\ con \in Consoles /\ con.cursor_row \in Rows /\ con.cursor_column \in Nat
      /\ con.line_len \in Lengths /\ con.fb \in Pictures
  BY DEF Typed, Consoles
<1>2. /\ char \in 0..255 /\ column \in Nat /\ row \in Rows /\ k \in Nat
      /\ pc \in {"up_pixels", "up_lengths"} => k >= 1
      /\ overWrap \in BOOLEAN
  BY DEF Typed, Registers
<1>3. column + 1 \in Nat /\ row \in Nat /\ row + 1 \in Nat
  BY <1>2, Places
<1>4. ASSUME NEW c \in ThreadChars, Call(c) PROVE Typed'
  <2>1. c \in 0..255
    BY ConsoleAssumption
  <2> QED
    BY <1>1, <1>2, <1>4, <2>1 DEF Call, Typed, Registers
<1>5. ASSUME NEW half \in Halves, Load(half) PROVE Typed'
  <2>1. con' = con /\ pc' = "load" /\ char' = char /\ k' = k /\ overWrap' = overWrap
    BY <1>5 DEF Load, history
  <2>2. row' \in Rows /\ column' \in Nat
    <3>1. CASE half = "row"
      BY <1>1, <1>2, <1>5, <3>1 DEF Load
    <3>2. CASE half # "row"
      BY <1>1, <1>2, <1>5, <3>2 DEF Load
    <3> QED
      BY <3>1, <3>2
  <2> QED
    BY <1>1, <1>2, <2>1, <2>2 DEF Typed, Registers
<1>6. CASE Dispatch
  <2>1. pc' \in {"draw", "newline", "tab", "idle"}
    BY <1>6 DEF Dispatch
  <2> QED
    BY <1>1, <1>2, <1>6, <2>1 DEF Dispatch, registers, history, Typed, Registers
<1>7. CASE Draw
  <2>1. con' \in Consoles
    BY <1>1, <1>2, <1>7, GlyphTyped DEF Draw
  <2> QED
    BY <1>2, <1>7, <2>1 DEF Draw, registers, history, Typed, Registers
<1>8. CASE Compare
  BY <1>1, <1>2, <1>8 DEF Compare, registers, history, Typed, Registers
<1>9. CASE StoreLength
  <2> DEFINE n == (column + 1) % BYTE_VALUES
  <2>1. n \in 0..BYTE_VALUES-1
    BY <1>3, Geometry
  <2>2. con' = [con EXCEPT !.line_len[row] = n]
    BY <1>9 DEF StoreLength
  <2> HIDE DEF n
  <2>3. con' \in Consoles
    BY <1>1, <1>2, <2>1, <2>2, SetLengthGood
  <2> QED
    BY <1>2, <1>9, <2>3 DEF StoreLength, registers, history, Typed, Registers
<1>10. CASE Advance
  BY <1>3, <1>10, ToColumnKeeps DEF Advance, history
<1>11. CASE Newline
  <2>1. ToRow(row + 1) /\ column' = 0 /\ UNCHANGED <<con, char, overWrap>>
    BY <1>11 DEF Newline, history
  <2>2. /\ row' \in Rows /\ k' \in Nat
        /\ pc' \in {"up_pixels", "up_lengths"} => k' >= 1
    BY <1>2, <1>3, <2>1, ToRowKeeps
  <2> QED
    BY <1>1, <1>2, <2>1, <2>2 DEF Typed, Registers
<1>12. CASE Tabulate
  <2>1. column + 2 - (column % 2) \in Nat
    BY <1>2
  <2> QED
    BY <1>12, <2>1, ToColumnKeeps DEF Tabulate, history
<1>13. CASE UpPixels
  <2> DEFINE picture == [j \in FbIndex |->
                           IF j \in Scrolled /\ j \in Pixels(Columns, k - 1)
                           THEN con.fb[j + GLYPH_H * PITCH] ELSE con.fb[j]]
  <2>1. picture \in Pictures
    BY <1>1, ScrolledInside DEF Pictures
  <2>2. con' = [con EXCEPT !.fb = picture]
    BY <1>13 DEF UpPixels
  <2> HIDE DEF picture
  <2>3. con' \in Consoles
    BY <1>1, <2>1, <2>2 DEF Consoles
  <2> QED
    BY <1>2, <1>13, <2>3 DEF UpPixels, history, Typed, Registers
<1>14. CASE UpClear
  <2>1. con' = draw_cells(con, Columns, VGA_HEIGHT - 1, Blank)
    BY <1>14 DEF UpClear
  <2>2. con' \in Consoles
    <3>1. Blank \in 0..255
      BY DEF Blank
    <3>2. Columns \in SUBSET Nat /\ VGA_HEIGHT - 1 \in Nat
      BY Places
    <3> QED
      BY <1>1, <2>1, <3>1, <3>2, DrawTyped
  <2> QED
    BY <1>2, <1>14, <2>2 DEF UpClear, history, Typed, Registers
<1>15. CASE UpLengths
  <2>1. k \in Rows /\ k - 1 \in Rows /\ k + 1 \in Nat /\ k + 1 >= 1
    BY <1>2, <1>15, Geometry DEF UpLengths, Rows
  <2> DEFINE n == con.line_len[k]
             y == k - 1
  <2>2. n \in 0..BYTE_VALUES-1
    BY <1>1, <2>1 DEF Lengths
  <2>3. con' = [con EXCEPT !.line_len[y] = n] /\ y \in Rows
    BY <1>15, <2>1 DEF UpLengths
  <2> HIDE DEF n, y
  <2>4. con' \in Consoles
    BY <1>1, <2>2, <2>3, SetLengthGood
  <2> QED
    BY <1>2, <1>15, <2>1, <2>4 DEF UpLengths, history, Typed, Registers
<1>16. CASE UpLastLength
  <2> DEFINE y == VGA_HEIGHT - 1
             n == 0
  <2>1. y \in Rows /\ con' = [con EXCEPT !.line_len[y] = n] /\ n \in 0..BYTE_VALUES-1
    BY <1>16, Places, Geometry DEF UpLastLength
  <2> HIDE DEF y, n
  <2>2. con' \in Consoles
    BY <1>1, <2>1, SetLengthGood
  <2> QED
    BY <1>2, <1>16, <2>2, Places DEF UpLastLength, history, Typed, Registers
<1>17. ASSUME NEW half \in Halves, Store(half) PROVE Typed'
  <2>1. con' \in Consoles
    BY <1>1, <1>2, <1>17 DEF Store, Consoles
  <2>2. pc' \in {"idle", "store"} /\ row' \in Rows /\ column' \in Nat /\ k' \in Nat
    BY <1>2, <1>17, Places DEF Store
  <2>3. char' = char /\ overWrap' = overWrap
    BY <1>17 DEF Store, history
  <2> QED
    BY <1>2, <2>1, <2>2, <2>3 DEF Typed, Registers
<1>18. ASSUME NEW c \in EchoChars, Echo(c) PROVE Typed'
  <2>1. c \in 0..255
    BY ConsoleAssumption
  <2>2. con' \in Consoles
    BY <1>1, <1>18, <2>1, PutcTyped DEF Echo
  <2>3. overWrap' \in BOOLEAN
    BY <1>18 DEF Echo
  <2> QED
    BY <1>2, <1>18, <2>2, <2>3 DEF Echo, registers, Typed, Registers
<1>19. CASE UNCHANGED cvars
  BY <1>1, <1>2, <1>19 DEF cvars, registers, history, Typed, Registers
<1> QED
  BY <1>4, <1>5, <1>6, <1>7, <1>8, <1>9, <1>10, <1>11, <1>12, <1>13, <1>14, <1>15,
     <1>16, <1>17, <1>18, <1>19 DEF ConsoleNext, Thread

\* And as long as nobody goes back over a wrapped row, they stay on the screen.
LEMMA NextPlaced ==
  ASSUME Typed, Placed, [ConsoleNext]_cvars, ~overWrap'
  PROVE  Placed'
<1>1. /\ Sound(con) /\ con \in Consoles /\ con.wild = FALSE
      /\ con.cursor_row \in Rows /\ con.cursor_column \in Columns
      /\ con.line_len \in Lengths /\ con.fb \in Pictures
  BY DEF Placed, Sound, Consoles
<1>2. /\ char \in 0..255 /\ column \in Columns /\ row \in Rows /\ k \in Nat
      /\ pc \in {"up_pixels", "up_lengths"} => k >= 1
  BY DEF Placed, Typed, Registers
<1>3. column + 1 \in Nat /\ row \in Nat /\ column \in Nat
  BY <1>2, Places
<1>4. CASE (\E c \in ThreadChars : Call(c)) \/ Dispatch \/ Compare
  <2>1. con' = con /\ column' = column
    BY <1>4 DEF Call, Dispatch, Compare, registers
  <2> QED
    BY <1>1, <1>2, <2>1 DEF Placed
<1>5. ASSUME NEW half \in Halves, Load(half) PROVE Placed'
  <2>1. con' = con
    BY <1>5 DEF Load
  <2>2. column' \in Columns
    <3>1. CASE half = "row"
      BY <1>2, <1>5, <3>1 DEF Load
    <3>2. CASE half # "row"
      BY <1>1, <1>5, <3>2 DEF Load
    <3> QED
      BY <3>1, <3>2
  <2> QED
    BY <1>1, <2>1, <2>2 DEF Placed
<1>6. CASE Draw
  <2>1. Sound(con')
    BY <1>1, <1>2, <1>6, DrawSound DEF Draw
  <2> QED
    BY <1>2, <1>6, <2>1 DEF Draw, registers, Placed
<1>7. CASE StoreLength
  <2> DEFINE n == (column + 1) % BYTE_VALUES
  <2>1. n \in 0..BYTE_VALUES-1 /\ n <= VGA_WIDTH
    BY <1>2, CountFits
  <2>2. con' = [con EXCEPT !.line_len[row] = n]
    BY <1>7 DEF StoreLength
  <2> HIDE DEF n
  <2>3. Sound(con')
    BY <1>1, <1>2, <2>1, <2>2, LengthSound
  <2> QED
    BY <1>2, <1>7, <2>3 DEF StoreLength, registers, Placed
<1>8. CASE Advance \/ Newline \/ Tabulate
  <2>1. column + 2 - (column % 2) \in Nat
    BY <1>3
  <2>2. con' = con
    BY <1>8 DEF Advance, Newline, Tabulate
  <2>3. column' \in Columns
    BY <1>3, <1>8, <2>1, Places, Geometry DEF Advance, Newline, Tabulate, ToColumn
  <2> QED
    BY <1>1, <2>2, <2>3 DEF Placed
<1>9. CASE UpPixels
  <2> DEFINE picture == [j \in FbIndex |->
                           IF j \in Scrolled /\ j \in Pixels(Columns, k - 1)
                           THEN con.fb[j + GLYPH_H * PITCH] ELSE con.fb[j]]
  <2>1. picture \in Pictures
    BY <1>1, ScrolledInside DEF Pictures
  <2>2. con' = [con EXCEPT !.fb = picture]
    BY <1>9 DEF UpPixels
  <2> HIDE DEF picture
  <2>3. /\ con' \in Consoles /\ con'.wild = FALSE
        /\ con'.cursor_column \in Columns /\ con'.line_len = con.line_len
    BY <1>1, <2>1, <2>2 DEF Consoles
  <2>4. Sound(con')
    BY <1>1, <2>3 DEF Sound, RowsFit
  <2> QED
    BY <1>2, <1>9, <2>4 DEF UpPixels, Placed
<1>10. CASE UpClear
  <2>1. con' = draw_cells(con, Columns, VGA_HEIGHT - 1, Blank) /\ Blank \in 0..255
    BY <1>10 DEF UpClear, Blank
  <2>2. /\ con' \in Consoles /\ con'.wild = FALSE
        /\ con'.line_len = con.line_len /\ con'.cursor_column = con.cursor_column
    <3>1. Columns \in SUBSET Nat /\ VGA_HEIGHT - 1 \in Nat
      BY Places
    <3> QED
      BY <1>1, <2>1, <3>1, RowInside, DrawGood
  <2>3. Sound(con')
    BY <1>1, <2>2 DEF Sound, RowsFit
  <2> QED
    BY <1>2, <1>10, <2>3 DEF UpClear, Placed
<1>11. CASE UpLengths
  <2>1. k \in Rows /\ k - 1 \in Rows
    BY <1>2, <1>11, Geometry DEF UpLengths, Rows
  <2> DEFINE n == con.line_len[k]
             y == k - 1
  <2>2. n \in 0..BYTE_VALUES-1 /\ n <= VGA_WIDTH
    BY <1>1, <2>1 DEF Sound, RowsFit, Lengths
  <2>3. con' = [con EXCEPT !.line_len[y] = n] /\ y \in Rows
    BY <1>11, <2>1 DEF UpLengths
  <2> HIDE DEF n, y
  <2>4. Sound(con')
    BY <1>1, <2>2, <2>3, LengthSound
  <2> QED
    BY <1>2, <1>11, <2>4 DEF UpLengths, Placed
<1>12. CASE UpLastLength
  <2> DEFINE y == VGA_HEIGHT - 1
  <2>1. y \in Rows /\ con' = [con EXCEPT !.line_len[y] = 0]
    BY <1>12, Places DEF UpLastLength
  <2>2. 0 \in 0..BYTE_VALUES-1 /\ 0 <= VGA_WIDTH
    BY Geometry
  <2> HIDE DEF y
  <2>3. Sound(con')
    BY <1>1, <2>1, <2>2, LengthSound
  <2> QED
    BY <1>2, <1>12, <2>3 DEF UpLastLength, Placed
<1>13. ASSUME NEW half \in Halves, Store(half) PROVE Placed'
  <2>1. Sound(con')
    <3>1. CASE half = "row"
      <4>1. con' = [con EXCEPT !.cursor_row = row]
        BY <1>13, <3>1 DEF Store
      <4>2. /\ con' \in Consoles /\ con'.wild = FALSE /\ con'.line_len = con.line_len
            /\ con'.cursor_column = con.cursor_column
        BY <1>1, <1>2, <4>1 DEF Consoles
      <4> QED
        BY <1>1, <4>2 DEF Sound, RowsFit
    <3>2. CASE half # "row"
      <4>1. con' = [con EXCEPT !.cursor_column = column]
        BY <1>13, <3>2 DEF Store
      <4>2. /\ con' \in Consoles /\ con'.wild = FALSE /\ con'.line_len = con.line_len
            /\ con'.cursor_column = column
        BY <1>1, <1>3, <4>1 DEF Consoles
      <4> QED
        BY <1>1, <1>2, <4>2 DEF Sound, RowsFit
    <3> QED
      BY <3>1, <3>2
  <2>2. column' \in Columns
    BY <1>2, <1>13, Places DEF Store
  <2> QED
    BY <2>1, <2>2 DEF Placed
<1>14. ASSUME NEW c \in EchoChars, Echo(c) PROVE Placed'
  <2>1. c \in 0..255
    BY ConsoleAssumption
  <2>2. ~(c = BS /\ AtWrap)
    BY <1>14 DEF Echo
  <2>3. c = BS /\ con.cursor_column = 0 /\ con.cursor_row > 0
          => ~(con.line_len[con.cursor_row - 1] >= VGA_WIDTH)
    BY <2>2 DEF AtWrap
  <2>4. Sound(con')
    BY <1>1, <1>14, <2>1, <2>3, PutcSound DEF Echo
  <2> QED
    BY <1>2, <1>14, <2>4 DEF Echo, registers, Placed
<1>15. CASE UNCHANGED cvars
  BY <1>1, <1>2, <1>15 DEF cvars, registers, Placed
<1> QED
  BY <1>4, <1>5, <1>6, <1>7, <1>8, <1>9, <1>10, <1>11, <1>12, <1>13, <1>14, <1>15
     DEF ConsoleNext, Thread

\* Once somebody did, it is not forgotten.
LEMMA OverWrapStays == Typed /\ [ConsoleNext]_cvars /\ overWrap => overWrap'
<1> SUFFICES ASSUME Typed, [ConsoleNext]_cvars, overWrap PROVE overWrap'
  OBVIOUS
<1>1. CASE \E c \in EchoChars : Echo(c)
  BY <1>1 DEF Echo
<1>2. CASE Thread
  <2>1. overWrap' = overWrap
    BY <1>2 DEF Thread, Call, Load, Dispatch, Draw, Compare, StoreLength, Advance,
                Newline, Tabulate, UpPixels, UpClear, UpLengths, UpLastLength, Store,
                history
  <2> QED
    BY <2>1
<1>3. CASE UNCHANGED cvars
  BY <1>3 DEF cvars, history
<1> QED
  BY <1>1, <1>2, <1>3 DEF ConsoleNext

LEMMA NextInv == IInv /\ [ConsoleNext]_cvars => IInv'
<1> SUFFICES ASSUME IInv, [ConsoleNext]_cvars PROVE IInv'
  OBVIOUS
<1>1. Typed /\ Typed'
  BY NextTyped DEF IInv
<1>2. ASSUME ~overWrap' PROVE Placed'
  <2>1. ~overWrap
    BY <1>1, <1>2, OverWrapStays
  <2> QED
    BY <1>1, <1>2, <2>1, NextPlaced DEF IInv
<1> QED
  BY <1>1, <1>2 DEF IInv

\* vga_init and vga_clear_screen leave a sound console.
LEMMA InitInv == ConsoleInit => IInv
<1> SUFFICES ASSUME ConsoleInit PROVE IInv
  OBVIOUS
<1>1. Good(con) /\ con.cursor_column = 0 /\ con.line_len = [r \in Rows |-> 0]
  <2>1. Good(con)
    BY InitGood DEF ConsoleInit
  <2>2. con.cursor_column = 0 /\ con.line_len = [r \in Rows |-> 0]
    BY DEF ConsoleInit, Init, vga_clear_screen, vga_move_cursor
  <2> QED
    BY <2>1, <2>2
<1>2. Sound(con) /\ con \in Consoles
  BY <1>1, Places, Geometry DEF Good, Sound, RowsFit
<1>3. Registers /\ column \in Columns /\ overWrap \in BOOLEAN
  <2>1. column = 0 /\ row = 0 /\ k = 0 /\ char = 0 /\ pc = "idle"
    BY DEF ConsoleInit
  <2>2. 0 \in Columns /\ 0 \in Rows
    BY Places
  <2>3. overWrap \in BOOLEAN
    BY DEF ConsoleInit
  <2> QED
    BY <2>1, <2>2, <2>3 DEF Registers
<1> QED
  BY <1>2, <1>3 DEF IInv, Typed, Placed

\* The inductive invariant of the console under interrupts.
LEMMA AlwaysInv == ConsoleSpec => []IInv
BY InitInv, NextInv, PTL DEF ConsoleSpec

-----------------------------------------------------------------------------
(* What a call has done so far, when no echo came since it was called on a *)
(* console q.                                                              *)

\* Where the cursor goes if the screen is wide enough; a newline never fits.
Beyond(q, c) ==
  IF Printable(c) THEN q.cursor_column + 1
  ELSE IF c = TAB THEN q.cursor_column + 2 - (q.cursor_column % 2)
  ELSE VGA_WIDTH

Glyph(q, c) == draw_cell(q, q.cursor_column, q.cursor_row, c)

Count(q) ==
  IF q.cursor_column + 1 > q.line_len[q.cursor_row]
  THEN (q.cursor_column + 1) % BYTE_VALUES ELSE q.line_len[q.cursor_row]

\* The console before the cursor moves.
Printed(q, c) ==
  IF Printable(c) THEN [Glyph(q, c) EXCEPT !.line_len[q.cursor_row] = Count(q)] ELSE q

\* The picture when the n first rows have been copied, and the lengths.
PictureUp(q, n) ==
  [j \in FbIndex |-> IF j \in Scrolled /\ \E r \in 0..n-1 : j \in Pixels(Columns, r)
                     THEN q.fb[j + GLYPH_H * PITCH] ELSE q.fb[j]]

LengthsUp(q, n) ==
  [r \in Rows |-> IF r < n THEN q.line_len[r + 1] ELSE q.line_len[r]]

Loaded(q) == row = q.cursor_row /\ column = q.cursor_column

Moves(c) == Printable(c) \/ c = NL \/ c = TAB

ScrollsFrom(q, c) ==
  Moves(c) /\ Beyond(q, c) >= VGA_WIDTH /\ q.cursor_row + 1 >= VGA_HEIGHT

\* The console has the picture and the lengths of another.
LooksLike(q) == con.fb = q.fb /\ con.line_len = q.line_len /\ con.wild = q.wild

Follows(q, c) ==
  /\ pc = "idle" => con = vga_putc(q, c)
  /\ pc = "load" =>
       /\ con = q
       /\ "row" \notin pending => row = q.cursor_row
       /\ "column" \notin pending => column = q.cursor_column
  /\ pc = "draw" => con = q /\ Loaded(q) /\ Printable(c)
  /\ pc = "newline" => con = q /\ Loaded(q) /\ c = NL
  /\ pc = "tab" => con = q /\ Loaded(q) /\ c = TAB
  /\ pc = "compare" =>
       con = Glyph(q, c) /\ Loaded(q) /\ Printable(c)
  /\ pc = "length" =>
       /\ con = Glyph(q, c) /\ Loaded(q) /\ Printable(c)
       /\ column + 1 > q.line_len[row]
  /\ pc = "advance" => con = Printed(q, c) /\ Loaded(q) /\ Printable(c)
  /\ pc = "up_pixels" =>
       /\ ScrollsFrom(q, c) /\ column = 0 /\ k <= VGA_HEIGHT
       /\ con.fb = PictureUp(Printed(q, c), k - 1)
       /\ con.line_len = Printed(q, c).line_len
       /\ con.wild = Printed(q, c).wild
  /\ pc = "up_lengths" =>
       /\ ScrollsFrom(q, c) /\ column = 0 /\ k <= VGA_HEIGHT
       /\ con.fb = vga_up(Printed(q, c)).fb
       /\ con.line_len = LengthsUp(Printed(q, c), k - 1)
       /\ con.wild = Printed(q, c).wild
  /\ pc = "store" =>
       LET done == vga_putc(q, c)
       IN  /\ LooksLike(done) /\ row = done.cursor_row /\ column = done.cursor_column
           /\ "row" \notin pending => con.cursor_row = row
           /\ "column" \notin pending => con.cursor_column = column

\* Either an echo came, or the call goes as vga_putc does.
Alone ==
  start # << >> =>
    \E q \in {start[1]}, c \in {char} :
      start = <<q>> /\ q \in Consoles /\ c # BS /\ Follows(q, c)

\* Consoles with the same fields are the same.
LEMMA SameConsole ==
  ASSUME NEW q \in Consoles, NEW r \in Consoles, q.fb = r.fb, q.line_len = r.line_len,
         q.cursor_row = r.cursor_row, q.cursor_column = r.cursor_column, q.wild = r.wild
  PROVE  q = r
BY DEF Consoles

\* The console before the cursor moves.
LEMMA PrintedTyped ==
  ASSUME NEW q \in Consoles, NEW c \in 0..255
  PROVE  Printed(q, c) \in Consoles /\ Printed(q, c).cursor_row = q.cursor_row
<1>1. q.cursor_row \in Rows /\ q.cursor_column \in Nat /\ q.line_len \in Lengths
  BY DEF Consoles
<1>2. CASE ~Printable(c)
  BY <1>2 DEF Printed
<1>3. CASE Printable(c)
  <2> DEFINE x == q.cursor_column
             y == q.cursor_row
             n == Count(q)
             cell == Glyph(q, c)
             drawn == [cell EXCEPT !.line_len[y] = n]
  <2>1. cell = draw_cell(q, x, y, c)
    BY DEF Glyph
  <2>2. x \in Nat /\ y \in Rows
    BY <1>1
  <2>3. n \in 0..BYTE_VALUES-1
    <3>1. q.line_len[y] \in 0..BYTE_VALUES-1
      BY <1>1 DEF Lengths
    <3> QED
      BY <1>1, <3>1, Geometry DEF Count
  <2> HIDE DEF n, x, y, cell
  <2>4. cell \in Consoles /\ cell.cursor_row = q.cursor_row
    BY <2>1, <2>2, GlyphTyped
  <2>5. drawn \in Consoles /\ drawn.cursor_row = cell.cursor_row
    BY <2>2, <2>3, <2>4, SetLengthGood
  <2> QED
    BY <1>3, <2>4, <2>5 DEF Printed, cell, y, n
<1> QED
  BY <1>2, <1>3

\* vga_putc prints and then moves the cursor.
LEMMA PutcMoves ==
  ASSUME NEW q \in Consoles, NEW c \in 0..255, Moves(c)
  PROVE  vga_putc(q, c) =
           IF Beyond(q, c) >= VGA_WIDTH THEN NextRow(Printed(q, c))
           ELSE vga_move_cursor(Printed(q, c), Beyond(q, c), q.cursor_row)
<1>1. CASE Printable(c)
  <2> DEFINE x == q.cursor_column
             y == q.cursor_row
             cell == draw_cell(q, x, y, c)
             drawn == [cell EXCEPT !.line_len[y] = Count(q)]
  <2>1. x \in Nat /\ y \in Rows
    BY DEF Consoles
  <2>2. cell.line_len = q.line_len
    <3> HIDE DEF x, y
    <3> QED
      BY <2>1, GlyphTyped
  <2>3. drawn = [cell EXCEPT !.line_len[y] =
                   IF x + 1 > cell.line_len[y] THEN (x + 1) % BYTE_VALUES
                   ELSE cell.line_len[y]]
    BY <2>2 DEF Count
  <2>4. vga_putc(q, c) = PrintGlyph(q, c)
    BY <1>1 DEF vga_putc, NL, TAB, BS, Printable
  <2>5. PrintGlyph(q, c) = IF x + 1 >= VGA_WIDTH THEN NextRow(drawn)
                           ELSE vga_move_cursor(drawn, x + 1, y)
    BY <2>3 DEF PrintGlyph
  <2>6. Printed(q, c) = drawn /\ Beyond(q, c) = x + 1
    BY <1>1 DEF Printed, Glyph, Beyond
  <2> HIDE DEF drawn
  <2> QED
    BY <2>4, <2>5, <2>6
<1>2. CASE ~Printable(c) /\ c = NL
  <2>1. vga_putc(q, c) = NextRow(q)
    BY <1>2 DEF vga_putc, NL, TAB, BS, Printable
  <2>2. Printed(q, c) = q /\ Beyond(q, c) = VGA_WIDTH
    BY <1>2 DEF Printed, Beyond, NL, TAB
  <2> QED
    BY <2>1, <2>2, Geometry
<1>3. CASE c = TAB
  <2> DEFINE x == q.cursor_column + 2 - (q.cursor_column % 2)
  <2>1. vga_putc(q, c) = Tab(q)
    BY <1>3 DEF vga_putc, NL, TAB, BS, Printable
  <2>2. Printed(q, c) = q /\ Beyond(q, c) = x
    BY <1>3 DEF Printed, Beyond, TAB, Printable
  <2>3. Tab(q) = IF x >= VGA_WIDTH THEN NextRow(q) ELSE vga_move_cursor(q, x, q.cursor_row)
    BY DEF Tab
  <2> HIDE DEF x
  <2> QED
    BY <2>1, <2>2, <2>3
<1> QED
  BY <1>1, <1>2, <1>3 DEF Moves

\* What it leaves, field by field.
LEMMA DoneIs ==
  ASSUME NEW q \in Consoles, NEW c \in 0..255, Moves(c)
  PROVE  LET b == Printed(q, c)
             done == vga_putc(q, c)
         IN  /\ done \in Consoles /\ done.wild = b.wild
             /\ Beyond(q, c) < VGA_WIDTH =>
                  /\ done.fb = b.fb /\ done.line_len = b.line_len
                  /\ done.cursor_row = q.cursor_row /\ done.cursor_column = Beyond(q, c)
             /\ ~(Beyond(q, c) < VGA_WIDTH) /\ q.cursor_row + 1 < VGA_HEIGHT =>
                  /\ done.fb = b.fb /\ done.line_len = b.line_len
                  /\ done.cursor_row = q.cursor_row + 1 /\ done.cursor_column = 0
             /\ ~(Beyond(q, c) < VGA_WIDTH) /\ ~(q.cursor_row + 1 < VGA_HEIGHT) =>
                  /\ done.fb = vga_up(b).fb
                  /\ done.line_len = [r \in Rows |-> IF r < VGA_HEIGHT - 1
                                                     THEN b.line_len[r + 1] ELSE 0]
                  /\ done.cursor_row = VGA_HEIGHT - 1 /\ done.cursor_column = 0
<1> DEFINE b == Printed(q, c)
           done == vga_putc(q, c)
           x == Beyond(q, c)
<1>1. /\ b \in Consoles /\ b.cursor_row = q.cursor_row
      /\ q.cursor_row \in Nat /\ q.cursor_row < VGA_HEIGHT
  <2>1. q.cursor_row \in Nat /\ q.cursor_row < VGA_HEIGHT
    BY Geometry DEF Consoles, Rows
  <2>2. b \in Consoles /\ b.cursor_row = q.cursor_row
    BY PrintedTyped
  <2> QED
    BY <2>1, <2>2
<1>2. x \in Nat
  <2>1. q.cursor_column \in Nat
    BY DEF Consoles
  <2> QED
    BY <2>1, Geometry DEF Beyond
<1>3. done = IF x >= VGA_WIDTH THEN NextRow(b) ELSE vga_move_cursor(b, x, q.cursor_row)
  BY PutcMoves
<1>4. done \in Consoles
  BY PutcTyped
<1> HIDE DEF b, done, x
<1>5. CASE x < VGA_WIDTH
  <2>1. done = vga_move_cursor(b, x, q.cursor_row)
    BY <1>2, <1>3, <1>5, Geometry
  <2>2. /\ done.fb = b.fb /\ done.line_len = b.line_len
        /\ done.cursor_row = q.cursor_row /\ done.cursor_column = x
        /\ done.wild = b.wild
    BY <1>1, <2>1 DEF vga_move_cursor, Consoles
  <2> QED
    BY <1>4, <1>5, <2>2 DEF b, done, x
<1>6. CASE ~(x < VGA_WIDTH) /\ q.cursor_row + 1 < VGA_HEIGHT
  <2>1. done = NextRow(b)
    BY <1>2, <1>3, <1>6, Geometry
  <2>2. done = vga_move_cursor(b, 0, q.cursor_row + 1)
    BY <1>1, <1>6, <2>1, Geometry DEF NextRow
  <2>3. /\ done.fb = b.fb /\ done.line_len = b.line_len
        /\ done.cursor_row = q.cursor_row + 1 /\ done.cursor_column = 0
        /\ done.wild = b.wild
    BY <1>1, <2>2 DEF vga_move_cursor, Consoles
  <2> QED
    BY <1>4, <1>6, <2>3 DEF b, done, x
<1>7. CASE ~(x < VGA_WIDTH) /\ ~(q.cursor_row + 1 < VGA_HEIGHT)
  <2> DEFINE up == vga_up(b)
  <2>1. done = NextRow(b)
    BY <1>2, <1>3, <1>7, Geometry
  <2>2. done = vga_move_cursor(up, 0, VGA_HEIGHT - 1)
    BY <1>1, <1>7, <2>1, Geometry DEF NextRow
  <2>3. /\ up \in Consoles
        /\ up.line_len = [r \in Rows |-> IF r < VGA_HEIGHT - 1 THEN b.line_len[r + 1] ELSE 0]
        /\ up.wild = b.wild
    BY <1>1, UpTyped
  <2> HIDE DEF up
  <2>4. /\ done.fb = up.fb /\ done.line_len = up.line_len /\ done.wild = up.wild
        /\ done.cursor_row = VGA_HEIGHT - 1 /\ done.cursor_column = 0
    BY <2>2, <2>3 DEF vga_move_cursor, Consoles
  <2> QED
    BY <1>4, <1>7, <2>3, <2>4 DEF b, done, x, up
<1> QED
  BY <1>5, <1>6, <1>7 DEF x

-----------------------------------------------------------------------------
(* The scroll, row by row.                                                 *)

\* Division with remainder.
LEMMA DivideInto ==
  ASSUME NEW n \in Nat, NEW b \in Nat \ {0}, NEW a \in 0..n*b-1
  PROVE  \E m \in 0..n-1, r \in 0..b-1 : a = m * b + r
<1> DEFINE m == a \div b
           r == a % b
<1>1. a \in Nat /\ a < n * b
  BY MulMonotonic
<1>2. m \in Nat /\ r \in 0..b-1 /\ a = m * b + r
  BY <1>1
<1> HIDE DEF m, r
<1>3. m < n
  <2>1. SUFFICES ASSUME n <= m PROVE FALSE
    BY <1>2
  <2>2. n * b <= m * b
    BY <1>2, <2>1, MulMonotonic
  <2>3. n * b \in Nat /\ m * b \in Nat
    BY <1>2
  <2> QED
    BY <1>1, <1>2, <2>2, <2>3
<1> QED
  BY <1>2, <1>3

\* What is scrolled are the rows but the last.
LEMMA ScrolledRows ==
  ASSUME NEW p
  PROVE  p \in Scrolled <=> \E r \in 0..VGA_HEIGHT-2 : p \in Pixels(Columns, r)
<1>1. ASSUME NEW r \in 0..VGA_HEIGHT-2, p \in Pixels(Columns, r)
      PROVE  p \in Scrolled
  <2>1. r \in Rows /\ r + 1 \in Rows
    BY Geometry DEF Rows
  <2>2. PICK x \in Columns : p \in Pixels({x}, r)
    BY <1>1, PixelOfRow
  <2> QED
    BY <2>1, <2>2, CellScrolls
<1>2. ASSUME p \in Scrolled
      PROVE  \E r \in 0..VGA_HEIGHT-2 : p \in Pixels(Columns, r)
  <2>1. PICK y \in GLYPH_H..VGA_HEIGHT*GLYPH_H-1, x \in 0..VGA_WIDTH*GLYPH_W-1 :
          p = (y - GLYPH_H) * PITCH + x
    BY <1>2 DEF Scrolled
  <2>2. y - GLYPH_H \in 0..(VGA_HEIGHT-1)*GLYPH_H-1
    <3>1. (VGA_HEIGHT - 1) * GLYPH_H = VGA_HEIGHT * GLYPH_H - GLYPH_H
      BY Geometry
    <3>2. VGA_HEIGHT * GLYPH_H \in Nat /\ GLYPH_H \in Nat
      BY Geometry
    <3> QED
      BY <2>1, <3>1, <3>2
  <2>3. PICK r \in 0..VGA_HEIGHT-2, j \in 0..GLYPH_H-1 : y - GLYPH_H = r * GLYPH_H + j
    <3>1. VGA_HEIGHT - 1 \in Nat /\ GLYPH_H \in Nat \ {0}
      BY Geometry
    <3>2. \E r \in 0..(VGA_HEIGHT-1)-1, j \in 0..GLYPH_H-1 : y - GLYPH_H = r * GLYPH_H + j
      BY <2>2, <3>1, DivideInto
    <3>3. (VGA_HEIGHT - 1) - 1 = VGA_HEIGHT - 2
      BY Geometry
    <3> QED
      BY <3>2, <3>3
  <2>4. PICK z \in 0..VGA_WIDTH-1, i \in 0..GLYPH_W-1 : x = z * GLYPH_W + i
    <3>1. VGA_WIDTH \in Nat /\ GLYPH_W \in Nat \ {0}
      BY Geometry
    <3> QED
      BY <3>1, DivideInto
  <2>5. p = (r * GLYPH_H + j) * PITCH + (z * GLYPH_W + i) /\ z \in Columns
    BY <2>1, <2>3, <2>4 DEF Columns
  <2>6. p \in Pixels(Columns, r)
    BY <2>5 DEF Pixels
  <2> QED
    BY <2>6
<1> QED
  BY <1>1, <1>2

\* Before the first row is copied, and after the last but one was.
LEMMA PictureNone ==
  ASSUME NEW q \in Consoles
  PROVE  PictureUp(q, 0) = q.fb
<1>1. q.fb = [j \in FbIndex |-> q.fb[j]]
  BY DEF Consoles, Pictures
<1>2. 0..0-1 = {}
  OBVIOUS
<1> QED
  BY <1>1, <1>2 DEF PictureUp

LEMMA PictureAll ==
  ASSUME NEW q
  PROVE  PictureUp(q, VGA_HEIGHT - 1)
           = [j \in FbIndex |-> IF j \in Scrolled THEN q.fb[j + GLYPH_H * PITCH] ELSE q.fb[j]]
<1>1. (VGA_HEIGHT - 1) - 1 = VGA_HEIGHT - 2
  BY Geometry
<1>2. \A j : j \in Scrolled <=>
             j \in Scrolled /\ \E r \in 0..(VGA_HEIGHT-1)-1 : j \in Pixels(Columns, r)
  BY <1>1, ScrolledRows
<1> QED
  BY <1>2 DEF PictureUp

\* Copying row n after the rows above it copies what was there.
LEMMA PictureStep ==
  ASSUME NEW q, NEW n \in Nat, n + 1 < VGA_HEIGHT, NEW picture, picture = PictureUp(q, n)
  PROVE  PictureUp(q, n + 1) =
           [j \in FbIndex |-> IF j \in Scrolled /\ j \in Pixels(Columns, n)
                              THEN picture[j + GLYPH_H * PITCH] ELSE picture[j]]
<1> DEFINE Before(j) == \E r \in 0..n-1 : j \in Pixels(Columns, r)
           Here(j) == j \in Pixels(Columns, n)
<1>1. n \in Rows /\ n + 1 \in Rows
  BY Geometry DEF Rows
<1>2. \A j : (\E r \in 0..(n+1)-1 : j \in Pixels(Columns, r)) <=> Before(j) \/ Here(j)
  <2>1. 0..(n+1)-1 = (0..n-1) \cup {n}
    OBVIOUS
  <2> QED
    BY <2>1
<1>3. ASSUME NEW j \in FbIndex, j \in Scrolled, Here(j)
      PROVE  j + GLYPH_H * PITCH \in FbIndex /\ ~Before(j + GLYPH_H * PITCH)
  <2>1. j + GLYPH_H * PITCH \in FbIndex
    <3> HIDE DEF Here, Before
    <3> QED
      BY <1>3, ScrolledInside
  <2>2. PICK x \in Columns : j \in Pixels({x}, n)
    BY <1>3, PixelOfRow
  <2>3. PICK m \in 0..GLYPH_H-1, i \in 0..GLYPH_W-1 :
          j = (n * GLYPH_H + m) * PITCH + (x * GLYPH_W + i)
    <3> HIDE DEF Here, Before
    <3> QED
      BY <2>2 DEF Pixels
  <2> DEFINE below == j + GLYPH_H * PITCH
  <2>4. below = ((n + 1) * GLYPH_H + m) * PITCH + (x * GLYPH_W + i)
    BY <1>1, <2>3, PixelBelow
  <2> HIDE DEF below
  <2>5. below \in Pixels({x}, n + 1)
    BY <2>4, PixelOf
  <2> HIDE DEF below
  <2>6. ASSUME NEW r \in 0..n-1, below \in Pixels(Columns, r)
        PROVE  FALSE
    <3>1. PICK z \in Columns : below \in Pixels({z}, r)
      BY <2>6, PixelOfRow
    <3>2. r \in Rows
      BY <1>1, Geometry DEF Rows
    <3>3. n + 1 = r
      BY <1>1, <2>5, <3>1, <3>2, CellsApart
    <3> QED
      BY <3>3
  <2> QED
    BY <2>1, <2>6 DEF below
<1>4. ASSUME NEW j \in FbIndex
      PROVE  (IF j \in Scrolled /\ \E r \in 0..(n+1)-1 : j \in Pixels(Columns, r)
              THEN q.fb[j + GLYPH_H * PITCH] ELSE q.fb[j])
             = IF j \in Scrolled /\ Here(j)
               THEN picture[j + GLYPH_H * PITCH] ELSE picture[j]
  <2>1. \A i \in FbIndex : picture[i] = IF i \in Scrolled /\ Before(i)
                                        THEN q.fb[i + GLYPH_H * PITCH] ELSE q.fb[i]
    BY DEF PictureUp
  <2> HIDE DEF Before, Here
  <2>2. CASE j \in Scrolled /\ Here(j)
    <3>1. picture[j + GLYPH_H * PITCH] = q.fb[j + GLYPH_H * PITCH]
      BY <1>3, <2>1, <2>2
    <3> QED
      BY <1>2, <2>2, <3>1
  <2>3. CASE ~(j \in Scrolled /\ Here(j))
    BY <1>2, <2>1, <2>3
  <2> QED
    BY <2>2, <2>3
<1> QED
  BY <1>4 DEF PictureUp

\* Then the last row is blanked.
LEMMA PictureCleared ==
  ASSUME NEW q \in Consoles, NEW b \in Consoles, q.fb = PictureUp(b, VGA_HEIGHT - 1)
  PROVE  draw_cells(q, Columns, VGA_HEIGHT - 1, Blank).fb = vga_up(b).fb
<1> DEFINE last == Pixels(Columns, VGA_HEIGHT - 1)
<1>1. draw_cells(q, Columns, VGA_HEIGHT - 1, Blank).fb
        = [p \in FbIndex |-> IF p \in last THEN Blank ELSE q.fb[p]]
  BY DrawPicture
<1>2. \A p \in FbIndex : q.fb[p] = IF p \in Scrolled THEN b.fb[p + GLYPH_H * PITCH]
                                   ELSE b.fb[p]
  <2>1. q.fb = [j \in FbIndex |-> IF j \in Scrolled THEN b.fb[j + GLYPH_H * PITCH]
                                  ELSE b.fb[j]]
    BY PictureAll
  <2> QED
    BY <2>1
<1>3. vga_up(b).fb = [p \in FbIndex |-> IF p \in last THEN Blank
                                       ELSE IF p \in Scrolled THEN b.fb[p + GLYPH_H * PITCH]
                                       ELSE b.fb[p]]
  BY UpPicture
<1> HIDE DEF last
<1> QED
  BY <1>1, <1>2, <1>3

\* The lengths move in the same way.
LEMMA LengthsNone ==
  ASSUME NEW q \in Consoles
  PROVE  LengthsUp(q, 0) = q.line_len
<1>1. \A r \in Rows : ~(r < 0)
  BY DEF Rows
<1>2. q.line_len = [r \in Rows |-> q.line_len[r]]
  BY DEF Consoles, Lengths
<1> QED
  BY <1>1, <1>2 DEF LengthsUp

LEMMA LengthsStep ==
  ASSUME NEW q, NEW n \in Nat, n + 1 < VGA_HEIGHT,
         NEW lengths, lengths = LengthsUp(q, n)
  PROVE  [lengths EXCEPT ![n] = lengths[n + 1]] = LengthsUp(q, n + 1)
<1>1. n \in Rows /\ n + 1 \in Rows
  BY Geometry DEF Rows
<1>2. lengths = [r \in Rows |-> IF r < n THEN q.line_len[r + 1] ELSE q.line_len[r]]
  BY DEF LengthsUp
<1>3. lengths[n + 1] = q.line_len[n + 1]
  BY <1>1, <1>2
<1>4. \A r \in Rows : r < n + 1 <=> r < n \/ r = n
  BY DEF Rows
<1>5. [lengths EXCEPT ![n] = lengths[n + 1]]
        = [r \in Rows |-> IF r = n THEN q.line_len[n + 1] ELSE lengths[r]]
  BY <1>2, <1>3
<1>6. \A r \in Rows : (IF r = n THEN q.line_len[n + 1] ELSE lengths[r])
                      = IF r < n + 1 THEN q.line_len[r + 1] ELSE q.line_len[r]
  BY <1>2, <1>4
<1> QED
  BY <1>5, <1>6 DEF LengthsUp

LEMMA LengthsAll ==
  ASSUME NEW q, NEW lengths, lengths = LengthsUp(q, VGA_HEIGHT - 1)
  PROVE  [lengths EXCEPT ![VGA_HEIGHT - 1] = 0]
           = [r \in Rows |-> IF r < VGA_HEIGHT - 1 THEN q.line_len[r + 1] ELSE 0]
<1> DEFINE last == VGA_HEIGHT - 1
<1>1. lengths = [r \in Rows |-> IF r < last THEN q.line_len[r + 1] ELSE q.line_len[r]]
  BY DEF LengthsUp
<1>2. \A r \in Rows : r < last <=> r # last
  BY Geometry DEF Rows
<1> HIDE DEF last
<1>3. [lengths EXCEPT ![last] = 0]
        = [r \in Rows |-> IF r < last THEN q.line_len[r + 1] ELSE 0]
  BY <1>1, <1>2
<1> QED
  BY <1>3 DEF last

-----------------------------------------------------------------------------
(* The steps of a call that nothing interrupts.                            *)

\* Where the cursor goes: to a place on the screen, or to a scroll first.
LEMMA ToColumnFollows ==
  ASSUME NEW q \in Consoles, NEW c \in 0..255, Moves(c),
         con = Printed(q, c), Loaded(q), ToColumn(Beyond(q, c)), con' = con
  PROVE  Follows(q, c)'
<1> DEFINE b == Printed(q, c)
           done == vga_putc(q, c)
           x == Beyond(q, c)
<1>1. b \in Consoles
  BY PrintedTyped
<1>2. q.cursor_row \in Nat /\ q.cursor_row < VGA_HEIGHT
  BY Geometry DEF Consoles, Rows
<1>3. x \in Nat
  <2>1. q.cursor_column \in Nat
    BY DEF Consoles
  <2> QED
    BY <2>1, Geometry DEF Beyond
<1>4. VGA_WIDTH \in Nat /\ VGA_HEIGHT \in Nat
  BY Geometry
<1>5. /\ x < VGA_WIDTH =>
           /\ done.fb = b.fb /\ done.line_len = b.line_len
           /\ done.cursor_row = q.cursor_row /\ done.cursor_column = x
      /\ ~(x < VGA_WIDTH) /\ q.cursor_row + 1 < VGA_HEIGHT =>
           /\ done.fb = b.fb /\ done.line_len = b.line_len
           /\ done.cursor_row = q.cursor_row + 1 /\ done.cursor_column = 0
      /\ done.wild = b.wild
  BY DoneIs
<1>6. PictureUp(b, 0) = b.fb
  BY <1>1, PictureNone
<1>7. row = q.cursor_row /\ con = b /\ con' = b
  BY DEF Loaded
<1> HIDE DEF b, done, x
<1>8. CASE x < VGA_WIDTH
  <2>1. column' = x /\ pc' = "store" /\ row' = q.cursor_row /\ pending' = Halves
    BY <1>2, <1>3, <1>4, <1>7, <1>8 DEF ToColumn, ToRow, x
  <2> QED
    BY <1>5, <1>7, <1>8, <2>1 DEF Follows, LooksLike, done, Halves
<1>9. CASE ~(x < VGA_WIDTH) /\ q.cursor_row + 1 < VGA_HEIGHT
  <2>1. column' = 0 /\ pc' = "store" /\ row' = q.cursor_row + 1 /\ pending' = Halves
    BY <1>2, <1>3, <1>4, <1>7, <1>9 DEF ToColumn, ToRow, x
  <2> QED
    BY <1>5, <1>7, <1>9, <2>1 DEF Follows, LooksLike, done, Halves
<1>10. CASE ~(x < VGA_WIDTH) /\ ~(q.cursor_row + 1 < VGA_HEIGHT)
  <2>1. column' = 0 /\ pc' = "up_pixels" /\ k' = 1
    BY <1>2, <1>3, <1>4, <1>7, <1>10 DEF ToColumn, ToRow, x
  <2>2. x >= VGA_WIDTH /\ q.cursor_row + 1 >= VGA_HEIGHT /\ 1 <= VGA_HEIGHT /\ 1 - 1 = 0
    BY <1>2, <1>3, <1>4, <1>10
  <2>3. ScrollsFrom(q, c)
    BY <2>2 DEF ScrollsFrom, x
  <2> QED
    BY <1>6, <1>7, <2>1, <2>2, <2>3 DEF Follows, b
<1> QED
  BY <1>8, <1>9, <1>10

\* The drawing of a glyph, and the length of its row.
LEMMA DrawFollows ==
  ASSUME NEW q \in Consoles, NEW c \in 0..255, c # BS, char = c, Follows(q, c),
         Dispatch \/ Draw \/ Compare \/ StoreLength
  PROVE  Follows(q, c)'
<1>1. q.cursor_row \in Rows /\ q.cursor_column \in Nat /\ q.line_len \in Lengths
  BY DEF Consoles
<1>2. Glyph(q, c) \in Consoles /\ Glyph(q, c).line_len = q.line_len
  BY <1>1, GlyphTyped DEF Glyph
<1>3. CASE Dispatch
  <2>1. con = q /\ con' = con /\ Loaded(q) /\ Loaded(q)'
    BY <1>3 DEF Dispatch, Follows, registers, Loaded
  <2>2. CASE Printable(c) \/ c = NL \/ c = TAB
    <3>1. \/ pc' = "draw" /\ Printable(c)
          \/ pc' = "newline" /\ c = NL
          \/ pc' = "tab" /\ c = TAB
      BY <1>3, <2>2 DEF Dispatch, Printable, NL, TAB
    <3> QED
      BY <2>1, <3>1 DEF Follows
  <2>3. CASE ~(Printable(c) \/ c = NL \/ c = TAB)
    <3>1. pc' = "idle"
      BY <1>3, <2>3 DEF Dispatch
    <3>2. vga_putc(q, c) = q
      BY <2>3 DEF vga_putc
    <3> QED
      BY <2>1, <3>1, <3>2 DEF Follows
  <2> QED
    BY <2>2, <2>3
<1>4. CASE Draw
  <2>1. con = q /\ Loaded(q) /\ Loaded(q)' /\ Printable(c) /\ pc' = "compare"
    BY <1>4 DEF Draw, Follows, registers, Loaded
  <2>2. con' = Glyph(q, c)
    BY <1>4, <2>1 DEF Draw, Loaded, Glyph
  <2> QED
    BY <2>1, <2>2 DEF Follows
<1>5. CASE Compare
  <2>1. con = Glyph(q, c) /\ con' = con /\ Loaded(q) /\ Loaded(q)' /\ Printable(c)
    BY <1>5 DEF Compare, Follows, registers, Loaded
  <2>2. CASE column + 1 > con.line_len[row]
    <3>1. pc' = "length" /\ column' = column /\ row' = row
      BY <1>5, <2>2 DEF Compare, registers
    <3>2. column' + 1 > q.line_len[row']
      BY <1>2, <2>1, <2>2, <3>1
    <3> QED
      BY <2>1, <3>1, <3>2 DEF Follows
  <2>3. CASE ~(column + 1 > con.line_len[row])
    <3>1. pc' = "advance"
      BY <1>5, <2>3 DEF Compare
    <3>2. ~(q.cursor_column + 1 > q.line_len[q.cursor_row])
      BY <1>2, <2>1, <2>3 DEF Loaded
    <3>3. Count(q) = Glyph(q, c).line_len[q.cursor_row]
      BY <1>2, <3>2 DEF Count
    <3> DEFINE cell == Glyph(q, c)
    <3> HIDE DEF cell
    <3>4. [cell EXCEPT !.line_len[q.cursor_row] = cell.line_len[q.cursor_row]] = cell
      <4>1. cell \in Consoles
        BY <1>2 DEF cell
      <4> DEFINE same == [cell EXCEPT !.line_len[q.cursor_row] = cell.line_len[q.cursor_row]]
      <4>2. same \in Consoles /\ same.fb = cell.fb /\ same.line_len = cell.line_len
            /\ same.cursor_row = cell.cursor_row /\ same.cursor_column = cell.cursor_column
            /\ same.wild = cell.wild
        BY <4>1 DEF Consoles, Lengths
      <4> HIDE DEF same
      <4>3. same = cell
        BY <4>1, <4>2, SameConsole
      <4> QED
        BY <4>3 DEF same
    <3>5. Printed(q, c) = cell
      BY <2>1, <3>3, <3>4 DEF Printed, cell
    <3> QED
      BY <2>1, <3>1, <3>5 DEF Follows, cell
  <2> QED
    BY <2>2, <2>3
<1>6. CASE StoreLength
  <2>1. con = Glyph(q, c) /\ Loaded(q) /\ Loaded(q)' /\ Printable(c) /\ pc' = "advance"
        /\ column + 1 > q.line_len[row]
    BY <1>6 DEF StoreLength, Follows, registers, Loaded
  <2>2. (column + 1) % BYTE_VALUES = Count(q)
    BY <2>1 DEF Count, Loaded
  <2>3. con' = [Glyph(q, c) EXCEPT !.line_len[q.cursor_row] = Count(q)]
    BY <1>6, <2>1, <2>2 DEF StoreLength, Loaded
  <2>4. con' = Printed(q, c)
    BY <2>1, <2>3 DEF Printed
  <2> QED
    BY <2>1, <2>4 DEF Follows
<1> QED
  BY <1>3, <1>4, <1>5, <1>6

\* The scroll.
LEMMA ScrollFollows ==
  ASSUME Typed, NEW q \in Consoles, NEW c \in 0..255, Follows(q, c),
         UpPixels \/ UpClear \/ UpLengths \/ UpLastLength
  PROVE  Follows(q, c)'
<1> DEFINE b == Printed(q, c)
           done == vga_putc(q, c)
           n == k - 1
<1>1. pc \in {"up_pixels", "up_lengths"} => n \in Nat /\ k = n + 1
  BY DEF Typed, Registers
<1>2. b \in Consoles /\ con \in Consoles
  BY PrintedTyped DEF Typed
<1>3. VGA_HEIGHT \in Nat /\ VGA_HEIGHT >= 1 /\ VGA_WIDTH \in Nat
  BY Geometry
<1> HIDE DEF b, n
<1>4. CASE UpPixels
  <2>1. /\ ScrollsFrom(q, c) /\ column = 0 /\ con.fb = PictureUp(b, n)
        /\ con.line_len = b.line_len /\ con.wild = b.wild
        /\ n + 1 < VGA_HEIGHT /\ n \in Nat /\ k = n + 1 /\ k' = n + 2
        /\ pc = "up_pixels" /\ pc' = pc /\ column' = column
    BY <1>1, <1>4 DEF UpPixels, Follows, b, n
  <2> DEFINE picture == [j \in FbIndex |-> IF j \in Scrolled /\ j \in Pixels(Columns, n)
                                           THEN con.fb[j + GLYPH_H * PITCH] ELSE con.fb[j]]
  <2>2. picture = PictureUp(b, n + 1)
    BY <2>1, PictureStep
  <2>3. con' = [con EXCEPT !.fb = picture]
    BY <1>4 DEF UpPixels, n
  <2> HIDE DEF picture
  <2>4. con'.fb = PictureUp(b, n + 1) /\ con'.line_len = b.line_len /\ con'.wild = b.wild
    BY <1>2, <2>1, <2>2, <2>3 DEF Consoles
  <2>5. k' - 1 = n + 1 /\ k' <= VGA_HEIGHT
    BY <1>3, <2>1
  <2> QED
    BY <2>1, <2>4, <2>5 DEF Follows, b
<1>5. CASE UpClear
  <2>1. /\ ScrollsFrom(q, c) /\ column = 0 /\ con.fb = PictureUp(b, k - 1)
        /\ con.line_len = b.line_len /\ con.wild = b.wild
        /\ k = VGA_HEIGHT /\ k' = 1 /\ pc' = "up_lengths" /\ column' = column
        /\ con' = draw_cells(con, Columns, VGA_HEIGHT - 1, Blank)
    BY <1>5 DEF UpClear, Follows, b
  <2>2. con'.fb = vga_up(b).fb
    BY <1>2, <2>1, PictureCleared
  <2>3. con'.line_len = con.line_len /\ con'.wild = con.wild
    <3>1. Columns \in SUBSET Nat /\ VGA_HEIGHT - 1 \in Nat
      BY <1>3, Places
    <3>2. Blank \in 0..255
      BY DEF Blank
    <3>3. con'.line_len = con.line_len
      BY <1>2, <2>1, <3>1, <3>2, DrawTyped
    <3>4. con'.wild = con.wild
      BY <1>2, <2>1, RowInside, DrawInside
    <3> QED
      BY <3>3, <3>4
  <2>4. LengthsUp(b, 0) = b.line_len
    BY <1>2, LengthsNone
  <2>5. k' - 1 = 0 /\ k' <= VGA_HEIGHT
    BY <1>3, <2>1
  <2> QED
    BY <2>1, <2>2, <2>3, <2>4, <2>5 DEF Follows, b
<1>6. CASE UpLengths
  <2>1. /\ ScrollsFrom(q, c) /\ column = 0 /\ con.fb = vga_up(b).fb
        /\ con.line_len = LengthsUp(b, n) /\ con.wild = b.wild
        /\ n + 1 < VGA_HEIGHT /\ n \in Nat /\ k = n + 1 /\ k' = n + 2
        /\ pc = "up_lengths" /\ pc' = pc /\ column' = column
    BY <1>1, <1>6 DEF UpLengths, Follows, b, n
  <2> DEFINE lengths == [con.line_len EXCEPT ![n] = con.line_len[n + 1]]
  <2>2. lengths = LengthsUp(b, n + 1)
    BY <2>1, LengthsStep
  <2>3. con' = [con EXCEPT !.line_len = lengths]
    BY <1>2, <1>6, <2>1 DEF UpLengths, n, Consoles
  <2> HIDE DEF lengths
  <2>4. con'.fb = con.fb /\ con'.line_len = LengthsUp(b, n + 1) /\ con'.wild = con.wild
    BY <1>2, <2>2, <2>3 DEF Consoles
  <2>5. k' - 1 = n + 1 /\ k' <= VGA_HEIGHT
    BY <1>3, <2>1
  <2> QED
    BY <2>1, <2>4, <2>5 DEF Follows, b
<1>7. CASE UpLastLength
  <2>1. /\ ScrollsFrom(q, c) /\ column = 0 /\ con.fb = vga_up(b).fb
        /\ con.line_len = LengthsUp(b, k - 1) /\ con.wild = b.wild
        /\ k = VGA_HEIGHT /\ pc' = "store" /\ column' = column
        /\ row' = VGA_HEIGHT - 1 /\ pending' = Halves
    BY <1>7 DEF UpLastLength, Follows, b
  <2> DEFINE lengths == [con.line_len EXCEPT ![VGA_HEIGHT - 1] = 0]
  <2>2. lengths = [r \in Rows |-> IF r < VGA_HEIGHT - 1 THEN b.line_len[r + 1] ELSE 0]
    BY <2>1, LengthsAll
  <2>3. con' = [con EXCEPT !.line_len = lengths]
    BY <1>2, <1>7 DEF UpLastLength, Consoles
  <2> HIDE DEF lengths
  <2>4. con'.fb = con.fb /\ con'.line_len = lengths /\ con'.wild = con.wild
    BY <1>2, <2>3 DEF Consoles
  <2>5. Moves(c) /\ ~(Beyond(q, c) < VGA_WIDTH) /\ ~(q.cursor_row + 1 < VGA_HEIGHT)
    <3>1. q.cursor_row \in Nat /\ q.cursor_column \in Nat
      BY Geometry DEF Consoles, Rows
    <3>2. Beyond(q, c) \in Nat
      BY <1>3, <3>1 DEF Beyond
    <3> QED
      BY <1>3, <2>1, <3>1, <3>2, Geometry DEF ScrollsFrom
  <2>6. /\ done.fb = vga_up(b).fb
        /\ done.line_len = [r \in Rows |-> IF r < VGA_HEIGHT - 1 THEN b.line_len[r + 1] ELSE 0]
        /\ done.cursor_row = VGA_HEIGHT - 1 /\ done.cursor_column = 0
        /\ done.wild = b.wild
    BY <2>5, DoneIs DEF b
  <2> HIDE DEF done
  <2> QED
    BY <2>1, <2>2, <2>4, <2>6 DEF Follows, LooksLike, Halves, done
<1> QED
  BY <1>4, <1>5, <1>6, <1>7

\* vga_move_cursor.
LEMMA StoreFollows ==
  ASSUME Typed, Typed', NEW q \in Consoles, NEW c \in 0..255, Follows(q, c),
         NEW half \in Halves, Store(half)
  PROVE  Follows(q, c)'
<1> DEFINE done == vga_putc(q, c)
<1>1. /\ con.fb = done.fb /\ con.line_len = done.line_len /\ con.wild = done.wild
      /\ row = done.cursor_row /\ column = done.cursor_column
      /\ "row" \notin pending => con.cursor_row = row
      /\ "column" \notin pending => con.cursor_column = column
  BY DEF Store, Follows, LooksLike
<1>2. con \in Consoles /\ con' \in Consoles /\ done \in Consoles
  BY PutcTyped DEF Typed
<1> HIDE DEF done
<1>3. /\ con'.fb = done.fb /\ con'.line_len = done.line_len /\ con'.wild = done.wild
      /\ con'.cursor_row = IF half = "row" THEN row ELSE con.cursor_row
      /\ con'.cursor_column = IF half = "row" THEN con.cursor_column ELSE column
  <2>1. CASE half = "row"
    <3>1. con' = [con EXCEPT !.cursor_row = row]
      BY <2>1 DEF Store
    <3> QED
      BY <1>1, <1>2, <2>1, <3>1 DEF Consoles
  <2>2. CASE half # "row"
    <3>1. con' = [con EXCEPT !.cursor_column = column]
      BY <2>2 DEF Store
    <3> QED
      BY <1>1, <1>2, <2>2, <3>1 DEF Consoles
  <2> QED
    BY <2>1, <2>2
<1>4. half \in pending /\ pending' = pending \ {half} /\ half \in {"row", "column"}
  BY DEF Store, Halves
<1>5. CASE pending = {half}
  <2>1. con'.cursor_row = done.cursor_row /\ con'.cursor_column = done.cursor_column
    BY <1>1, <1>3, <1>4, <1>5
  <2>2. con' = done
    BY <1>2, <1>3, <2>1, SameConsole
  <2>3. pc' = "idle"
    BY <1>5 DEF Store
  <2> QED
    BY <2>2, <2>3 DEF Follows, done
<1>6. CASE pending # {half}
  <2>1. pc' = "store" /\ row' = row /\ column' = column
    BY <1>6 DEF Store
  <2>2. /\ "row" \notin pending' => con'.cursor_row = row'
        /\ "column" \notin pending' => con'.cursor_column = column'
    BY <1>1, <1>3, <1>4, <2>1
  <2> QED
    BY <1>1, <1>3, <2>1, <2>2 DEF Follows, LooksLike, done
<1> QED
  BY <1>5, <1>6

\* What Alone says holds of the state behind every step of a call.
LEMMA NextAlone == Typed /\ Alone /\ Typed' /\ [ConsoleNext]_cvars => Alone'
<1> SUFFICES ASSUME Typed, Alone, Typed', [ConsoleNext]_cvars PROVE Alone'
  OBVIOUS
<1>1. con \in Consoles /\ char \in 0..255
  BY DEF Typed, Registers
<1>2. ASSUME NEW d \in ThreadChars, Call(d) PROVE Alone'
  <2>1. PICK r : r = con
    OBVIOUS
  <2>2. /\ start' = <<r>> /\ con' = r /\ char' = d /\ pc' = "load" /\ pending' = Halves
        /\ r \in Consoles /\ d # BS
    BY <1>1, <1>2, <2>1, ConsoleAssumption DEF Call
  <2>3. Follows(r, d)'
    BY <2>2 DEF Follows, Halves
  <2>4. r \in {start'[1]} /\ d \in {char'}
    BY <2>2
  <2> QED
    BY <2>2, <2>3, <2>4 DEF Alone
<1>3. ASSUME NEW d \in EchoChars, Echo(d) PROVE Alone'
  BY <1>3 DEF Echo, Alone
<1>4. ASSUME start' = start, char' = char, start # << >>,
             \A q, c : start = <<q>> /\ c = char /\ q \in Consoles /\ c \in 0..255
                         /\ c # BS /\ Follows(q, c) => Follows(q, c)'
      PROVE  Alone'
  <2>1. PICK q \in {start[1]}, c \in {char} :
          start = <<q>> /\ q \in Consoles /\ c # BS /\ Follows(q, c)
    BY <1>4 DEF Alone
  <2>2. Follows(q, c)'
    BY <1>1, <1>4, <2>1
  <2>3. q \in {start'[1]} /\ c \in {char'} /\ start' = <<q>>
    BY <1>4, <2>1
  <2> QED
    BY <2>1, <2>2, <2>3 DEF Alone
<1>5. CASE start = << >> /\ start' = start
  BY <1>5 DEF Alone
<1>6. ASSUME NEW q, NEW c, q \in Consoles, c = char, c \in 0..255, c # BS, Follows(q, c),
             NEW half \in Halves, Load(half)
      PROVE  Follows(q, c)'
  <2>1. con = q /\ con' = q /\ pc' = "load" /\ half \in pending /\ pending' = pending \ {half}
        /\ ("row" \notin pending => row = q.cursor_row)
        /\ ("column" \notin pending => column = q.cursor_column)
    BY <1>6 DEF Load, Follows
  <2>2. CASE half = "row"
    <3>1. row' = q.cursor_row /\ column' = column
      BY <1>6, <2>1, <2>2 DEF Load
    <3> QED
      BY <2>1, <2>2, <3>1 DEF Follows
  <2>3. CASE half # "row"
    <3>1. column' = q.cursor_column /\ row' = row
      BY <1>6, <2>1, <2>3 DEF Load
    <3>2. half = "column"
      BY <2>3 DEF Halves
    <3> QED
      BY <2>1, <3>1, <3>2 DEF Follows
  <2> QED
    BY <2>2, <2>3
<1>7. ASSUME NEW q, NEW c, q \in Consoles, c = char, c \in 0..255, c # BS, Follows(q, c),
             Advance \/ Newline \/ Tabulate
      PROVE  Follows(q, c)'
  <2>1. CASE Advance
    <3>1. con = Printed(q, c) /\ Loaded(q) /\ Printable(c) /\ con' = con
      BY <1>7, <2>1 DEF Advance, Follows
    <3>2. Beyond(q, c) = column + 1 /\ Moves(c)
      BY <3>1 DEF Beyond, Loaded, Moves
    <3>3. ToColumn(Beyond(q, c))
      BY <2>1, <3>2 DEF Advance
    <3> QED
      BY <1>7, <3>1, <3>2, <3>3, ToColumnFollows
  <2>2. CASE Newline
    <3>1. con = q /\ Loaded(q) /\ c = NL /\ con' = con
      BY <1>7, <2>2 DEF Newline, Follows
    <3>2. ~Printable(c) /\ c # TAB
      BY <3>1 DEF Printable, NL, TAB
    <3>3. Printed(q, c) = q /\ Beyond(q, c) = VGA_WIDTH /\ Moves(c)
      BY <3>1, <3>2 DEF Printed, Beyond, Moves
    <3>4. VGA_WIDTH >= VGA_WIDTH
      BY Geometry
    <3>5. ToColumn(Beyond(q, c))
      BY <2>2, <3>3, <3>4 DEF Newline, ToColumn
    <3> QED
      BY <1>7, <3>1, <3>3, <3>5, ToColumnFollows
  <2>3. CASE Tabulate
    <3>1. con = q /\ Loaded(q) /\ c = TAB /\ con' = con
      BY <1>7, <2>3 DEF Tabulate, Follows
    <3>2. ~Printable(c)
      BY <3>1 DEF Printable, TAB
    <3>3. Printed(q, c) = q /\ Beyond(q, c) = column + 2 - (column % 2) /\ Moves(c)
      BY <3>1, <3>2 DEF Printed, Beyond, Moves, Loaded
    <3>4. ToColumn(Beyond(q, c))
      BY <2>3, <3>3 DEF Tabulate
    <3> QED
      BY <1>7, <3>1, <3>3, <3>4, ToColumnFollows
  <2> QED
    BY <1>7, <2>1, <2>2, <2>3
<1>8. CASE \E half \in Halves : Load(half)
  <2>1. start' = start /\ char' = char
    BY <1>8 DEF Load, history
  <2> QED
    BY <1>4, <1>5, <1>6, <1>8, <2>1
<1>9. CASE \E half \in Halves : Store(half)
  <2>1. start' = start /\ char' = char
    BY <1>9 DEF Store, history
  <2> QED
    BY <1>4, <1>5, <1>9, <2>1, StoreFollows
<1>10. CASE Dispatch \/ Draw \/ Compare \/ StoreLength
  <2>1. start' = start /\ char' = char
    BY <1>10 DEF Dispatch, Draw, Compare, StoreLength, registers, history
  <2> QED
    BY <1>1, <1>4, <1>5, <1>10, <2>1, DrawFollows
<1>11. CASE Advance \/ Newline \/ Tabulate
  <2>1. start' = start /\ char' = char
    BY <1>11 DEF Advance, Newline, Tabulate, history
  <2> QED
    BY <1>4, <1>5, <1>7, <1>11, <2>1
<1>12. CASE UpPixels \/ UpClear \/ UpLengths \/ UpLastLength
  <2>1. start' = start /\ char' = char
    BY <1>12 DEF UpPixels, UpClear, UpLengths, UpLastLength, history
  <2> QED
    BY <1>4, <1>5, <1>12, <2>1, ScrollFollows
<1>13. CASE UNCHANGED cvars
  <2>1. start' = start /\ char' = char
    BY <1>13 DEF cvars, registers, history
  <2>2. ASSUME NEW q, NEW c, Follows(q, c) PROVE Follows(q, c)'
    BY <1>13, <2>2 DEF Follows, Loaded, LooksLike, cvars, registers
  <2> QED
    BY <1>4, <1>5, <2>1, <2>2
<1> QED
  BY <1>2, <1>3, <1>8, <1>9, <1>10, <1>11, <1>12, <1>13 DEF ConsoleNext, Thread

\* At boot, the call before the first one printed nothing.
LEMMA InitAlone == ConsoleInit => Alone
<1> SUFFICES ASSUME ConsoleInit PROVE Alone
  OBVIOUS
<1>1. start = <<con>> /\ char = 0 /\ pc = "idle" /\ con \in Consoles
  BY InitInv DEF ConsoleInit, IInv, Typed
<1>2. vga_putc(con, 0) = con /\ 0 # BS
  BY DEF vga_putc, Printable, BS, TAB, NL
<1>3. Follows(con, 0)
  BY <1>1, <1>2 DEF Follows
<1> QED
  BY <1>1, <1>2, <1>3 DEF Alone

-----------------------------------------------------------------------------
(* The theorems.                                                           *)

\* However vga_putc of the thread and echoes of keys interleave, on any screen,
\* the cursor stays on it and no row is longer than it is wide, until a
\* backspace over a wrapped row is echoed.
THEOREM AlwaysOnScreen == ConsoleSpec => []OnScreen
<1>1. IInv => OnScreen
  <2> SUFFICES ASSUME IInv, ~overWrap PROVE OnScreen
    BY DEF OnScreen
  <2>1. con \in Consoles /\ con.cursor_column \in Columns /\ RowsFit(con)
    BY DEF IInv, Placed, Sound
  <2>2. \A r \in Rows : con.line_len[r] \in Nat
    BY <2>1 DEF Consoles, Lengths
  <2> QED
    BY <2>1, <2>2, Geometry DEF OnScreen, Consoles, RowsFit
<1> QED
  BY <1>1, AlwaysInv, PTL

\* On any screen, no interleaving makes vga.c write outside the framebuffer
\* before a backspace over a wrapped row was echoed.
THEOREM StrayOnlyAfterOverWrap == ConsoleSpec => []StrayNeedsOverWrap
<1>1. IInv => StrayNeedsOverWrap
  BY DEF IInv, Placed, Sound, StrayNeedsOverWrap
<1> QED
  BY <1>1, AlwaysInv, PTL

\* A call of vga_putc that nothing interrupts does in its many steps what
\* module Vga does in one, for every character but a backspace, on any screen
\* and wherever the echoes before it left the cursor.
THEOREM AloneDoesPutc == ConsoleSpec => []AloneIsAtomic
<1>1. Alone => AloneIsAtomic
  BY DEF Alone, Follows, AloneIsAtomic
<1>2. IInv => Typed
  BY DEF IInv
<1> QED
  BY <1>1, <1>2, InitAlone, NextAlone, AlwaysInv, PTL DEF ConsoleSpec
=============================================================================
