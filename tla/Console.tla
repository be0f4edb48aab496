------------------------------ MODULE Console -------------------------------
(***************************************************************************)
(* vga_putc of the kernel thread, load by load and store by store, while   *)
(* the keyboard interrupt echoes characters on the same console between    *)
(* any two of them (kbd_handle_scancode calls kprintf).  The handler runs  *)
(* to completion, so an echo is the whole vga_putc of module Vga.          *)
(*                                                                         *)
(* cursor_row, cursor_column and line_len are neither volatile nor locked: *)
(* the build may load and store the two halves of the cursor in any order. *)
(* It keeps them in registers in between.  One row of text is scrolled in  *)
(* one step.                                                               *)
(*                                                                         *)
(* Every key is echoed, also a backspace over a wrapped row, which leaves  *)
(* the cursor right of the screen even without an interrupt (module Vga).  *)
(* A history variable remembers it, for the properties that hold until     *)
(* then.                                                                   *)
(***************************************************************************)
EXTENDS Vga, Sequences

CONSTANTS
  ThreadChars,  \* the characters the thread prints; none is a backspace,
                \* because kbd_buf holds none and the kernel's texts neither
  EchoChars     \* the characters of the keys

ASSUME ConsoleAssumption ==
  /\ ThreadChars \subseteq 0..255 /\ BS \notin ThreadChars
  /\ EchoChars \subseteq 0..255

VARIABLES
  pc,        \* where the thread is in vga_putc
  char,      \* its argument
  column,    \* new_cursor_column
  row,       \* new_cursor_row
  pending,   \* halves of the cursor still to load or to store
  k,         \* the row vga_up is at
  start,     \* <<the console when vga_putc was called>>, << >> after an echo
  overWrap   \* history: a backspace over a wrapped row was echoed

registers == <<char, column, row, pending, k>>
history   == <<start, overWrap>>
cvars     == <<con, pc, registers, history>>

Halves == {"row", "column"}

ConsoleInit ==
  /\ Init
  /\ pc = "idle" /\ char = 0
  /\ column = 0 /\ row = 0 /\ pending = {} /\ k = 0
  /\ start = <<con>> /\ overWrap = FALSE

Call(c) ==
  /\ pc = "idle"
  /\ pc' = "load" /\ char' = c /\ pending' = Halves
  /\ start' = <<con>>
  /\ UNCHANGED <<con, column, row, k, overWrap>>

Load(half) ==
  /\ pc = "load" /\ half \in pending
  /\ pending' = pending \ {half}
  /\ IF half = "row"
     THEN row' = con.cursor_row /\ UNCHANGED column
     ELSE column' = con.cursor_column /\ UNCHANGED row
  /\ UNCHANGED <<con, pc, char, k, history>>

\* The switch on control characters.
Dispatch ==
  /\ pc = "load" /\ pending = {}
  /\ pc' = CASE Printable(char) -> "draw"
             [] char = NL       -> "newline"
             [] char = TAB      -> "tab"
             [] OTHER           -> "idle"
  /\ UNCHANGED <<con, registers, history>>

Draw ==
  /\ pc = "draw"
  /\ con' = draw_cell(con, column, row, char)
  /\ pc' = "compare"
  /\ UNCHANGED <<registers, history>>

Compare ==
  /\ pc = "compare"
  /\ pc' = IF column + 1 > con.line_len[row] THEN "length" ELSE "advance"
  /\ UNCHANGED <<con, registers, history>>

\* Mutant: the length of the row is the column, not the count.
StoreLength_short ==
  /\ pc = "length"
  /\ con' = [con EXCEPT !.line_len[row] = column]
  /\ pc' = "advance"
  /\ UNCHANGED <<registers, history>>

StoreLength ==
  /\ pc = "length"
  /\ con' = [con EXCEPT !.line_len[row] = (column + 1) % BYTE_VALUES]
  /\ pc' = "advance"
  /\ UNCHANGED <<registers, history>>

\* The row the cursor goes to: the next one, or, after a scroll, the last.
ToRow(r) ==
  IF r < VGA_HEIGHT
  THEN pc' = "store" /\ row' = r /\ pending' = Halves /\ UNCHANGED k
  ELSE pc' = "up_pixels" /\ k' = 1 /\ UNCHANGED <<row, pending>>

\* The column it goes to, wrapped at the end of the row.
ToColumn(x) ==
  IF x >= VGA_WIDTH
  THEN column' = 0 /\ ToRow(row + 1)
  ELSE column' = x /\ ToRow(row)

\* Mutant: one column too many before the line is wrapped.
Advance_wrap_late ==
  /\ pc = "advance"
  /\ IF column + 1 > VGA_WIDTH
     THEN column' = 0 /\ ToRow(row + 1)
     ELSE column' = column + 1 /\ ToRow(row)
  /\ UNCHANGED <<con, char, history>>

Advance ==
  /\ pc = "advance"
  /\ ToColumn(column + 1)
  /\ UNCHANGED <<con, char, history>>

Newline ==
  /\ pc = "newline"
  /\ column' = 0 /\ ToRow(row + 1)
  /\ UNCHANGED <<con, char, history>>

Tabulate ==
  /\ pc = "tab"
  /\ ToColumn(column + 2 - (column % 2))
  /\ UNCHANGED <<con, char, history>>

\* vga_up copies the pixels of row k to the row above.
UpPixels ==
  /\ pc = "up_pixels" /\ k < VGA_HEIGHT
  /\ con' = [con EXCEPT
               !.fb = [j \in FbIndex |->
                         IF j \in Scrolled /\ j \in Pixels(Columns, k - 1)
                         THEN con.fb[j + GLYPH_H * PITCH] ELSE con.fb[j]]]
  /\ k' = k + 1
  /\ UNCHANGED <<pc, char, column, row, pending, history>>

\* Then it blanks the last row,
UpClear ==
  /\ pc = "up_pixels" /\ k = VGA_HEIGHT
  /\ con' = draw_cells(con, Columns, VGA_HEIGHT - 1, Blank)
  /\ pc' = "up_lengths" /\ k' = 1
  /\ UNCHANGED <<char, column, row, pending, history>>

\* and moves the lengths of the rows.
UpLengths ==
  /\ pc = "up_lengths" /\ k < VGA_HEIGHT
  /\ con' = [con EXCEPT !.line_len[k - 1] = con.line_len[k]]
  /\ k' = k + 1
  /\ UNCHANGED <<pc, char, column, row, pending, history>>

\* Mutant: the cursor stored on the row behind the last one after a scroll.
UpLastLength_row_below ==
  /\ pc = "up_lengths" /\ k = VGA_HEIGHT
  /\ con' = [con EXCEPT !.line_len[VGA_HEIGHT - 1] = 0]
  /\ pc' = "store" /\ row' = VGA_HEIGHT /\ pending' = Halves
  /\ UNCHANGED <<char, column, k, history>>

UpLastLength ==
  /\ pc = "up_lengths" /\ k = VGA_HEIGHT
  /\ con' = [con EXCEPT !.line_len[VGA_HEIGHT - 1] = 0]
  /\ pc' = "store" /\ row' = VGA_HEIGHT - 1 /\ pending' = Halves
  /\ UNCHANGED <<char, column, k, history>>

\* vga_move_cursor.
Store(half) ==
  /\ pc = "store" /\ half \in pending
  /\ pending' = pending \ {half}
  /\ con' = IF half = "row" THEN [con EXCEPT !.cursor_row = row]
            ELSE [con EXCEPT !.cursor_column = column]
  /\ IF pending = {half}
     THEN pc' = "idle" /\ column' = 0 /\ row' = 0 /\ k' = 0  \* registers are dead
     ELSE UNCHANGED <<pc, column, row, k>>
  /\ UNCHANGED <<char, history>>

\* The interrupt, at any time.
Echo(c) ==
  /\ con' = vga_putc(con, c)
  /\ overWrap' = (overWrap \/ (c = BS /\ AtWrap))
  /\ start' = << >>
  /\ UNCHANGED <<pc, registers>>

Thread ==
  \/ \E c \in ThreadChars : Call(c)
  \/ \E half \in Halves : Load(half) \/ Store(half)
  \/ Dispatch \/ Draw \/ Compare \/ StoreLength \/ Advance \/ Newline \/ Tabulate
  \/ UpPixels \/ UpClear \/ UpLengths \/ UpLastLength

ConsoleNext == Thread \/ \E c \in EchoChars : Echo(c)

ConsoleSpec == ConsoleInit /\ [][ConsoleNext]_cvars

-----------------------------------------------------------------------------
(* Properties.                                                             *)

\* However calls and echoes interleave, lost updates of the cursor and lengths
\* of rows included, the cursor stays inside the text area and no row is longer
\* than the screen is wide, until a backspace over a wrapped row is echoed.
OnScreen ==
  ~overWrap =>
    /\ con.cursor_row \in Rows /\ con.cursor_column \in Columns
    /\ \A r \in Rows : con.line_len[r] \in 0..VGA_WIDTH

\* Only then can any of them draw outside the framebuffer.
StrayNeedsOverWrap == con.wild => overWrap

\* "for correct '\b' across lines": no backspace, whatever it interrupts, makes
\* the console draw outside the framebuffer.
NoStrayPixel == ~con.wild

\* A call that is not interrupted does in its many steps what module Vga says
\* vga_putc does in one: the composition there is the code's.
AloneIsAtomic == pc = "idle" /\ start # << >> => con = vga_putc(start[1], char)
=============================================================================
