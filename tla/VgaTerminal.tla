---------------------------- MODULE VgaTerminal -----------------------------
(***************************************************************************)
(* The framebuffer console seen as a terminal: the mapping from pixels to  *)
(* a grid of characters, under which Vga implements Terminal.              *)
(***************************************************************************)
EXTENDS Vga

\* The character a cell of a console k shows, or -1 when its pixels do not all
\* belong to one.
CellAt(k, column, row) ==
  IF \E c \in 0..255 : \A p \in Pixels({column}, row) : k.fb[p] = c
  THEN k.fb[row * GLYPH_H * PITCH + column * GLYPH_W]
  ELSE -1

T == INSTANCE Terminal WITH
       Height <- VGA_HEIGHT, Width <- VGA_WIDTH,
       Glyphs <- {c \in Chars : Printable(c)},
       grid   <- [r \in Rows |-> [x \in Columns |-> CellAt(con, x, r)]],
       used   <- con.line_len,
       row    <- con.cursor_row,
       column <- con.cursor_column

\* The framebuffer console shows what a terminal promises: scan lines, pitch,
\* scrolling by pixels and line_len implement rows of characters (as long as
\* nobody backspaces over a wrapped line).
ImplementsTerminal == T!Spec
=============================================================================
