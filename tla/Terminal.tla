------------------------------ MODULE Terminal ------------------------------
(***************************************************************************)
(* What a text console promises its callers: a grid of characters, how far *)
(* each row has been written, and a cursor.  No pixels, no pitch.          *)
(***************************************************************************)
EXTENDS Integers

CONSTANTS Height, Width, Glyphs, Blank

VARIABLES grid, used, row, column

tvars == <<grid, used, row, column>>

Empty == [x \in 0..Width-1 |-> Blank]

Init ==
  /\ grid = [r \in 0..Height-1 |-> Empty]
  /\ used = [r \in 0..Height-1 |-> 0]
  /\ row = 0 /\ column = 0

\* The cursor goes to the beginning of the next row, after the text has become
\* g and its extent u; below the last row the text moves up.
LineFeed(g, u) ==
  /\ column' = 0
  /\ \/ /\ row < Height - 1
        /\ row' = row + 1 /\ grid' = g /\ used' = u
     \/ /\ row = Height - 1
        /\ row' = row
        /\ grid' = [r \in 0..Height-1 |-> IF r = row THEN Empty ELSE g[r + 1]]
        /\ used' = [r \in 0..Height-1 |-> IF r = row THEN 0 ELSE u[r + 1]]

\* A character appears under the cursor, which moves on.
Type(c) ==
  LET g == [grid EXCEPT ![row][column] = c]
      u == [used EXCEPT ![row] = IF column < @ THEN @ ELSE column + 1]
  IN  \/ column = Width - 1 /\ LineFeed(g, u)
      \/ /\ column < Width - 1
         /\ column' = column + 1 /\ grid' = g /\ used' = u
         /\ UNCHANGED row

Newline == LineFeed(grid, used)

\* A tab moves to a column further right, or to the next row.
Tab ==
  \/ column + 2 >= Width /\ LineFeed(grid, used)
  \/ \E x \in {column + 1, column + 2} :
       /\ x % 2 = 0 /\ x < Width
       /\ column' = x
       /\ UNCHANGED <<grid, used, row>>

\* The character at (x, r) disappears and the cursor takes its place.
Erase(x, r) ==
  /\ grid' = [grid EXCEPT ![r][x] = Blank]
  /\ used' = [used EXCEPT ![r] = IF x < @ THEN x ELSE @]
  /\ row' = r /\ column' = x

\* On the row above the cursor goes behind the text, or, when the text fills
\* the row, to its last character.
Backspace ==
  \/ column > 0 /\ Erase(column - 1, row)
  \/ /\ column = 0 /\ row > 0
     /\ Erase(IF used[row - 1] = Width THEN Width - 1 ELSE used[row - 1], row - 1)

Clear ==
  /\ grid' = [r \in 0..Height-1 |-> Empty]
  /\ used' = [r \in 0..Height-1 |-> 0]
  /\ row' = 0 /\ column' = 0

Next == (\E c \in Glyphs : Type(c)) \/ Newline \/ Tab \/ Backspace \/ Clear

Spec == Init /\ [][Next]_tvars
=============================================================================
