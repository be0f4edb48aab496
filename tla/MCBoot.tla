------------------------------- MODULE MCBoot -------------------------------
(***************************************************************************)
(* Tables of two entries, sixteen pages.  The direct map starts at page 8; *)
(* the text buffer is frame 1, so that it is page 9 that _start maps.      *)
(* Frames 0 to 7 are memory, 8 to 11 the boot loader's tables, and the     *)
(* kernel lies at 12, with its scratch tables at 13.                       *)
(***************************************************************************)
EXTENDS Boot

Page(f)  == TableEntry(f)
Large(f) == [TableEntry(f) EXCEPT !.large = TRUE]
High(f)  == [TableEntry(f) EXCEPT !.high = TRUE]
No       == NotPresent
T(a, b)  == [k \in Index |-> IF k = 0 THEN a ELSE b]

\* Tables for frames 8, 9, 10, 11: PML4, PDPT, PD, PT of the direct map.
Tree(pml4, pdpt, pd, pt) ==
  [f \in 8..11 |->
     CASE f = 8 -> pml4 [] f = 9 -> pdpt [] f = 10 -> pd [] OTHER -> pt]

MCBootTables ==
  { \* page 8 is mapped and page 9 is not
    Tree(T(No, Page(9)), T(Page(10), Large(4)), T(Page(11), Large(2)), T(Page(0), No)),
    \* page 9 is mapped to some other frame
    Tree(T(No, Page(9)), T(Page(10), No), T(Page(11), No), T(Page(0), Page(3))),
    \* no page table, no page directory, nothing at all
    Tree(T(No, Page(9)), T(Page(10), Large(4)), T(No, Large(2)), T(No, No)),
    Tree(T(No, Page(9)), T(No, Large(4)), T(No, No), T(No, No)),
    Tree(T(No, No), T(No, No), T(No, No), T(No, No)),
    \* page 9 lies in a large page
    Tree(T(No, Page(9)), T(Page(10), No), T(Large(0), No), T(No, No)),
    Tree(T(No, Page(9)), T(Large(0), No), T(No, No), T(No, No)),
    \* a table that is not executable
    Tree(T(No, Page(9)), T(High(10), No), T(Page(11), No), T(No, No)) }

MCBootUarts ==
  [divisor_low : {12}, divisor_high : {0, 1}, ier : {0, 5}, fcr : {0},
   lcr : {3, 7}, mcr : {0}, sent : {FALSE}]

\* The page just mapped again, its neighbour, and pages far from both.
MCRequests == {<<9, 5>>, <<8, 6>>, <<2, 7>>}
=============================================================================
