------------------------------ MODULE CString ------------------------------
(***************************************************************************)
(* util/str.c.  A memory is a function from addresses to characters, a     *)
(* pointer an address; a string reaches from its pointer to the next NUL.  *)
(* Each function is given by what its loop finds.  Strings that no store   *)
(* can change (literals) are sequences without their NUL.                  *)
(***************************************************************************)
EXTENDS Integers, Sequences

NUL == "NUL"

BLANK == " "

\* The NULL pointer.
NULL == -1

\* No character of S lies in mem from address a to before address k.
NoneBefore(mem, a, k, S) == \A j \in a..k-1 : mem[j] \notin S

\* The address of the first character of S at or behind a.
First(mem, a, S) ==
  CHOOSE k \in DOMAIN mem : k >= a /\ mem[k] \in S /\ NoneBefore(mem, a, k, S)

strl(mem, a) == First(mem, a, {NUL}) - a

\* The string at a, as a sequence.
StringAt(mem, a) == [j \in 1..strl(mem, a) |-> mem[a + j - 1]]

\* Mutant: the comparison stops at the end of either string, without a look at
\* whether the other one ends there too.
streq_prefix(s, t) ==
  \A j \in 1..(IF Len(s) < Len(t) THEN Len(s) ELSE Len(t)) : s[j] = t[j]

streq(s, t) ==
  /\ \A j \in 1..(IF Len(s) < Len(t) THEN Len(s) ELSE Len(t)) : s[j] = t[j]
  /\ Len(s) = Len(t)

\* Mutant: behind the end of the lexeme, not on its last character.
strfle_behind(mem, a, sep) == First(mem, a, {sep, NUL})

\* The last character of the lexeme at a.  If it is empty: a itself when the
\* separator is there, and the address before a when the string ends there.
strfle(mem, a, sep) ==
  LET stop == First(mem, a, {sep, NUL})
  IN  IF stop = a /\ mem[a] = sep THEN a ELSE stop - 1

\* Mutant: one separator skipped where there may be several.
strfnl_single(mem, a, sep) ==
  LET stop == First(mem, a, {sep, NUL})
  IN  IF mem[stop] = NUL \/ mem[stop + 1] = NUL THEN NULL ELSE stop + 1

\* The first character behind the first separators, NULL if there is none.
strfnl(mem, a, sep) ==
  LET stop == First(mem, a, {sep, NUL})
      next == First(mem, stop, {mem[j] : j \in DOMAIN mem} \ {sep})
  IN  IF mem[stop] = NUL \/ mem[next] = NUL THEN NULL ELSE next

\* The max characters strncpy_f leaves at dst: no NUL if src fills them all.
strncpy_f(src, max) ==
  [j \in 0..max-1 |-> IF j < Len(src) THEN src[j + 1] ELSE NUL]
=============================================================================
