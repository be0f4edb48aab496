---------------------------- MODULE ShellProofs ----------------------------
(***************************************************************************)
(* Theorems about Shell, and about the strings, formats and numbers it     *)
(* rests on, for every line, every length of a line and any set of         *)
(* characters.                                                             *)
(*                                                                         *)
(* The loops are dealt with by induction in the form of a set of numbers   *)
(* that is closed under successor (Induction).                             *)
(***************************************************************************)
EXTENDS Shell, WellFoundedInduction, TLAPS

-----------------------------------------------------------------------------
(* Numbers.                                                                *)

LEMMA Least ==
  ASSUME NEW S \in SUBSET Nat, S # {}
  PROVE  \E n \in S : \A m \in S : n <= m
<1> DEFINE R == {ss \in Nat \X Nat : ss[1] < ss[2]}
<1>1. IsWellFoundedOn(R, Nat)
  BY NatLessThanWellFounded DEF OpToRel
<1>2. \E n \in S : \A m \in S : ~ (<<m, n>> \in R)
  <2> HIDE DEF R
  <2> QED
    BY <1>1, WFMin
<1>3. ASSUME NEW n \in Nat, NEW m \in Nat, ~ (<<m, n>> \in R)
      PROVE  n <= m
  BY <1>3
<1> HIDE DEF R
<1> QED
  BY <1>2, <1>3

LEMMA Induction ==
  ASSUME NEW S, 0 \in S, \A n \in Nat : n \in S => n + 1 \in S
  PROVE  \A n \in Nat : n \in S
<1> SUFFICES ASSUME Nat \ S # {} PROVE FALSE
  OBVIOUS
<1>1. PICK n \in Nat \ S : \A m \in Nat \ S : n <= m
  BY Least
<1>2. n - 1 \in Nat /\ n - 1 \in S
  BY <1>1
<1> QED
  BY <1>1, <1>2

-----------------------------------------------------------------------------
(* Strings in a memory.                                                    *)

\* What the loops over a string find, if there is anything to find.
LEMMA FirstIs ==
  ASSUME NEW n \in Nat, NEW mem, DOMAIN mem = 0..n-1, NEW S,
         NEW a \in 0..n-1, NEW k \in a..n-1, mem[k] \in S
  PROVE  /\ First(mem, a, S) \in a..k
         /\ mem[First(mem, a, S)] \in S
         /\ NoneBefore(mem, a, First(mem, a, S), S)
<1> DEFINE T == {j \in a..n-1 : mem[j] \in S}
<1>1. T \in SUBSET Nat /\ k \in T
  OBVIOUS
<1>2. PICK f \in T : \A m \in T : f <= m
  BY <1>1, Least
<1>3. f \in DOMAIN mem /\ f >= a /\ mem[f] \in S /\ NoneBefore(mem, a, f, S)
  BY <1>2 DEF NoneBefore
<1>4. \E j \in DOMAIN mem : j >= a /\ mem[j] \in S /\ NoneBefore(mem, a, j, S)
  BY <1>3
<1> DEFINE g == First(mem, a, S)
<1>5. g \in DOMAIN mem /\ g >= a /\ mem[g] \in S /\ NoneBefore(mem, a, g, S)
  BY <1>4 DEF First
<1>6. ~ (k < g)
  BY <1>5 DEF NoneBefore
<1> QED
  BY <1>5, <1>6

\* There is only one such address.
LEMMA FirstOnly ==
  ASSUME NEW n \in Nat, NEW mem, DOMAIN mem = 0..n-1, NEW S,
         NEW a \in 0..n-1, NEW k \in a..n-1, mem[k] \in S, NoneBefore(mem, a, k, S)
  PROVE  First(mem, a, S) = k
<1>1. /\ First(mem, a, S) \in a..k
      /\ mem[First(mem, a, S)] \in S
  BY FirstIs
<1> QED
  BY <1>1 DEF NoneBefore

LEMMA StringIs ==
  ASSUME NEW n \in Nat, NEW mem, DOMAIN mem = 0..n-1,
         NEW a \in 0..n-1, NEW k \in a..n-1, mem[k] = NUL, \A j \in a..k-1 : mem[j] # NUL
  PROVE  /\ strl(mem, a) = k - a
         /\ StringAt(mem, a) = [j \in 1..k-a |-> mem[a + j - 1]]
<1>1. First(mem, a, {NUL}) = k
  BY FirstOnly DEF NoneBefore
<1> QED
  BY <1>1 DEF strl, StringAt

-----------------------------------------------------------------------------
(* The two halves of a line.                                               *)

Chars == Letters \cup {NUL}

Memories == [0..LINE_MAX-1 -> Chars]

\* The string at the beginning of mem ends at e.
EndsAt(mem, e) == e \in 0..LINE_MAX-1 /\ mem[e] = NUL /\ \A j \in 0..e-1 : mem[j] # NUL

LEMMA Ends ==
  ASSUME NEW mem \in Memories, NEW k \in 0..LINE_MAX-1, mem[k] = NUL
  PROVE  \E e \in 0..k : EndsAt(mem, e)
<1> LINE_MAX \in Nat /\ DOMAIN mem = 0..LINE_MAX-1
  BY ShellAssumption DEF Memories
<1> DEFINE e == First(mem, 0, {NUL})
<1>1. e \in 0..k /\ mem[e] \in {NUL} /\ NoneBefore(mem, 0, e, {NUL})
  BY FirstIs
<1> HIDE DEF e
<1>2. e \in 0..LINE_MAX-1 /\ mem[e] = NUL
  BY <1>1
<1>3. \A j \in 0..e-1 : mem[j] # NUL
  BY <1>1 DEF NoneBefore
<1>4. EndsAt(mem, e)
  BY <1>2, <1>3 DEF EndsAt
<1> QED
  BY <1>1, <1>4

LEMMA TypedIs ==
  ASSUME NEW mem \in Memories, NEW e, EndsAt(mem, e)
  PROVE  /\ StringAt(mem, 0) = [j \in 1..e |-> mem[j - 1]]
         /\ StringAt(mem, 0) \in Seq(Chars) /\ Len(StringAt(mem, 0)) = e
<1> LINE_MAX \in Nat /\ DOMAIN mem = 0..LINE_MAX-1
  BY ShellAssumption DEF Memories
<1>1. StringAt(mem, 0) = [j \in 1..e-0 |-> mem[0 + j - 1]]
  BY StringIs DEF EndsAt
<1>2. e - 0 = e /\ \A j \in 1..e : 0 + j - 1 = j - 1
  BY DEF EndsAt
<1>3. StringAt(mem, 0) = [j \in 1..e |-> mem[j - 1]]
  BY <1>1, <1>2
<1>4. \A j \in 1..e : mem[j - 1] \in Chars
  BY DEF Memories, EndsAt
<1> QED
  BY <1>3, <1>4 DEF EndsAt

\* The word ends at w, behind it come blanks, and the rest starts at a.
Parts(mem, e, w, a) ==
  /\ w \in 1..e /\ a \in w..e
  /\ \A j \in 0..w-1 : mem[j] \notin {BLANK, NUL}
  /\ \A j \in w..a-1 : mem[j] = BLANK
  /\ mem[w] \in {BLANK, NUL} /\ mem[a] # BLANK

Word(mem, w) == [j \in 1..w |-> mem[j - 1]]

Rest(mem, e, a) == [j \in 1..e-a |-> mem[a + j - 1]]

\* ksh_exec takes a line that does not start with a blank apart like this.
LEMMA SplitIs ==
  ASSUME NEW mem \in Memories, NEW e, EndsAt(mem, e), mem[0] \notin {BLANK, NUL}
  PROVE  \E w, a \in 0..LINE_MAX-1 :
           /\ Parts(mem, e, w, a)
           /\ Split(mem).name = Word(mem, w)
           /\ Split(mem).args = Rest(mem, e, a)
<1> DEFINE w == First(mem, 0, {BLANK, NUL})
           Others == {mem[j] : j \in DOMAIN mem} \ {BLANK}
           next == First(mem, w, Others)
           cut == [mem EXCEPT ![w] = NUL]
<1>1. LINE_MAX \in Nat /\ DOMAIN mem = 0..LINE_MAX-1 /\ NUL # BLANK
      /\ \A j \in 0..LINE_MAX-1 : mem[j] \in Chars
  BY ShellAssumption DEF Memories, NUL, BLANK
<1>2. e \in 0..LINE_MAX-1 /\ mem[e] = NUL /\ \A j \in 0..e-1 : mem[j] # NUL
  BY DEF EndsAt
<1>3. w \in 0..e /\ mem[w] \in {BLANK, NUL} /\ NoneBefore(mem, 0, w, {BLANK, NUL})
  <2>1. LINE_MAX \in Nat /\ DOMAIN mem = 0..LINE_MAX-1 /\ 0 \in 0..LINE_MAX-1
        /\ e \in 0..LINE_MAX-1 /\ mem[e] \in {BLANK, NUL}
    BY <1>1, <1>2
  <2> QED
    BY <2>1, FirstIs
<1>4. w \in 1..e /\ \A j \in 0..w-1 : mem[j] \notin {BLANK, NUL}
  BY <1>3 DEF NoneBefore
<1>5. mem[e] \in Others
  BY <1>1, <1>2
<1>6. next \in w..e /\ mem[next] \in Others /\ NoneBefore(mem, w, next, Others)
  <2> HIDE DEF w, Others
  <2> QED
    BY <1>1, <1>2, <1>4, <1>5, FirstIs
<1>7. mem[next] # BLANK /\ \A j \in w..next-1 : mem[j] = BLANK
  <2> HIDE DEF w, next
  <2>1. ASSUME NEW j \in w..next-1 PROVE mem[j] = BLANK
    <3>1. j \in DOMAIN mem
      BY <1>1, <1>2, <1>4, <1>6
    <3>2. mem[j] \notin Others
      BY <1>6 DEF NoneBefore
    <3> QED
      BY <3>1, <3>2
  <2> QED
    BY <1>6, <2>1
<1>8. Parts(mem, e, w, next)
  BY <1>3, <1>4, <1>6, <1>7 DEF Parts
<1>9. strfle(mem, 0, BLANK) + 1 = w
  BY <1>4 DEF strfle
<1>10. cut \in Memories /\ DOMAIN cut = 0..LINE_MAX-1 /\ cut[w] = NUL
       /\ \A j \in 0..LINE_MAX-1 : j # w => cut[j] = mem[j]
  <2> HIDE DEF w
  <2> QED
    BY <1>1, <1>2, <1>4 DEF Memories, Chars
<1>11. StringAt(cut, 0) = [j \in 1..w |-> mem[j - 1]]
  <2> HIDE DEF w, cut
  <2>1. StringAt(cut, 0) = [j \in 1..w |-> cut[j - 1]]
    <3>1. EndsAt(cut, w)
      BY <1>1, <1>2, <1>4, <1>10 DEF EndsAt
    <3> QED
      BY <1>10, <3>1, TypedIs
  <2>2. \A j \in 1..w : cut[j - 1] = mem[j - 1]
    BY <1>1, <1>2, <1>4, <1>10
  <2> QED
    BY <2>1, <2>2
<1>12. strfnl(mem, 0, BLANK) = IF mem[w] = NUL \/ mem[next] = NUL THEN NULL ELSE next
  BY DEF strfnl
<1>13. Split(mem).name = StringAt(cut, 0)
       /\ Split(mem).args = IF strfnl(mem, 0, BLANK) = NULL THEN << >>
                            ELSE StringAt(cut, strfnl(mem, 0, BLANK))
  BY <1>9 DEF Split
<1>14. Split(mem).args = [j \in 1..e-next |-> mem[next + j - 1]]
  <2> HIDE DEF w, next, cut
  <2>1. CASE mem[w] = NUL \/ mem[next] = NUL
    <3>1. next = e
      BY <1>1, <1>2, <1>4, <1>6, <1>7, <2>1
    <3> QED
      BY <1>1, <1>2, <1>12, <1>13, <2>1, <3>1
  <2>2. CASE ~ (mem[w] = NUL \/ mem[next] = NUL)
    <3>1. w < next /\ next < e
      BY <1>1, <1>2, <1>3, <1>4, <1>6, <1>7, <2>2
    <3>2. cut[e] = NUL /\ \A j \in next..e-1 : cut[j] # NUL
      BY <1>1, <1>2, <1>4, <1>6, <1>10, <3>1
    <3>3. StringAt(cut, next) = [j \in 1..e-next |-> cut[next + j - 1]]
      BY <1>1, <1>2, <1>4, <1>6, <1>10, <3>1, <3>2, StringIs
    <3>4. \A j \in 1..e-next : cut[next + j - 1] = mem[next + j - 1]
      BY <1>1, <1>2, <1>4, <1>6, <1>10, <3>1
    <3>5. Split(mem).args = StringAt(cut, next)
      BY <1>4, <1>6, <1>12, <1>13, <2>2 DEF NULL
    <3> QED
      BY <3>3, <3>4, <3>5
  <2> QED
    BY <2>1, <2>2
<1>15. w \in 0..LINE_MAX-1 /\ next \in 0..LINE_MAX-1
  <2> HIDE DEF w, next
  <2> QED
    BY <1>1, <1>2, <1>4, <1>6
<1>16. Split(mem).name = Word(mem, w) /\ Split(mem).args = Rest(mem, e, next)
  BY <1>11, <1>13, <1>14 DEF Word, Rest
<1> HIDE DEF w, next
<1> QED
  BY <1>8, <1>15, <1>16

LEMMA SplitKeeps ==
  ASSUME NEW mem \in Memories
  PROVE  Split(mem).mem \in Memories
<1>1. Split(mem).mem = [mem EXCEPT ![strfle(mem, 0, BLANK) + 1] = NUL]
  BY DEF Split
<1> QED
  BY <1>1 DEF Memories, Chars
\* Two sequences, one behind the other.
LEMMA Joined ==
  ASSUME NEW S, NEW s \in Seq(S), NEW t \in Seq(S)
  PROVE  /\ s \o t \in Seq(S) /\ Len(s \o t) = Len(s) + Len(t)
         /\ \A j \in 1..Len(s)+Len(t) :
              (s \o t)[j] = IF j <= Len(s) THEN s[j] ELSE t[j - Len(s)]
OBVIOUS

-----------------------------------------------------------------------------
(* A line runs the command its first word names.                           *)

LEMMA StreqIs ==
  ASSUME NEW S, NEW s \in Seq(S), NEW T, NEW t \in Seq(T)
  PROVE  streq(s, t) <=> s = t
<1>1. ASSUME streq(s, t) PROVE s = t
  <2>1. Len(s) = Len(t) /\ Len(s) \in Nat
    BY <1>1 DEF streq
  <2>2. \A j \in 1..Len(s) : s[j] = t[j]
    BY <1>1, <2>1 DEF streq
  <2> QED
    BY <2>1, <2>2
<1>2. ASSUME s = t PROVE streq(s, t)
  BY <1>2 DEF streq
<1> QED
  BY <1>1, <1>2

\* The parts make up the line.
LEMMA PartsMakeLine ==
  ASSUME NEW mem \in Memories, NEW e, EndsAt(mem, e), NEW w, NEW a, Parts(mem, e, w, a)
  PROVE  FirstWord(Word(mem, e), Word(mem, w), Rest(mem, e, a))
<1> DEFINE text == [j \in 1..e |-> mem[j - 1]]
           word == [j \in 1..w |-> mem[j - 1]]
           rest == [j \in 1..e-a |-> mem[a + j - 1]]
           gap  == [j \in 1..a-w |-> BLANK]
           Symbols == Chars \cup {BLANK}
<1>1. /\ LINE_MAX \in Nat /\ e \in 0..LINE_MAX-1 /\ w \in 1..e /\ a \in w..e
      /\ mem[e] = NUL /\ \A j \in 0..e-1 : mem[j] # NUL
      /\ \A j \in 0..w-1 : mem[j] \notin {BLANK, NUL}
      /\ \A j \in w..a-1 : mem[j] = BLANK
      /\ mem[w] \in {BLANK, NUL} /\ mem[a] # BLANK
      /\ \A j \in 0..e : mem[j] \in Symbols
  BY ShellAssumption DEF Parts, EndsAt, Memories
<1>2. /\ text \in Seq(Symbols) /\ Len(text) = e
      /\ word \in Seq(Symbols) /\ Len(word) = w
      /\ gap \in Seq(Symbols) /\ Len(gap) = a - w
      /\ rest \in Seq(Symbols) /\ Len(rest) = e - a
  BY <1>1
<1>3. /\ \A j \in 1..e : text[j] = mem[j - 1]
      /\ \A j \in 1..w : word[j] = mem[j - 1]
      /\ \A j \in 1..a-w : gap[j] = BLANK
      /\ \A j \in 1..e-a : rest[j] = mem[a + j - 1]
  BY <1>1
<1> DEFINE front == word \o gap
           whole == front \o rest
<1>4. Concat(word, a - w, rest) = whole
  BY DEF Concat
<1> HIDE DEF text, word, rest, gap, Symbols
<1>5. /\ front \in Seq(Symbols) /\ Len(front) = a
      /\ \A j \in 1..a : front[j] = IF j <= w THEN word[j] ELSE gap[j - w]
  <2>1. Len(word) = w /\ Len(gap) = a - w /\ w + (a - w) = a /\ w \in Nat /\ a \in Nat
    BY <1>1, <1>2
  <2>2. /\ front \in Seq(Symbols) /\ Len(front) = Len(word) + Len(gap)
        /\ \A j \in 1..Len(word)+Len(gap) :
             front[j] = IF j <= Len(word) THEN word[j] ELSE gap[j - Len(word)]
    BY <1>2, Joined
  <2> HIDE DEF front
  <2> QED
    BY <2>1, <2>2
<1> HIDE DEF front
<1>6. /\ whole \in Seq(Symbols) /\ Len(whole) = e
      /\ \A j \in 1..e : whole[j] = IF j <= a THEN front[j] ELSE rest[j - a]
  <2>1. Len(front) = a /\ Len(rest) = e - a /\ a + (e - a) = e /\ a \in Nat /\ e \in Nat
    BY <1>1, <1>2, <1>5
  <2>2. /\ whole \in Seq(Symbols) /\ Len(whole) = Len(front) + Len(rest)
        /\ \A j \in 1..Len(front)+Len(rest) :
             whole[j] = IF j <= Len(front) THEN front[j] ELSE rest[j - Len(front)]
    BY <1>2, <1>5, Joined
  <2> HIDE DEF whole
  <2> QED
    BY <2>1, <2>2
<1> HIDE DEF whole
<1>7. ASSUME NEW j \in 1..e PROVE whole[j] = text[j]
  <2> text[j] = mem[j - 1] /\ j \in Int /\ w \in Int /\ a \in Int /\ e \in Int /\ w <= a
    BY <1>1, <1>3
  <2>1. CASE j <= w
    <3>1. whole[j] = front[j] /\ j \in 1..a /\ j \in 1..w
      BY <1>6, <2>1
    <3>2. front[j] = word[j]
      BY <1>5, <2>1, <3>1
    <3> QED
      BY <1>3, <3>1, <3>2
  <2>2. CASE w < j /\ j <= a
    <3>1. j - w \in 1..a-w /\ j - 1 \in w..a-1 /\ j \in 1..a /\ ~ (j <= w)
      BY <1>1, <2>2
    <3>2. whole[j] = front[j]
      BY <1>6, <2>2
    <3>3. front[j] = gap[j - w]
      BY <1>5, <3>1
    <3> QED
      BY <1>1, <1>3, <3>1, <3>2, <3>3
  <2>3. CASE a < j
    <3>1. j - a \in 1..e-a /\ a + (j - a) - 1 = j - 1 /\ ~ (j <= a)
      BY <1>1, <2>3
    <3>2. whole[j] = rest[j - a]
      BY <1>6, <3>1
    <3>3. rest[j - a] = mem[a + (j - a) - 1]
      BY <1>3, <3>1
    <3> QED
      BY <3>1, <3>2, <3>3
  <2> QED
    BY <2>1, <2>2, <2>3
<1>8. text = whole
  BY <1>2, <1>6, <1>7
<1>9. \A j \in DOMAIN word : word[j] # BLANK
  <2>1. DOMAIN word = 1..w
    BY <1>2
  <2>2. \A j \in 1..w : word[j] = mem[j - 1] /\ j - 1 \in 0..w-1
    BY <1>1, <1>3
  <2> QED
    BY <1>1, <2>1, <2>2
<1>10. rest # << >> => rest[1] # BLANK
  <2> SUFFICES ASSUME rest # << >> PROVE rest[1] # BLANK
    OBVIOUS
  <2>1. e - a >= 1
    BY <1>1, <1>2
  <2>2. rest[1] = mem[a + 1 - 1] /\ a + 1 - 1 = a
    BY <1>1, <1>3, <2>1
  <2> QED
    BY <1>1, <2>2
<1>11. a - w \in 0..Len(text) /\ (a - w = 0 => rest = << >>)
  <2>1. ASSUME a = w PROVE rest = << >>
    <3>1. mem[w] = NUL
      BY <1>1, <2>1
    <3>2. ~ (w < e)
      BY <1>1, <3>1
    <3> QED
      BY <1>1, <1>2, <2>1, <3>2
  <2> QED
    BY <1>1, <1>2, <2>1
<1>12. FirstWord(text, word, rest)
  BY <1>4, <1>8, <1>9, <1>10, <1>11 DEF FirstWord
<1> QED
  BY <1>12 DEF text, word, rest, Word, Rest

\* Between ReadLine and ksh_exec the line is as long as typed says.
LineReady ==
  /\ line \in Memories
  /\ at \in {"boot", "prompt", "readline", "exec", "halted"}
  /\ at = "boot" => typed = << >>
  /\ at = "exec" => \E e : EndsAt(line, e) /\ typed = StringAt(line, 0)

LInv == LineReady /\ RunsFirstWord

\* The first command of a name.
LEMMA FoundIs ==
  ASSUME NEW found, found \subseteq DOMAIN Commands, found # {},
         NEW k, k = CHOOSE j \in found : \A i \in found : j <= i
  PROVE  k \in found /\ Commands[k] \in CommandNames
<1>1. DOMAIN Commands = 1..7
  BY DEF Commands
<1>2. found \in SUBSET Nat
  BY <1>1
<1>3. \E j \in found : \A i \in found : j <= i
  BY <1>2, Least
<1>4. k \in found
  BY <1>3
<1> QED
  BY <1>4 DEF CommandNames

LEMMA NameIs ==
  ASSUME NEW c \in CommandNames
  PROVE  /\ Names[c] \in Seq(Letters \ {BLANK, NUL}) /\ Len(Names[c]) >= 1
         /\ c # "none"
<1>1. Names[c] \in Seq(Letters \ {BLANK, NUL}) /\ Names[c] # << >>
  BY ShellAssumption
<1>2. c # "none"
  BY DEF CommandNames, Commands
<1> QED
  BY <1>1, <1>2

\* A line that is read ends within the buffer.
LEMMA ReadEnds ==
  ASSUME line \in Memories, NEW text \in Lines, ReadLine(text)
  PROVE  line' \in Memories /\ typed' = StringAt(line', 0) /\ \E e : EndsAt(line', e)
<1> DEFINE len == Len(text)
           mem == [j \in 0..LINE_MAX-1 |->
                     IF j < len - 1 THEN text[j + 1]
                     ELSE IF j \in {len - 1, len} THEN NUL ELSE line[j]]
<1>1. PICK n \in 1..LINE_MAX-1 : text \in [1..n -> Letters]
  BY ShellAssumption
<1>2. LINE_MAX \in Nat /\ len = n /\ n \in 1..LINE_MAX-1
  BY <1>1, ShellAssumption
<1>3. line' = mem /\ typed' = StringAt(mem, 0)
  BY DEF ReadLine
<1>4. mem \in Memories
  <2>1. ASSUME NEW j \in 0..LINE_MAX-1
        PROVE  (IF j < len - 1 THEN text[j + 1]
                ELSE IF j \in {len - 1, len} THEN NUL ELSE line[j]) \in Chars
    <3>1. line[j] \in Chars
      BY DEF Memories
    <3>2. ASSUME j < len - 1 PROVE text[j + 1] \in Chars
      BY <1>1, <1>2, <3>2 DEF Chars
    <3> QED
      BY <3>1, <3>2 DEF Chars
  <2> QED
    BY <2>1 DEF Memories
<1>5. len - 1 \in 0..LINE_MAX-1 /\ mem[len - 1] = NUL
  BY <1>2
<1> HIDE DEF mem
<1>6. \E e : EndsAt(mem, e)
  BY <1>4, <1>5, Ends
<1> QED
  BY <1>3, <1>4, <1>6

LEMMA ExecIs ==
  ASSUME ksh_exec
  PROVE  LET split == Split(line)
             found == {k \in DOMAIN Commands : streq(split.name, Names[Commands[k]])}
             first == CHOOSE j \in found : \A i \in found : j <= i
         IN  /\ at = "exec" /\ line' = split.mem /\ typed' = typed
             /\ at' \in {"prompt", "halted"}
             /\ IF found # {} THEN ran' = <<Commands[first], split.args>>
                ELSE ran' = <<"none", split.name>>
  BY Zenon DEF ksh_exec

\* The command that is run, for a line whose first character is no blank.
LEMMA ExecRuns ==
  ASSUME LInv, ksh_exec, NEW e, EndsAt(line, e), typed = StringAt(line, 0),
         line[0] \notin {BLANK, NUL}
  PROVE  \E w, a \in 0..LINE_MAX-1 :
           /\ Parts(line, e, w, a)
           /\ \/ /\ ran' = <<"none", Word(line, w)>>
                 /\ \A c \in CommandNames : Names[c] # Word(line, w)
              \/ \E c \in CommandNames :
                   /\ ran' = <<c, Rest(line, e, a)>>
                   /\ Names[c] = Word(line, w)
<1>1. PICK w, a \in 0..LINE_MAX-1 :
        /\ Parts(line, e, w, a)
        /\ Split(line).name = Word(line, w)
        /\ Split(line).args = Rest(line, e, a)
  <2>1. line \in Memories
    BY DEF LInv, LineReady
  <2> QED
    BY <2>1, SplitIs
<1> DEFINE name  == Word(line, w)
           args  == Rest(line, e, a)
           found == {k \in DOMAIN Commands : streq(name, Names[Commands[k]])}
           first == CHOOSE j \in found : \A i \in found : j <= i
<1>2. IF found # {} THEN ran' = <<Commands[first], args>> ELSE ran' = <<"none", name>>
  <2>1. Split(line).name = name /\ Split(line).args = args
    BY <1>1
  <2> HIDE DEF name, args
  <2> QED
    BY <2>1, ExecIs, ZenonT(60)
<1>3. name \in Seq(Chars)
  <2>1. w \in Nat /\ \A j \in 1..w : line[j - 1] \in Chars
    BY <1>1, ShellAssumption DEF LInv, LineReady, Memories, Parts, EndsAt
  <2> QED
    BY <2>1 DEF Word
<1> HIDE DEF name, args
<1>4. \A c \in CommandNames : streq(name, Names[c]) <=> name = Names[c]
  BY <1>3, NameIs, StreqIs
<1>5. \A k \in DOMAIN Commands : Commands[k] \in CommandNames
  BY DEF CommandNames
<1>6. CASE found = {}
  <2>1. \A c \in CommandNames : Names[c] # name
    BY <1>4, <1>6 DEF CommandNames
  <2> QED
    BY <1>1, <1>2, <1>6, <2>1 DEF name
<1>7. CASE found # {}
  <2> DEFINE c == Commands[first]
  <2>1. first \in found /\ c \in CommandNames
    <3> HIDE DEF found
    <3>1. found \subseteq DOMAIN Commands
      BY DEF found
    <3> QED
      BY <1>7, <3>1, FoundIs
  <2>2. streq(name, Names[c])
    BY <2>1
  <2>3. ran' = <<c, args>>
    BY <1>2, <1>7
  <2> HIDE DEF c
  <2>4. Names[c] = name
    BY <1>4, <2>1, <2>2
  <2> QED
    BY <1>1, <2>1, <2>3, <2>4 DEF name, args
<1> QED
  BY <1>6, <1>7

LEMMA ExecKeeps ==
  ASSUME LInv, ksh_exec
  PROVE  LInv'
<1>1. line \in Memories /\ at = "exec"
  BY ExecIs DEF LInv, LineReady
<1>2. line' \in Memories
  <2>1. line' = Split(line).mem
    BY ExecIs
  <2> QED
    BY <1>1, <2>1, SplitKeeps
<1>3. at' \in {"prompt", "halted"} /\ typed' = typed
  BY ExecIs
<1>4. LineReady'
  BY <1>2, <1>3 DEF LineReady, Memories, Chars
<1>5. PICK e : EndsAt(line, e) /\ typed = StringAt(line, 0)
  BY <1>1 DEF LInv, LineReady
<1>6. /\ typed = Word(line, e) /\ typed = [j \in 1..e |-> line[j - 1]]
      /\ typed \in Seq(Chars) /\ Len(typed) = e /\ e \in Nat
  BY <1>1, <1>5, TypedIs DEF EndsAt, Word
<1>7. RunsFirstWord'
  <2> SUFFICES ASSUME typed # << >>, typed[1] # BLANK
               PROVE  IF ran'[1] = "none"
                      THEN /\ \E rest \in {SubSeq(typed, j, Len(typed)) : j \in 1..Len(typed)+1} :
                                FirstWord(typed, ran'[2], rest)
                           /\ \A c \in CommandNames : Names[c] # ran'[2]
                      ELSE FirstWord(typed, Names[ran'[1]], ran'[2])
    BY <1>3 DEF RunsFirstWord
  <2>1. e >= 1 /\ typed[1] = line[0]
    BY <1>6
  <2>2. line[0] \notin {BLANK, NUL}
    BY <1>5, <2>1 DEF EndsAt
  <2>3. PICK w, a \in 0..LINE_MAX-1 :
           /\ Parts(line, e, w, a)
           /\ \/ /\ ran' = <<"none", Word(line, w)>>
                 /\ \A c \in CommandNames : Names[c] # Word(line, w)
              \/ \E c \in CommandNames :
                   /\ ran' = <<c, Rest(line, e, a)>>
                   /\ Names[c] = Word(line, w)
    BY <1>5, <2>2, ExecRuns
  <2> DEFINE word == Word(line, w)
             rest == Rest(line, e, a)
  <2>4. FirstWord(typed, word, rest)
    <3>1. Parts(line, e, w, a)
      BY <2>3
    <3>2. FirstWord(Word(line, e), Word(line, w), Rest(line, e, a))
      BY <1>1, <1>5, <3>1, PartsMakeLine
    <3> QED
      BY <1>6, <3>2
  <2>5. a + 1 \in 1..e+1 /\ rest = SubSeq(typed, a + 1, e)
    <3>1. a \in Nat /\ a <= e /\ e \in Nat
      BY <1>6, <2>3, ShellAssumption DEF Parts
    <3>2. SubSeq(typed, a + 1, e) = [j \in 1..e-a |-> typed[a + j]]
      BY <1>6, <3>1
    <3>3. \A j \in 1..e-a : typed[a + j] = line[a + j - 1]
      BY <1>6, <3>1
    <3>4. Len(typed) = e /\ rest = [j \in 1..e-a |-> line[a + j - 1]]
      BY <1>6 DEF Rest
    <3>5. SubSeq(typed, a + 1, e) = [j \in 1..e-a |-> line[a + j - 1]]
      BY <3>2, <3>3
    <3>6. rest = SubSeq(typed, a + 1, e)
      BY <3>4, <3>5, Zenon
    <3> QED
      BY <3>1, <3>6
  <2> HIDE DEF word, rest
  <2>6. CASE ran' = <<"none", word>> /\ \A c \in CommandNames : Names[c] # word
    BY <1>6, <2>4, <2>5, <2>6
  <2>7. CASE \E c \in CommandNames : ran' = <<c, rest>> /\ Names[c] = word
    BY <2>4, <2>7, NameIs
  <2> QED
    BY <2>3, <2>6, <2>7 DEF word, rest
<1> QED
  BY <1>4, <1>7 DEF LInv

LEMMA LineInit == Init => LInv
<1> SUFFICES ASSUME Init PROVE LInv
  OBVIOUS
<1>1. LineReady
  BY DEF Init, LineReady, Memories, Chars
<1>2. RunsFirstWord
  BY DEF Init, RunsFirstWord
<1> QED
  BY <1>1, <1>2 DEF LInv

LEMMA SameLine ==
  ASSUME LInv, UNCHANGED <<at, line, ran, typed>>
  PROVE  LInv'
<1>1. LineReady'
  <2>1. at' = at /\ line' = line /\ typed' = typed
    OBVIOUS
  <2> QED
    BY <2>1 DEF LInv, LineReady, Memories, Chars, EndsAt, StringAt, strl, First, NoneBefore
<1>2. RunsFirstWord'
  BY DEF LInv, RunsFirstWord, FirstWord
<1> QED
  BY <1>1, <1>2 DEF LInv

LEMMA LineNext == LInv /\ [Next]_vars => LInv'
<1> SUFFICES ASSUME LInv, [Next]_vars PROVE LInv'
  OBVIOUS
<1>1. CASE Boot
  <2>1. at = "boot" /\ at' = "prompt" /\ line' = line /\ typed' = << >>
    BY <1>1 DEF Boot, LInv, LineReady
  <2> QED
    BY <2>1 DEF LInv, LineReady, RunsFirstWord, Memories, Chars
<1>2. CASE Prompt
  <2>1. at' = "readline" /\ line' = line
    BY <1>2 DEF Prompt
  <2> QED
    BY <2>1 DEF LInv, LineReady, RunsFirstWord, Memories, Chars
<1>3. CASE ksh_exec
  BY <1>3, ExecKeeps
<1>4. ASSUME NEW text \in Lines, ReadLine(text) PROVE LInv'
  <2>1. line' \in Memories /\ typed' = StringAt(line', 0) /\ \E e : EndsAt(line', e)
    BY <1>4, ReadEnds DEF LInv, LineReady
  <2>2. at' = "exec"
    BY <1>4 DEF ReadLine
  <2>3. LineReady'
    BY <2>1, <2>2 DEF LineReady, Memories, Chars, EndsAt
  <2> QED
    BY <2>2, <2>3 DEF LInv, RunsFirstWord
<1>5. ASSUME NEW rip \in Addresses, Nmi(rip) PROVE LInv'
  <2>1. UNCHANGED <<at, line, ran, typed>>
    BY <1>5 DEF Nmi
  <2> QED
    BY <2>1, SameLine
<1>6. CASE UNCHANGED vars
  <2>1. UNCHANGED <<at, line, ran, typed>>
    BY <1>6 DEF vars
  <2> QED
    BY <2>1, SameLine
<1> QED
  BY <1>1, <1>2, <1>3, <1>4, <1>5, <1>6 DEF Next

LEMMA AlwaysReady == Spec => []LInv
  BY LineInit, LineNext, PTL DEF Spec

\* Whatever is typed, and whatever longer lines left in the buffer: a line that
\* does not start with a blank runs the command its first word names with the
\* rest of the line, and no command is passed over.
THEOREM LineRunsCommand == Spec => []RunsFirstWord
<1>1. LInv => RunsFirstWord
  BY DEF LInv
<1> QED
  BY <1>1, AlwaysReady, PTL

-----------------------------------------------------------------------------
(* Folds.  FoldLeft is a recursion over the subsets of the positions, the  *)
(* largest position last.  Whatever is folded, it is the last of a row of  *)
(* values, one for each character that was read.                           *)

LEMMA LargestOf ==
  ASSUME NEW k \in Nat, NEW s \in SUBSET (1..k+1), k + 1 \in s
  PROVE  Max(s) = k + 1
<1>1. \A m \in s : k + 1 >= m
  OBVIOUS
<1>2. \A x \in s : (\A m \in s : x >= m) => x = k + 1
  OBVIOUS
<1> QED
  BY <1>1, <1>2 DEF Max

LEMMA Prefix ==
  ASSUME NEW k \in Nat
  PROVE  /\ 1..k+1 # {} /\ Max(1..k+1) = k + 1 /\ (1..k+1) \ {k + 1} = 1..k
         /\ \A n \in Nat : k <= n => 1..k \in SUBSET (1..n)
<1>1. k + 1 \in 1..k+1
  OBVIOUS
<1>2. Max(1..k+1) = k + 1
  BY <1>1, LargestOf
<1> QED
  BY <1>1, <1>2

\* A subset of the first k + 1 positions without the last, or without its own
\* largest, is one of the first k.
LEMMA Smaller ==
  ASSUME NEW k \in Nat, NEW s \in SUBSET (1..k+1)
  PROVE  /\ k + 1 \in s => s # {} /\ Max(s) = k + 1 /\ s \ {k + 1} \in SUBSET (1..k)
                           /\ s \ {k + 1} \in SUBSET (1..k+1) /\ k + 1 \notin s \ {k + 1}
         /\ k + 1 \notin s => /\ s \in SUBSET (1..k)
                              /\ s \ {Max(s)} \in SUBSET (1..k)
                              /\ s \ {Max(s)} \in SUBSET (1..k+1)
                              /\ k + 1 \notin s \ {Max(s)}
<1>1. ASSUME k + 1 \in s
      PROVE  Max(s) = k + 1
  BY <1>1, LargestOf
<1>2. (1..k+1) \ {k + 1} \subseteq 1..k
  OBVIOUS
<1> QED
  BY <1>1, <1>2

Formats(st, msg, k, g) ==
  g = [s \in SUBSET (1..k) |->
         IF s = {} THEN st ELSE Format(g[s \ {Max(s)}], msg[Max(s)])]

LEMMA FormatFolds ==
  ASSUME NEW st, NEW msg, NEW n \in Nat
  PROVE  \E g : Formats(st, msg, n, g)
<1> DEFINE G(k, g) == Formats(st, msg, k, g)
           S == {k \in Nat : \E g : G(k, g)}
<1>1. 0 \in S
  <2>1. 1..0 = {} /\ SUBSET (1..0) = {{}}
    OBVIOUS
  <2>2. G(0, [s \in SUBSET (1..0) |-> st])
    BY <2>1 DEF Formats
  <2> QED
    BY <2>2
<1>2. ASSUME NEW k \in Nat, k \in S PROVE k + 1 \in S
  <2>1. PICK g : G(k, g)
    BY <1>2
  <2> DEFINE h == [s \in SUBSET (1..k+1) |->
                     IF k + 1 \in s THEN Format(g[s \ {k + 1}], msg[k + 1]) ELSE g[s]]
             e(s) == IF s = {} THEN st ELSE Format(h[s \ {Max(s)}], msg[Max(s)])
  <2>2. ASSUME NEW s \in SUBSET (1..k+1) PROVE h[s] = e(s)
    <3>1. CASE k + 1 \in s
      <4>1. Max(s) = k + 1 /\ s # {} /\ s \ {k + 1} \in SUBSET (1..k+1) /\ k + 1 \notin s \ {k + 1}
        BY <3>1, Smaller
      <4>2. h[s \ {k + 1}] = g[s \ {k + 1}]
        BY <4>1
      <4>3. h[s] = Format(g[s \ {k + 1}], msg[k + 1])
        BY <3>1
      <4> HIDE DEF h
      <4> QED
        BY <4>1, <4>2, <4>3
    <3>2. CASE k + 1 \notin s
      <4>1. /\ s \in SUBSET (1..k) /\ s \ {Max(s)} \in SUBSET (1..k+1)
            /\ k + 1 \notin s \ {Max(s)}
        BY <3>2, Smaller
      <4>2. h[s] = g[s]
        BY <3>2
      <4>3. h[s \ {Max(s)}] = g[s \ {Max(s)}]
        BY <4>1
      <4>4. g[s] = IF s = {} THEN st ELSE Format(g[s \ {Max(s)}], msg[Max(s)])
        BY <2>1, <4>1 DEF Formats
      <4> HIDE DEF h
      <4> QED
        BY <4>2, <4>3, <4>4
    <3> QED
      BY <3>1, <3>2
  <2>3. h = [s \in SUBSET (1..k+1) |-> e(s)]
    <3>1. h = [s \in SUBSET (1..k+1) |-> h[s]]
      OBVIOUS
    <3> HIDE DEF h
    <3> QED
      BY <2>2, <3>1
  <2>4. G(k + 1, h)
    BY <2>3 DEF Formats
  <2> HIDE DEF h, G
  <2> QED
    BY <2>4
<1>3. n \in S
  <2> HIDE DEF S
  <2> QED
    BY <1>1, <1>2, Induction
<1> QED
  BY <1>3

Formatting(st, msg) == FoldLeft(Format, st, msg)

\* The states kvprintf goes through.
Row(h, st, msg) ==
  /\ h[0] = st
  /\ \A i \in 0..Len(msg)-1 : h[i + 1] = Format(h[i], msg[i + 1])

LEMMA Formatted ==
  ASSUME NEW st, NEW S, NEW msg \in Seq(S)
  PROVE  \E h : Row(h, st, msg) /\ Formatting(st, msg) = h[Len(msg)]
<1> DEFINE n == Len(msg)
           g == CHOOSE g : Formats(st, msg, n, g)
           h == [k \in 0..n |-> g[1..k]]
<1>0. n \in Nat /\ DOMAIN msg = 1..n
  OBVIOUS
<1>1. Formats(st, msg, n, g)
  BY <1>0, FormatFolds, Zenon
<1>2. Formatting(st, msg) = g[1..n]
  BY <1>0 DEF Formatting, FoldLeft, MapThenFoldSet, Formats
<1> HIDE DEF g, n
<1>3. h[0] = st
  <2>1. 1..0 = {} /\ 1..0 \in SUBSET (1..n) /\ 0 \in 0..n
    BY <1>0
  <2> QED
    BY <1>1, <2>1 DEF Formats
<1>4. ASSUME NEW k \in 0..n-1 PROVE h[k + 1] = Format(h[k], msg[k + 1])
  <2>1. /\ 1..k+1 # {} /\ Max(1..k+1) = k + 1 /\ (1..k+1) \ {k + 1} = 1..k
        /\ 1..k+1 \in SUBSET (1..n)
    <3>1. k \in Nat /\ k + 1 \in Nat /\ k + 1 <= n
      BY <1>0
    <3> QED
      BY <1>0, <3>1, Prefix
  <2>2. g[1..k+1] = Format(g[1..k], msg[k + 1])
    BY <1>1, <2>1 DEF Formats
  <2> QED
    BY <1>0, <2>2
<1>5. h[n] = g[1..n]
  BY <1>0
<1> HIDE DEF h
<1>6. Row(h, st, msg)
  BY <1>3, <1>4 DEF Row, n
<1> QED
  BY <1>2, <1>5, <1>6 DEF n

-----------------------------------------------------------------------------
(* Formats.                                                                *)

\* A terminal, and the state of kvprintf, nothing having gone wrong.
Terminal(out, color) == [out |-> out, color |-> color, fault |-> FALSE]

State(out, color, args, mode) ==
  [out |-> out, color |-> color, fault |-> FALSE, args |-> args, mode |-> mode]

LEMMA TextStep ==
  ASSUME NEW out, NEW color, NEW args, NEW ch, ch # "%"
  PROVE  Format(State(out, color, args, "text"), ch) = State(Append(out, ch), color, args, "text")
BY DEF Format, State

LEMMA PercentStep ==
  ASSUME NEW out, NEW color, NEW args
  PROVE  Format(State(out, color, args, "text"), "%") = State(out, color, args, "percent")
BY DEF Format, State

LEMMA LongStep ==
  ASSUME NEW out, NEW color, NEW args
  PROVE  Format(State(out, color, args, "percent"), "l") = State(out, color, args, "long")
BY DEF Format, State

\* A conversion with an argument of its type, which is not too long.
LEMMA ConvertStep ==
  ASSUME NEW out, NEW color, NEW args, NEW mode, NEW conversion, NEW value,
         args # << >>, Head(args) = <<ArgType[conversion], value>>, ~Overflows(conversion, value)
  PROVE  Convert(State(out, color, args, mode), conversion)
           = State(out \o Converted(conversion, value),
                   IF conversion = "k" THEN value ELSE color, Tail(args), "text")
<1> DEFINE st == State(out, color, args, mode)
<1>1. /\ st.out = out /\ st.color = color /\ st.fault = FALSE /\ st.args = args
      /\ Head(st.args)[1] = ArgType[conversion] /\ Head(st.args)[2] = value
  BY DEF State
<1>2. Convert(st, conversion)
        = [st EXCEPT !.mode = "text", !.args = Tail(@), !.out = @ \o Converted(conversion, value),
                     !.color = IF conversion = "k" THEN value ELSE @,
                     !.fault = @ \/ Overflows(conversion, value)]
  BY <1>1 DEF Convert
<1>3. (FALSE \/ Overflows(conversion, value)) = FALSE
  OBVIOUS
<1> QED
  BY <1>2, <1>3 DEF State

LEMMA StringStep ==
  ASSUME NEW out, NEW color, NEW args, NEW text, args # << >>, Head(args) = Str(text)
  PROVE  Format(State(out, color, args, "percent"), "s")
           = State(out \o text, color, Tail(args), "text")
<1>1. Head(args) = <<ArgType["s"], text>>
  BY DEF Str, ArgType
<1>2. ~Overflows("s", text) /\ Converted("s", text) = text
  BY DEF Overflows, Converted
<1>3. Format(State(out, color, args, "percent"), "s")
        = Convert(State(out, color, args, "percent"), "s")
  BY DEF Format, State
<1> QED
  BY <1>1, <1>2, <1>3, ConvertStep

LEMMA ColorStep ==
  ASSUME NEW out, NEW color, NEW args, NEW hue, args # << >>,
         Head(args) = <<"color", hue>>
  PROVE  Format(State(out, color, args, "percent"), "k")
           = State(out \o << >>, hue, Tail(args), "text")
<1>1. Head(args) = <<ArgType["k"], hue>>
  BY DEF ArgType
<1>2. ~Overflows("k", hue) /\ Converted("k", hue) = << >>
  BY DEF Overflows, Converted
<1>3. Format(State(out, color, args, "percent"), "k")
        = Convert(State(out, color, args, "percent"), "k")
  BY DEF Format, State
<1>4. Convert(State(out, color, args, "percent"), "k")
        = State(out \o Converted("k", hue), IF "k" = "k" THEN hue ELSE color, Tail(args), "text")
  BY <1>1, <1>2, ConvertStep
<1> QED
  BY <1>2, <1>3, <1>4


LEMMA HexStep ==
  ASSUME NEW out, NEW color, NEW args, NEW n, args # << >>, Head(args) = <<"ulong", n>>,
         ~Overflows("X", n)
  PROVE  Format(State(out, color, args, "percent"), "X")
           = State(out \o kprint_uint(n, 16), color, Tail(args), "text")
<1>1. Head(args) = <<ArgType["X"], n>>
  BY DEF ArgType
<1>2. Converted("X", n) = kprint_uint(n, 16)
  BY DEF Converted
<1>3. Format(State(out, color, args, "percent"), "X")
        = Convert(State(out, color, args, "percent"), "X")
  BY DEF Format, State
<1> QED
  BY <1>1, <1>2, <1>3, ConvertStep

LEMMA UnsignedStep ==
  ASSUME NEW out, NEW color, NEW args, NEW n, args # << >>, Head(args) = <<"ulong", n>>,
         ~Overflows("lu", n)
  PROVE  Format(State(out, color, args, "long"), "u")
           = State(out \o kprint_uint(n, 10), color, Tail(args), "text")
<1>1. Head(args) = <<ArgType["lu"], n>>
  BY DEF ArgType
<1>2. Converted("lu", n) = kprint_uint(n, 10)
  BY DEF Converted
<1>3. Format(State(out, color, args, "long"), "u")
        = Convert(State(out, color, args, "long"), "lu")
  BY DEF Format, State
<1> QED
  BY <1>1, <1>2, <1>3, ConvertStep
LEMMA FormatsNone ==
  ASSUME NEW st
  PROVE  Formatting(st, << >>) = st
<1>1. << >> \in Seq({}) /\ Len(<< >>) = 0
  OBVIOUS
<1>2. PICK h : Row(h, st, << >>) /\ Formatting(st, << >>) = h[Len(<< >>)]
  BY <1>1, Formatted
<1> QED
  BY <1>1, <1>2 DEF Row

\* The rest of a format is read from the state behind its first character.
LEMMA FormatsHead ==
  ASSUME NEW st, NEW S, NEW ch \in S, NEW rest \in Seq(S)
  PROVE  Formatting(st, <<ch>> \o rest) = Formatting(Format(st, ch), rest)
<1> DEFINE msg == <<ch>> \o rest
           n == Len(rest)
<1>1. /\ msg \in Seq(S) /\ Len(msg) = n + 1 /\ n \in Nat
      /\ msg[1] = ch /\ \A k \in 1..n : msg[k + 1] = rest[k]
  OBVIOUS
<1> HIDE DEF msg
<1>2. PICK h : Row(h, st, msg) /\ Formatting(st, msg) = h[Len(msg)]
  BY <1>1, Formatted
<1>3. PICK g : Row(g, Format(st, ch), rest) /\ Formatting(Format(st, ch), rest) = g[n]
  BY Formatted
<1> HIDE DEF n
<1> DEFINE K == {k \in Nat : k <= n => g[k] = h[k + 1]}
<1>4. 0 \in K
  <2>1. h[0] = st /\ h[0 + 1] = Format(h[0], msg[0 + 1]) /\ g[0] = Format(st, ch)
    BY <1>1, <1>2, <1>3 DEF Row
  <2> QED
    BY <1>1, <2>1
<1>5. ASSUME NEW k \in Nat, k \in K PROVE k + 1 \in K
  <2> SUFFICES ASSUME k + 1 <= n PROVE g[k + 1] = h[(k + 1) + 1]
    OBVIOUS
  <2>1. k \in 0..n-1 /\ k + 1 \in 0..Len(msg)-1 /\ k + 1 \in 1..n
    BY <1>1
  <2>2. g[k + 1] = Format(g[k], rest[k + 1])
    BY <1>3, <2>1 DEF Row, n
  <2>3. h[(k + 1) + 1] = Format(h[k + 1], msg[(k + 1) + 1])
    BY <1>2, <2>1 DEF Row
  <2>4. g[k] = h[k + 1] /\ msg[(k + 1) + 1] = rest[k + 1]
    BY <1>1, <1>5, <2>1
  <2> QED
    BY <2>2, <2>3, <2>4
<1>6. n \in K
  <2> HIDE DEF K
  <2> QED
    BY <1>1, <1>4, <1>5, Induction
<1> QED
  BY <1>1, <1>2, <1>3, <1>6 DEF msg, n

\* Text is printed, a conversion takes the first of the arguments.
LEMMA FormatsText ==
  ASSUME NEW S, NEW ch \in S, NEW rest \in Seq(S), ch # "%", NEW out, NEW color, NEW args
  PROVE  Formatting(State(out, color, args, "text"), <<ch>> \o rest)
           = Formatting(State(Append(out, ch), color, args, "text"), rest)
BY FormatsHead, TextStep

\* The argument of a conversion, and what it leaves.
Takes(args, arg, rest) == args # << >> /\ Head(args) = arg /\ Tail(args) = rest

LEMMA FormatsPercent ==
  ASSUME NEW S, NEW sign \in S, sign = "%", NEW ch \in S, NEW rest \in Seq(S),
         NEW out, NEW color, NEW args
  PROVE  Formatting(State(out, color, args, "text"), <<sign, ch>> \o rest)
           = Formatting(Format(State(out, color, args, "percent"), ch), rest)
<1> DEFINE tail == <<ch>> \o rest
<1>1. <<sign, ch>> \o rest = <<sign>> \o tail /\ tail \in Seq(S)
  OBVIOUS
<1> HIDE DEF tail
<1>2. Formatting(State(out, color, args, "text"), <<sign>> \o tail)
        = Formatting(Format(State(out, color, args, "text"), sign), tail)
  BY <1>1, FormatsHead
<1>3. Format(State(out, color, args, "text"), sign) = State(out, color, args, "percent")
  BY PercentStep
<1>4. Formatting(State(out, color, args, "percent"), <<ch>> \o rest)
        = Formatting(Format(State(out, color, args, "percent"), ch), rest)
  BY FormatsHead
<1> QED
  BY <1>1, <1>2, <1>3, <1>4 DEF tail

LEMMA FormatsString ==
  ASSUME NEW S, "%" \in S, "s" \in S, NEW rest \in Seq(S), NEW out, NEW color, NEW text,
         NEW args, NEW left, Takes(args, Str(text), left)
  PROVE  Formatting(State(out, color, args, "text"), <<"%", "s">> \o rest)
           = Formatting(State(out \o text, color, left, "text"), rest)
<1> DEFINE sign == "%"
           ch == "s"
<1>1. sign \in S /\ ch \in S /\ sign = "%"
  OBVIOUS
<1>2. Format(State(out, color, args, "percent"), ch) = State(out \o text, color, left, "text")
  BY StringStep DEF Takes
<1> HIDE DEF sign, ch
<1>3. Formatting(State(out, color, args, "text"), <<sign, ch>> \o rest)
        = Formatting(Format(State(out, color, args, "percent"), ch), rest)
  BY <1>1, FormatsPercent
<1> QED
  BY <1>2, <1>3 DEF sign, ch

LEMMA FormatsColor ==
  ASSUME NEW S, "%" \in S, "k" \in S, NEW rest \in Seq(S), NEW out, NEW color, NEW hue,
         NEW args, NEW left, Takes(args, <<"color", hue>>, left)
  PROVE  Formatting(State(out, color, args, "text"), <<"%", "k">> \o rest)
           = Formatting(State(out \o << >>, hue, left, "text"), rest)
<1> DEFINE sign == "%"
           ch == "k"
<1>1. sign \in S /\ ch \in S /\ sign = "%"
  OBVIOUS
<1>2. Format(State(out, color, args, "percent"), ch) = State(out \o << >>, hue, left, "text")
  BY ColorStep DEF Takes
<1> HIDE DEF sign, ch
<1>3. Formatting(State(out, color, args, "text"), <<sign, ch>> \o rest)
        = Formatting(Format(State(out, color, args, "percent"), ch), rest)
  BY <1>1, FormatsPercent
<1> QED
  BY <1>2, <1>3 DEF sign, ch

LEMMA FormatsHex ==
  ASSUME NEW S, "%" \in S, "X" \in S, NEW rest \in Seq(S), NEW out, NEW color, NEW n,
         NEW args, NEW left, Takes(args, <<"ulong", n>>, left),
         ~Overflows("X", n)
  PROVE  Formatting(State(out, color, args, "text"), <<"%", "X">> \o rest)
           = Formatting(State(out \o kprint_uint(n, 16), color, left, "text"), rest)
<1> DEFINE sign == "%"
           ch == "X"
<1>1. sign \in S /\ ch \in S /\ sign = "%"
  OBVIOUS
<1>2. Format(State(out, color, args, "percent"), ch)
        = State(out \o kprint_uint(n, 16), color, left, "text")
  BY HexStep DEF Takes
<1> HIDE DEF sign, ch
<1>3. Formatting(State(out, color, args, "text"), <<sign, ch>> \o rest)
        = Formatting(Format(State(out, color, args, "percent"), ch), rest)
  BY <1>1, FormatsPercent
<1> QED
  BY <1>2, <1>3 DEF sign, ch

LEMMA FormatsUnsigned ==
  ASSUME NEW S, "%" \in S, "l" \in S, "u" \in S, NEW rest \in Seq(S),
         NEW out, NEW color, NEW n, NEW args, NEW left,
         Takes(args, <<"ulong", n>>, left), ~Overflows("lu", n)
  PROVE  Formatting(State(out, color, args, "text"), <<"%", "l", "u">> \o rest)
           = Formatting(State(out \o kprint_uint(n, 10), color, left, "text"), rest)
<1> DEFINE sign == "%"
           long == "l"
           ch == "u"
           tail == <<ch>> \o rest
<1>1. sign \in S /\ long \in S /\ ch \in S /\ sign = "%"
  OBVIOUS
<1>2. Format(State(out, color, args, "percent"), long) = State(out, color, args, "long")
  BY LongStep
<1>3. Format(State(out, color, args, "long"), ch)
        = State(out \o kprint_uint(n, 10), color, left, "text")
  BY UnsignedStep DEF Takes
<1> HIDE DEF sign, long, ch
<1>4. <<sign, long, ch>> \o rest = <<sign, long>> \o tail /\ tail \in Seq(S)
  BY <1>1
<1> HIDE DEF tail
<1>5. Formatting(State(out, color, args, "text"), <<sign, long>> \o tail)
        = Formatting(Format(State(out, color, args, "percent"), long), tail)
  BY <1>1, <1>4, FormatsPercent
<1>6. Formatting(State(out, color, args, "long"), <<ch>> \o rest)
        = Formatting(Format(State(out, color, args, "long"), ch), rest)
  BY <1>1, FormatsHead
<1> QED
  BY <1>2, <1>3, <1>4, <1>5, <1>6 DEF sign, long, ch, tail

\* A format that is read to its end in the middle of nothing.
LEMMA Printed ==
  ASSUME NEW out, NEW color, NEW args, NEW msg, NEW out2, NEW color2, NEW args2,
         Formatting(State(out, color, args, "text"), msg) = State(out2, color2, args2, "text")
  PROVE  kvprintf(Terminal(out, color), msg, args) = Terminal(out2, color2)
<1> DEFINE st == State(out, color, args, "text")
           st2 == State(out2, color2, args2, "text")
           t == Terminal(out, color)
<1>1. t.out = out /\ t.color = color /\ t.fault = FALSE
  BY DEF Terminal
<1>2. [out |-> t.out, color |-> t.color, fault |-> t.fault, args |-> args, mode |-> "text"] = st
  BY <1>1 DEF State
<1>3. /\ st2.out = out2 /\ st2.color = color2 /\ st2.fault = FALSE /\ st2.mode = "text"
  BY DEF State
<1>4. kvprintf(t, msg, args)
        = [out   |-> IF st2.mode = "long" THEN st2.out \o <<"%", "l">> ELSE st2.out,
           color |-> st2.color,
           fault |-> st2.fault \/ st2.mode = "long"]
  BY <1>2, Zenon DEF kvprintf, Formatting
<1>5. (FALSE \/ "text" = "long") = FALSE
  OBVIOUS
<1> HIDE DEF st2, t
<1> QED
  BY <1>3, <1>4, <1>5 DEF Terminal, t
-----------------------------------------------------------------------------
(* What the formats of the kernel print.  The runs of text are any that do *)
(* not contain a '%'.                                                      *)

LEMMA TwoChars ==
  ASSUME NEW x, NEW y
  PROVE  <<x, y>> = <<x>> \o <<y>>
<1> DEFINE s == <<x, y>>
           t == <<x>> \o <<y>>
<1>1. <<x>> \in Seq({x, y}) /\ <<y>> \in Seq({x, y})
  OBVIOUS
<1>2. t \in Seq({x, y}) /\ Len(t) = 2 /\ t[1] = x /\ t[2] = y
  BY <1>1
<1>3. s \in Seq({x, y}) /\ Len(s) = 2 /\ s[1] = x /\ s[2] = y
  OBVIOUS
<1> HIDE DEF s, t
<1>4. s = t
  BY <1>2, <1>3
<1> QED
  BY <1>4, Zenon DEF s, t

\* A run of text.
LEMMA PrintsText ==
  ASSUME NEW out, NEW hue, NEW x,
         x # "%"
  PROVE  kprintf(Terminal(out, hue), <<x>>,
                 << >>)
           = Terminal(Append(out, x), hue)
<1> DEFINE S == {x}
           m0 == <<x>>
           m1 == << >>
           o0 == out
           o1 == Append(o0, x)
           a0 == << >>
<1>m0. m0 = <<x>> \o m1
  OBVIOUS
<1>s0. m0 \in Seq(S)
  OBVIOUS
<1>m1. m1 = << >>
  OBVIOUS
<1>s1. m1 \in Seq(S)
  OBVIOUS
<1>1. x \in S
  OBVIOUS
<1> HIDE DEF S, m0, m1, a0
<1>2. Formatting(State(o0, hue, a0, "text"), m0)
        = Formatting(State(o1, hue, a0, "text"), m1)
  BY <1>m0, <1>s1, <1>1, FormatsText
<1>3. Formatting(State(o0, hue, a0, "text"), m0) = State(o1, hue, a0, "text")
  BY <1>m1, <1>2, FormatsNone
<1> HIDE DEF o0, o1
<1>4. kvprintf(Terminal(o0, hue), m0, a0) = Terminal(o1, hue)
  BY <1>3, Printed
<1> QED
  BY <1>4, Zenon DEF kprintf, m0, a0, o0, o1

\* A line of text.
LEMMA PrintsLine ==
  ASSUME NEW out, NEW hue, NEW x, NEW y,
         x # "%", y # "%"
  PROVE  kprintf(Terminal(out, hue), <<x, y>>,
                 << >>)
           = Terminal(Append(Append(out, x), y), hue)
<1> DEFINE S == {x, y}
           m0 == <<x, y>>
           m1 == <<y>>
           m2 == << >>
           o0 == out
           o1 == Append(o0, x)
           o2 == Append(o1, y)
           a0 == << >>
<1>m0. m0 = <<x>> \o m1
  BY TwoChars
<1>s0. m0 \in Seq(S)
  OBVIOUS
<1>m1. m1 = <<y>> \o m2
  OBVIOUS
<1>s1. m1 \in Seq(S)
  OBVIOUS
<1>m2. m2 = << >>
  OBVIOUS
<1>s2. m2 \in Seq(S)
  OBVIOUS
<1>1. x \in S /\ y \in S
  OBVIOUS
<1> HIDE DEF S, m0, m1, m2, a0
<1>2. Formatting(State(o0, hue, a0, "text"), m0)
        = Formatting(State(o1, hue, a0, "text"), m1)
  BY <1>m0, <1>s1, <1>1, FormatsText
<1> HIDE DEF o1
<1>3. Formatting(State(o1, hue, a0, "text"), m1)
        = Formatting(State(o2, hue, a0, "text"), m2)
  BY <1>m1, <1>s2, <1>1, FormatsText
<1>4. Formatting(State(o0, hue, a0, "text"), m0) = State(o2, hue, a0, "text")
  BY <1>m2, <1>2, <1>3, FormatsNone
<1> HIDE DEF o0, o2
<1>5. kvprintf(Terminal(o0, hue), m0, a0) = Terminal(o2, hue)
  BY <1>4, Printed
<1> QED
  BY <1>5, Zenon DEF kprintf, m0, a0, o0, o1, o2

\* %s and a newline: what echo and panic print.
LEMMA PrintsString ==
  ASSUME NEW out, NEW hue, NEW x, NEW v,
         x # "%"
  PROVE  kprintf(Terminal(out, hue), <<"%", "s", x>>,
                 <<Str(v)>>)
           = Terminal(Append((out \o v), x), hue)
<1> DEFINE S == {"%", "s", x}
           m0 == <<"%", "s", x>>
           m1 == <<x>>
           m2 == << >>
           o0 == out
           o1 == o0 \o v
           o2 == Append(o1, x)
           a0 == <<Str(v)>>
           a1 == << >>
<1>m0. m0 = <<"%", "s">> \o m1
  OBVIOUS
<1>s0. m0 \in Seq(S)
  OBVIOUS
<1>m1. m1 = <<x>> \o m2
  OBVIOUS
<1>s1. m1 \in Seq(S)
  OBVIOUS
<1>m2. m2 = << >>
  OBVIOUS
<1>s2. m2 \in Seq(S)
  OBVIOUS
<1>1. "%" \in S /\ "s" \in S /\ x \in S
  OBVIOUS
<1>2. /\ Takes(a0, Str(v), a1)
  BY DEF Takes
<1> HIDE DEF S, m0, m1, m2, a0, a1
<1>3. Formatting(State(o0, hue, a0, "text"), m0)
        = Formatting(State(o1, hue, a1, "text"), m1)
  BY <1>m0, <1>s1, <1>1, <1>2, FormatsString
<1> HIDE DEF o1
<1>4. Formatting(State(o1, hue, a1, "text"), m1)
        = Formatting(State(o2, hue, a1, "text"), m2)
  BY <1>m1, <1>s2, <1>1, FormatsText
<1>5. Formatting(State(o0, hue, a0, "text"), m0) = State(o2, hue, a1, "text")
  BY <1>m2, <1>3, <1>4, FormatsNone
<1> HIDE DEF o0, o2
<1>6. kvprintf(Terminal(o0, hue), m0, a0) = Terminal(o2, hue)
  BY <1>5, Printed
<1> QED
  BY <1>6, Zenon DEF kprintf, m0, a0, o0, o1, o2

\* A string between two texts.
LEMMA PrintsBetween ==
  ASSUME NEW out, NEW hue, NEW x, NEW y, NEW v,
         x # "%", y # "%"
  PROVE  kprintf(Terminal(out, hue), <<x, "%", "s", y>>,
                 <<Str(v)>>)
           = Terminal(Append((Append(out, x) \o v), y), hue)
<1> DEFINE S == {x, "%", "s", y}
           m0 == <<x, "%", "s", y>>
           m1 == <<"%", "s", y>>
           m2 == <<y>>
           m3 == << >>
           o0 == out
           o1 == Append(o0, x)
           o2 == o1 \o v
           o3 == Append(o2, y)
           a0 == <<Str(v)>>
           a1 == << >>
<1>m0. m0 = <<x>> \o m1
  OBVIOUS
<1>s0. m0 \in Seq(S)
  OBVIOUS
<1>m1. m1 = <<"%", "s">> \o m2
  OBVIOUS
<1>s1. m1 \in Seq(S)
  OBVIOUS
<1>m2. m2 = <<y>> \o m3
  OBVIOUS
<1>s2. m2 \in Seq(S)
  OBVIOUS
<1>m3. m3 = << >>
  OBVIOUS
<1>s3. m3 \in Seq(S)
  OBVIOUS
<1>1. x \in S /\ "%" \in S /\ "s" \in S /\ y \in S
  OBVIOUS
<1>2. /\ Takes(a0, Str(v), a1)
  BY DEF Takes
<1> HIDE DEF S, m0, m1, m2, m3, a0, a1
<1>3. Formatting(State(o0, hue, a0, "text"), m0)
        = Formatting(State(o1, hue, a0, "text"), m1)
  BY <1>m0, <1>s1, <1>1, FormatsText
<1> HIDE DEF o1
<1>4. Formatting(State(o1, hue, a0, "text"), m1)
        = Formatting(State(o2, hue, a1, "text"), m2)
  BY <1>m1, <1>s2, <1>1, <1>2, FormatsString
<1> HIDE DEF o2
<1>5. Formatting(State(o2, hue, a1, "text"), m2)
        = Formatting(State(o3, hue, a1, "text"), m3)
  BY <1>m2, <1>s3, <1>1, FormatsText
<1>6. Formatting(State(o0, hue, a0, "text"), m0) = State(o3, hue, a1, "text")
  BY <1>m3, <1>3, <1>4, <1>5, FormatsNone
<1> HIDE DEF o0, o3
<1>7. kvprintf(Terminal(o0, hue), m0, a0) = Terminal(o3, hue)
  BY <1>6, Printed
<1> QED
  BY <1>7, Zenon DEF kprintf, m0, a0, o0, o1, o2, o3

\* Two strings: a line of help.
LEMMA PrintsPair ==
  ASSUME NEW out, NEW hue, NEW x, NEW y, NEW v, NEW w,
         x # "%", y # "%"
  PROVE  kprintf(Terminal(out, hue), <<"%", "s", x, "%", "s", y>>,
                 <<Str(v), Str(w)>>)
           = Terminal(Append((Append((out \o v), x) \o w), y), hue)
<1> DEFINE S == {"%", "s", x, y}
           m0 == <<"%", "s", x, "%", "s", y>>
           m1 == <<x, "%", "s", y>>
           m2 == <<"%", "s", y>>
           m3 == <<y>>
           m4 == << >>
           o0 == out
           o1 == o0 \o v
           o2 == Append(o1, x)
           o3 == o2 \o w
           o4 == Append(o3, y)
           a0 == <<Str(v), Str(w)>>
           a1 == <<Str(w)>>
           a2 == << >>
<1>m0. m0 = <<"%", "s">> \o m1
  OBVIOUS
<1>s0. m0 \in Seq(S)
  OBVIOUS
<1>m1. m1 = <<x>> \o m2
  OBVIOUS
<1>s1. m1 \in Seq(S)
  OBVIOUS
<1>m2. m2 = <<"%", "s">> \o m3
  OBVIOUS
<1>s2. m2 \in Seq(S)
  OBVIOUS
<1>m3. m3 = <<y>> \o m4
  OBVIOUS
<1>s3. m3 \in Seq(S)
  OBVIOUS
<1>m4. m4 = << >>
  OBVIOUS
<1>s4. m4 \in Seq(S)
  OBVIOUS
<1>1. "%" \in S /\ "s" \in S /\ x \in S /\ y \in S
  OBVIOUS
<1>2. /\ Takes(a0, Str(v), a1)
      /\ Takes(a1, Str(w), a2)
  BY DEF Takes
<1> HIDE DEF S, m0, m1, m2, m3, m4, a0, a1, a2
<1>3. Formatting(State(o0, hue, a0, "text"), m0)
        = Formatting(State(o1, hue, a1, "text"), m1)
  BY <1>m0, <1>s1, <1>1, <1>2, FormatsString
<1> HIDE DEF o1
<1>4. Formatting(State(o1, hue, a1, "text"), m1)
        = Formatting(State(o2, hue, a1, "text"), m2)
  BY <1>m1, <1>s2, <1>1, FormatsText
<1> HIDE DEF o2
<1>5. Formatting(State(o2, hue, a1, "text"), m2)
        = Formatting(State(o3, hue, a2, "text"), m3)
  BY <1>m2, <1>s3, <1>1, <1>2, FormatsString
<1> HIDE DEF o3
<1>6. Formatting(State(o3, hue, a2, "text"), m3)
        = Formatting(State(o4, hue, a2, "text"), m4)
  BY <1>m3, <1>s4, <1>1, FormatsText
<1>7. Formatting(State(o0, hue, a0, "text"), m0) = State(o4, hue, a2, "text")
  BY <1>m4, <1>3, <1>4, <1>5, <1>6, FormatsNone
<1> HIDE DEF o0, o4
<1>8. kvprintf(Terminal(o0, hue), m0, a0) = Terminal(o4, hue)
  BY <1>7, Printed
<1> QED
  BY <1>8, Zenon DEF kprintf, m0, a0, o0, o1, o2, o3, o4

\* Three strings: uname.
LEMMA PrintsTriple ==
  ASSUME NEW out, NEW hue, NEW x, NEW y, NEW z, NEW u, NEW v, NEW w,
         x # "%", y # "%", z # "%"
  PROVE  kprintf(Terminal(out, hue), <<"%", "s", x, "%", "s", y, "%", "s", z>>,
                 <<Str(u), Str(v), Str(w)>>)
           = Terminal(Append((Append((Append((out \o u), x) \o v), y) \o w), z), hue)
<1> DEFINE S == {"%", "s", x, y, z}
           m0 == <<"%", "s", x, "%", "s", y, "%", "s", z>>
           m1 == <<x, "%", "s", y, "%", "s", z>>
           m2 == <<"%", "s", y, "%", "s", z>>
           m3 == <<y, "%", "s", z>>
           m4 == <<"%", "s", z>>
           m5 == <<z>>
           m6 == << >>
           o0 == out
           o1 == o0 \o u
           o2 == Append(o1, x)
           o3 == o2 \o v
           o4 == Append(o3, y)
           o5 == o4 \o w
           o6 == Append(o5, z)
           a0 == <<Str(u), Str(v), Str(w)>>
           a1 == <<Str(v), Str(w)>>
           a2 == <<Str(w)>>
           a3 == << >>
<1>m0. m0 = <<"%", "s">> \o m1
  OBVIOUS
<1>s0. m0 \in Seq(S)
  OBVIOUS
<1>m1. m1 = <<x>> \o m2
  OBVIOUS
<1>s1. m1 \in Seq(S)
  OBVIOUS
<1>m2. m2 = <<"%", "s">> \o m3
  OBVIOUS
<1>s2. m2 \in Seq(S)
  OBVIOUS
<1>m3. m3 = <<y>> \o m4
  OBVIOUS
<1>s3. m3 \in Seq(S)
  OBVIOUS
<1>m4. m4 = <<"%", "s">> \o m5
  OBVIOUS
<1>s4. m4 \in Seq(S)
  OBVIOUS
<1>m5. m5 = <<z>> \o m6
  OBVIOUS
<1>s5. m5 \in Seq(S)
  OBVIOUS
<1>m6. m6 = << >>
  OBVIOUS
<1>s6. m6 \in Seq(S)
  OBVIOUS
<1>1. "%" \in S /\ "s" \in S /\ x \in S /\ y \in S /\ z \in S
  OBVIOUS
<1>2. /\ Takes(a0, Str(u), a1)
      /\ Takes(a1, Str(v), a2)
      /\ Takes(a2, Str(w), a3)
  BY DEF Takes
<1> HIDE DEF S, m0, m1, m2, m3, m4, m5, m6, a0, a1, a2, a3
<1>3. Formatting(State(o0, hue, a0, "text"), m0)
        = Formatting(State(o1, hue, a1, "text"), m1)
  BY <1>m0, <1>s1, <1>1, <1>2, FormatsString
<1> HIDE DEF o1
<1>4. Formatting(State(o1, hue, a1, "text"), m1)
        = Formatting(State(o2, hue, a1, "text"), m2)
  BY <1>m1, <1>s2, <1>1, FormatsText
<1> HIDE DEF o2
<1>5. Formatting(State(o2, hue, a1, "text"), m2)
        = Formatting(State(o3, hue, a2, "text"), m3)
  BY <1>m2, <1>s3, <1>1, <1>2, FormatsString
<1> HIDE DEF o3
<1>6. Formatting(State(o3, hue, a2, "text"), m3)
        = Formatting(State(o4, hue, a2, "text"), m4)
  BY <1>m3, <1>s4, <1>1, FormatsText
<1> HIDE DEF o4
<1>7. Formatting(State(o4, hue, a2, "text"), m4)
        = Formatting(State(o5, hue, a3, "text"), m5)
  BY <1>m4, <1>s5, <1>1, <1>2, FormatsString
<1> HIDE DEF o5
<1>8. Formatting(State(o5, hue, a3, "text"), m5)
        = Formatting(State(o6, hue, a3, "text"), m6)
  BY <1>m5, <1>s6, <1>1, FormatsText
<1>9. Formatting(State(o0, hue, a0, "text"), m0) = State(o6, hue, a3, "text")
  BY <1>m6, <1>3, <1>4, <1>5, <1>6, <1>7, <1>8, FormatsNone
<1> HIDE DEF o0, o6
<1>10. kvprintf(Terminal(o0, hue), m0, a0) = Terminal(o6, hue)
  BY <1>9, Printed
<1> QED
  BY <1>10, Zenon DEF kprintf, m0, a0, o0, o1, o2, o3, o4, o5, o6

\* Three strings among texts: the banner.
LEMMA PrintsBanner ==
  ASSUME NEW out, NEW hue, NEW x, NEW y, NEW z, NEW p, NEW q, NEW u, NEW v, NEW w,
         x # "%", y # "%", z # "%", p # "%", q # "%"
  PROVE  kprintf(Terminal(out, hue), <<x, "%", "s", y, "%", "s", z, "%", "s", p, q>>,
                 <<Str(u), Str(v), Str(w)>>)
           = Terminal(Append(Append(Append(Append(Append(out, x) \o u, y) \o v, z) \o w, p), q),
                      hue)
<1> DEFINE S == {x, "%", "s", y, z, p, q}
           m0 == <<x, "%", "s", y, "%", "s", z, "%", "s", p, q>>
           m1 == <<"%", "s", y, "%", "s", z, "%", "s", p, q>>
           m2 == <<y, "%", "s", z, "%", "s", p, q>>
           m3 == <<"%", "s", z, "%", "s", p, q>>
           m4 == <<z, "%", "s", p, q>>
           m5 == <<"%", "s", p, q>>
           m6 == <<p, q>>
           m7 == <<q>>
           m8 == << >>
           o0 == out
           o1 == Append(o0, x)
           o2 == o1 \o u
           o3 == Append(o2, y)
           o4 == o3 \o v
           o5 == Append(o4, z)
           o6 == o5 \o w
           o7 == Append(o6, p)
           o8 == Append(o7, q)
           a0 == <<Str(u), Str(v), Str(w)>>
           a1 == <<Str(v), Str(w)>>
           a2 == <<Str(w)>>
           a3 == << >>
<1>m0. m0 = <<x>> \o m1
  OBVIOUS
<1>s0. m0 \in Seq(S)
  OBVIOUS
<1>m1. m1 = <<"%", "s">> \o m2
  OBVIOUS
<1>s1. m1 \in Seq(S)
  OBVIOUS
<1>m2. m2 = <<y>> \o m3
  OBVIOUS
<1>s2. m2 \in Seq(S)
  OBVIOUS
<1>m3. m3 = <<"%", "s">> \o m4
  OBVIOUS
<1>s3. m3 \in Seq(S)
  OBVIOUS
<1>m4. m4 = <<z>> \o m5
  OBVIOUS
<1>s4. m4 \in Seq(S)
  OBVIOUS
<1>m5. m5 = <<"%", "s">> \o m6
  OBVIOUS
<1>s5. m5 \in Seq(S)
  OBVIOUS
<1>m6. m6 = <<p>> \o m7
  BY TwoChars
<1>s6. m6 \in Seq(S)
  OBVIOUS
<1>m7. m7 = <<q>> \o m8
  OBVIOUS
<1>s7. m7 \in Seq(S)
  OBVIOUS
<1>m8. m8 = << >>
  OBVIOUS
<1>s8. m8 \in Seq(S)
  OBVIOUS
<1>1. x \in S /\ "%" \in S /\ "s" \in S /\ y \in S /\ z \in S /\ p \in S /\ q \in S
  OBVIOUS
<1>2. /\ Takes(a0, Str(u), a1)
      /\ Takes(a1, Str(v), a2)
      /\ Takes(a2, Str(w), a3)
  BY DEF Takes
<1> HIDE DEF S, m0, m1, m2, m3, m4, m5, m6, m7, m8, a0, a1, a2, a3
<1>3. Formatting(State(o0, hue, a0, "text"), m0)
        = Formatting(State(o1, hue, a0, "text"), m1)
  BY <1>m0, <1>s1, <1>1, FormatsText
<1> HIDE DEF o1
<1>4. Formatting(State(o1, hue, a0, "text"), m1)
        = Formatting(State(o2, hue, a1, "text"), m2)
  BY <1>m1, <1>s2, <1>1, <1>2, FormatsString
<1> HIDE DEF o2
<1>5. Formatting(State(o2, hue, a1, "text"), m2)
        = Formatting(State(o3, hue, a1, "text"), m3)
  BY <1>m2, <1>s3, <1>1, FormatsText
<1> HIDE DEF o3
<1>6. Formatting(State(o3, hue, a1, "text"), m3)
        = Formatting(State(o4, hue, a2, "text"), m4)
  BY <1>m3, <1>s4, <1>1, <1>2, FormatsString
<1> HIDE DEF o4
<1>7. Formatting(State(o4, hue, a2, "text"), m4)
        = Formatting(State(o5, hue, a2, "text"), m5)
  BY <1>m4, <1>s5, <1>1, FormatsText
<1> HIDE DEF o5
<1>8. Formatting(State(o5, hue, a2, "text"), m5)
        = Formatting(State(o6, hue, a3, "text"), m6)
  BY <1>m5, <1>s6, <1>1, <1>2, FormatsString
<1> HIDE DEF o6
<1>9. Formatting(State(o6, hue, a3, "text"), m6)
        = Formatting(State(o7, hue, a3, "text"), m7)
  BY <1>m6, <1>s7, <1>1, FormatsText
<1> HIDE DEF o7
<1>10. Formatting(State(o7, hue, a3, "text"), m7)
        = Formatting(State(o8, hue, a3, "text"), m8)
  BY <1>m7, <1>s8, <1>1, FormatsText
<1>11. Formatting(State(o0, hue, a0, "text"), m0) = State(o8, hue, a3, "text")
  BY <1>m8, <1>3, <1>4, <1>5, <1>6, <1>7, <1>8, <1>9, <1>10, FormatsNone
<1> HIDE DEF o0, o8
<1>12. kvprintf(Terminal(o0, hue), m0, a0) = Terminal(o8, hue)
  BY <1>11, Printed
<1> QED
  BY <1>12, Zenon DEF kprintf, m0, a0, o0, o1, o2, o3, o4, o5, o6, o7, o8

\* Two strings next to each other: a feature of the CPU.
LEMMA PrintsFeature ==
  ASSUME NEW out, NEW hue, NEW x, NEW y, NEW v, NEW w,
         x # "%", y # "%"
  PROVE  kprintf(Terminal(out, hue), <<x, "%", "s", "%", "s", y>>,
                 <<Str(v), Str(w)>>)
           = Terminal(Append(((Append(out, x) \o v) \o w), y), hue)
<1> DEFINE S == {x, "%", "s", y}
           m0 == <<x, "%", "s", "%", "s", y>>
           m1 == <<"%", "s", "%", "s", y>>
           m2 == <<"%", "s", y>>
           m3 == <<y>>
           m4 == << >>
           o0 == out
           o1 == Append(o0, x)
           o2 == o1 \o v
           o3 == o2 \o w
           o4 == Append(o3, y)
           a0 == <<Str(v), Str(w)>>
           a1 == <<Str(w)>>
           a2 == << >>
<1>m0. m0 = <<x>> \o m1
  OBVIOUS
<1>s0. m0 \in Seq(S)
  OBVIOUS
<1>m1. m1 = <<"%", "s">> \o m2
  OBVIOUS
<1>s1. m1 \in Seq(S)
  OBVIOUS
<1>m2. m2 = <<"%", "s">> \o m3
  OBVIOUS
<1>s2. m2 \in Seq(S)
  OBVIOUS
<1>m3. m3 = <<y>> \o m4
  OBVIOUS
<1>s3. m3 \in Seq(S)
  OBVIOUS
<1>m4. m4 = << >>
  OBVIOUS
<1>s4. m4 \in Seq(S)
  OBVIOUS
<1>1. x \in S /\ "%" \in S /\ "s" \in S /\ y \in S
  OBVIOUS
<1>2. /\ Takes(a0, Str(v), a1)
      /\ Takes(a1, Str(w), a2)
  BY DEF Takes
<1> HIDE DEF S, m0, m1, m2, m3, m4, a0, a1, a2
<1>3. Formatting(State(o0, hue, a0, "text"), m0)
        = Formatting(State(o1, hue, a0, "text"), m1)
  BY <1>m0, <1>s1, <1>1, FormatsText
<1> HIDE DEF o1
<1>4. Formatting(State(o1, hue, a0, "text"), m1)
        = Formatting(State(o2, hue, a1, "text"), m2)
  BY <1>m1, <1>s2, <1>1, <1>2, FormatsString
<1> HIDE DEF o2
<1>5. Formatting(State(o2, hue, a1, "text"), m2)
        = Formatting(State(o3, hue, a2, "text"), m3)
  BY <1>m2, <1>s3, <1>1, <1>2, FormatsString
<1> HIDE DEF o3
<1>6. Formatting(State(o3, hue, a2, "text"), m3)
        = Formatting(State(o4, hue, a2, "text"), m4)
  BY <1>m3, <1>s4, <1>1, FormatsText
<1>7. Formatting(State(o0, hue, a0, "text"), m0) = State(o4, hue, a2, "text")
  BY <1>m4, <1>3, <1>4, <1>5, <1>6, FormatsNone
<1> HIDE DEF o0, o4
<1>8. kvprintf(Terminal(o0, hue), m0, a0) = Terminal(o4, hue)
  BY <1>7, Printed
<1> QED
  BY <1>8, Zenon DEF kprintf, m0, a0, o0, o1, o2, o3, o4

\* The head of a panic, in its colour.
LEMMA PrintsPanic ==
  ASSUME NEW out, NEW hue, NEW x, NEW y, NEW z, NEW v,
         x # "%", y # "%", z # "%"
  PROVE  kprintf(Terminal(out, hue), <<"%", "k", x, y, z>>,
                 <<<<"color", v>>>>)
           = Terminal(Append(Append(Append((out \o << >>), x), y), z), v)
<1> DEFINE S == {"%", "k", x, y, z}
           m0 == <<"%", "k", x, y, z>>
           m1 == <<x, y, z>>
           m2 == <<y, z>>
           m3 == <<z>>
           m4 == << >>
           o0 == out
           o1 == o0 \o << >>
           o2 == Append(o1, x)
           o3 == Append(o2, y)
           o4 == Append(o3, z)
           a0 == <<<<"color", v>>>>
           a1 == << >>
<1>m0. m0 = <<"%", "k">> \o m1
  OBVIOUS
<1>s0. m0 \in Seq(S)
  OBVIOUS
<1>m1. m1 = <<x>> \o m2
  OBVIOUS
<1>s1. m1 \in Seq(S)
  OBVIOUS
<1>m2. m2 = <<y>> \o m3
  BY TwoChars
<1>s2. m2 \in Seq(S)
  OBVIOUS
<1>m3. m3 = <<z>> \o m4
  OBVIOUS
<1>s3. m3 \in Seq(S)
  OBVIOUS
<1>m4. m4 = << >>
  OBVIOUS
<1>s4. m4 \in Seq(S)
  OBVIOUS
<1>1. "%" \in S /\ "k" \in S /\ x \in S /\ y \in S /\ z \in S
  OBVIOUS
<1>2. /\ Takes(a0, <<"color", v>>, a1)
  BY DEF Takes
<1> HIDE DEF S, m0, m1, m2, m3, m4, a0, a1
<1>3. Formatting(State(o0, hue, a0, "text"), m0)
        = Formatting(State(o1, v, a1, "text"), m1)
  BY <1>m0, <1>s1, <1>1, <1>2, FormatsColor
<1> HIDE DEF o1
<1>4. Formatting(State(o1, v, a1, "text"), m1)
        = Formatting(State(o2, v, a1, "text"), m2)
  BY <1>m1, <1>s2, <1>1, FormatsText
<1> HIDE DEF o2
<1>5. Formatting(State(o2, v, a1, "text"), m2)
        = Formatting(State(o3, v, a1, "text"), m3)
  BY <1>m2, <1>s3, <1>1, FormatsText
<1> HIDE DEF o3
<1>6. Formatting(State(o3, v, a1, "text"), m3)
        = Formatting(State(o4, v, a1, "text"), m4)
  BY <1>m3, <1>s4, <1>1, FormatsText
<1>7. Formatting(State(o0, hue, a0, "text"), m0) = State(o4, v, a1, "text")
  BY <1>m4, <1>3, <1>4, <1>5, <1>6, FormatsNone
<1> HIDE DEF o0, o4
<1>8. kvprintf(Terminal(o0, hue), m0, a0) = Terminal(o4, v)
  BY <1>7, Printed
<1> QED
  BY <1>8, Zenon DEF kprintf, m0, a0, o0, o1, o2, o3, o4

\* Two numbers: an exception nobody expects.
LEMMA PrintsException ==
  ASSUME NEW out, NEW hue, NEW x, NEW y, NEW z, NEW m, NEW n,
         x # "%", y # "%", z # "%", ~Overflows("lu", m), ~Overflows("X", n)
  PROVE  kprintf(Terminal(out, hue), <<x, "%", "l", "u", y, "%", "X", z>>,
                 <<<<"ulong", m>>, <<"ulong", n>>>>)
           = Terminal(Append(Append(Append(out, x) \o kprint_uint(m, 10), y)
                               \o kprint_uint(n, 16), z), hue)
<1> DEFINE S == {x, "%", "l", "u", y, "X", z}
           m0 == <<x, "%", "l", "u", y, "%", "X", z>>
           m1 == <<"%", "l", "u", y, "%", "X", z>>
           m2 == <<y, "%", "X", z>>
           m3 == <<"%", "X", z>>
           m4 == <<z>>
           m5 == << >>
           o0 == out
           o1 == Append(o0, x)
           o2 == o1 \o kprint_uint(m, 10)
           o3 == Append(o2, y)
           o4 == o3 \o kprint_uint(n, 16)
           o5 == Append(o4, z)
           a0 == <<<<"ulong", m>>, <<"ulong", n>>>>
           a1 == <<<<"ulong", n>>>>
           a2 == << >>
<1>m0. m0 = <<x>> \o m1
  OBVIOUS
<1>s0. m0 \in Seq(S)
  OBVIOUS
<1>m1. m1 = <<"%", "l", "u">> \o m2
  OBVIOUS
<1>s1. m1 \in Seq(S)
  OBVIOUS
<1>m2. m2 = <<y>> \o m3
  OBVIOUS
<1>s2. m2 \in Seq(S)
  OBVIOUS
<1>m3. m3 = <<"%", "X">> \o m4
  OBVIOUS
<1>s3. m3 \in Seq(S)
  OBVIOUS
<1>m4. m4 = <<z>> \o m5
  OBVIOUS
<1>s4. m4 \in Seq(S)
  OBVIOUS
<1>m5. m5 = << >>
  OBVIOUS
<1>s5. m5 \in Seq(S)
  OBVIOUS
<1>1. x \in S /\ "%" \in S /\ "l" \in S /\ "u" \in S /\ y \in S /\ "X" \in S /\ z \in S
  OBVIOUS
<1>2. /\ Takes(a0, <<"ulong", m>>, a1)
      /\ Takes(a1, <<"ulong", n>>, a2)
  BY DEF Takes
<1> HIDE DEF S, m0, m1, m2, m3, m4, m5, a0, a1, a2
<1>3. Formatting(State(o0, hue, a0, "text"), m0)
        = Formatting(State(o1, hue, a0, "text"), m1)
  BY <1>m0, <1>s1, <1>1, FormatsText
<1> HIDE DEF o1
<1>4. Formatting(State(o1, hue, a0, "text"), m1)
        = Formatting(State(o2, hue, a1, "text"), m2)
  BY <1>m1, <1>s2, <1>1, <1>2, FormatsUnsigned
<1> HIDE DEF o2
<1>5. Formatting(State(o2, hue, a1, "text"), m2)
        = Formatting(State(o3, hue, a1, "text"), m3)
  BY <1>m2, <1>s3, <1>1, FormatsText
<1> HIDE DEF o3
<1>6. Formatting(State(o3, hue, a1, "text"), m3)
        = Formatting(State(o4, hue, a2, "text"), m4)
  BY <1>m3, <1>s4, <1>1, <1>2, FormatsHex
<1> HIDE DEF o4
<1>7. Formatting(State(o4, hue, a2, "text"), m4)
        = Formatting(State(o5, hue, a2, "text"), m5)
  BY <1>m4, <1>s5, <1>1, FormatsText
<1>8. Formatting(State(o0, hue, a0, "text"), m0) = State(o5, hue, a2, "text")
  BY <1>m5, <1>3, <1>4, <1>5, <1>6, <1>7, FormatsNone
<1> HIDE DEF o0, o5
<1>9. kvprintf(Terminal(o0, hue), m0, a0) = Terminal(o5, hue)
  BY <1>8, Printed
<1> QED
  BY <1>9, Zenon DEF kprintf, m0, a0, o0, o1, o2, o3, o4, o5

\* Three numbers: uptime.
LEMMA PrintsUptime ==
  ASSUME NEW out, NEW hue, NEW x, NEW p, NEW q, NEW z, NEW a, NEW b, NEW c,
         x # "%", p # "%", q # "%", z # "%",
         ~Overflows("lu", a), ~Overflows("lu", b), ~Overflows("lu", c)
  PROVE  kprintf(Terminal(out, hue), <<x, "%", "l", "u", p, "%", "l", "u", q, "%", "l", "u", z>>,
                 <<<<"ulong", a>>, <<"ulong", b>>, <<"ulong", c>>>>)
           = Terminal(Append(Append(Append(Append(out, x) \o kprint_uint(a, 10), p)
                                      \o kprint_uint(b, 10), q) \o kprint_uint(c, 10), z), hue)
<1> DEFINE S == {x, "%", "l", "u", p, q, z}
           m0 == <<x, "%", "l", "u", p, "%", "l", "u", q, "%", "l", "u", z>>
           m1 == <<"%", "l", "u", p, "%", "l", "u", q, "%", "l", "u", z>>
           m2 == <<p, "%", "l", "u", q, "%", "l", "u", z>>
           m3 == <<"%", "l", "u", q, "%", "l", "u", z>>
           m4 == <<q, "%", "l", "u", z>>
           m5 == <<"%", "l", "u", z>>
           m6 == <<z>>
           m7 == << >>
           o0 == out
           o1 == Append(o0, x)
           o2 == o1 \o kprint_uint(a, 10)
           o3 == Append(o2, p)
           o4 == o3 \o kprint_uint(b, 10)
           o5 == Append(o4, q)
           o6 == o5 \o kprint_uint(c, 10)
           o7 == Append(o6, z)
           a0 == <<<<"ulong", a>>, <<"ulong", b>>, <<"ulong", c>>>>
           a1 == <<<<"ulong", b>>, <<"ulong", c>>>>
           a2 == <<<<"ulong", c>>>>
           a3 == << >>
<1>m0. m0 = <<x>> \o m1
  OBVIOUS
<1>s0. m0 \in Seq(S)
  OBVIOUS
<1>m1. m1 = <<"%", "l", "u">> \o m2
  OBVIOUS
<1>s1. m1 \in Seq(S)
  OBVIOUS
<1>m2. m2 = <<p>> \o m3
  OBVIOUS
<1>s2. m2 \in Seq(S)
  OBVIOUS
<1>m3. m3 = <<"%", "l", "u">> \o m4
  OBVIOUS
<1>s3. m3 \in Seq(S)
  OBVIOUS
<1>m4. m4 = <<q>> \o m5
  OBVIOUS
<1>s4. m4 \in Seq(S)
  OBVIOUS
<1>m5. m5 = <<"%", "l", "u">> \o m6
  OBVIOUS
<1>s5. m5 \in Seq(S)
  OBVIOUS
<1>m6. m6 = <<z>> \o m7
  OBVIOUS
<1>s6. m6 \in Seq(S)
  OBVIOUS
<1>m7. m7 = << >>
  OBVIOUS
<1>s7. m7 \in Seq(S)
  OBVIOUS
<1>1. x \in S /\ "%" \in S /\ "l" \in S /\ "u" \in S /\ p \in S /\ q \in S /\ z \in S
  OBVIOUS
<1>2. /\ Takes(a0, <<"ulong", a>>, a1)
      /\ Takes(a1, <<"ulong", b>>, a2)
      /\ Takes(a2, <<"ulong", c>>, a3)
  BY DEF Takes
<1> HIDE DEF S, m0, m1, m2, m3, m4, m5, m6, m7, a0, a1, a2, a3
<1>3. Formatting(State(o0, hue, a0, "text"), m0)
        = Formatting(State(o1, hue, a0, "text"), m1)
  BY <1>m0, <1>s1, <1>1, FormatsText
<1> HIDE DEF o1
<1>4. Formatting(State(o1, hue, a0, "text"), m1)
        = Formatting(State(o2, hue, a1, "text"), m2)
  BY <1>m1, <1>s2, <1>1, <1>2, FormatsUnsigned
<1> HIDE DEF o2
<1>5. Formatting(State(o2, hue, a1, "text"), m2)
        = Formatting(State(o3, hue, a1, "text"), m3)
  BY <1>m2, <1>s3, <1>1, FormatsText
<1> HIDE DEF o3
<1>6. Formatting(State(o3, hue, a1, "text"), m3)
        = Formatting(State(o4, hue, a2, "text"), m4)
  BY <1>m3, <1>s4, <1>1, <1>2, FormatsUnsigned
<1> HIDE DEF o4
<1>7. Formatting(State(o4, hue, a2, "text"), m4)
        = Formatting(State(o5, hue, a2, "text"), m5)
  BY <1>m4, <1>s5, <1>1, FormatsText
<1> HIDE DEF o5
<1>8. Formatting(State(o5, hue, a2, "text"), m5)
        = Formatting(State(o6, hue, a3, "text"), m6)
  BY <1>m5, <1>s6, <1>1, <1>2, FormatsUnsigned
<1> HIDE DEF o6
<1>9. Formatting(State(o6, hue, a3, "text"), m6)
        = Formatting(State(o7, hue, a3, "text"), m7)
  BY <1>m6, <1>s7, <1>1, FormatsText
<1>10. Formatting(State(o0, hue, a0, "text"), m0) = State(o7, hue, a3, "text")
  BY <1>m7, <1>3, <1>4, <1>5, <1>6, <1>7, <1>8, <1>9, FormatsNone
<1> HIDE DEF o0, o7
<1>11. kvprintf(Terminal(o0, hue), m0, a0) = Terminal(o7, hue)
  BY <1>10, Printed
<1> QED
  BY <1>11, Zenon DEF kprintf, m0, a0, o0, o1, o2, o3, o4, o5, o6, o7
-----------------------------------------------------------------------------
(* Loops that print.                                                       *)

Logs(t, calls, k, g) ==
  g = [s \in SUBSET (1..k) |->
         IF s = {} THEN t ELSE Logged(g[s \ {Max(s)}], calls[Max(s)])]

LEMMA LogFolds ==
  ASSUME NEW t, NEW calls, NEW n \in Nat
  PROVE  \E g : Logs(t, calls, n, g)
<1> DEFINE G(k, g) == Logs(t, calls, k, g)
           S == {k \in Nat : \E g : G(k, g)}
<1>1. 0 \in S
  <2>1. 1..0 = {} /\ SUBSET (1..0) = {{}}
    OBVIOUS
  <2>2. G(0, [s \in SUBSET (1..0) |-> t])
    BY <2>1 DEF Logs
  <2> QED
    BY <2>2
<1>2. ASSUME NEW k \in Nat, k \in S PROVE k + 1 \in S
  <2>1. PICK g : G(k, g)
    BY <1>2
  <2> DEFINE h == [s \in SUBSET (1..k+1) |->
                     IF k + 1 \in s THEN Logged(g[s \ {k + 1}], calls[k + 1]) ELSE g[s]]
             e(s) == IF s = {} THEN t ELSE Logged(h[s \ {Max(s)}], calls[Max(s)])
  <2>2. ASSUME NEW s \in SUBSET (1..k+1) PROVE h[s] = e(s)
    <3>1. CASE k + 1 \in s
      <4>1. Max(s) = k + 1 /\ s # {} /\ s \ {k + 1} \in SUBSET (1..k+1) /\ k + 1 \notin s \ {k + 1}
        BY <3>1, Smaller
      <4>2. h[s \ {k + 1}] = g[s \ {k + 1}]
        BY <4>1
      <4>3. h[s] = Logged(g[s \ {k + 1}], calls[k + 1])
        BY <3>1
      <4> HIDE DEF h
      <4> QED
        BY <4>1, <4>2, <4>3
    <3>2. CASE k + 1 \notin s
      <4>1. /\ s \in SUBSET (1..k) /\ s \ {Max(s)} \in SUBSET (1..k+1)
            /\ k + 1 \notin s \ {Max(s)}
        BY <3>2, Smaller
      <4>2. h[s] = g[s]
        BY <3>2
      <4>3. h[s \ {Max(s)}] = g[s \ {Max(s)}]
        BY <4>1
      <4>4. g[s] = IF s = {} THEN t ELSE Logged(g[s \ {Max(s)}], calls[Max(s)])
        BY <2>1, <4>1 DEF Logs
      <4> HIDE DEF h
      <4> QED
        BY <4>2, <4>3, <4>4
    <3> QED
      BY <3>1, <3>2
  <2>3. h = [s \in SUBSET (1..k+1) |-> e(s)]
    <3>1. h = [s \in SUBSET (1..k+1) |-> h[s]]
      OBVIOUS
    <3> HIDE DEF h
    <3> QED
      BY <2>2, <3>1
  <2>4. G(k + 1, h)
    BY <2>3 DEF Logs
  <2> HIDE DEF h, G
  <2> QED
    BY <2>4
<1>3. n \in S
  <2> HIDE DEF S
  <2> QED
    BY <1>1, <1>2, Induction
<1> QED
  BY <1>3

\* The states the loop leaves the terminal in.
Calls(h, t, calls) ==
  /\ h[0] = t
  /\ \A i \in 0..Len(calls)-1 : h[i + 1] = Logged(h[i], calls[i + 1])

LEMMA LogsInRow ==
  ASSUME NEW t, NEW S, NEW calls \in Seq(S)
  PROVE  \E h : Calls(h, t, calls) /\ LoggedAll(t, calls) = h[Len(calls)]
<1> DEFINE n == Len(calls)
           g == CHOOSE g : Logs(t, calls, n, g)
           h == [k \in 0..n |-> g[1..k]]
<1>0. n \in Nat /\ DOMAIN calls = 1..n
  OBVIOUS
<1>1. Logs(t, calls, n, g)
  BY <1>0, LogFolds, Zenon
<1>2. LoggedAll(t, calls) = g[1..n]
  BY <1>0 DEF LoggedAll, FoldLeft, MapThenFoldSet, Logs
<1> HIDE DEF g, n
<1>3. h[0] = t
  <2>1. 1..0 = {} /\ 1..0 \in SUBSET (1..n) /\ 0 \in 0..n
    BY <1>0
  <2> QED
    BY <1>1, <2>1 DEF Logs
<1>4. ASSUME NEW k \in 0..n-1 PROVE h[k + 1] = Logged(h[k], calls[k + 1])
  <2>1. /\ 1..k+1 # {} /\ Max(1..k+1) = k + 1 /\ (1..k+1) \ {k + 1} = 1..k
        /\ 1..k+1 \in SUBSET (1..n)
    <3>1. k \in Nat /\ k + 1 \in Nat /\ k + 1 <= n
      BY <1>0
    <3> QED
      BY <1>0, <3>1, Prefix
  <2>2. g[1..k+1] = Logged(g[1..k], calls[k + 1])
    BY <1>1, <2>1 DEF Logs
  <2> QED
    BY <1>0, <2>2
<1>5. h[n] = g[1..n]
  BY <1>0
<1> HIDE DEF h
<1>6. Calls(h, t, calls)
  BY <1>3, <1>4 DEF Calls, n
<1> QED
  BY <1>2, <1>5, <1>6 DEF n

IsTerminal(t) == \E out, color : t = Terminal(out, color)

\* A call that goes well.
Quiet(call) == \A t : IsTerminal(t) => IsTerminal(Logged(t, call))

LEMMA LoggedQuietly ==
  ASSUME NEW t, IsTerminal(t), NEW S, NEW calls \in Seq(S),
         \A k \in 1..Len(calls) : Quiet(calls[k])
  PROVE  IsTerminal(LoggedAll(t, calls))
<1>1. PICK h : Calls(h, t, calls) /\ LoggedAll(t, calls) = h[Len(calls)]
  BY LogsInRow
<1> DEFINE K == {k \in Nat : k <= Len(calls) => IsTerminal(h[k])}
<1>2. 0 \in K
  BY <1>1 DEF Calls
<1>3. ASSUME NEW k \in Nat, k \in K PROVE k + 1 \in K
  <2> SUFFICES ASSUME k + 1 <= Len(calls) PROVE IsTerminal(h[k + 1])
    OBVIOUS
  <2>1. k \in 0..Len(calls)-1 /\ k + 1 \in 1..Len(calls) /\ k <= Len(calls)
    OBVIOUS
  <2>2. h[k + 1] = Logged(h[k], calls[k + 1])
    BY <1>1, <2>1 DEF Calls
  <2> QED
    BY <1>3, <2>1, <2>2 DEF Quiet
<1>4. Len(calls) \in Nat
  OBVIOUS
<1>5. Len(calls) \in K
  <2> HIDE DEF K
  <2> QED
    BY <1>2, <1>3, <1>4, Induction
<1> QED
  BY <1>1, <1>4, <1>5
-----------------------------------------------------------------------------
(* Numbers.                                                                *)

\* What is left after up to k divisions.
Divides(n, base, k, g) ==
  g = [i \in 0..k |-> IF i = 0 THEN n ELSE g[i - 1] \div base]

LEMMA DividesIs ==
  ASSUME NEW n, NEW base, NEW k \in Nat, NEW g, Divides(n, base, k, g)
  PROVE  g[0] = n /\ \A i \in 0..k-1 : g[i + 1] = g[i] \div base
<1>1. g[0] = n
  BY DEF Divides
<1>2. ASSUME NEW i \in 0..k-1 PROVE g[i + 1] = g[i] \div base
  <2>1. i + 1 \in 0..k /\ i + 1 # 0 /\ (i + 1) - 1 = i
    OBVIOUS
  <2>2. g[i + 1] = g[(i + 1) - 1] \div base
    BY <2>1 DEF Divides
  <2> QED
    BY <2>1, <2>2
<1> QED
  BY <1>1, <1>2

LEMMA DividesExists ==
  ASSUME NEW n, NEW base, NEW k \in Nat
  PROVE  \E g : Divides(n, base, k, g)
<1> DEFINE D(m, g) == Divides(n, base, m, g)
           S == {m \in Nat : \E g : D(m, g)}
<1>1. 0 \in S
  <2>1. D(0, [i \in 0..0 |-> n])
    BY DEF Divides
  <2> QED
    BY <2>1
<1>2. ASSUME NEW m \in Nat, m \in S PROVE m + 1 \in S
  <2>1. PICK g : D(m, g)
    BY <1>2
  <2> DEFINE h == [i \in 0..m+1 |-> IF i = m + 1 THEN g[m] \div base ELSE g[i]]
  <2>a. g[0] = n /\ \A i \in 0..m-1 : g[i + 1] = g[i] \div base
    BY <2>1, DividesIs
  <2>2. ASSUME NEW i \in 0..m+1
        PROVE  h[i] = IF i = 0 THEN n ELSE h[i - 1] \div base
    <3>1. CASE i = 0
      BY <2>a, <3>1
    <3>2. CASE i # 0
      <4>1. i - 1 \in 0..m /\ h[i - 1] = g[i - 1]
        BY <3>2
      <4>2. h[i] = g[i - 1] \div base
        <5>1. CASE i = m + 1
          BY <5>1
        <5>2. CASE i # m + 1
          <6>1. i - 1 \in 0..m-1 /\ (i - 1) + 1 = i /\ h[i] = g[i]
            BY <3>2, <5>2
          <6>2. g[(i - 1) + 1] = g[i - 1] \div base
            BY <2>a, <6>1
          <6> HIDE DEF h
          <6> QED
            BY <6>1, <6>2
        <5> QED
          BY <5>1, <5>2
      <4> QED
        BY <3>2, <4>1, <4>2
    <3> QED
      BY <3>1, <3>2
  <2>3. h = [i \in 0..m+1 |-> IF i = 0 THEN n ELSE h[i - 1] \div base]
    <3>1. h = [i \in 0..m+1 |-> h[i]]
      OBVIOUS
    <3> HIDE DEF h
    <3> QED
      BY <2>2, <3>1
  <2>4. D(m + 1, h)
    BY <2>3 DEF Divides
  <2> HIDE DEF h, D
  <2> QED
    BY <2>4
<1>3. k \in S
  <2> HIDE DEF S
  <2> QED
    BY <1>1, <1>2, Induction
<1> QED
  BY <1>3

LEMMA DividesOnce ==
  ASSUME NEW n, NEW base, NEW k \in Nat, NEW g, Divides(n, base, k, g),
         NEW m \in Nat, NEW h, Divides(n, base, m, h), NEW i \in Nat, i <= k, i <= m
  PROVE  g[i] = h[i]
<1> DEFINE S == {j \in Nat : j <= k /\ j <= m => g[j] = h[j]}
<1>1. 0 \in S
  <2>1. g[0] = n
    BY DividesIs
  <2>2. h[0] = n
    BY DividesIs
  <2> QED
    BY <2>1, <2>2
<1>2. ASSUME NEW j \in Nat, j \in S PROVE j + 1 \in S
  <2> SUFFICES ASSUME j + 1 <= k, j + 1 <= m PROVE g[j + 1] = h[j + 1]
    OBVIOUS
  <2>1. j \in 0..k-1 /\ j \in 0..m-1 /\ g[j] = h[j]
    BY <1>2
  <2>2. g[j + 1] = g[j] \div base
    BY <2>1, DividesIs
  <2>3. h[j + 1] = h[j] \div base
    BY <2>1, DividesIs
  <2> QED
    BY <2>1, <2>2, <2>3
<1>3. i \in S
  <2> HIDE DEF S
  <2> QED
    BY <1>1, <1>2, Induction
<1> QED
  BY <1>3

LEMMA LeftIs ==
  ASSUME NEW n, NEW base
  PROVE  Left(n, base)[0] = n /\ \A i \in Nat : Left(n, base)[i + 1] = Left(n, base)[i] \div base
<1> DEFINE D(m, g) == Divides(n, base, m, g)
           part(m) == CHOOSE g : D(m, g)
           h == [i \in Nat |-> part(i)[i]]
           IsLeft(f) == f = [i \in Nat |-> IF i = 0 THEN n ELSE f[i - 1] \div base]
<1>1. ASSUME NEW m \in Nat PROVE D(m, part(m))
  <2>1. \E g : D(m, g)
    BY DividesExists
  <2> HIDE DEF D
  <2> QED
    BY <2>1, Zenon
<1>2. ASSUME NEW i \in Nat PROVE h[i] = IF i = 0 THEN n ELSE h[i - 1] \div base
  <2> HIDE DEF part
  <2>1. CASE i = 0
    <3>1. part(0)[0] = n
      BY <1>1, DividesIs
    <3> QED
      BY <2>1, <3>1
  <2>2. CASE i # 0
    <3>1. i - 1 \in Nat /\ i - 1 \in 0..i-1 /\ (i - 1) + 1 = i /\ i - 1 <= i
      BY <2>2
    <3>2. D(i, part(i)) /\ D(i - 1, part(i - 1))
      BY <1>1, <3>1
    <3>3. part(i)[i] = part(i)[i - 1] \div base
      BY <3>1, <3>2, DividesIs
    <3>4. part(i)[i - 1] = part(i - 1)[i - 1]
      BY <3>1, <3>2, DividesOnce
    <3> QED
      BY <2>2, <3>1, <3>3, <3>4
  <2> QED
    BY <2>1, <2>2
<1>3. IsLeft(h)
  <2>1. h = [i \in Nat |-> h[i]]
    OBVIOUS
  <2> HIDE DEF h
  <2> QED
    BY <1>2, <2>1
<1>4. Left(n, base) = CHOOSE f : IsLeft(f)
  BY Zenon DEF Left
<1>5. IsLeft(Left(n, base))
  <2> HIDE DEF IsLeft, h
  <2> QED
    BY <1>3, <1>4, Zenon
<1> DEFINE f == Left(n, base)
<1> HIDE DEF f
<1>6. f = [i \in Nat |-> IF i = 0 THEN n ELSE f[i - 1] \div base]
  BY <1>5 DEF f
<1>7. f[0] = n
  BY <1>6
<1>8. ASSUME NEW i \in Nat PROVE f[i + 1] = f[i] \div base
  <2>1. i + 1 \in Nat /\ i + 1 # 0 /\ (i + 1) - 1 = i
    OBVIOUS
  <2>2. f[i + 1] = f[(i + 1) - 1] \div base
    BY <1>6, <2>1
  <2> QED
    BY <2>1, <2>2
<1> QED
  BY <1>7, <1>8 DEF f

\* What is left is a number, less in base 16 than in base 10, and less of a
\* smaller number.
LEMMA LeftShrinks ==
  ASSUME NEW n \in Nat, NEW m \in Nat, n <= m, NEW base \in {10, 16}, NEW i \in Nat
  PROVE  Left(n, base)[i] \in Nat /\ Left(m, 10)[i] \in Nat /\ Left(n, base)[i] <= Left(m, 10)[i]
<1> DEFINE f == Left(n, base)
           g == Left(m, 10)
           S == {j \in Nat : f[j] \in Nat /\ g[j] \in Nat /\ f[j] <= g[j]}
<1>1. /\ f[0] = n /\ \A j \in Nat : f[j + 1] = f[j] \div base
      /\ g[0] = m /\ \A j \in Nat : g[j + 1] = g[j] \div 10
  BY LeftIs
<1> HIDE DEF f, g
<1>2. 0 \in S
  BY <1>1
<1>3. ASSUME NEW j \in Nat, j \in S PROVE j + 1 \in S
  <2>1. f[j + 1] = f[j] \div base /\ g[j + 1] = g[j] \div 10
    BY <1>1
  <2>2. ASSUME NEW a \in Nat, NEW b \in Nat, a <= b
        PROVE  /\ a \div 10 \in Nat /\ a \div 16 \in Nat /\ b \div 10 \in Nat
               /\ a \div 10 <= b \div 10 /\ a \div 16 <= b \div 10
    BY <2>2
  <2>3. f[j] \in Nat /\ g[j] \in Nat /\ f[j] <= g[j]
    BY <1>3
  <2>4. CASE base = 10
    BY <2>1, <2>2, <2>3, <2>4
  <2>5. CASE base = 16
    BY <2>1, <2>2, <2>3, <2>5
  <2> QED
    BY <2>4, <2>5
<1>4. i \in S
  <2> HIDE DEF S
  <2> QED
    BY <1>2, <1>3, Induction
<1> QED
  BY <1>4 DEF f, g

\* Every number a register holds fits into the buffer.
LEMMA Fits ==
  ASSUME NEW n \in 0..U64-1, NEW base \in {10, 16}
  PROVE  Left(n, base)[DIGIT_BUF] = 0
<1>1. /\ n \in Nat /\ U64 - 1 \in Nat /\ n <= U64 - 1 /\ DIGIT_BUF \in Nat
      /\ Left(U64 - 1, 10)[DIGIT_BUF] = 0
  BY DigitAssumption
<1> DEFINE m == U64 - 1
<1> HIDE DEF m
<1>2. m \in Nat /\ n <= m /\ Left(m, 10)[DIGIT_BUF] = 0
  BY <1>1 DEF m
<1>3. /\ Left(n, base)[DIGIT_BUF] \in Nat
      /\ Left(n, base)[DIGIT_BUF] <= Left(m, 10)[DIGIT_BUF]
  BY <1>1, <1>2, LeftShrinks
<1> QED
  BY <1>2, <1>3

LEMMA NoOverflow ==
  ASSUME NEW n \in 0..U64-1
  PROVE  ~Overflows("lu", n) /\ ~Overflows("X", n)
<1>1. n \in Nat /\ ~(n < 0)
  BY DigitAssumption
<1>2. Left(n, 10)[DIGIT_BUF] = 0 /\ Left(n, 16)[DIGIT_BUF] = 0
  BY Fits
<1>3. ~Overflows("lu", n)
  <2>1. Overflows("lu", n) => Left(n, 10)[DIGIT_BUF] # 0
    BY <1>1 DEF Overflows
  <2> QED
    BY <1>2, <2>1
<1>4. ~Overflows("X", n)
  <2>1. Overflows("X", n) => Left(n, 16)[DIGIT_BUF] # 0
    BY <1>1 DEF Overflows
  <2> QED
    BY <1>2, <2>1
<1> QED
  BY <1>3, <1>4

\* The places of a number: the divisions until nothing is left.
LEMMA PlacesIs ==
  ASSUME NEW n \in 0..U64-1, n # 0, NEW base \in {10, 16}
  PROVE  /\ Places(n, base) \in 1..DIGIT_BUF
         /\ Left(n, base)[Places(n, base)] = 0
<1> DEFINE f == Left(n, base)
           Z == {i \in Nat : f[i] = 0}
           Here(i) == f[i - 1] # 0 /\ (i <= DIGIT_BUF => f[i] = 0)
           p == CHOOSE i \in 1..(DIGIT_BUF + 1) : Here(i)
<1>1. DIGIT_BUF \in Nat /\ f[DIGIT_BUF] = 0 /\ f[0] = n
  BY Fits, LeftIs, DigitAssumption
<1>2. PICK z \in Z : \A j \in Z : z <= j
  <2>1. Z \in SUBSET Nat /\ Z # {}
    BY <1>1
  <2> HIDE DEF Z
  <2> QED
    BY <2>1, Least
<1> HIDE DEF f
<1>3. z \in 1..DIGIT_BUF+1 /\ Here(z)
  BY <1>1, <1>2
<1>4. p \in 1..DIGIT_BUF+1 /\ Here(p)
  <2> HIDE DEF Here
  <2> QED
    BY <1>3
<1>5. Places(n, base) = p
  BY DEF Places, f
<1> HIDE DEF p
<1>6. p # DIGIT_BUF + 1
  BY <1>1, <1>4
<1>7. p \in 1..DIGIT_BUF /\ f[p] = 0
  BY <1>1, <1>4, <1>6
<1> QED
  BY <1>5, <1>7 DEF f

Digits == {dtoa(v) : v \in 0..15}

\* The value of a digit, in module Shell.
DigitValue(d) == CHOOSE v \in 0..15 : Digit[v + 1] = d

LEMMA DigitRead ==
  ASSUME NEW w \in 0..15
  PROVE  DigitValue(dtoa(w)) = w /\ dtoa(w) # ":" /\ dtoa(w) \in Digits
<1>1. dtoa(w) = Digit[w + 1]
  BY DEF dtoa
<1>2. \A v \in 0..15 : Digit[v + 1] = Digit[w + 1] => v = w
  BY DEF Digit
<1>3. DigitValue(Digit[w + 1]) = w
  BY <1>2 DEF DigitValue
<1>4. dtoa(w) # ":"
  BY <1>1 DEF Digit
<1> QED
  BY <1>1, <1>3, <1>4 DEF Digits

\* The digits that are printed.
LEMMA DigitsIs ==
  ASSUME NEW n \in 0..U64-1, n # 0, NEW base \in {10, 16}
  PROVE  LET p == Places(n, base)
         IN  /\ p \in Nat /\ p >= 1 /\ Left(n, base)[p] = 0
             /\ \A i \in Nat : Left(n, base)[i] \in Nat
             /\ kprint_uint(n, base) \in Seq(Digits)
             /\ Len(kprint_uint(n, base)) = p
             /\ \A j \in 1..p : kprint_uint(n, base)[j] = dtoa(Left(n, base)[p - j] % base)
<1> DEFINE f == Left(n, base)
           p == Places(n, base)
           d == [j \in 1..p |-> dtoa(f[p - j] % base)]
<1>1. p \in 1..DIGIT_BUF /\ f[p] = 0
  BY PlacesIs
<1>2. ASSUME NEW i \in Nat PROVE f[i] \in Nat
  <2>1. n \in Nat /\ n <= n
    BY DigitAssumption
  <2> QED
    BY <2>1, LeftShrinks
<1>3. kprint_uint(n, base) = d
  BY DEF kprint_uint
<1> HIDE DEF f, p
<1>4. p \in Nat /\ p >= 1
  BY <1>1, DigitAssumption
<1>5. ASSUME NEW j \in 1..p PROVE dtoa(f[p - j] % base) \in Digits
  <2>1. p - j \in Nat
    BY <1>4
  <2>2. f[p - j] \in Nat
    BY <1>2, <2>1
  <2>3. f[p - j] % base \in 0..15
    <3>1. CASE base = 10
      BY <2>2, <3>1
    <3>2. CASE base = 16
      BY <2>2, <3>2
    <3> QED
      BY <3>1, <3>2
  <2> QED
    BY <2>3, DigitRead
<1>6. d \in Seq(Digits) /\ Len(d) = p /\ \A j \in 1..p : d[j] = dtoa(f[p - j] % base)
  BY <1>4, <1>5
<1> HIDE DEF d
<1> QED
  BY <1>1, <1>2, <1>3, <1>4, <1>6 DEF f, p

LEMMA PrintedDigits ==
  ASSUME NEW n \in 0..U64-1, NEW base \in {10, 16}
  PROVE  kprint_uint(n, base) \in Seq(Digits)
<1>1. CASE n = 0
  <2>1. kprint_uint(n, base) = <<"0">>
    BY <1>1 DEF kprint_uint
  <2>2. dtoa(0) = "0"
    BY DEF dtoa, Digit
  <2>3. "0" \in Digits
    BY <2>2, DigitRead
  <2> QED
    BY <2>1, <2>3
<1>2. CASE n # 0
  BY <1>2, DigitsIs
<1> QED
  BY <1>1, <1>2
-----------------------------------------------------------------------------
(* Numbers read back.                                                      *)

Shifted(acc, d, base) == acc * base + DigitValue(d)

Values(digits, base, k, g) ==
  g = [s \in SUBSET (1..k) |->
         IF s = {} THEN 0 ELSE Shifted(g[s \ {Max(s)}], digits[Max(s)], base)]

LEMMA ValueFolds ==
  ASSUME NEW base, NEW digits, NEW n \in Nat
  PROVE  \E g : Values(digits, base, n, g)
<1> DEFINE G(k, g) == Values(digits, base, k, g)
           S == {k \in Nat : \E g : G(k, g)}
<1>1. 0 \in S
  <2>1. 1..0 = {} /\ SUBSET (1..0) = {{}}
    OBVIOUS
  <2>2. G(0, [s \in SUBSET (1..0) |-> 0])
    BY <2>1 DEF Values
  <2> QED
    BY <2>2
<1>2. ASSUME NEW k \in Nat, k \in S PROVE k + 1 \in S
  <2>1. PICK g : G(k, g)
    BY <1>2
  <2> DEFINE h == [s \in SUBSET (1..k+1) |->
                     IF k + 1 \in s THEN Shifted(g[s \ {k + 1}], digits[k + 1], base) ELSE g[s]]
             e(s) == IF s = {} THEN 0 ELSE Shifted(h[s \ {Max(s)}], digits[Max(s)], base)
  <2>2. ASSUME NEW s \in SUBSET (1..k+1) PROVE h[s] = e(s)
    <3>1. CASE k + 1 \in s
      <4>1. Max(s) = k + 1 /\ s # {} /\ s \ {k + 1} \in SUBSET (1..k+1) /\ k + 1 \notin s \ {k + 1}
        BY <3>1, Smaller
      <4>2. h[s \ {k + 1}] = g[s \ {k + 1}]
        BY <4>1
      <4>3. h[s] = Shifted(g[s \ {k + 1}], digits[k + 1], base)
        BY <3>1
      <4> HIDE DEF h
      <4> QED
        BY <4>1, <4>2, <4>3
    <3>2. CASE k + 1 \notin s
      <4>1. /\ s \in SUBSET (1..k) /\ s \ {Max(s)} \in SUBSET (1..k+1)
            /\ k + 1 \notin s \ {Max(s)}
        BY <3>2, Smaller
      <4>2. h[s] = g[s]
        BY <3>2
      <4>3. h[s \ {Max(s)}] = g[s \ {Max(s)}]
        BY <4>1
      <4>4. g[s] = IF s = {} THEN 0 ELSE Shifted(g[s \ {Max(s)}], digits[Max(s)], base)
        BY <2>1, <4>1 DEF Values
      <4> HIDE DEF h
      <4> QED
        BY <4>2, <4>3, <4>4
    <3> QED
      BY <3>1, <3>2
  <2>3. h = [s \in SUBSET (1..k+1) |-> e(s)]
    <3>1. h = [s \in SUBSET (1..k+1) |-> h[s]]
      OBVIOUS
    <3> HIDE DEF h
    <3> QED
      BY <2>2, <3>1
  <2>4. G(k + 1, h)
    BY <2>3 DEF Values
  <2> HIDE DEF h, G
  <2> QED
    BY <2>4
<1>3. n \in S
  <2> HIDE DEF S
  <2> QED
    BY <1>1, <1>2, Induction
<1> QED
  BY <1>3

\* The values of the first digits.
Sums(h, digits, base) ==
  /\ h[0] = 0
  /\ \A i \in 0..Len(digits)-1 : h[i + 1] = Shifted(h[i], digits[i + 1], base)

LEMMA ValueInRow ==
  ASSUME NEW base, NEW S, NEW digits \in Seq(S)
  PROVE  \E h : Sums(h, digits, base) /\ Value(digits, base) = h[Len(digits)]
<1> DEFINE n == Len(digits)
           g == CHOOSE g : Values(digits, base, n, g)
           h == [k \in 0..n |-> g[1..k]]
<1>0. n \in Nat /\ DOMAIN digits = 1..n
  OBVIOUS
<1>1. Values(digits, base, n, g)
  BY <1>0, ValueFolds, Zenon
<1>2. Value(digits, base) = g[1..n]
  BY <1>0 DEF Value, FoldLeft, MapThenFoldSet, Values, Shifted, DigitValue
<1> HIDE DEF g, n
<1>3. h[0] = 0
  <2>1. 1..0 = {} /\ 1..0 \in SUBSET (1..n) /\ 0 \in 0..n
    BY <1>0
  <2> QED
    BY <1>1, <2>1 DEF Values
<1>4. ASSUME NEW k \in 0..n-1 PROVE h[k + 1] = Shifted(h[k], digits[k + 1], base)
  <2>1. /\ 1..k+1 # {} /\ Max(1..k+1) = k + 1 /\ (1..k+1) \ {k + 1} = 1..k
        /\ 1..k+1 \in SUBSET (1..n)
    <3>1. k \in Nat /\ k + 1 \in Nat /\ k + 1 <= n
      BY <1>0
    <3> QED
      BY <1>0, <3>1, Prefix
  <2>2. g[1..k+1] = Shifted(g[1..k], digits[k + 1], base)
    BY <1>1, <2>1 DEF Values
  <2> QED
    BY <1>0, <2>2
<1>5. h[n] = g[1..n]
  BY <1>0
<1> HIDE DEF h
<1>6. Sums(h, digits, base)
  BY <1>3, <1>4 DEF Sums, n
<1> QED
  BY <1>2, <1>5, <1>6 DEF n

\* What is printed of a number reads back as the number.
LEMMA ReadsBack ==
  ASSUME NEW n \in 0..U64-1, NEW base \in {10, 16}
  PROVE  Value(kprint_uint(n, base), base) = n
<1> DEFINE d == kprint_uint(n, base)
<1>1. d \in Seq(Digits)
  BY PrintedDigits
<1>2. PICK h : Sums(h, d, base) /\ Value(d, base) = h[Len(d)]
  <2> HIDE DEF d
  <2> QED
    BY <1>1, ValueInRow
<1>3. CASE n = 0
  <2>1. d = <<"0">> /\ dtoa(0) = "0"
    BY <1>3 DEF kprint_uint, dtoa, Digit
  <2>2. Len(d) = 1 /\ d[1] = dtoa(0)
    BY <2>1
  <2> HIDE DEF d
  <2>3. h[0] = 0 /\ h[0 + 1] = Shifted(h[0], d[0 + 1], base)
    BY <1>2, <2>2 DEF Sums
  <2>4. DigitValue(dtoa(0)) = 0
    BY DigitRead
  <2>5. h[1] = 0 * base + 0
    BY <2>2, <2>3, <2>4 DEF Shifted
  <2>6. h[1] = 0
    BY <2>5
  <2> QED
    BY <1>2, <1>3, <2>2, <2>6 DEF d
<1>4. CASE n # 0
  <2> DEFINE f == Left(n, base)
             p == Places(n, base)
             K == {k \in Nat : k <= p => h[k] = f[p - k]}
  <2>1. /\ p \in Nat /\ p >= 1 /\ f[p] = 0 /\ Len(d) = p
        /\ \A i \in Nat : f[i] \in Nat
        /\ \A j \in 1..p : d[j] = dtoa(f[p - j] % base)
    BY <1>4, DigitsIs
  <2>2. f[0] = n /\ \A i \in Nat : f[i + 1] = f[i] \div base
    BY LeftIs
  <2> HIDE DEF f, p, d
  <2>3. 0 \in K
    BY <1>2, <2>1 DEF Sums
  <2>4. ASSUME NEW k \in Nat, k \in K PROVE k + 1 \in K
    <3> SUFFICES ASSUME k + 1 <= p PROVE h[k + 1] = f[p - (k + 1)]
      OBVIOUS
    <3> DEFINE i == p - (k + 1)
               rest == f[i]
    <3>1. i \in Nat /\ i + 1 = p - k /\ k + 1 \in 1..p /\ k \in 0..Len(d)-1 /\ k <= p
      BY <2>1
    <3>2. h[k] = f[i + 1]
      BY <2>4, <3>1
    <3>3. f[i + 1] = rest \div base /\ rest \in Nat
      BY <2>1, <2>2, <3>1
    <3>4. d[k + 1] = dtoa(rest % base)
      BY <2>1, <3>1
    <3>5. h[k + 1] = Shifted(h[k], d[k + 1], base)
      BY <1>2, <3>1 DEF Sums
    <3> HIDE DEF rest, i
    <3>6. rest % base \in 0..15 /\ (rest \div base) * base + (rest % base) = rest
      <4>1. CASE base = 10
        BY <3>3, <4>1
      <4>2. CASE base = 16
        BY <3>3, <4>2
      <4> QED
        BY <4>1, <4>2
    <3>7. DigitValue(dtoa(rest % base)) = rest % base
      BY <3>6, DigitRead
    <3>8. h[k + 1] = (rest \div base) * base + (rest % base)
      BY <3>2, <3>3, <3>4, <3>5, <3>7, Zenon DEF Shifted
    <3> QED
      BY <3>6, <3>8 DEF rest, i
  <2>5. p \in K
    <3> HIDE DEF K
    <3> QED
      BY <2>1, <2>3, <2>4, Induction
  <2>6. h[p] = f[0]
    BY <2>1, <2>5
  <2> QED
    BY <1>2, <2>1, <2>2, <2>6 DEF d
<1> QED
  BY <1>3, <1>4
-----------------------------------------------------------------------------
(* What the kernel prints.                                                 *)

LEMMA NumberArgs ==
  ASSUME NEW time \in Times
  PROVE  /\ time[1] \in 0..U64-1 /\ time[2] \in 0..U64-1 /\ time[3] \in 0..U64-1
         /\ [j \in 1..3 |-> <<"ulong", time[j]>>]
              = <<<<"ulong", time[1]>>, <<"ulong", time[2]>>, <<"ulong", time[3]>>>>
<1>1. time \in (0..U64-1) \X (0..U64-1) \X (0..U64-1)
  BY ShellAssumption
<1> QED
  BY <1>1

UptimeText(out, time) ==
  LET h == Append(out, "up ") \o kprint_uint(time[1], 10)
      m == Append(h, ":") \o kprint_uint(time[2], 10)
      s == Append(m, ":") \o kprint_uint(time[3], 10)
  IN  Append(s, "\n")

LEMMA UptimeSays ==
  ASSUME NEW out, NEW hue, NEW time \in Times
  PROVE  ksh_hndl_uptime(Terminal(out, hue), time) = Terminal(UptimeText(out, time), hue)
<1> DEFINE x == "up "
           p == ":"
           z == "\n"
           a == time[1]
           b == time[2]
           c == time[3]
<1>1. ~Overflows("lu", a) /\ ~Overflows("lu", b) /\ ~Overflows("lu", c)
  BY NumberArgs, NoOverflow
<1>2. x # "%" /\ p # "%" /\ z # "%"
  BY Zenon
<1>3. [j \in 1..3 |-> <<"ulong", time[j]>>] = <<<<"ulong", a>>, <<"ulong", b>>, <<"ulong", c>>>>
  BY NumberArgs
<1> HIDE DEF x, p, z, a, b, c
<1>4. kprintf(Terminal(out, hue), <<x, "%", "l", "u", p, "%", "l", "u", p, "%", "l", "u", z>>,
              <<<<"ulong", a>>, <<"ulong", b>>, <<"ulong", c>>>>)
        = Terminal(Append(Append(Append(Append(out, x) \o kprint_uint(a, 10), p)
                                   \o kprint_uint(b, 10), p) \o kprint_uint(c, 10), z), hue)
  BY <1>1, <1>2, PrintsUptime
<1> QED
  BY <1>3, <1>4, Zenon DEF ksh_hndl_uptime, UptimeText, x, p, z, a, b, c

ExceptionText(rip) ==
  LET number == Append(<< >>, "Unknown exception ") \o kprint_uint(0, 10)
  IN  Append(Append(number, " at 0x") \o kprint_uint(rip, 16), "\n")

LEMMA ExceptionSays ==
  ASSUME NEW hue, NEW rip \in Addresses
  PROVE  kprintf(Terminal(<< >>, hue),
                 <<"Unknown exception ", "%", "l", "u", " at 0x", "%", "X", "\n">>,
                 <<<<"ulong", 0>>, <<"ulong", rip>>>>) = Terminal(ExceptionText(rip), hue)
<1> DEFINE x == "Unknown exception "
           y == " at 0x"
           z == "\n"
           none == << >>
           zero == 0
<1>1. ~Overflows("lu", zero) /\ ~Overflows("X", rip)
  <2>1. 0 \in 0..U64-1 /\ rip \in 0..U64-1
    BY ShellAssumption, DigitAssumption
  <2> QED
    BY <2>1, NoOverflow
<1>2. x # "%" /\ y # "%" /\ z # "%"
  BY Zenon
<1> HIDE DEF x, y, z, none, zero
<1>3. kprintf(Terminal(none, hue), <<x, "%", "l", "u", y, "%", "X", z>>,
              <<<<"ulong", zero>>, <<"ulong", rip>>>>)
        = Terminal(Append(Append(Append(none, x) \o kprint_uint(zero, 10), y)
                            \o kprint_uint(rip, 16), z), hue)
  BY <1>1, <1>2, PrintsException
<1> QED
  BY <1>3, Zenon DEF ExceptionText, x, y, z, none, zero

LEMMA EchoSays ==
  ASSUME NEW out, NEW hue, NEW args
  PROVE  ksh_hndl_echo(Terminal(out, hue), args) = Terminal(Append(out \o args, "\n"), hue)
<1> DEFINE x == "\n"
<1>1. x # "%"
  BY Zenon
<1> HIDE DEF x
<1>2. kprintf(Terminal(out, hue), <<"%", "s", x>>, <<Str(args)>>)
        = Terminal(Append(out \o args, x), hue)
  BY <1>1, PrintsString
<1> QED
  BY <1>2, Zenon DEF ksh_hndl_echo, x

LEMMA UnameSays ==
  ASSUME NEW t, IsTerminal(t)
  PROVE  IsTerminal(ksh_hndl_uname(t))
<1> DEFINE x == " "
           y == "\n"
           u == <<"FeudOS kernel">>
           v == <<"v0.0.7">>
           w == <<"x86_64">>
<1>1. x # "%" /\ y # "%"
  BY Zenon
<1>2. PICK out, hue : t = Terminal(out, hue)
  BY DEF IsTerminal
<1> HIDE DEF x, y, u, v, w
<1>3. kprintf(Terminal(out, hue), <<"%", "s", x, "%", "s", x, "%", "s", y>>,
              <<Str(u), Str(v), Str(w)>>)
        = Terminal(Append(Append(Append(out \o u, x) \o v, x) \o w, y), hue)
  BY <1>1, PrintsTriple
<1> QED
  BY <1>2, <1>3, Zenon DEF ksh_hndl_uname, IsTerminal, x, y, u, v, w

LEMMA PanicHead ==
  ASSUME NEW t, IsTerminal(t)
  PROVE  IsTerminal(kprintf(t, <<"%", "k", "Kernel panic!", "\n", "\t">>, <<<<"color", VGA_RED>>>>))
<1> DEFINE x == "Kernel panic!"
           y == "\n"
           z == "\t"
<1>1. x # "%" /\ y # "%" /\ z # "%"
  BY Zenon
<1>2. PICK out, hue : t = Terminal(out, hue)
  BY DEF IsTerminal
<1> HIDE DEF x, y, z
<1>3. kprintf(Terminal(out, hue), <<"%", "k", x, y, z>>, <<<<"color", VGA_RED>>>>)
        = Terminal(Append(Append(Append(out \o << >>, x), y), z), VGA_RED)
  BY <1>1, PrintsPanic
<1> QED
  BY <1>2, <1>3, Zenon DEF IsTerminal, x, y, z

LEMMA LineSays ==
  ASSUME NEW t, IsTerminal(t), NEW args
  PROVE  IsTerminal(kprintf(t, <<"%", "s", "\n">>, <<Str(args)>>))
<1> DEFINE x == "\n"
<1>1. x # "%"
  BY Zenon
<1>2. PICK out, hue : t = Terminal(out, hue)
  BY DEF IsTerminal
<1> HIDE DEF x
<1>3. kprintf(Terminal(out, hue), <<"%", "s", x>>, <<Str(args)>>)
        = Terminal(Append(out \o args, x), hue)
  BY <1>1, PrintsString
<1> QED
  BY <1>2, <1>3, Zenon DEF IsTerminal, x

LEMMA PanicSays ==
  ASSUME NEW t, IsTerminal(t), NEW args
  PROVE  IsTerminal(ksh_hndl_panic(t, args))
  BY PanicHead, LineSays, Zenon DEF ksh_hndl_panic, kernel_panic, kprintf

LEMMA UnknownSays ==
  ASSUME NEW t, IsTerminal(t), NEW name
  PROVE  IsTerminal(kprintf(t, <<"Unknown command: ", "%", "s", "\n">>, <<Str(name)>>))
<1> DEFINE x == "Unknown command: "
           y == "\n"
<1>1. x # "%" /\ y # "%"
  BY Zenon
<1>2. PICK out, hue : t = Terminal(out, hue)
  BY DEF IsTerminal
<1> HIDE DEF x, y
<1>3. kprintf(Terminal(out, hue), <<x, "%", "s", y>>, <<Str(name)>>)
        = Terminal(Append(Append(out, x) \o name, y), hue)
  BY <1>1, PrintsBetween
<1> QED
  BY <1>2, <1>3, Zenon DEF IsTerminal, x, y
\* A call of klog without a level is one of kprintf.
LEMMA QuietCall ==
  ASSUME NEW f, NEW a, \A t : IsTerminal(t) => IsTerminal(kprintf(t, f, a))
  PROVE  Quiet([level |-> "NONE", fmt |-> f, args |-> a])
  BY DEF Quiet, Logged, klog, kprintf

LEMMA EntryQuiet ==
  ASSUME NEW u, NEW v
  PROVE  Quiet([level |-> "NONE", fmt |-> <<"%", "s", ": ", "%", "s", "\n">>,
                args |-> <<Str(u), Str(v)>>])
<1> DEFINE x == ": "
           y == "\n"
           f == <<"%", "s", x, "%", "s", y>>
           a == <<Str(u), Str(v)>>
<1>1. x # "%" /\ y # "%"
  BY Zenon
<1> HIDE DEF x, y
<1>2. ASSUME NEW out, NEW hue
      PROVE  kprintf(Terminal(out, hue), f, a) = Terminal(Append(Append(out \o u, x) \o v, y), hue)
  BY <1>1, PrintsPair
<1> HIDE DEF f, a
<1>3. \A t : IsTerminal(t) => IsTerminal(kprintf(t, f, a))
  BY <1>2 DEF IsTerminal
<1>4. Quiet([level |-> "NONE", fmt |-> f, args |-> a])
  BY <1>3, QuietCall
<1> QED
  BY <1>4, Zenon DEF f, a, x, y

LEMMA HelpSays ==
  ASSUME NEW t, IsTerminal(t)
  PROVE  IsTerminal(ksh_hndl_help(t))
<1> DEFINE entry(c) == [level |-> "NONE", fmt |-> <<"%", "s", ": ", "%", "s", "\n">>,
                        args |-> <<Str(Names[c]), Str(Helps[c])>>]
           calls == [k \in DOMAIN Commands |-> entry(Commands[k])]
<1>1. \A c : Quiet(entry(c))
  BY EntryQuiet, Zenon
<1> HIDE DEF entry
<1>2. DOMAIN Commands = 1..7
  BY DEF Commands
<1>3. /\ calls \in Seq({entry(Commands[k]) : k \in 1..7})
      /\ \A k \in 1..Len(calls) : Quiet(calls[k])
  BY <1>1, <1>2
<1>4. IsTerminal(LoggedAll(t, calls))
  <2> HIDE DEF calls
  <2> QED
    BY <1>3, LoggedQuietly
<1> QED
  BY <1>4, Zenon DEF ksh_hndl_help, entry

LEMMA FeatureQuiet ==
  ASSUME NEW u, NEW v
  PROVE  Quiet([level |-> "NONE", fmt |-> <<" ", "%", "s", "%", "s", " ">>,
                args |-> <<Str(u), Str(v)>>])
<1> DEFINE x == " "
           f == <<x, "%", "s", "%", "s", x>>
           a == <<Str(u), Str(v)>>
<1>1. x # "%"
  BY Zenon
<1> HIDE DEF x
<1>2. ASSUME NEW out, NEW hue
      PROVE  kprintf(Terminal(out, hue), f, a)
               = Terminal(Append((Append(out, x) \o u) \o v, x), hue)
  BY <1>1, PrintsFeature
<1> HIDE DEF f, a
<1>3. \A t : IsTerminal(t) => IsTerminal(kprintf(t, f, a))
  BY <1>2 DEF IsTerminal
<1>4. Quiet([level |-> "NONE", fmt |-> f, args |-> a])
  BY <1>3, QuietCall
<1> QED
  BY <1>4, Zenon DEF f, a, x

LEMMA TextSays ==
  ASSUME NEW t, IsTerminal(t), NEW x, x # "%"
  PROVE  IsTerminal(kprintf(t, <<x>>, << >>))
<1>1. PICK out, hue : t = Terminal(out, hue)
  BY DEF IsTerminal
<1>2. kprintf(Terminal(out, hue), <<x>>, << >>) = Terminal(Append(out, x), hue)
  BY PrintsText
<1> QED
  BY <1>1, <1>2, Zenon DEF IsTerminal

LEMMA FieldSays ==
  ASSUME NEW t, IsTerminal(t), NEW x, x # "%", NEW v
  PROVE  IsTerminal(kprintf(t, <<x, "%", "s", "\n">>, <<Str(v)>>))
<1> DEFINE y == "\n"
<1>1. y # "%"
  BY Zenon
<1>2. PICK out, hue : t = Terminal(out, hue)
  BY DEF IsTerminal
<1> HIDE DEF y
<1>3. kprintf(Terminal(out, hue), <<x, "%", "s", y>>, <<Str(v)>>)
        = Terminal(Append(Append(out, x) \o v, y), hue)
  BY <1>1, PrintsBetween
<1> QED
  BY <1>2, <1>3, Zenon DEF IsTerminal, y

LEMMA CpuidSays ==
  ASSUME NEW t, IsTerminal(t), NEW cpu
  PROVE  IsTerminal(ksh_hndl_cpuid(t, cpu))
<1> DEFINE sign(k)    == IF cpu.features[k] THEN <<"+">> ELSE <<"-">>
           name(k)    == StringAt(strncpy_f(FeatureNames[k], FEATURE_NAME_LEN), 0)
           feature(k) == [level |-> "NONE", fmt |-> <<" ", "%", "s", "%", "s", " ">>,
                          args |-> <<Str(sign(k)), Str(name(k))>>]
           calls  == [k \in DOMAIN FeatureNames |-> feature(k)]
           vendor == kprintf(t, <<"CPU vendor: ", "%", "s", "\n">>, <<Str(cpu.vendor)>>)
           model  == kprintf(vendor, <<"CPU model: ", "%", "s", "\n">>, <<Str(cpu.brand)>>)
           title  == kprintf(model, <<"Features: ">>, << >>)
           list   == LoggedAll(title, calls)
<1>1. \A k : Quiet(feature(k))
  BY FeatureQuiet, Zenon
<1> HIDE DEF feature
<1>2. /\ calls \in Seq({feature(k) : k \in DOMAIN FeatureNames})
      /\ \A k \in 1..Len(calls) : Quiet(calls[k])
  <2>1. FeatureNames \in Seq(Seq(STRING))
    BY ShellAssumption
  <2> QED
    BY <1>1, <2>1
<1> HIDE DEF calls
<1>3. "CPU vendor: " # "%" /\ "CPU model: " # "%" /\ "Features: " # "%" /\ "\n" # "%"
  BY Zenon
<1>4. IsTerminal(vendor)
  BY <1>3, FieldSays, Zenon
<1> HIDE DEF vendor
<1>5. IsTerminal(model)
  BY <1>3, <1>4, FieldSays, Zenon
<1> HIDE DEF model
<1>6. IsTerminal(title)
  BY <1>3, <1>5, TextSays, Zenon
<1> HIDE DEF title
<1>7. IsTerminal(list)
  BY <1>2, <1>6, LoggedQuietly
<1> HIDE DEF list
<1>8. IsTerminal(kprintf(list, <<"\n">>, << >>))
  BY <1>3, <1>7, TextSays, Zenon
<1> QED
  BY <1>8, Zenon DEF ksh_hndl_cpuid, feature, calls, vendor, model, title, list

LEMMA Emptied ==
  ASSUME NEW out, NEW hue, NEW none
  PROVE  [Terminal(out, hue) EXCEPT !.out = none] = Terminal(none, hue)
<1>1. \A f : [[out |-> out, color |-> hue, fault |-> f] EXCEPT !.out = none]
              = [out |-> none, color |-> hue, fault |-> f]
  OBVIOUS
<1> QED
  BY <1>1, Zenon DEF Terminal

LEMMA ClearSays ==
  ASSUME NEW t, IsTerminal(t)
  PROVE  IsTerminal(ksh_hndl_clear(t))
<1>1. PICK out, hue : t = Terminal(out, hue)
  BY DEF IsTerminal
<1>2. ksh_hndl_clear(t) = [t EXCEPT !.out = << >>]
  BY DEF ksh_hndl_clear
<1> DEFINE none == << >>
<1> HIDE DEF none
<1>3. [Terminal(out, hue) EXCEPT !.out = none] = Terminal(none, hue)
  BY Emptied, Zenon
<1> QED
  BY <1>1, <1>2, <1>3, Zenon DEF IsTerminal, none

\* Whatever the command and its argument: no fault.
LEMMA HandledQuietly ==
  ASSUME NEW t, IsTerminal(t), NEW c, NEW args, NEW u \in Handled(c, t, args)
  PROVE  IsTerminal(u)
<1>1. PICK out, hue : t = Terminal(out, hue)
  BY DEF IsTerminal
<1>2. \A time \in Times : IsTerminal(ksh_hndl_uptime(t, time))
  BY <1>1, UptimeSays DEF IsTerminal
<1>3. IsTerminal(ksh_hndl_echo(t, args))
  BY <1>1, EchoSays DEF IsTerminal
<1>4. CASE c = "uptime"
  BY <1>2, <1>4 DEF Handled
<1>5. CASE c = "cpuid"
  <2>1. PICK cpu \in Cpus : u = ksh_hndl_cpuid(t, cpu)
    BY <1>5 DEF Handled
  <2> QED
    BY <2>1, CpuidSays
<1>6. CASE c = "clear"
  BY <1>6, ClearSays DEF Handled
<1>7. CASE c = "uname"
  BY <1>7, UnameSays DEF Handled
<1>8. CASE c = "panic"
  BY <1>8, PanicSays DEF Handled
<1>9. CASE c = "echo"
  BY <1>3, <1>9 DEF Handled
<1>10. CASE c \notin {"uptime", "cpuid", "clear", "uname", "panic", "echo"}
  BY <1>10, HelpSays DEF Handled
<1> QED
  BY <1>4, <1>5, <1>6, <1>7, <1>8, <1>9, <1>10

\* The terminal with the text of former messages out of sight.
LEMMA FreshIs ==
  ASSUME IsTerminal(term)
  PROVE  \E hue : fresh = Terminal(<< >>, hue)
<1>1. PICK out, hue : term = Terminal(out, hue)
  BY DEF IsTerminal
<1> DEFINE none == << >>
<1> HIDE DEF none
<1>2. [Terminal(out, hue) EXCEPT !.out = none] = Terminal(none, hue)
  BY Emptied, Zenon
<1> QED
  BY <1>1, <1>2, Zenon DEF fresh, none

LEMMA InfoQuiet ==
  ASSUME NEW x, x # "%"
  PROVE  Quiet([level |-> "INFO", fmt |-> <<x, "\n">>, args |-> << >>])
<1> DEFINE y == "\n"
           p == "["
           q == "] "
           f == <<x, y>>
           none == << >>
           call == [level |-> "INFO", fmt |-> f, args |-> none]
           tag(t) == kprintf(t, <<"[", "%", "s", "] ">>, <<Str(klogl_str("INFO"))>>)
<1>1. y # "%" /\ p # "%" /\ q # "%"
  BY Zenon
<1>2. ASSUME NEW t, IsTerminal(t) PROVE IsTerminal(Logged(t, call))
  <2>1. PICK out, hue : t = Terminal(out, hue)
    BY <1>2 DEF IsTerminal
  <2>2. Logged(t, call) = kprintf(tag(t), f, none)
    <3>1. /\ call.level = "INFO" /\ call.level # "NONE"
          /\ call.fmt = f /\ call.args = none
      <4> HIDE DEF f, none
      <4> QED
        OBVIOUS
    <3> HIDE DEF call
    <3> QED
      BY <3>1, Zenon DEF Logged, klog, kprintf
  <2> DEFINE v == klogl_str("INFO")
  <2> HIDE DEF p, q, v
  <2>3. kprintf(Terminal(out, hue), <<p, "%", "s", q>>, <<Str(v)>>)
          = Terminal(Append(Append(out, p) \o v, q), hue)
    BY <1>1, PrintsBetween
  <2>4. IsTerminal(tag(t))
    BY <2>1, <2>3, Zenon DEF IsTerminal, p, q, v
  <2> DEFINE u == tag(t)
  <2> HIDE DEF u, y, call
  <2>5. PICK out2, hue2 : u = Terminal(out2, hue2)
    BY <2>4 DEF IsTerminal, u
  <2>6. kprintf(Terminal(out2, hue2), <<x, y>>, << >>) = Terminal(Append(Append(out2, x), y), hue2)
    BY <1>1, PrintsLine
  <2> QED
    BY <2>2, <2>5, <2>6, Zenon DEF IsTerminal, u
<1>3. Quiet(call)
  <2> HIDE DEF call
  <2> QED
    BY <1>2, Zenon DEF Quiet
<1> QED
  BY <1>3, Zenon

LEMMA FiveTexts ==
  ASSUME NEW a, NEW b, NEW c, NEW d, NEW e, a # "%", b # "%", c # "%", d # "%", e # "%"
  PROVE  LET s == <<a, b, c, d, e>>
         IN  DOMAIN s = 1..5 /\ \A k \in 1..5 : s[k] # "%"
<1> DEFINE s == <<a, b, c, d, e>>
<1>1. DOMAIN s = 1..5 /\ s[1] = a /\ s[2] = b /\ s[3] = c /\ s[4] = d /\ s[5] = e
  OBVIOUS
<1> HIDE DEF s
<1>2. \A k \in 1..5 : k = 1 \/ k = 2 \/ k = 3 \/ k = 4 \/ k = 5
  OBVIOUS
<1> QED
  BY <1>1, <1>2 DEF s

LEMMA BootSays ==
  ASSUME IsTerminal(term), Boot
  PROVE  IsTerminal(term')
<1> DEFINE info(msg) == [level |-> "INFO", fmt |-> <<msg, "\n">>, args |-> << >>]
           calls == [k \in DOMAIN BootMessages |-> info(BootMessages[k])]
           x == "Booting up "
           y == " "
           z == " for "
           p == " ..."
           q == "\n"
           u == <<"FeudOS kernel">>
           v == <<"v0.0.7">>
           w == <<"x86_64">>
           f == <<x, "%", "s", y, "%", "s", z, "%", "s", p, q>>
           a == <<Str(u), Str(v), Str(w)>>
           banner == klog(fresh, "NONE", f, a)
<1>1. term' = LoggedAll(banner, calls)
  BY Zenon DEF Boot
<1>2. PICK hue : fresh = Terminal(<< >>, hue)
  BY FreshIs
<1>3. x # "%" /\ y # "%" /\ z # "%" /\ p # "%" /\ q # "%"
  BY Zenon
<1>4. DOMAIN BootMessages = 1..5 /\ \A k \in 1..5 : BootMessages[k] # "%"
  <2>1. /\ "Initialized GDT." # "%" /\ "Initialized IDT." # "%"
        /\ "PIC initialization done." # "%" /\ "Interrupts enabled." # "%" /\ "SSE enabled." # "%"
    BY Zenon
  <2> QED
    BY <2>1, FiveTexts, Zenon DEF BootMessages
<1> DEFINE none == << >>
           b == banner
<1>5. b = kprintf(Terminal(none, hue), f, a)
  BY <1>2, Zenon DEF klog, kprintf
<1> HIDE DEF x, y, z, p, q, u, v, w, b, none
<1>6. kprintf(Terminal(none, hue), f, a)
        = Terminal(Append(Append(Append(Append(Append(none, x) \o u, y) \o v, z) \o w, p), q), hue)
  BY <1>3, PrintsBanner
<1>7. IsTerminal(b)
  BY <1>5, <1>6, Zenon DEF IsTerminal
<1>8. \A k \in 1..5 : Quiet(info(BootMessages[k]))
  BY <1>4, InfoQuiet, Zenon
<1> HIDE DEF info
<1>9. /\ calls \in Seq({info(BootMessages[k]) : k \in 1..5})
      /\ \A k \in 1..Len(calls) : Quiet(calls[k])
  BY <1>4, <1>8
<1> HIDE DEF calls
<1>10. IsTerminal(LoggedAll(b, calls))
  BY <1>7, <1>9, LoggedQuietly
<1> QED
  BY <1>1, <1>10 DEF b
-----------------------------------------------------------------------------
(* What is on the terminal.                                                *)

\* A line that starts with a blank, or is empty, names no command.
LEMMA BlankName ==
  ASSUME NEW mem \in Memories, NEW e, EndsAt(mem, e), mem[0] \in {BLANK, NUL},
         NEW c \in CommandNames
  PROVE  ~streq(Split(mem).name, Names[c])
<1> DEFINE stop == First(mem, 0, {BLANK, NUL})
           cut(k) == [mem EXCEPT ![k] = NUL]
<1>1. LINE_MAX \in Nat /\ DOMAIN mem = 0..LINE_MAX-1 /\ NUL # BLANK
      /\ \A j \in 0..LINE_MAX-1 : mem[j] \in Chars
  BY ShellAssumption DEF Memories, NUL, BLANK
<1>2. e \in 0..LINE_MAX-1 /\ mem[e] = NUL /\ \A j \in 0..e-1 : mem[j] # NUL
  BY DEF EndsAt
<1>3. stop = 0
  <2>1. 0 \in 0..LINE_MAX-1 /\ NoneBefore(mem, 0, 0, {BLANK, NUL})
    BY <1>1, <1>2 DEF NoneBefore
  <2> QED
    BY <1>1, <2>1, FirstOnly
<1>4. \A k : Split(mem).name = StringAt(cut(strfle(mem, 0, BLANK) + 1), 0)
  BY DEF Split
<1>5. Names[c] \in Seq(Letters \ {BLANK, NUL}) /\ Len(Names[c]) >= 1
  BY NameIs
<1>6. CASE mem[0] = NUL
  <2>1. strfle(mem, 0, BLANK) + 1 = 0
    <3> HIDE DEF stop
    <3>1. strfle(mem, 0, BLANK) = IF stop = 0 /\ mem[0] = BLANK THEN 0 ELSE stop - 1
      BY DEF strfle, stop
    <3> QED
      BY <1>1, <1>3, <1>6, <3>1
  <2> DEFINE m == cut(0)
  <2>2. m \in Memories /\ EndsAt(m, 0)
    BY <1>1, <1>2 DEF Memories, Chars, EndsAt
  <2>3. Split(mem).name = StringAt(m, 0)
    BY <1>4, <2>1
  <2> HIDE DEF m
  <2>4. Len(Split(mem).name) = 0
    BY <2>2, <2>3, TypedIs
  <2> QED
    BY <1>5, <2>4 DEF streq
<1>7. CASE mem[0] = BLANK
  <2>1. strfle(mem, 0, BLANK) + 1 = 1
    <3> HIDE DEF stop
    <3>1. strfle(mem, 0, BLANK) = IF stop = 0 /\ mem[0] = BLANK THEN 0 ELSE stop - 1
      BY DEF strfle, stop
    <3> QED
      BY <1>1, <1>3, <1>7, <3>1
  <2> DEFINE m == cut(1)
  <2>2. m \in Memories /\ EndsAt(m, 1) /\ m[0] = BLANK
    <3>1. e >= 1
      BY <1>1, <1>2, <1>7
    <3> QED
      BY <1>1, <1>2, <1>7, <3>1 DEF Memories, Chars, EndsAt
  <2>3. Split(mem).name = StringAt(m, 0)
    BY <1>4, <2>1
  <2> HIDE DEF m
  <2> DEFINE s == Split(mem).name
             t == Names[c]
  <2>4. Len(s) = 1 /\ s[1] = BLANK
    <3>1. s = [j \in 1..1 |-> m[j - 1]] /\ Len(s) = 1
      BY <2>2, <2>3, TypedIs
    <3>2. 1 \in 1..1 /\ 1 - 1 = 0
      OBVIOUS
    <3> QED
      BY <2>2, <3>1, <3>2
  <2> HIDE DEF s, t
  <2>5. t \in Seq(Letters \ {BLANK, NUL}) /\ Len(t) >= 1
    BY <1>5 DEF t
  <2>6. t[1] # BLANK
    BY <2>5
  <2>7. ~streq(s, t)
    BY <2>4, <2>5, <2>6 DEF streq
  <2> QED
    BY <2>7 DEF s, t
<1> QED
  BY <1>6, <1>7

LEMMA ExecPrints ==
  ASSUME ksh_exec
  PROVE  LET split == Split(line)
             found == {k \in DOMAIN Commands : streq(split.name, Names[Commands[k]])}
             first == CHOOSE j \in found : \A i \in found : j <= i
         IN  IF found # {}
             THEN ran' = <<Commands[first], split.args>>
                  /\ term' \in Handled(Commands[first], term, split.args)
             ELSE /\ ran' = <<"none", split.name>>
                  /\ term' = kprintf(term, <<"Unknown command: ", "%", "s", "\n">>,
                                     <<Str(split.name)>>)
  BY Zenon DEF ksh_exec

\* A command gets an argument that is a string, whatever the line.
LEMMA ExecSays ==
  ASSUME LInv, ksh_exec, IsTerminal(term)
  PROVE  /\ IsTerminal(term')
         /\ \/ ran'[1] = "none"
            \/ \E c \in CommandNames, args \in Seq(Chars) :
                 ran' = <<c, args>> /\ term' \in Handled(c, term, args)
<1> DEFINE name  == Split(line).name
           args  == Split(line).args
           found == {k \in DOMAIN Commands : streq(name, Names[Commands[k]])}
           first == CHOOSE j \in found : \A i \in found : j <= i
<1>1. PICK e : EndsAt(line, e)
  BY ExecIs DEF LInv, LineReady
<1>2. line \in Memories
  BY DEF LInv, LineReady
<1>3. CASE found = {}
  <2>1. /\ ran' = <<"none", name>>
        /\ term' = kprintf(term, <<"Unknown command: ", "%", "s", "\n">>, <<Str(name)>>)
    BY <1>3, ExecPrints, Zenon
  <2>2. IsTerminal(term')
    BY <2>1, UnknownSays, Zenon
  <2> QED
    BY <2>1, <2>2, Zenon
<1>4. CASE found # {}
  <2> DEFINE c == Commands[first]
  <2>1. ran' = <<c, args>> /\ term' \in Handled(c, term, args)
    BY <1>4, ExecPrints, Zenon
  <2>2. first \in found /\ c \in CommandNames
    <3> HIDE DEF found
    <3>1. found \subseteq DOMAIN Commands
      BY DEF found
    <3> QED
      BY <1>4, <3>1, FoundIs
  <2>3. streq(name, Names[c])
    BY <2>2
  <2> HIDE DEF c
  <2>4. line[0] \notin {BLANK, NUL}
    BY <1>1, <1>2, <2>2, <2>3, BlankName
  <2>5. PICK w, a \in 0..LINE_MAX-1 :
          Parts(line, e, w, a) /\ Split(line).args = Rest(line, e, a)
    BY <1>1, <1>2, <2>4, SplitIs
  <2>6. args \in Seq(Chars)
    <3>1. e \in 0..LINE_MAX-1 /\ a \in 0..e /\ LINE_MAX \in Nat
      BY <1>1, <2>5, ShellAssumption DEF EndsAt, Parts
    <3>2. \A j \in 1..e-a : line[a + j - 1] \in Chars
      BY <1>2, <3>1 DEF Memories
    <3> QED
      BY <2>5, <3>1, <3>2 DEF Rest
  <2> HIDE DEF args
  <2>7. IsTerminal(term')
    BY <2>1, HandledQuietly
  <2> QED
    BY <2>1, <2>2, <2>6, <2>7
<1> QED
  BY <1>3, <1>4

\* What is on the terminal when a command is typed: the prompt, or the message
\* of an interrupt that came behind it.
Interrupted(out) == \E rip \in Addresses : out = ExceptionText(rip)

Asked(out) == out = <<"ksh> ">> \/ Interrupted(out)

EchoSaid(out, args) ==
  args \in Seq(Chars) /\ \E before : Asked(before) /\ out = Append(before \o args, "\n")

UptimeSaid(out) ==
  \E before, time : time \in Times /\ Asked(before) /\ out = UptimeText(before, time)

Said ==
  /\ IsTerminal(term)
  /\ at \in {"boot", "readline", "exec"} => ran[1] = "none"
  /\ at \in {"readline", "exec"} => Asked(term.out)
  /\ at = "prompt" /\ ran[1] = "echo" => Interrupted(term.out) \/ EchoSaid(term.out, ran[2])
  /\ at = "prompt" /\ ran[1] = "uptime" => Interrupted(term.out) \/ UptimeSaid(term.out)

ShellInv == LInv /\ Said

LEMMA OutOf ==
  ASSUME NEW out, NEW color
  PROVE  Terminal(out, color).out = out /\ ~Terminal(out, color).fault
  BY DEF Terminal

LEMMA InitSaid == Init => Said
<1> SUFFICES ASSUME Init PROVE Said
  OBVIOUS
<1>1. at = "boot" /\ ran[1] = "none"
  BY DEF Init
<1>2. IsTerminal(term)
  BY Zenon DEF Init, IsTerminal, Terminal
<1> QED
  BY <1>1, <1>2 DEF Said

LEMMA PromptSaid ==
  ASSUME Said, Prompt
  PROVE  Said'
<1>1. at' = "readline" /\ ran'[1] = "none"
  BY Zenon DEF Prompt
<1>2. PICK hue : fresh = Terminal(<< >>, hue)
  BY FreshIs DEF Said
<1> DEFINE x == "ksh> "
           none == << >>
<1>3. x # "%"
  BY Zenon
<1> HIDE DEF x
<1>4. Append(none, x) = <<x>>
  OBVIOUS
<1> HIDE DEF none
<1>5. kprintf(Terminal(none, hue), <<x>>, << >>) = Terminal(Append(none, x), hue)
  BY <1>3, PrintsText
<1>6. term' = Terminal(<<"ksh> ">>, hue)
  BY <1>2, <1>4, <1>5, Zenon DEF Prompt, x, none
<1>7. Asked(term'.out)
  BY <1>6, OutOf, Zenon DEF Asked
<1>8. IsTerminal(term')
  BY <1>6, Zenon DEF IsTerminal
<1> QED
  BY <1>1, <1>7, <1>8 DEF Said

LEMMA NmiSaid ==
  ASSUME Said, NEW rip \in Addresses, Nmi(rip)
  PROVE  Said'
<1>1. at \in {"prompt", "readline"} /\ at' = at /\ ran' = ran
  BY Zenon DEF Nmi
<1>2. PICK hue : fresh = Terminal(<< >>, hue)
  BY FreshIs DEF Said
<1>3. term' = Terminal(ExceptionText(rip), hue)
  BY <1>2, ExceptionSays, Zenon DEF Nmi
<1>4. Interrupted(term'.out)
  BY <1>3, OutOf, Zenon DEF Interrupted
<1>5. Asked(term'.out)
  BY <1>4, Zenon DEF Asked
<1>6. IsTerminal(term')
  BY <1>3, Zenon DEF IsTerminal
<1> QED
  BY <1>1, <1>4, <1>5, <1>6 DEF Said

LEMMA ExecSaid ==
  ASSUME LInv, Said, ksh_exec
  PROVE  Said'
<1>1. at = "exec" /\ at' \in {"prompt", "halted"}
  BY ExecIs
<1>2. PICK out, hue : term = Terminal(out, hue)
  BY DEF Said, IsTerminal
<1>3. Asked(out)
  <2>1. Asked(term.out)
    BY <1>1 DEF Said
  <2> QED
    BY <1>2, <2>1, OutOf, Zenon
<1>4. /\ IsTerminal(term')
      /\ \/ ran'[1] = "none"
         \/ \E c \in CommandNames, args \in Seq(Chars) :
              ran' = <<c, args>> /\ term' \in Handled(c, term, args)
  BY ExecSays DEF Said
<1>5. CASE ran'[1] = "none"
  BY <1>1, <1>4, <1>5 DEF Said
<1>6. ASSUME NEW c \in CommandNames, NEW args \in Seq(Chars),
             ran' = <<c, args>>, term' \in Handled(c, term, args)
      PROVE  Said'
  <2>1. ran'[1] = c /\ ran'[2] = args
    BY <1>6
  <2>2. ASSUME c = "echo" PROVE EchoSaid(term'.out, args)
    <3>1. term' = ksh_hndl_echo(term, args)
      BY <1>6, <2>2 DEF Handled
    <3>2. term' = Terminal(Append(out \o args, "\n"), hue)
      BY <1>2, <3>1, EchoSays
    <3>3. term'.out = Append(out \o args, "\n")
      BY <3>2, OutOf, Zenon
    <3> QED
      BY <1>3, <3>3, Zenon DEF EchoSaid
  <2>3. ASSUME c = "uptime" PROVE UptimeSaid(term'.out)
    <3>1. PICK time \in Times : term' = ksh_hndl_uptime(term, time)
      BY <1>6, <2>3 DEF Handled
    <3>2. term' = Terminal(UptimeText(out, time), hue)
      BY <1>2, <3>1, UptimeSays
    <3>3. term'.out = UptimeText(out, time)
      BY <3>2, OutOf, Zenon
    <3> QED
      BY <1>3, <3>3, Zenon DEF UptimeSaid
  <2> QED
    BY <1>1, <1>4, <2>1, <2>2, <2>3 DEF Said
<1> QED
  BY <1>4, <1>5, <1>6

LEMMA ShellNext == ShellInv /\ [Next]_vars => ShellInv'
<1> SUFFICES ASSUME ShellInv, [Next]_vars PROVE ShellInv'
  OBVIOUS
<1>1. LInv /\ Said
  BY DEF ShellInv
<1>2. LInv'
  BY <1>1, LineNext
<1>3. CASE Boot
  <2>1. at = "boot" /\ at' = "prompt" /\ ran' = ran
    BY <1>3, Zenon DEF Boot
  <2>2. IsTerminal(term')
    BY <1>1, <1>3, BootSays DEF Said
  <2>3. Said'
    BY <1>1, <2>1, <2>2 DEF Said
  <2> QED
    BY <1>2, <2>3 DEF ShellInv
<1>4. CASE Prompt
  BY <1>1, <1>2, <1>4, PromptSaid DEF ShellInv
<1>5. CASE ksh_exec
  BY <1>1, <1>2, <1>5, ExecSaid DEF ShellInv
<1>6. ASSUME NEW text \in Lines, ReadLine(text) PROVE ShellInv'
  <2>1. at = "readline" /\ at' = "exec" /\ ran' = ran /\ term' = term
    BY <1>6 DEF ReadLine
  <2>2. Said'
    BY <1>1, <2>1 DEF Said
  <2> QED
    BY <1>2, <2>2 DEF ShellInv
<1>7. ASSUME NEW rip \in Addresses, Nmi(rip) PROVE ShellInv'
  BY <1>1, <1>2, <1>7, NmiSaid DEF ShellInv
<1>8. CASE UNCHANGED vars
  <2>1. at' = at /\ ran' = ran /\ term' = term
    BY <1>8 DEF vars
  <2>2. Said'
    BY <1>1, <2>1 DEF Said
  <2> QED
    BY <1>2, <2>2 DEF ShellInv
<1> QED
  BY <1>3, <1>4, <1>5, <1>6, <1>7, <1>8 DEF Next

LEMMA ShellAlways == Spec => []ShellInv
<1>1. Init => ShellInv
  BY LineInit, InitSaid DEF ShellInv
<1> QED
  BY <1>1, ShellNext, PTL DEF Spec

\* No call of kvprintf takes an argument that was not passed or is of another
\* type, and no number is too long for the buffer of kprint_uint: whatever is
\* typed, whatever the time, the CPU and the address of an exception.
THEOREM NothingFaults == Spec => []NoFault
<1>1. ShellInv => NoFault
  <2> SUFFICES ASSUME ShellInv PROVE ~term.fault
    BY DEF NoFault
  <2>1. PICK out, color : term = Terminal(out, color)
    BY DEF ShellInv, Said, IsTerminal
  <2> QED
    BY <2>1, OutOf, Zenon
<1> QED
  BY <1>1, ShellAlways, PTL

\* What is printed behind other text leaves that text where it is.
Behind(s, d, p) == Append(s \o d, p)

Keeps(t, S, s, d, p) ==
  /\ t \in Seq(S) /\ Len(t) = Len(s) + Len(d) + 1
  /\ \A i \in 1..Len(s) : t[i] = s[i]
  /\ \A i \in 1..Len(d) : t[Len(s) + i] = d[i]
  /\ t[Len(s) + Len(d) + 1] = p

LEMMA Extended ==
  ASSUME NEW S, NEW s \in Seq(S), NEW d \in Seq(S), NEW p \in S
  PROVE  Keeps(Behind(s, d, p), S, s, d, p)
<1> DEFINE u == s \o d
           t == Append(u, p)
<1>1. /\ u \in Seq(S) /\ Len(u) = Len(s) + Len(d) /\ Len(s) \in Nat /\ Len(d) \in Nat
      /\ \A i \in 1..Len(s) : u[i] = s[i]
      /\ \A i \in 1..Len(d) : u[Len(s) + i] = d[i]
  OBVIOUS
<1>2. t = Behind(s, d, p)
  BY DEF Behind
<1> HIDE DEF u
<1>3. /\ t \in Seq(S) /\ Len(t) = Len(u) + 1 /\ t[Len(u) + 1] = p
      /\ \A i \in 1..Len(u) : t[i] = u[i]
  BY <1>1
<1> HIDE DEF t
<1>4. \A i \in 1..Len(s) : t[i] = s[i]
  BY <1>1, <1>3
<1>5. \A i \in 1..Len(d) : t[Len(s) + i] = d[i]
  BY <1>1, <1>3
<1>6. Keeps(t, S, s, d, p)
  BY <1>1, <1>3, <1>4, <1>5 DEF Keeps
<1> QED
  BY <1>2, <1>6

LEMMA SubSeqIs ==
  ASSUME NEW S, NEW t \in Seq(S), NEW d \in Seq(S), NEW m \in Nat, m + Len(d) <= Len(t),
         \A i \in 1..Len(d) : t[m + i] = d[i]
  PROVE  SubSeq(t, m + 1, m + Len(d)) = d
<1> DEFINE u == SubSeq(t, m + 1, m + Len(d))
<1>1. u \in Seq(S) /\ Len(u) = Len(d) /\ \A i \in 1..Len(d) : u[i] = t[m + i]
  OBVIOUS
<1> HIDE DEF u
<1>2. u = d
  BY <1>1
<1> QED
  BY <1>2 DEF u

\* The first text on the terminal.
Starts(out, x) == \E S : out \in Seq(S) /\ Len(out) >= 1 /\ out[1] = x

LEMMA StillStarts ==
  ASSUME NEW out, NEW x, Starts(out, x), NEW T, NEW d \in Seq(T), NEW p
  PROVE  Starts(Append(out \o d, p), x)
<1>1. PICK S : out \in Seq(S) /\ Len(out) >= 1 /\ out[1] = x
  BY DEF Starts
<1> DEFINE all == S \cup T \cup {p}
<1>2. out \in Seq(all) /\ d \in Seq(all) /\ p \in all
  BY <1>1
<1> HIDE DEF all
<1> DEFINE t == Append(out \o d, p)
<1>0. t = Behind(out, d, p)
  BY DEF Behind
<1> HIDE DEF t
<1>3. t \in Seq(all) /\ Len(t) = Len(out) + Len(d) + 1 /\ \A i \in 1..Len(out) : t[i] = out[i]
  <2>1. Keeps(t, all, out, d, p)
    BY <1>0, <1>2, Extended
  <2> QED
    BY <2>1 DEF Keeps
<1>4. t[1] = x /\ Len(t) >= 1
  BY <1>1, <1>2, <1>3
<1>5. Starts(t, x)
  BY <1>3, <1>4 DEF Starts
<1> QED
  BY <1>5 DEF t

\* The message of an exception: its last part is the address.
LEMMA ExceptionIs ==
  ASSUME NEW rip \in Addresses
  PROVE  LET t == ExceptionText(rip)
         IN  /\ Starts(t, "Unknown exception ")
             /\ SubSeq(t, 4, Len(t) - 1) = kprint_uint(rip, 16)
<1> DEFINE x == "Unknown exception "
           y == " at 0x"
           z == "\n"
           n == kprint_uint(0, 10)
           d == kprint_uint(rip, 16)
           S == Digits \cup {x, y, z}
           none == << >>
           s == Append(none, x)
           u == Append(s \o n, y)
           t == Append(u \o d, z)
<1>1. d \in Seq(Digits) /\ n \in Seq(Digits) /\ Len(n) = 1
  <2>1. rip \in 0..U64-1 /\ 0 \in 0..U64-1
    BY ShellAssumption, DigitAssumption
  <2>2. n = <<"0">>
    BY DEF kprint_uint
  <2> QED
    BY <2>1, <2>2, PrintedDigits
<1>2. ExceptionText(rip) = t
  BY Zenon DEF ExceptionText
<1> HIDE DEF x, y, z, d, n
<1>3. s = <<x>> /\ Len(s) = 1 /\ s[1] = x
  OBVIOUS
<1> HIDE DEF s
<1>4. d \in Seq(S) /\ n \in Seq(S) /\ x \in S /\ y \in S /\ z \in S /\ s \in Seq(S)
  BY <1>1, <1>3
<1> HIDE DEF S
<1>5. u = Behind(s, n, y) /\ t = Behind(u, d, z) /\ Len(s) = 1 /\ s[1] = x
  BY <1>3, Zenon DEF Behind
<1> HIDE DEF u, t
<1>6. Keeps(u, S, s, n, y) /\ Keeps(t, S, u, d, z)
  <2>1. Keeps(u, S, s, n, y)
    BY <1>4, <1>5, Extended
  <2>2. u \in Seq(S)
    BY <2>1 DEF Keeps
  <2> QED
    BY <1>4, <1>5, <2>1, <2>2, Extended
<1>7. /\ Len(u) = Len(s) + Len(n) + 1 /\ \A i \in 1..Len(s) : u[i] = s[i]
      /\ t \in Seq(S) /\ Len(t) = Len(u) + Len(d) + 1
      /\ \A i \in 1..Len(u) : t[i] = u[i]
      /\ \A i \in 1..Len(d) : t[Len(u) + i] = d[i]
  BY <1>6 DEF Keeps
<1>8. Len(u) = 3 /\ u[1] = x /\ t[1] = x /\ Len(d) \in Nat /\ Len(t) = 3 + Len(d) + 1
  BY <1>1, <1>4, <1>5, <1>7
<1>9. SubSeq(t, 3 + 1, 3 + Len(d)) = d
  <2> DEFINE m == 3
  <2>1. m \in Nat /\ m = Len(u) /\ m + Len(d) <= Len(t)
    BY <1>8
  <2> HIDE DEF m
  <2>2. \A i \in 1..Len(d) : t[m + i] = d[i]
    BY <1>7, <2>1
  <2>3. SubSeq(t, m + 1, m + Len(d)) = d
    BY <1>4, <1>7, <2>1, <2>2, SubSeqIs
  <2> QED
    BY <2>3 DEF m
<1>10. 3 + 1 = 4 /\ 3 + Len(d) = Len(t) - 1 /\ Len(t) >= 1
  BY <1>8
<1>11. Starts(t, x)
  BY <1>7, <1>8, <1>10, Zenon DEF Starts
<1>12. SubSeq(t, 4, Len(t) - 1) = d
  BY <1>9, <1>10
<1> QED
  BY <1>2, <1>11, <1>12, Zenon DEF x, d

\* The message of an interrupt starts with a text of its own.
LEMMA OtherStart ==
  ASSUME NEW out, Interrupted(out)
  PROVE  Starts(out, "Unknown exception ")
<1>1. PICK rip \in Addresses : out = ExceptionText(rip)
  BY DEF Interrupted
<1> QED
  BY <1>1, ExceptionIs, Zenon

LEMMA NotThePrompt ==
  ASSUME NEW out, Starts(out, "Unknown exception ")
  PROVE  out[1] # "ksh> "
<1>1. out[1] = "Unknown exception "
  BY Zenon DEF Starts
<1>2. "Unknown exception " # "ksh> "
  BY Zenon
<1> QED
  BY <1>1, <1>2, Zenon

LEMMA Between ==
  ASSUME NEW T, NEW args \in Seq(T), NEW x, NEW y
  PROVE  Append(<<x>> \o args, y) = <<x>> \o args \o <<y>>
<1> DEFINE S == T \cup {x, y}
           s == <<x>>
           l == Append(s \o args, y)
           u == s \o args
           r == u \o <<y>>
<1>1. s \in Seq(S) /\ args \in Seq(S) /\ y \in S /\ <<y>> \in Seq(S)
  OBVIOUS
<1> HIDE DEF S, s
<1>2. u \in Seq(S) /\ Len(u) \in Nat
  BY <1>1
<1> HIDE DEF u
<1>3. l = Append(u, y)
  BY DEF u
<1> HIDE DEF l
<1>4. /\ l \in Seq(S) /\ Len(l) = Len(u) + 1 /\ l[Len(u) + 1] = y
      /\ \A i \in 1..Len(u) : l[i] = u[i]
  BY <1>1, <1>2, <1>3
<1>5. r \in Seq(S)
  BY <1>1, <1>2
<1>6. Len(r) = Len(u) + 1
  BY <1>1, <1>2
<1>7. \A i \in 1..Len(u) : r[i] = u[i]
  BY <1>1, <1>2
<1>8. r[Len(u) + 1] = y
  BY <1>1, <1>2
<1> HIDE DEF r
<1>9. \A i \in 1..Len(u)+1 : l[i] = r[i]
  BY <1>2, <1>4, <1>7, <1>8
<1>10. l = r
  BY <1>2, <1>4, <1>5, <1>6, <1>9
<1> QED
  BY <1>10 DEF l, r, u, s

\* echo prints what was typed behind it as it is: a percent sign is no
\* conversion, and nothing is lost or added, unless an interrupt printed its
\* message between the prompt and the command.
THEOREM EchoIsVerbatim == Spec => []EchoVerbatim
<1>1. ShellInv => EchoVerbatim
  <2> SUFFICES ASSUME ShellInv, at = "prompt", ran[1] = "echo",
                      term.out # << >>, term.out[1] = "ksh> "
               PROVE  term.out = <<"ksh> ">> \o ran[2] \o <<"\n">>
    BY Zenon DEF EchoVerbatim
  <2> DEFINE x == "ksh> "
             y == "\n"
             out == term.out
             args == ran[2]
  <2>1. ~Interrupted(out)
    BY OtherStart, NotThePrompt, Zenon
  <2>2. EchoSaid(out, args)
    BY <2>1 DEF ShellInv, Said
  <2>3. PICK before : Asked(before) /\ out = Append(before \o args, y)
    BY <2>2, Zenon DEF EchoSaid
  <2>4. args \in Seq(Chars)
    BY <2>2, Zenon DEF EchoSaid
  <2>5. before = <<x>>
    <3> SUFFICES ASSUME Interrupted(before) PROVE FALSE
      BY <2>3, Zenon DEF Asked
    <3> DEFINE other == "Unknown exception "
    <3>1. Starts(before, other)
      BY OtherStart, Zenon
    <3> HIDE DEF x, y, out, args, other
    <3>2. Starts(Append(before \o args, y), other)
      BY <2>4, <3>1, StillStarts
    <3> QED
      BY <2>3, <3>2, NotThePrompt, Zenon DEF x, out, other
  <2> HIDE DEF x, y, out, args
  <2>6. Append(<<x>> \o args, y) = <<x>> \o args \o <<y>>
    BY <2>4, Between
  <2> QED
    BY <2>3, <2>5, <2>6, Zenon DEF x, y, out, args
<1> QED
  BY <1>1, ShellAlways, PTL

-----------------------------------------------------------------------------
(* The numbers on the terminal.                                            *)

\* Three parts of a text, two marks p between them.
PartsAt(t, i, j, p, d1, d2, d3) ==
  /\ i \in DOMAIN t /\ j \in DOMAIN t /\ i < j /\ t[i] = p /\ t[j] = p
  /\ SubSeq(t, 3, i - 1) = d1
  /\ SubSeq(t, i + 1, j - 1) = d2
  /\ SubSeq(t, j + 1, Len(t) - 1) = d3

LEMMA ThreeParts ==
  ASSUME NEW S, NEW s \in Seq(S), Len(s) = 2, NEW p, NEW z,
         NEW d1 \in Seq(S), NEW d2 \in Seq(S), NEW d3 \in Seq(S),
         NEW a, NEW b, NEW t,
         Keeps(a, S, s, d1, p), Keeps(b, S, a, d2, p), Keeps(t, S, b, d3, z)
  PROVE  \E i, j : PartsAt(t, i, j, p, d1, d2, d3)
<1> DEFINE i == 3 + Len(d1)
           j == i + 1 + Len(d2)
<1>1. Len(d1) \in Nat /\ Len(d2) \in Nat /\ Len(d3) \in Nat
  OBVIOUS
<1>2. /\ a \in Seq(S) /\ Len(a) = 2 + Len(d1) + 1
      /\ \A k \in 1..Len(d1) : a[2 + k] = d1[k]
      /\ a[2 + Len(d1) + 1] = p
  BY DEF Keeps
<1>3. /\ b \in Seq(S) /\ Len(b) = Len(a) + Len(d2) + 1
      /\ \A k \in 1..Len(a) : b[k] = a[k]
      /\ \A k \in 1..Len(d2) : b[Len(a) + k] = d2[k]
      /\ b[Len(a) + Len(d2) + 1] = p
  BY DEF Keeps
<1>4. /\ t \in Seq(S) /\ Len(t) = Len(b) + Len(d3) + 1
      /\ \A k \in 1..Len(b) : t[k] = b[k]
      /\ \A k \in 1..Len(d3) : t[Len(b) + k] = d3[k]
  BY DEF Keeps
<1>5. /\ Len(a) = i /\ Len(b) = j /\ Len(t) = j + Len(d3) + 1
      /\ i \in Nat /\ j \in Nat /\ i >= 3 /\ i < j /\ i = 2 + Len(d1) + 1
      /\ j = i + Len(d2) + 1
  BY <1>1, <1>2, <1>3, <1>4
<1> HIDE DEF i, j
<1>6. t[i] = p /\ t[j] = p
  <2>1. i \in 1..Len(a) /\ i \in 1..Len(b) /\ j \in 1..Len(b)
    BY <1>5
  <2>2. t[i] = a[i]
    BY <1>3, <1>4, <2>1
  <2>3. t[j] = b[j]
    BY <1>4, <2>1
  <2>4. a[i] = p
    BY <1>2, <1>5
  <2>5. b[j] = p
    BY <1>3, <1>5
  <2> QED
    BY <2>2, <2>3, <2>4, <2>5
<1>7. SubSeq(t, 2 + 1, 2 + Len(d1)) = d1
  <2> DEFINE m == 2
  <2>1. m \in Nat /\ m + Len(d1) <= Len(t) /\ m + Len(d1) < Len(a) /\ Len(a) <= Len(b)
    BY <1>1, <1>5
  <2>2. \A k \in 1..Len(d1) : t[m + k] = d1[k]
    <3> TAKE k \in 1..Len(d1)
    <3>1. m + k \in 1..Len(a) /\ m + k \in 1..Len(b)
      BY <1>1, <1>5
    <3>2. t[m + k] = b[m + k]
      BY <1>4, <3>1
    <3>3. b[m + k] = a[m + k]
      BY <1>3, <3>1
    <3> QED
      BY <1>2, <3>2, <3>3
  <2> HIDE DEF m
  <2>3. SubSeq(t, m + 1, m + Len(d1)) = d1
    BY <1>4, <2>1, <2>2, SubSeqIs
  <2> QED
    BY <2>3 DEF m
<1>8. SubSeq(t, i + 1, i + Len(d2)) = d2
  <2>1. i + Len(d2) <= Len(t)
    BY <1>1, <1>5
  <2>2. \A k \in 1..Len(d2) : t[i + k] = d2[k]
    <3> TAKE k \in 1..Len(d2)
    <3>1. i + k \in 1..Len(b)
      BY <1>1, <1>5
    <3>2. t[i + k] = b[i + k]
      BY <1>4, <3>1
    <3> QED
      BY <1>3, <1>5, <3>2
  <2> QED
    BY <1>4, <1>5, <2>1, <2>2, SubSeqIs
<1>9. SubSeq(t, j + 1, j + Len(d3)) = d3
  <2>1. j + Len(d3) <= Len(t) /\ \A k \in 1..Len(d3) : t[j + k] = d3[k]
    BY <1>1, <1>4, <1>5
  <2> QED
    BY <1>4, <1>5, <2>1, SubSeqIs
<1>10. /\ 2 + 1 = 3 /\ 2 + Len(d1) = i - 1 /\ i + Len(d2) = j - 1 /\ j + Len(d3) = Len(t) - 1
       /\ i \in 1..Len(t) /\ j \in 1..Len(t)
  BY <1>1, <1>5
<1>11. PartsAt(t, i, j, p, d1, d2, d3)
  <2>1. DOMAIN t = 1..Len(t)
    BY <1>4
  <2> QED
    BY <1>5, <1>6, <1>7, <1>8, <1>9, <1>10, <2>1 DEF PartsAt
<1> QED
  BY <1>11

LEMMA TwoTexts ==
  ASSUME NEW x, NEW y
  PROVE  Append(<<x>>, y) = <<x, y>>
<1> DEFINE s == Append(<<x>>, y)
           t == <<x, y>>
<1>1. <<x>> \in Seq({x, y}) /\ Len(<<x>>) = 1 /\ y \in {x, y}
  OBVIOUS
<1>2. s \in Seq({x, y}) /\ Len(s) = 2 /\ s[1] = x /\ s[2] = y
  BY <1>1
<1>3. t \in Seq({x, y}) /\ Len(t) = 2 /\ t[1] = x /\ t[2] = y
  OBVIOUS
<1> HIDE DEF s, t
<1>4. s = t
  BY <1>2, <1>3
<1> QED
  BY <1>4 DEF s, t

\* The digits of a message are texts like the others.
LEMMA TimeParts ==
  ASSUME NEW time \in Times, NEW x
  PROVE  \E i, j : PartsAt(UptimeText(<<x>>, time), i, j, ":", kprint_uint(time[1], 10),
                           kprint_uint(time[2], 10), kprint_uint(time[3], 10))
<1> DEFINE q == "up "
           p == ":"
           z == "\n"
           d1 == kprint_uint(time[1], 10)
           d2 == kprint_uint(time[2], 10)
           d3 == kprint_uint(time[3], 10)
           S == Digits \cup {x, q, p, z}
           h == <<x>>
           s == Append(h, q)
           a == Behind(s, d1, p)
           b == Behind(a, d2, p)
           t == Behind(b, d3, z)
<1>1. d1 \in Seq(Digits) /\ d2 \in Seq(Digits) /\ d3 \in Seq(Digits)
  BY NumberArgs, PrintedDigits
<1>2. UptimeText(<<x>>, time) = t
  BY Zenon DEF UptimeText, Behind
<1> HIDE DEF q, p, z, d1, d2, d3
<1>3. s \in Seq(S) /\ Len(s) = 2
  <2>1. x \in S /\ q \in S
    OBVIOUS
  <2>2. s = <<x, q>>
    BY TwoTexts, Zenon
  <2> HIDE DEF S, s
  <2> QED
    BY <2>1, <2>2
<1> HIDE DEF s
<1>4. d1 \in Seq(S) /\ d2 \in Seq(S) /\ d3 \in Seq(S) /\ p \in S /\ z \in S
  BY <1>1
<1> HIDE DEF S
<1>5. Keeps(a, S, s, d1, p)
  BY <1>3, <1>4, Extended
<1>6. a \in Seq(S)
  BY <1>5, Zenon DEF Keeps
<1> HIDE DEF a
<1>7. Keeps(b, S, a, d2, p)
  BY <1>4, <1>6, Extended
<1>8. b \in Seq(S)
  BY <1>7, Zenon DEF Keeps
<1> HIDE DEF b
<1>9. Keeps(t, S, b, d3, z)
  BY <1>4, <1>8, Extended
<1> HIDE DEF t
<1>10. \E i, j : PartsAt(t, i, j, p, d1, d2, d3)
  BY <1>3, <1>4, <1>5, <1>7, <1>9, ThreeParts, Zenon
<1> QED
  BY <1>2, <1>10, Zenon DEF d1, d2, d3, p

\* What uptime prints behind the message of an interrupt starts with that.
LEMMA UptimeStarts ==
  ASSUME NEW out, NEW x, Starts(out, x), NEW time \in Times
  PROVE  Starts(UptimeText(out, time), x)
<1> DEFINE q == "up "
           p == ":"
           z == "\n"
           none == << >>
           d1 == kprint_uint(time[1], 10)
           d2 == kprint_uint(time[2], 10)
           d3 == kprint_uint(time[3], 10)
           s == Append(out, q)
           a == Append(s \o d1, p)
           b == Append(a \o d2, p)
           t == Append(b \o d3, z)
<1>1. d1 \in Seq(Digits) /\ d2 \in Seq(Digits) /\ d3 \in Seq(Digits)
  BY NumberArgs, PrintedDigits
<1>2. UptimeText(out, time) = t
  BY Zenon DEF UptimeText
<1> HIDE DEF q, p, z, d1, d2, d3
<1>3. Starts(s, x)
  <2>1. PICK S : out \in Seq(S) /\ Len(out) >= 1 /\ out[1] = x
    BY DEF Starts
  <2> DEFINE all == S \cup {q}
  <2>2. out \in Seq(all) /\ q \in all
    BY <2>1
  <2> HIDE DEF all
  <2>3. s \in Seq(all) /\ Len(s) >= 1 /\ s[1] = x
    BY <2>1, <2>2
  <2> HIDE DEF s
  <2> QED
    BY <2>3, Zenon DEF Starts
<1> HIDE DEF s
<1>4. Starts(a, x)
  BY <1>1, <1>3, StillStarts, Zenon
<1> HIDE DEF a
<1>5. Starts(b, x)
  BY <1>1, <1>4, StillStarts, Zenon
<1> HIDE DEF b
<1>6. Starts(t, x)
  BY <1>1, <1>5, StillStarts, Zenon
<1> QED
  BY <1>2, <1>6, Zenon

LEMMA TimeRead ==
  ASSUME NEW time \in Times, NEW x
  PROVE  LET out == UptimeText(<<x>>, time)
         IN  \E i, j \in DOMAIN out :
               /\ i < j /\ out[i] = ":" /\ out[j] = ":"
               /\ <<Value(SubSeq(out, 3, i - 1), 10), Value(SubSeq(out, i + 1, j - 1), 10),
                    Value(SubSeq(out, j + 1, Len(out) - 1), 10)>> \in Times
<1> DEFINE out == UptimeText(<<x>>, time)
           d1 == kprint_uint(time[1], 10)
           d2 == kprint_uint(time[2], 10)
           d3 == kprint_uint(time[3], 10)
<1>1. PICK i, j : PartsAt(out, i, j, ":", d1, d2, d3)
  BY TimeParts
<1>2. Value(d1, 10) = time[1] /\ Value(d2, 10) = time[2] /\ Value(d3, 10) = time[3]
  BY NumberArgs, ReadsBack
<1>3. <<Value(d1, 10), Value(d2, 10), Value(d3, 10)>> = time
  <2>1. time \in (0..U64-1) \X (0..U64-1) \X (0..U64-1)
    BY ShellAssumption
  <2>2. time = <<time[1], time[2], time[3]>>
    BY <2>1
  <2> QED
    BY <1>2, <2>2, Zenon
<1> HIDE DEF out, d1, d2, d3
<1>4. /\ i \in DOMAIN out /\ j \in DOMAIN out /\ i < j /\ out[i] = ":" /\ out[j] = ":"
      /\ <<Value(SubSeq(out, 3, i - 1), 10), Value(SubSeq(out, i + 1, j - 1), 10),
           Value(SubSeq(out, j + 1, Len(out) - 1), 10)>> \in Times
  BY <1>1, <1>3, Zenon DEF PartsAt
<1> QED
  BY <1>4, Zenon DEF out

\* The numbers on the terminal read back as those the code was given: the three
\* of uptime as a time, between its colons, and the hexadecimal one of an
\* interrupt as an address.
THEOREM NumbersAreRight == Spec => []NumbersReadBack
<1>1. ASSUME ShellInv, at = "prompt", ran[1] = "uptime", term.out[1] = "ksh> "
      PROVE  \E time \in Times : term.out = UptimeText(<<"ksh> ">>, time)
  <2> DEFINE out == term.out
             x == "ksh> "
  <2>1. ~Interrupted(out)
    BY <1>1, OtherStart, NotThePrompt, Zenon
  <2>2. UptimeSaid(out)
    BY <1>1, <2>1 DEF ShellInv, Said
  <2>3. PICK before, time : time \in Times /\ Asked(before) /\ out = UptimeText(before, time)
    BY <2>2, Zenon DEF UptimeSaid
  <2>4. ~Interrupted(before)
    <3> SUFFICES ASSUME Interrupted(before) PROVE FALSE
      OBVIOUS
    <3>1. Starts(out, "Unknown exception ")
      BY <2>3, OtherStart, UptimeStarts, Zenon
    <3> QED
      BY <1>1, <3>1, NotThePrompt, Zenon
  <2> QED
    BY <2>3, <2>4, Zenon DEF Asked
<1>2. ASSUME ShellInv, at = "readline", term.out[1] = "Unknown exception "
      PROVE  Value(SubSeq(term.out, 4, Len(term.out) - 1), 16) \in Addresses
  <2> DEFINE out == term.out
  <2>1. Asked(out)
    BY <1>2 DEF ShellInv, Said
  <2>2. Interrupted(out)
    <3> DEFINE x == "ksh> "
               y == "Unknown exception "
    <3>1. x # y
      BY Zenon
    <3>2. out = <<x>> \/ Interrupted(out)
      BY <2>1, Zenon DEF Asked
    <3>3. out[1] = y
      BY <1>2, Zenon
    <3> HIDE DEF x, y, out
    <3> QED
      BY <3>1, <3>2, <3>3
  <2>3. PICK rip \in Addresses : out = ExceptionText(rip)
    BY <2>2, Zenon DEF Interrupted
  <2>4. SubSeq(out, 4, Len(out) - 1) = kprint_uint(rip, 16)
    BY <2>3, ExceptionIs, Zenon
  <2>5. Value(kprint_uint(rip, 16), 16) = rip
    <3>1. rip \in 0..U64-1
      BY ShellAssumption
    <3> QED
      BY <3>1, ReadsBack
  <2> QED
    BY <2>4, <2>5, Zenon
<1>3. ShellInv => NumbersReadBack
  <2>1. ASSUME ShellInv, at = "prompt" /\ ran[1] = "uptime" /\ term.out[1] = "ksh> "
        PROVE  \E i, j \in DOMAIN term.out :
                 /\ i < j /\ term.out[i] = ":" /\ term.out[j] = ":"
                 /\ <<Value(SubSeq(term.out, 3, i - 1), 10),
                      Value(SubSeq(term.out, i + 1, j - 1), 10),
                      Value(SubSeq(term.out, j + 1, Len(term.out) - 1), 10)>> \in Times
    BY <1>1, <2>1, TimeRead, Zenon
  <2> QED
    BY <1>2, <2>1, Zenon DEF NumbersReadBack
<1> QED
  BY <1>3, ShellAlways, PTL
=============================================================================
