--------------------------- MODULE KeyboardProofs ---------------------------
(***************************************************************************)
(* Theorems about Keyboard, and about KeyboardLine, which extends it: for  *)
(* every buffer size, line size and set of scan codes, a line typed cleanly*)
(* is the line kbd_readline delivers.                                      *)
(***************************************************************************)
EXTENDS KeyboardLine, SequenceTheorems, TLAPS

\* Both tables hold 7-bit characters.
LEMMA TablesTyped ==
  /\ scancode_ascii \in [0..127 -> 0..127]
  /\ scancode_ascii_shift \in [0..127 -> 0..127]
<1>1. PlainKeys \in [1..58 -> 0..127]
  BY DEF PlainKeys
<1>2. ShiftKeys \in [1..58 -> 0..127]
  BY DEF ShiftKeys
<1>3. scancode_ascii
        = [code \in 0..127 |-> IF code < 58 THEN PlainKeys[code + 1] ELSE NUL]
  BY DEF scancode_ascii
<1>4. scancode_ascii_shift
        = [code \in 0..127 |-> IF code < 58 THEN ShiftKeys[code + 1] ELSE NUL]
  BY DEF scancode_ascii_shift
<1>5. scancode_ascii \in [0..127 -> 0..127]
  BY <1>1, <1>3 DEF NUL
<1>6. scancode_ascii_shift \in [0..127 -> 0..127]
  BY <1>2, <1>4 DEF NUL
<1> QED
  BY <1>5, <1>6

\* The character of a key is a 7-bit character.
LEMMA KeyCharTyped ==
  ASSUME NEW code \in 0..127, shift_held \in BOOLEAN
  PROVE  KeyChar(code) \in 0..127
BY TablesTyped DEF KeyChar

Buffers == [buf : [0..KBD_BUF_SIZE-1 -> Byte], pos : 0..KBD_BUF_SIZE-1]

\* A push (or the pop a backspace makes of it) keeps pos inside the buffer and
\* leaves the last byte alone.
LEMMA PushTyped ==
  ASSUME NEW b \in Buffers, NEW c \in 1..127
  PROVE  /\ kbd_buffer_push(b, c) \in Buffers
         /\ b.buf[KBD_BUF_SIZE - 1] = NUL
              => kbd_buffer_push(b, c).buf[KBD_BUF_SIZE - 1] = NUL
<1> USE SizeAssumption DEF Buffers, NUL, Byte
<1>1. CASE c = BS /\ b.pos = 0
  BY <1>1 DEF kbd_buffer_push, kbd_buf_pop
<1>2. CASE c = BS /\ b.pos # 0
  BY <1>2 DEF kbd_buffer_push, kbd_buf_pop
<1>3. CASE c # BS
  <2> DEFINE at == IF b.pos = KBD_BUF_SIZE - 1 THEN 0 ELSE b.pos
  <2>1. at \in 0..KBD_BUF_SIZE-2
    OBVIOUS
  <2>2. kbd_buffer_push(b, c) = [buf |-> [b.buf EXCEPT ![at] = c], pos |-> at + 1]
    BY <1>3 DEF kbd_buffer_push
  <2> HIDE DEF at
  <2> QED
    BY <2>1, <2>2
<1> QED
  BY <1>1, <1>2, <1>3

\* What one scan code does to the driver's own state.
LEMMA ScancodeTyped ==
  ASSUME TypeOK, NEW sc \in Scancodes, kbd_handle_scancode(sc)
  PROVE  /\ kbd_buf' \in Buffers /\ shift_held' \in BOOLEAN /\ con' \in Console
         /\ BufferTerminated => BufferTerminated'
<1>1. sc \in 0..255 /\ sc % 128 \in 0..127
  BY InputAssumption
<1>2. KeyChar(sc % 128) \in 0..127
  BY <1>1, KeyCharTyped DEF TypeOK
<1>3. CASE sc % 128 \in {SC_LSHIFT, SC_RSHIFT}
  BY <1>1, <1>3 DEF kbd_handle_scancode, TypeOK, Buffers, BufferTerminated
<1>4. CASE UNCHANGED kbd
  BY <1>4 DEF kbd, TypeOK, Buffers, BufferTerminated
<1>5. CASE /\ KeyChar(sc % 128) # NUL
           /\ kbd_buf' = kbd_buffer_push(kbd_buf, KeyChar(sc % 128))
           /\ con' = Echo(con, KeyChar(sc % 128))
           /\ UNCHANGED shift_held
  <2>1. KeyChar(sc % 128) \in 1..127
    BY <1>2, <1>5 DEF NUL
  <2>2. kbd_buf \in Buffers
    BY DEF TypeOK, Buffers
  <2>3. con' \in Console
    BY <1>5, <2>1, EchoAssumption DEF TypeOK
  <2> QED
    BY <1>5, <2>1, <2>2, <2>3, PushTyped DEF TypeOK, BufferTerminated
<1> QED
  BY <1>3, <1>4, <1>5 DEF kbd_handle_scancode

\* The copied length is a proper one: the difference of two different positions
\* is never 0, even when it is a wrapped-around negative number.
LEMMA ClippedLenTyped ==
  ASSUME NEW from \in 0..KBD_BUF_SIZE-1, NEW to \in 0..KBD_BUF_SIZE-1
  PROVE  /\ ClippedLen(from, to) \in 0..LINE_MAX-1
         /\ from # to => ClippedLen(from, to) >= 1
<1> USE SizeAssumption
<1>1. CASE from <= to
  <2>1. (to - from) % SIZE_T = to - from
    BY <1>1
  <2> QED
    BY <1>1, <2>1 DEF ClippedLen
<1>2. CASE to < from
  <2>1. (to - from) % SIZE_T = SIZE_T + to - from
    BY <1>2
  <2> QED
    BY <1>2, <2>1 DEF ClippedLen
<1> QED
  BY <1>1, <1>2

-----------------------------------------------------------------------------
(* LineUsable needs to know, during the copy, that the length is positive  *)
(* and that the copy has not passed it.                                    *)

CopyInv == pc = "copy" => line_len >= 1 /\ i <= line_len

IInv == TypeOK /\ CopyInv /\ LineUsable /\ BufferTerminated

LEMMA InitInv == Init => IInv
<1> SUFFICES ASSUME Init PROVE IInv
  OBVIOUS
<1> USE SizeAssumption DEF Init, Byte, NUL
<1>1. kbd_buf \in [buf : [0..KBD_BUF_SIZE-1 -> Byte], pos : 0..KBD_BUF_SIZE-1]
  <2>1. [k \in 0..KBD_BUF_SIZE-1 |-> 0] \in [0..KBD_BUF_SIZE-1 -> 0..255]
    OBVIOUS
  <2> QED
    BY <2>1
<1>2. line \in [0..LINE_MAX-1 -> Byte]
  OBVIOUS
<1>3. shift_held \in BOOLEAN /\ con \in Console
  OBVIOUS
<1>4. /\ start_pos \in 0..KBD_BUF_SIZE-1 /\ p \in 0..KBD_BUF_SIZE-1
      /\ line_len \in 0..LINE_MAX-1 /\ i \in 0..LINE_MAX-1
  OBVIOUS
<1>5. pc \in {"call", "hlt", "halted", "load", "check", "copy", "ret", "exec"}
  OBVIOUS
<1>6. TypeOK
  <2> HIDE DEF Init
  <2> QED
    BY <1>1, <1>2, <1>3, <1>4, <1>5 DEF TypeOK
<1> QED
  BY <1>6 DEF IInv, CopyInv, LineUsable, BufferTerminated

LEMMA NextInv == IInv /\ [Next]_vars => IInv'
<1> SUFFICES ASSUME IInv, [Next]_vars PROVE IInv'
  OBVIOUS
<1> USE SizeAssumption DEF IInv, CopyInv, LineUsable
<1>1. ASSUME NEW sc \in Scancodes, KbdIrq(sc) PROVE IInv'
  <2>1. /\ kbd_buf' \in Buffers /\ shift_held' \in BOOLEAN /\ con' \in Console
        /\ BufferTerminated'
    BY <1>1, ScancodeTyped DEF KbdIrq
  <2>2. TypeOK'
    BY <1>1, <2>1 DEF KbdIrq, Wake, regs, TypeOK, Buffers
  <2> QED
    BY <1>1, <2>1, <2>2 DEF KbdIrq, Wake, regs
<1>2. CASE TimerIrq
  BY <1>2 DEF TimerIrq, Wake, kbd, regs, TypeOK, BufferTerminated
<1>3. CASE ReadlineEnter
  BY <1>3 DEF ReadlineEnter, kbd, TypeOK, BufferTerminated
<1>4. CASE Hlt
  BY <1>4 DEF Hlt, kbd, regs, TypeOK, BufferTerminated
<1>5. CASE LoadPos
  BY <1>5 DEF LoadPos, kbd, TypeOK, BufferTerminated
<1>6. CASE CheckLine
  <2>1. p \in 0..KBD_BUF_SIZE-1 /\ start_pos \in 0..KBD_BUF_SIZE-1
    BY DEF TypeOK
  <2>2. /\ ClippedLen(start_pos, p) \in 0..LINE_MAX-1
        /\ p # start_pos => ClippedLen(start_pos, p) >= 1
    BY <2>1, ClippedLenTyped
  <2> QED
    BY <1>6, <2>2 DEF CheckLine, kbd, TypeOK, BufferTerminated
<1>7. CASE CopyByte
  <2>1. PICK b \in IF start_pos + i < KBD_BUF_SIZE
                   THEN {kbd_buf.buf[start_pos + i]} ELSE Stray :
               line' = [line EXCEPT ![i] = b]
    BY <1>7 DEF CopyByte
  <2>2. b \in Byte
    <3>1. CASE start_pos + i < KBD_BUF_SIZE
      <4>1. start_pos + i \in 0..KBD_BUF_SIZE-1
        BY <3>1 DEF TypeOK
      <4>2. kbd_buf.buf \in [0..KBD_BUF_SIZE-1 -> Byte]
        BY DEF TypeOK
      <4> QED
        BY <2>1, <3>1, <4>1, <4>2
    <3>2. CASE ~(start_pos + i < KBD_BUF_SIZE)
      BY <2>1, <3>2, InputAssumption DEF Byte
    <3> QED
      BY <3>1, <3>2
  <2> QED
    BY <1>7, <2>1, <2>2 DEF CopyByte, kbd, TypeOK, BufferTerminated
<1>8. CASE ReadlineReturn
  <2>1. line' \in [0..LINE_MAX-1 -> Byte]
    BY <1>8 DEF ReadlineReturn, TypeOK, Byte, NUL
  <2>2. TypeOK'
    BY <1>8, <2>1 DEF ReadlineReturn, kbd, TypeOK
  <2> QED
    BY <1>8, <2>2 DEF ReadlineReturn, kbd, TypeOK, BufferTerminated, NUL
<1>9. CASE StripNewline
  <2>1. line' \in [0..LINE_MAX-1 -> Byte]
    BY <1>9 DEF StripNewline, TypeOK, Byte, NUL
  <2>2. TypeOK'
    BY <1>9, <2>1 DEF StripNewline, kbd, TypeOK
  <2> QED
    BY <1>9, <2>2 DEF StripNewline, kbd, TypeOK, BufferTerminated, NUL
<1>10. CASE Exec
  <2>1. line' \in [0..LINE_MAX-1 -> Byte]
    BY <1>10 DEF Exec, TypeOK, Byte, NUL
  <2> QED
    BY <1>10, <2>1 DEF Exec, kbd, TypeOK, BufferTerminated
<1>11. CASE UNCHANGED vars
  BY <1>11 DEF vars, kbd, regs, TypeOK, BufferTerminated
<1> QED
  BY <1>1, <1>2, <1>3, <1>4, <1>5, <1>6, <1>7, <1>8, <1>9, <1>10, <1>11
     DEF Next, Reader

\* The driver and its reader keep every index and byte in range.
THEOREM TypeCorrect == Spec => []TypeOK
<1>1. IInv => TypeOK
  BY DEF IInv
<1> QED
  BY <1>1, InitInv, NextInv, PTL DEF Spec

\* kbd_readline never returns 0 and never more than max - 1, so that ksh_run's
\* line[len - 1] stays inside its array, and the line ends with a NUL: for
\* every interleaving with the keyboard interrupt and every buffer size.
THEOREM LineAlwaysUsable == Spec => []LineUsable
<1>1. IInv => LineUsable
  BY DEF IInv
<1> QED
  BY <1>1, InitInv, NextInv, PTL DEF Spec

\* The keyboard buffer is a terminated C string at every moment.
THEOREM BufferAlwaysTerminated == Spec => []BufferTerminated
<1>1. IInv => BufferTerminated
  BY DEF IInv
<1> QED
  BY <1>1, InitInv, NextInv, PTL DEF Spec

-----------------------------------------------------------------------------
(* KeyboardLine: the line that was typed.                                  *)

Clean == ~erased /\ ~wrapped

Waiting == pc \in {"hlt", "halted", "load", "check", "copy"}

\* What is remembered is a line of 7-bit characters and the two shift keys.
HTyped ==
  /\ TypeOK
  /\ typed \in Seq(1..127)
  /\ {entered, late, erased, wrapped} \subseteq BOOLEAN
  /\ down \subseteq {SC_LSHIFT, SC_RSHIFT}

\* Nothing was typed behind a newline: it can only end the line.
NewlineEnds ==
  ~late => \A k \in 1..Len(typed) :
             typed[k] = NL => entered /\ k = Len(typed)

\* The position in the register may be stale when it is tested.  If backspaces
\* have taken the line back below it since, they wrote a NUL there.
StaleNotNewline ==
  pc = "check" /\ Clean =>
    /\ start_pos <= p
    /\ p > kbd_buf.pos => kbd_buf.buf[p - 1] # NL

\* From the moment the newline is seen, the line is ended, the length is its
\* length, and the bytes copied so far are its first ones.
CopiedPrefix ==
  pc \in {"copy", "ret"} /\ Clean /\ ~late =>
    /\ entered
    /\ line_len = IF Len(typed) < LINE_MAX THEN Len(typed) ELSE LINE_MAX - 1
    /\ \A k \in 1..(IF pc = "copy" THEN i ELSE line_len) : line[k - 1] = typed[k]

ShiftHasKey == shift_held => down # {}

HInv ==
  /\ IInv
  /\ HTyped
  /\ BufferHoldsLine
  /\ NewlineEnds
  /\ StaleNotNewline
  /\ CopiedPrefix
  /\ ShiftHasKey

-----------------------------------------------------------------------------
(* One key.                                                                *)

Lines == Seq(1..127)

\* What the two edits do to the line, element by element.
LEMMA EditTyped ==
  ASSUME NEW text \in Lines, NEW c \in 1..127
  PROVE  /\ Edit(text, c) \in Lines
         /\ c # BS => /\ Len(Edit(text, c)) = Len(text) + 1
                      /\ Edit(text, c)[Len(text) + 1] = c
                      /\ \A k \in 1..Len(text) : Edit(text, c)[k] = text[k]
         /\ c = BS /\ text # <<>> =>
              /\ Len(text) >= 1
              /\ Len(Edit(text, c)) = Len(text) - 1
              /\ \A k \in 1..Len(text)-1 : Edit(text, c)[k] = text[k]
<1>1. CASE c # BS
  <2>1. Edit(text, c) = Append(text, c)
    BY <1>1 DEF Edit
  <2> QED
    BY <1>1, <2>1 DEF Lines
<1>2. CASE c = BS /\ text = <<>>
  BY <1>2 DEF Edit
<1>3. CASE c = BS /\ text # <<>>
  <2>1. Edit(text, c) = SubSeq(text, 1, Len(text) - 1)
    BY <1>3 DEF Edit
  <2>2. Len(text) \in Nat /\ Len(text) >= 1
    BY <1>3 DEF Lines
  <2>3. /\ SubSeq(text, 1, Len(text) - 1) \in Seq(1..127)
        /\ Len(SubSeq(text, 1, Len(text) - 1)) = Len(text) - 1
        /\ \A k \in 1..Len(text)-1 : SubSeq(text, 1, Len(text) - 1)[k] = text[k]
    <3> DEFINE last == Len(text) - 1
    <3>1. last \in Int /\ 1 \in Int /\ last >= 0
      BY <2>2
    <3>2. \A k \in 1..last : text[k] \in 1..127
      <4>1. \A k \in 1..Len(text) : text[k] \in 1..127
        BY ElementOfSeq DEF Lines
      <4>2. 1..last \subseteq 1..Len(text)
        BY <2>2
      <4> HIDE DEF last
      <4> QED
        BY <4>1, <4>2
    <3> HIDE DEF last
    <3>3. /\ SubSeq(text, 1, last) \in Seq(1..127)
          /\ Len(SubSeq(text, 1, last)) = IF 1 <= last THEN last - 1 + 1 ELSE 0
          /\ \A k \in 1..last-1+1 : SubSeq(text, 1, last)[k] = text[1+k-1]
      BY <3>1, <3>2, SubSeqProperties
    <3>4. /\ SubSeq(text, 1, last) \in Seq(1..127)
          /\ Len(SubSeq(text, 1, last)) = last
          /\ \A k \in 1..last : SubSeq(text, 1, last)[k] = text[k]
      <4>1. last - 1 + 1 = last /\ \A k \in 1..last : 1+k-1 = k
        BY <3>1
      <4> QED
        BY <3>1, <3>3, <4>1
    <3> QED
      BY <3>4 DEF last
  <2> QED
    BY <1>3, <2>1, <2>2, <2>3 DEF Lines
<1> QED
  BY <1>1, <1>2, <1>3

\* A key that leaves the line clean appends to buffer and line alike, or takes
\* the last character from both.
LEMMA CleanKey ==
  ASSUME TypeOK, typed \in Lines, NEW c \in 1..127,
         kbd_buf' = kbd_buffer_push(kbd_buf, c), Record(c), Clean'
  PROVE  /\ Clean
         /\ c # BS =>
              /\ kbd_buf.pos < KBD_BUF_SIZE - 1
              /\ kbd_buf'.pos = kbd_buf.pos + 1
              /\ kbd_buf'.buf = [kbd_buf.buf EXCEPT ![kbd_buf.pos] = c]
         /\ c = BS /\ kbd_buf.pos # 0 =>
              /\ kbd_buf'.pos = kbd_buf.pos - 1
              /\ kbd_buf'.buf = [kbd_buf.buf EXCEPT ![kbd_buf.pos - 1] = NUL]
         /\ c = BS => typed # <<>>
<1>1. Clean /\ (c = BS => typed # <<>>)
  BY DEF Clean, Record
<1>2. kbd_buf.pos \in 0..KBD_BUF_SIZE-1
  BY DEF TypeOK
<1>3. c # BS => kbd_buf.pos # KBD_BUF_SIZE - 1
  BY DEF Clean, Record
<1>4. ASSUME c # BS PROVE kbd_buf' = [buf |-> [kbd_buf.buf EXCEPT ![kbd_buf.pos] = c],
                          pos |-> kbd_buf.pos + 1]
  BY <1>3, <1>4 DEF kbd_buffer_push
<1>5. ASSUME c = BS, kbd_buf.pos # 0
      PROVE  kbd_buf' = [buf |-> [kbd_buf.buf EXCEPT ![kbd_buf.pos - 1] = NUL],
                         pos |-> kbd_buf.pos - 1]
  BY <1>5 DEF kbd_buffer_push, kbd_buf_pop
<1> QED
  BY <1>1, <1>2, <1>3, <1>4, <1>5, SizeAssumption

-----------------------------------------------------------------------------
(* The invariant, action by action.                                        *)

\* The parts of HInv that relate the line to the driver's and reader's state.
LineInv == BufferHoldsLine /\ NewlineEnds /\ StaleNotNewline /\ CopiedPrefix

LEMMA HInitInv == HInit => HInv
<1> SUFFICES ASSUME HInit PROVE HInv
  OBVIOUS
<1>1. IInv /\ TypeOK
  BY InitInv DEF HInit, IInv
<1>2. typed = <<>> /\ Len(typed) = 0 /\ typed \in Seq(1..127)
  BY DEF HInit
<1>3. HTyped
  BY <1>1, <1>2 DEF HInit, HTyped
<1>4. BufferHoldsLine /\ StaleNotNewline /\ CopiedPrefix /\ ShiftHasKey
  BY DEF HInit, Init, BufferHoldsLine, StaleNotNewline, CopiedPrefix, ShiftHasKey
<1>5. NewlineEnds
  BY <1>2 DEF NewlineEnds
<1> QED
  BY <1>1, <1>3, <1>4, <1>5 DEF HInv

\* An interrupt that types nothing at most ends a hlt.
LEMMA SilentKeeps ==
  ASSUME LineInv, UNCHANGED <<kbd_buf, regs, hist>>, Wake
  PROVE  LineInv'
<1> USE DEF LineInv, Wake, regs, hist
<1>1. BufferHoldsLine'
  BY DEF BufferHoldsLine
<1>2. NewlineEnds'
  BY DEF NewlineEnds
<1>3. StaleNotNewline'
  BY DEF StaleNotNewline, Clean
<1>4. CopiedPrefix'
  BY DEF CopiedPrefix, Clean
<1> QED
  BY <1>1, <1>2, <1>3, <1>4

\* A key that types a character edits buffer and line alike.
LEMMA KeyKeeps ==
  ASSUME HTyped, LineInv, NEW c \in 1..127,
         kbd_buf' = kbd_buffer_push(kbd_buf, c), Record(c),
         UNCHANGED regs, Wake
  PROVE  LineInv' /\ typed' \in Lines
<1> USE SizeAssumption
<1>1. TypeOK /\ typed \in Lines /\ Len(typed) \in Nat
  BY DEF HTyped, Lines
<1>2. /\ typed' \in Lines
      /\ c # BS => /\ Len(typed') = Len(typed) + 1
                   /\ typed'[Len(typed) + 1] = c
                   /\ \A k \in 1..Len(typed) : typed'[k] = typed[k]
      /\ c = BS /\ typed # <<>> =>
           /\ Len(typed) >= 1
           /\ Len(typed') = Len(typed) - 1
           /\ \A k \in 1..Len(typed)-1 : typed'[k] = typed[k]
  BY <1>1, EditTyped DEF Record
<1>3. /\ kbd_buf.pos \in 0..KBD_BUF_SIZE-1 /\ start_pos \in 0..KBD_BUF_SIZE-1
      /\ p \in 0..KBD_BUF_SIZE-1
      /\ kbd_buf.buf \in [0..KBD_BUF_SIZE-1 -> Byte]
  BY <1>1 DEF TypeOK
<1>4. Clean' =>
         /\ Clean
         /\ c # BS =>
              /\ kbd_buf.pos < KBD_BUF_SIZE - 1
              /\ kbd_buf'.pos = kbd_buf.pos + 1
              /\ kbd_buf'.buf = [kbd_buf.buf EXCEPT ![kbd_buf.pos] = c]
         /\ c = BS /\ kbd_buf.pos # 0 =>
              /\ kbd_buf'.pos = kbd_buf.pos - 1
              /\ kbd_buf'.buf = [kbd_buf.buf EXCEPT ![kbd_buf.pos - 1] = NUL]
         /\ c = BS => typed # <<>>
  BY <1>1, CleanKey
<1>5. BufferHoldsLine'
  <2> SUFFICES ASSUME Waiting', Clean'
               PROVE  /\ kbd_buf'.pos = start_pos' + Len(typed')
                      /\ \A k \in 1..Len(typed') :
                           kbd_buf'.buf[start_pos' + k - 1] = typed'[k]
    BY DEF BufferHoldsLine, Waiting, Clean
  <2>1. /\ kbd_buf.pos = start_pos + Len(typed)
        /\ \A k \in 1..Len(typed) : kbd_buf.buf[start_pos + k - 1] = typed[k]
    BY <1>4 DEF LineInv, BufferHoldsLine, Waiting, Clean, Wake
  <2>2. start_pos' = start_pos
    BY DEF regs
  <2>3. CASE c # BS
    <3>1. kbd_buf'.pos = start_pos' + Len(typed')
      BY <1>1, <1>2, <1>3, <1>4, <2>1, <2>2, <2>3
    <3>2. ASSUME NEW k \in 1..Len(typed')
          PROVE  kbd_buf'.buf[start_pos' + k - 1] = typed'[k]
      <4>1. start_pos + k - 1 \in 0..KBD_BUF_SIZE-1 /\ k \in 1..Len(typed)+1
        BY <1>1, <1>2, <1>3, <1>4, <2>1, <2>3
      <4>2. CASE k = Len(typed) + 1
        <5>1. start_pos + k - 1 = kbd_buf.pos
          BY <1>1, <1>3, <2>1, <4>2
        <5>2. kbd_buf'.buf[kbd_buf.pos] = c
          BY <1>3, <1>4, <2>3
        <5> QED
          BY <1>2, <2>2, <2>3, <4>2, <5>1, <5>2
      <4>3. CASE k \in 1..Len(typed)
        <5>1. start_pos + k - 1 # kbd_buf.pos
          BY <1>1, <1>3, <2>1, <4>3
        <5>2. kbd_buf'.buf[start_pos + k - 1] = kbd_buf.buf[start_pos + k - 1]
          BY <1>3, <1>4, <2>3, <4>1, <5>1
        <5> QED
          BY <1>2, <2>1, <2>2, <2>3, <4>3, <5>2
      <4> QED
        BY <1>1, <4>1, <4>2, <4>3
    <3> QED
      BY <3>1, <3>2
  <2>4. CASE c = BS
    <3>1. typed # <<>> /\ Len(typed) >= 1 /\ kbd_buf.pos # 0
      BY <1>2, <1>3, <1>4, <2>1, <2>4
    <3>2. kbd_buf'.pos = start_pos' + Len(typed')
      BY <1>1, <1>2, <1>3, <1>4, <2>1, <2>2, <2>4, <3>1
    <3>3. ASSUME NEW k \in 1..Len(typed')
          PROVE  kbd_buf'.buf[start_pos' + k - 1] = typed'[k]
      <4>1. k \in 1..Len(typed)-1 /\ k \in 1..Len(typed)
        BY <1>1, <1>2, <2>4, <3>1
      <4>2. /\ start_pos + k - 1 \in 0..KBD_BUF_SIZE-1
            /\ start_pos + k - 1 # kbd_buf.pos - 1
        BY <1>1, <1>3, <2>1, <4>1
      <4>3. kbd_buf'.buf[start_pos + k - 1] = kbd_buf.buf[start_pos + k - 1]
        BY <1>3, <1>4, <2>4, <3>1, <4>2
      <4> QED
        BY <1>2, <2>1, <2>2, <2>4, <3>1, <4>1, <4>3
    <3> QED
      BY <3>2, <3>3
  <2> QED
    BY <2>3, <2>4
<1>6. NewlineEnds'
  <2> SUFFICES ASSUME ~late', NEW k \in 1..Len(typed'), typed'[k] = NL
               PROVE  entered' /\ k = Len(typed')
    BY DEF NewlineEnds
  <2>1. ~late /\ ~entered
    BY DEF Record
  <2>2. \A j \in 1..Len(typed) : typed[j] # NL
    BY <2>1 DEF LineInv, NewlineEnds
  <2>3. CASE c # BS
    <3>1. CASE k \in 1..Len(typed)
      BY <1>2, <2>2, <2>3, <3>1
    <3>2. CASE k = Len(typed) + 1
      <4>1. c = NL
        BY <1>2, <2>3, <3>2
      <4> QED
        BY <1>2, <2>3, <3>2, <4>1 DEF Record
    <3>3. k \in 1..Len(typed)+1
      BY <1>2, <2>3
    <3> QED
      BY <1>1, <3>1, <3>2, <3>3
  <2>4. CASE c = BS /\ typed # <<>>
    BY <1>1, <1>2, <2>2, <2>4
  <2>5. CASE c = BS /\ typed = <<>>
    BY <2>2, <2>5 DEF Record, Edit
  <2> QED
    BY <2>3, <2>4, <2>5
<1>7. StaleNotNewline'
  <2> SUFFICES ASSUME pc' = "check", Clean'
               PROVE  /\ start_pos <= p
                      /\ p > kbd_buf'.pos => kbd_buf'.buf[p - 1] # NL
    BY DEF StaleNotNewline, regs
  <2>1. /\ pc = "check" /\ Clean
        /\ start_pos <= p
        /\ p > kbd_buf.pos => kbd_buf.buf[p - 1] # NL
    BY <1>4 DEF Wake, LineInv, StaleNotNewline
  <2>2. CASE c # BS
    <3> SUFFICES ASSUME p > kbd_buf'.pos PROVE kbd_buf'.buf[p - 1] # NL
      BY <2>1
    <3>1. p > kbd_buf.pos /\ p - 1 # kbd_buf.pos /\ p - 1 \in 0..KBD_BUF_SIZE-1
      BY <1>3, <1>4, <2>2
    <3>2. kbd_buf'.buf[p - 1] = kbd_buf.buf[p - 1]
      BY <1>3, <1>4, <2>2, <3>1
    <3> QED
      BY <2>1, <3>1, <3>2
  <2>3. CASE c = BS
    <3> SUFFICES ASSUME p > kbd_buf'.pos PROVE kbd_buf'.buf[p - 1] # NL
      BY <2>1
    <3>1. kbd_buf.pos = start_pos + Len(typed)
      BY <2>1 DEF LineInv, BufferHoldsLine, Clean
    <3>2. kbd_buf.pos # 0
      BY <1>1, <1>2, <1>3, <1>4, <2>3, <3>1
    <3>3. p - 1 \in 0..KBD_BUF_SIZE-1 /\ p >= kbd_buf.pos
      BY <1>3, <1>4, <2>3, <3>2
    <3>4. CASE p = kbd_buf.pos
      <4>1. kbd_buf'.buf[p - 1] = NUL
        BY <1>3, <1>4, <2>3, <3>2, <3>3, <3>4
      <4> QED
        BY <4>1 DEF NUL, NL
    <3>5. CASE p > kbd_buf.pos
      <4>1. kbd_buf'.buf[p - 1] = kbd_buf.buf[p - 1]
        BY <1>3, <1>4, <2>3, <3>2, <3>3, <3>5
      <4> QED
        BY <2>1, <3>5, <4>1
    <3> QED
      BY <1>3, <3>3, <3>4, <3>5
  <2> QED
    BY <2>2, <2>3
<1>8. CopiedPrefix'
  BY <1>4 DEF LineInv, CopiedPrefix, Record, Wake
<1> QED
  BY <1>2, <1>5, <1>6, <1>7, <1>8 DEF LineInv

\* The test that ends the wait: with a clean line nobody has typed behind, a
\* newline in front of p is the end of the line, so that p has not gone stale.
LEMMA CheckFindsEnd ==
  ASSUME HTyped, LineInv, pc = "check", Clean, ~late,
         p # start_pos, p # 0, kbd_buf.buf[p - 1] = NL
  PROVE  entered /\ p = start_pos + Len(typed)
<1>1. /\ kbd_buf.pos \in 0..KBD_BUF_SIZE-1 /\ start_pos \in 0..KBD_BUF_SIZE-1
      /\ p \in 0..KBD_BUF_SIZE-1 /\ Len(typed) \in Nat
  BY SizeAssumption DEF HTyped, TypeOK
<1>2. start_pos <= p /\ ~(p > kbd_buf.pos)
  BY DEF LineInv, StaleNotNewline
<1>3. /\ kbd_buf.pos = start_pos + Len(typed)
      /\ \A k \in 1..Len(typed) : kbd_buf.buf[start_pos + k - 1] = typed[k]
  BY DEF LineInv, BufferHoldsLine, Clean
<1> DEFINE at == p - start_pos
<1>4. at \in 1..Len(typed) /\ p - 1 = start_pos + at - 1
  BY <1>1, <1>2, <1>3, SizeAssumption
<1> HIDE DEF at
<1>5. typed[at] = NL
  BY <1>3, <1>4
<1>6. entered /\ at = Len(typed)
  BY <1>4, <1>5 DEF LineInv, NewlineEnds
<1> QED
  BY <1>1, <1>6, SizeAssumption DEF at

\* The length of a piece of the buffer that does not wrap.
LEMMA ClippedLenOfLine ==
  ASSUME NEW from \in 0..KBD_BUF_SIZE-1, NEW len \in Nat,
         from + len \in 0..KBD_BUF_SIZE-1
  PROVE  ClippedLen(from, from + len) = IF len < LINE_MAX THEN len ELSE LINE_MAX - 1
<1>1. len \in 0..SIZE_T-1 /\ from + len - from = len
  BY SizeAssumption
<1>2. (from + len - from) % SIZE_T = len
  BY <1>1, SizeAssumption
<1> QED
  BY <1>2, SizeAssumption DEF ClippedLen

\* A step of the reader: what it does to the relation of line and buffer.
LEMMA ReaderKeeps ==
  ASSUME HInv, HReader
  PROVE  LineInv'
<1> USE SizeAssumption
<1>1. /\ HTyped /\ TypeOK /\ LineInv /\ Len(typed) \in Nat
      /\ kbd_buf.pos \in 0..KBD_BUF_SIZE-1 /\ start_pos \in 0..KBD_BUF_SIZE-1
      /\ p \in 0..KBD_BUF_SIZE-1 /\ i \in 0..LINE_MAX-1
      /\ line_len \in 0..LINE_MAX-1
      /\ line \in [0..LINE_MAX-1 -> Byte]
  BY DEF HInv, LineInv, HTyped, TypeOK
<1>2. CASE HReadlineEnter
  <2>1. Len(typed') = 0 /\ kbd_buf' = kbd_buf /\ start_pos' = kbd_buf.pos
    BY <1>2 DEF HReadlineEnter, ReadlineEnter, kbd
  <2>2. BufferHoldsLine' /\ NewlineEnds'
    BY <1>1, <2>1 DEF BufferHoldsLine, NewlineEnds
  <2>3. StaleNotNewline' /\ CopiedPrefix'
    BY <1>2 DEF HReadlineEnter, ReadlineEnter, StaleNotNewline, CopiedPrefix
  <2> QED
    BY <2>2, <2>3 DEF LineInv
<1>3. CASE Hlt /\ UNCHANGED hist
  BY <1>1, <1>3 DEF Hlt, kbd, regs, hist, LineInv, BufferHoldsLine, NewlineEnds,
                    StaleNotNewline, CopiedPrefix, Clean
<1>4. CASE LoadPos /\ UNCHANGED hist
  <2>1. BufferHoldsLine' /\ NewlineEnds' /\ CopiedPrefix'
    BY <1>1, <1>4 DEF LoadPos, kbd, hist, LineInv, BufferHoldsLine, NewlineEnds,
                      CopiedPrefix
  <2>2. StaleNotNewline'
    BY <1>1, <1>4 DEF LoadPos, kbd, hist, LineInv, BufferHoldsLine,
                      StaleNotNewline, Clean
  <2> QED
    BY <2>1, <2>2 DEF LineInv
<1>5. CASE CheckLine /\ UNCHANGED hist
  <2>1. BufferHoldsLine' /\ NewlineEnds'
    BY <1>1, <1>5 DEF CheckLine, kbd, hist, LineInv, BufferHoldsLine, NewlineEnds
  <2>2. StaleNotNewline'
    BY <1>5 DEF CheckLine, StaleNotNewline
  <2>3. CopiedPrefix'
    <3> SUFFICES ASSUME pc' = "copy", Clean', ~late'
                 PROVE  /\ entered'
                        /\ line_len' = IF Len(typed') < LINE_MAX
                                       THEN Len(typed') ELSE LINE_MAX - 1
                        /\ i' = 0
      BY <1>5 DEF CheckLine, CopiedPrefix
    <3>1. /\ p # start_pos /\ p # 0 /\ kbd_buf.buf[p - 1] = NL
          /\ line_len' = ClippedLen(start_pos, p) /\ i' = 0
      BY <1>5 DEF CheckLine
    <3>2. Clean /\ ~late /\ pc = "check" /\ typed' = typed /\ entered' = entered
      BY <1>5 DEF CheckLine, hist, Clean
    <3>3. entered /\ p = start_pos + Len(typed)
      BY <1>1, <3>1, <3>2, CheckFindsEnd
    <3>4. ClippedLen(start_pos, p)
            = IF Len(typed) < LINE_MAX THEN Len(typed) ELSE LINE_MAX - 1
      BY <1>1, <3>3, ClippedLenOfLine
    <3> QED
      BY <3>1, <3>2, <3>3, <3>4
  <2> QED
    BY <2>1, <2>2, <2>3 DEF LineInv
<1>6. CASE CopyByte /\ UNCHANGED hist
  <2>1. BufferHoldsLine' /\ NewlineEnds'
    BY <1>1, <1>6 DEF CopyByte, kbd, hist, LineInv, BufferHoldsLine, NewlineEnds
  <2>2. StaleNotNewline'
    BY <1>6 DEF CopyByte, StaleNotNewline
  <2>3. CopiedPrefix'
    <3> SUFFICES ASSUME Clean, ~late
                 PROVE  /\ entered
                        /\ line_len = IF Len(typed) < LINE_MAX
                                      THEN Len(typed) ELSE LINE_MAX - 1
                        /\ \A k \in 1..i+1 : line'[k - 1] = typed[k]
      BY <1>6 DEF CopyByte, CopiedPrefix, Clean, hist
    <3>1. /\ entered
          /\ line_len = IF Len(typed) < LINE_MAX
                        THEN Len(typed) ELSE LINE_MAX - 1
          /\ \A k \in 1..i : line[k - 1] = typed[k]
      BY <1>1, <1>6 DEF CopyByte, LineInv, CopiedPrefix
    <3>2. i < line_len /\ i + 1 \in 1..Len(typed)
      BY <1>1, <1>6, <3>1 DEF CopyByte
    <3>3. /\ kbd_buf.pos = start_pos + Len(typed)
          /\ kbd_buf.buf[start_pos + (i + 1) - 1] = typed[i + 1]
      BY <1>1, <1>6, <3>2 DEF CopyByte, LineInv, BufferHoldsLine, Clean
    <3>4. start_pos + i < KBD_BUF_SIZE /\ start_pos + (i + 1) - 1 = start_pos + i
      <4>1. i + 1 <= Len(typed) /\ kbd_buf.pos = start_pos + Len(typed)
        BY <1>1, <3>2, <3>3
      <4> QED
        BY <1>1, <4>1
    <3>5. line' = [line EXCEPT ![i] = typed[i + 1]]
      BY <1>6, <3>3, <3>4 DEF CopyByte
    <3>6. ASSUME NEW k \in 1..i+1 PROVE line'[k - 1] = typed[k]
      <4>1. CASE k = i + 1
        BY <1>1, <3>5, <4>1
      <4>2. CASE k \in 1..i
        <5>1. k - 1 # i /\ k - 1 \in 0..LINE_MAX-1
          BY <1>1, <4>2
        <5> QED
          BY <1>1, <3>1, <3>5, <4>2, <5>1
      <4> QED
        BY <1>1, <4>1, <4>2
    <3> QED
      BY <3>1, <3>6
  <2> QED
    BY <2>1, <2>2, <2>3 DEF LineInv
<1>7. CASE ReadlineReturn /\ UNCHANGED hist
  <2>1. BufferHoldsLine' /\ NewlineEnds' /\ StaleNotNewline'
    BY <1>1, <1>7 DEF ReadlineReturn, kbd, hist, LineInv, BufferHoldsLine,
                      NewlineEnds, StaleNotNewline
  <2>2. CopiedPrefix'
    <3>1. /\ \A k \in 1..line_len : line'[k - 1] = line[k - 1]
          /\ i = line_len /\ line_len' = line_len
      BY <1>1, <1>7 DEF ReadlineReturn
    <3> QED
      BY <1>1, <1>7, <3>1 DEF ReadlineReturn, hist, LineInv, CopiedPrefix, Clean
  <2> QED
    BY <2>1, <2>2 DEF LineInv
<1>8. CASE (StripNewline \/ Exec) /\ UNCHANGED hist
  BY <1>1, <1>8 DEF StripNewline, Exec, hist, LineInv, BufferHoldsLine,
                    NewlineEnds, StaleNotNewline, CopiedPrefix
<1> QED
  BY <1>2, <1>3, <1>4, <1>5, <1>6, <1>7, <1>8 DEF HReader

LEMMA HNextInv == HInv /\ [HNext]_hvars => HInv'
<1> SUFFICES ASSUME HInv, [HNext]_hvars PROVE HInv'
  OBVIOUS
<1>1. HTyped /\ TypeOK /\ LineInv
  BY DEF HInv, LineInv, HTyped
<1>2. IInv'
  <2>1. [Next]_vars
    BY DEF HNext, HShiftIrq, HKeyIrq, HTimerIrq, HReader, HReadlineEnter, Next,
           Reader, hvars
  <2> QED
    BY <2>1, NextInv DEF HInv
<1> SUFFICES LineInv' /\ HTyped' /\ ShiftHasKey'
  BY <1>2 DEF HInv, LineInv
<1>3. TypeOK'
  BY <1>2 DEF IInv
<1>4. ASSUME NEW sc \in Scancodes, HShiftIrq(sc)
      PROVE  LineInv' /\ HTyped' /\ ShiftHasKey'
  <2>1. sc \in 0..255 /\ sc % 128 \in 0..127 /\ (sc < 128 => sc % 128 = sc)
    BY InputAssumption
  <2>2. /\ UNCHANGED <<kbd_buf, regs, hist>> /\ Wake
        /\ shift_held' = ~(sc >= 128)
    BY <1>4 DEF HShiftIrq, ShiftCode, KbdIrq, kbd_handle_scancode
  <2>3. LineInv'
    BY <1>1, <2>2, SilentKeeps
  <2>4. /\ sc % 128 \in {SC_LSHIFT, SC_RSHIFT}
        /\ down' = IF sc >= 128 THEN down \ {sc % 128} ELSE down \cup {sc}
    BY <1>4 DEF HShiftIrq, ShiftCode
  <2>5. down' \subseteq {SC_LSHIFT, SC_RSHIFT}
    <3>1. CASE sc >= 128
      BY <1>1, <2>4, <3>1 DEF HTyped
    <3>2. CASE sc < 128
      BY <1>1, <2>1, <2>4, <3>2 DEF HTyped
    <3> QED
      BY <2>1, <3>1, <3>2
  <2>6. ShiftHasKey'
    BY <2>2, <2>4 DEF ShiftHasKey
  <2> QED
    BY <1>1, <1>3, <2>2, <2>3, <2>5, <2>6 DEF HTyped, hist
<1>5. ASSUME NEW sc \in Scancodes, HKeyIrq(sc)
      PROVE  LineInv' /\ HTyped' /\ ShiftHasKey'
  <2>1. sc \in 0..255 /\ sc % 128 \in 0..127 /\ (sc < 128 => sc % 128 = sc)
    BY InputAssumption
  <2>2. /\ UNCHANGED <<regs, down>> /\ Wake /\ shift_held' = shift_held
    BY <1>5 DEF HKeyIrq, ShiftCode, KbdIrq, kbd_handle_scancode, kbd
  <2>3. ShiftHasKey'
    BY <2>2 DEF HInv, ShiftHasKey
  <2>4. CASE sc >= 128 \/ KeyChar(sc) = NUL
    <3>1. UNCHANGED <<kbd_buf, regs, hist>>
      BY <1>5, <2>1, <2>2, <2>4
         DEF HKeyIrq, ShiftCode, KbdIrq, kbd_handle_scancode, kbd
    <3>2. LineInv'
      BY <1>1, <2>2, <3>1, SilentKeeps
    <3> QED
      BY <1>1, <1>3, <2>2, <2>3, <3>1, <3>2 DEF HTyped, hist
  <2>5. CASE ~(sc >= 128 \/ KeyChar(sc) = NUL)
    <3> DEFINE c == KeyChar(sc)
    <3>1. sc \in 0..127 /\ sc % 128 = sc
      BY <2>1, <2>5
    <3>2. c \in 1..127
      <4>1. shift_held \in BOOLEAN
        BY <1>1 DEF TypeOK
      <4>2. KeyChar(sc) \in 0..127
        BY <3>1, <4>1, KeyCharTyped
      <4> QED
        BY <2>5, <4>2 DEF NUL
    <3>3. kbd_buf' = kbd_buffer_push(kbd_buf, c) /\ Record(c)
      BY <1>5, <2>5, <3>1
         DEF HKeyIrq, ShiftCode, KbdIrq, kbd_handle_scancode, kbd
    <3> HIDE DEF c
    <3>4. LineInv' /\ typed' \in Lines
      BY <1>1, <2>2, <3>2, <3>3, KeyKeeps
    <3>5. {entered', late', erased', wrapped'} \subseteq BOOLEAN
      BY <1>1, <3>3 DEF HTyped, Record
    <3> QED
      BY <1>1, <1>3, <2>2, <2>3, <3>4, <3>5 DEF HTyped, Lines
  <2> QED
    BY <2>4, <2>5
<1>6. CASE HTimerIrq
  <2>1. UNCHANGED <<kbd_buf, regs, hist>> /\ Wake /\ UNCHANGED <<shift_held, down>>
    BY <1>6 DEF HTimerIrq, TimerIrq, kbd
  <2>2. LineInv'
    BY <1>1, <2>1, SilentKeeps
  <2> QED
    BY <1>1, <1>3, <2>1, <2>2 DEF HInv, HTyped, ShiftHasKey, hist
<1>7. CASE HReader
  <2>1. LineInv'
    BY <1>7, ReaderKeeps
  <2>2. UNCHANGED <<shift_held, down>>
    BY <1>7 DEF HReader, HReadlineEnter, ReadlineEnter, Hlt, LoadPos, CheckLine,
                CopyByte, ReadlineReturn, StripNewline, Exec, kbd
  <2>3. /\ typed' \in Seq(1..127)
        /\ {entered', late', erased', wrapped'} \subseteq BOOLEAN
    <3>1. CASE HReadlineEnter
      <4>1. typed' = <<>> /\ <<>> \in Seq(1..127)
        BY <3>1 DEF HReadlineEnter
      <4>2. /\ entered' = FALSE /\ late' = FALSE
            /\ erased' = FALSE /\ wrapped' = FALSE
        BY <3>1 DEF HReadlineEnter
      <4> QED
        BY <4>1, <4>2
    <3>2. CASE UNCHANGED hist
      BY <1>1, <3>2 DEF HTyped, hist
    <3> QED
      BY <1>7, <3>1, <3>2 DEF HReader
  <2> QED
    BY <1>1, <1>3, <2>1, <2>2, <2>3 DEF HInv, HTyped, ShiftHasKey
<1>8. CASE UNCHANGED hvars
  <2>1. UNCHANGED <<kbd_buf, shift_held, pc, regs, hist, down>>
    BY <1>8 DEF hvars, vars, kbd
  <2>2. LineInv'
    BY <1>1, <2>1 DEF LineInv, regs, hist, BufferHoldsLine, NewlineEnds,
                      StaleNotNewline, CopiedPrefix, Clean
  <2> QED
    BY <1>1, <1>3, <2>1, <2>2 DEF HInv, HTyped, ShiftHasKey, hist
<1> QED
  BY <1>4, <1>5, <1>6, <1>7, <1>8 DEF HNext

-----------------------------------------------------------------------------
(* The theorems.                                                           *)

\* While a clean line is being typed, kbd_buf holds it from start_pos on,
\* wherever the line lies in the buffer and however it is taken back.
THEOREM BufferAlwaysHoldsLine == HSpec => []BufferHoldsLine
<1>1. HInv => BufferHoldsLine
  BY DEF HInv
<1> QED
  BY <1>1, HInitInv, HNextInv, PTL DEF HSpec

\* kbd_readline gives its caller exactly the line the user typed, cut to what
\* fits, for every interleaving of keys, timer interrupts and its own loads
\* and stores: though it tests a position that may have gone stale.
THEOREM CleanLinesDelivered == HSpec => []CleanLineDelivered
<1>1. HInv => CleanLineDelivered
  BY DEF HInv, CopiedPrefix, CleanLineDelivered, Delivered, Clean
<1> QED
  BY <1>1, HInitInv, HNextInv, PTL DEF HSpec

\* shift_held never outlives the last shift key.
THEOREM ShiftNeverStuck == HSpec => []NoStuckShift
<1>1. HInv => NoStuckShift
  BY DEF HInv, ShiftHasKey, NoStuckShift
<1> QED
  BY <1>1, HInitInv, HNextInv, PTL DEF HSpec
=============================================================================
