------------------------------ MODULE Keyboard ------------------------------
(***************************************************************************)
(* The PS/2 keyboard driver of kernel/keyboard.c and its only client, the  *)
(* read loop of the kernel shell (ksh_run in kernel/ksh/ksh.c).            *)
(*                                                                         *)
(* Two actors share kbd_buf without a lock:                                *)
(*   - the IRQ1 handler, which runs to completion with interrupts disabled *)
(*     (every IDT gate is an interrupt gate), so it is one atomic action;  *)
(*   - the kernel's only thread, in kbd_readline or in its caller, which   *)
(*     an interrupt may stop between any two of its loads and stores, so   *)
(*     each access to shared memory is an action of its own.               *)
(*                                                                         *)
(* kbd_buf is not volatile.  The build (gcc -O2) treats the non-empty basic*)
(* asm "hlt" as a memory clobber and therefore reloads kbd_buf.pos after   *)
(* every hlt, once: the register `p` below.  The test and the subtraction  *)
(* that follow both use that register.                                     *)
(***************************************************************************)
EXTENDS Integers, Sequences

CONSTANTS
  KBD_BUF_SIZE,  \* sizeof(kbd_buf.buf), 2048 in keyboard.h
  LINE_MAX,      \* sizeof(line) in ksh_run, the `max` of kbd_readline: 128
  SIZE_T,        \* number of values of a size_t: 2^64
  Scancodes,     \* the bytes the keyboard may put in port 0x60
  Stray,         \* the bytes that may lie in memory behind kbd_buf.buf
  Console,       \* the states of the console the driver echoes to
  Echo(_, _)     \* what kprintf("%c", c) does to a console state

ASSUME SizeAssumption ==
  /\ KBD_BUF_SIZE \in Nat /\ KBD_BUF_SIZE >= 2
  /\ LINE_MAX \in Nat /\ LINE_MAX >= 2
  /\ SIZE_T \in Nat /\ SIZE_T >= KBD_BUF_SIZE + LINE_MAX

ASSUME InputAssumption ==
  /\ Scancodes \subseteq 0..255
  /\ Stray \subseteq 0..255 /\ Stray # {}

ASSUME EchoAssumption ==
  \A con \in Console, c \in 1..127 : Echo(con, c) \in Console

NUL == 0
BS  == 8
NL  == 10
Byte == 0..255

SC_LSHIFT == 42
SC_RSHIFT == 54

\* The two scan code tables, from code 0 to code 57; codes above are 0 in C.
PlainKeys == <<
  0, 27, 49, 50, 51, 52, 53, 54, 55, 56, 57, 48, 45, 61, 8,
  9, 113, 119, 101, 114, 116, 121, 117, 105, 111, 112, 91, 93, 10,
  0, 97, 115, 100, 102, 103, 104, 106, 107, 108, 59, 39, 96,
  0, 92, 122, 120, 99, 118, 98, 110, 109, 44, 46, 47, 0, 42, 0, 32 >>

ShiftKeys == <<
  0, 27, 33, 64, 35, 36, 37, 94, 38, 42, 40, 41, 95, 43, 8,
  9, 81, 87, 69, 82, 84, 89, 85, 73, 79, 80, 123, 125, 10,
  0, 65, 83, 68, 70, 71, 72, 74, 75, 76, 58, 34, 126,
  0, 124, 90, 88, 67, 86, 66, 78, 77, 60, 62, 63, 0, 42, 0, 32 >>

scancode_ascii[code \in 0..127] ==
  IF code < 58 THEN PlainKeys[code + 1] ELSE NUL

scancode_ascii_shift[code \in 0..127] ==
  IF code < 58 THEN ShiftKeys[code + 1] ELSE NUL

VARIABLES
  kbd_buf,     \* [buf, pos]: the characters, and the index of the next one
  shift_held,
  con,         \* the console, written by the echo
  pc,          \* where the kernel thread is
  start_pos,   \* local of kbd_readline
  p,           \* the register kbd_buf.pos is loaded into after each hlt
  line_len,    \* local of kbd_readline, and its result
  i,           \* index of the kmemcpy loop
  line         \* the caller's buffer, `line` of ksh_run

kbd  == <<kbd_buf, shift_held, con>>
regs == <<start_pos, p, line_len, i, line>>
vars == <<kbd, pc, regs>>

Init ==
  /\ kbd_buf = [buf |-> [k \in 0..KBD_BUF_SIZE-1 |-> NUL], pos |-> 0]
  /\ shift_held = FALSE
  /\ con \in Console
  /\ pc = "call"
  /\ start_pos = 0 /\ p = 0 /\ line_len = 0 /\ i = 0
  /\ line = [k \in 0..LINE_MAX-1 |-> NUL]

-----------------------------------------------------------------------------
(* The interrupt handler's side.                                           *)

\* Mutant: the pop without its test for an empty buffer.
kbd_buf_pop_unguarded(b) ==
  [buf |-> [b.buf EXCEPT ![b.pos - 1] = NUL], pos |-> b.pos - 1]

kbd_buf_pop(b) ==
  IF b.pos = 0 THEN b
  ELSE [buf |-> [b.buf EXCEPT ![b.pos - 1] = NUL], pos |-> b.pos - 1]

\* Mutant: an ordinary ring buffer, which uses its last byte too.
kbd_buffer_push_ring(b, c) ==
  IF c = BS THEN kbd_buf_pop(b)
  ELSE [buf |-> [b.buf EXCEPT ![b.pos] = c], pos |-> (b.pos + 1) % KBD_BUF_SIZE]

\* A full buffer restarts at index 0; the last byte is never written.
kbd_buffer_push(b, c) ==
  IF c = BS THEN kbd_buf_pop(b)
  ELSE LET at == IF b.pos = KBD_BUF_SIZE - 1 THEN 0 ELSE b.pos
       IN  [buf |-> [b.buf EXCEPT ![at] = c], pos |-> at + 1]

\* The character a make code stands for, NUL for a key without one.
KeyChar(code) ==
  IF shift_held THEN scancode_ascii_shift[code] ELSE scancode_ascii[code]

\* Mutant: key releases are thrown away before shift is looked at.
kbd_handle_scancode_releases_dropped(sc) ==
  LET code == sc % 128
      c    == KeyChar(code)
  IN  \/ /\ sc < 128 /\ code \in {SC_LSHIFT, SC_RSHIFT}
         /\ shift_held' = TRUE
         /\ UNCHANGED <<kbd_buf, con>>
      \/ /\ sc >= 128 \/ (code \notin {SC_LSHIFT, SC_RSHIFT} /\ c = NUL)
         /\ UNCHANGED kbd
      \/ /\ sc < 128 /\ code \notin {SC_LSHIFT, SC_RSHIFT} /\ c # NUL
         /\ kbd_buf' = kbd_buffer_push(kbd_buf, c)
         /\ con' = Echo(con, c)
         /\ UNCHANGED shift_held

kbd_handle_scancode(sc) ==
  LET released == sc >= 128
      code     == sc % 128
      c        == KeyChar(code)
  IN  \/ /\ code \in {SC_LSHIFT, SC_RSHIFT}
         /\ shift_held' = ~released
         /\ UNCHANGED <<kbd_buf, con>>
      \/ /\ code \notin {SC_LSHIFT, SC_RSHIFT}
         /\ released \/ c = NUL
         /\ UNCHANGED kbd
      \/ /\ code \notin {SC_LSHIFT, SC_RSHIFT}
         /\ ~released /\ c # NUL
         /\ kbd_buf' = kbd_buffer_push(kbd_buf, c)
         /\ con' = Echo(con, c)
         /\ UNCHANGED shift_held

\* Any interrupt ends the hlt the thread is in, and only that one.
Wake == pc' = IF pc = "halted" THEN "load" ELSE pc

\* IRQ1: read port 0x60 and handle the byte.
KbdIrq(sc) ==
  /\ kbd_handle_scancode(sc)
  /\ Wake
  /\ UNCHANGED regs

\* Mutant: IRQ0 left masked, so that only a key ends a hlt.
TimerIrq_masked ==
  /\ pc = "halted"
  /\ UNCHANGED <<kbd, pc, regs>>

\* IRQ0, 100 times a second: to this component it is only a wake-up.
TimerIrq ==
  /\ pc = "halted"
  /\ Wake
  /\ UNCHANGED <<kbd, regs>>

-----------------------------------------------------------------------------
(* The thread's side: kbd_readline(line, sizeof(line)) and its caller.     *)

\* Mutant: start_pos kept from one call to the next, as if it were static.
ReadlineEnter_static_start ==
  /\ pc = "call"
  /\ pc' = "hlt"
  /\ UNCHANGED <<kbd, start_pos, p, line_len, i, line>>

\* size_t start_pos = kbd_buf.pos, on entry.
ReadlineEnter ==
  /\ pc = "call"
  /\ start_pos' = kbd_buf.pos
  /\ pc' = "hlt"
  /\ UNCHANGED <<kbd, p, line_len, i, line>>

\* The hlt instruction: an interrupt that came before it does not end it.
Hlt ==
  /\ pc = "hlt"
  /\ pc' = "halted"
  /\ UNCHANGED <<kbd, regs>>

LoadPos ==
  /\ pc = "load"
  /\ p' = kbd_buf.pos
  /\ pc' = "check"
  /\ UNCHANGED <<kbd, start_pos, line_len, i, line>>

\* The number of bytes to copy: an unsigned difference, cut to max - 1.
ClippedLen(from, to) ==
  LET n == (to - from) % SIZE_T
  IN  IF n >= LINE_MAX THEN LINE_MAX - 1 ELSE n

\* Mutant: the wait ends on a newline without asking whether anything came.
CheckLine_no_progress ==
  /\ pc = "check"
  /\ \/ /\ p # 0 /\ kbd_buf.buf[p - 1] = NL
        /\ line_len' = ClippedLen(start_pos, p)
        /\ i' = 0
        /\ pc' = "copy"
     \/ /\ ~ (p # 0 /\ kbd_buf.buf[p - 1] = NL)
        /\ pc' = "hlt"
        /\ UNCHANGED <<line_len, i>>
  /\ UNCHANGED <<kbd, start_pos, p, line>>

\* Three conditions end the wait; else the loop halts again.
CheckLine ==
  /\ pc = "check"
  /\ \/ /\ p # start_pos /\ p # 0 /\ kbd_buf.buf[p - 1] = NL
        /\ line_len' = ClippedLen(start_pos, p)
        /\ i' = 0
        /\ pc' = "copy"
     \/ /\ ~ (p # start_pos /\ p # 0 /\ kbd_buf.buf[p - 1] = NL)
        /\ pc' = "hlt"
        /\ UNCHANGED <<line_len, i>>
  /\ UNCHANGED <<kbd, start_pos, p, line>>

\* One round of kmemcpy.  Nothing keeps the source inside the buffer.
CopyByte ==
  /\ pc = "copy" /\ i < line_len
  /\ \E b \in IF start_pos + i < KBD_BUF_SIZE
              THEN {kbd_buf.buf[start_pos + i]} ELSE Stray :
       line' = [line EXCEPT ![i] = b]
  /\ i' = i + 1
  /\ UNCHANGED <<kbd, pc, start_pos, p, line_len>>

\* Mutant: the NUL goes over the last character instead of behind it.
ReadlineReturn_over_last ==
  /\ pc = "copy" /\ i = line_len
  /\ line' = [line EXCEPT ![line_len - 1] = NUL]
  /\ pc' = "ret"
  /\ UNCHANGED <<kbd, start_pos, p, line_len, i>>

ReadlineReturn ==
  /\ pc = "copy" /\ i = line_len
  /\ line' = [line EXCEPT ![line_len] = NUL]
  /\ pc' = "ret"
  /\ UNCHANGED <<kbd, start_pos, p, line_len, i>>

\* ksh_run drops the newline: line[len - 1] = '\0'.
StripNewline ==
  /\ pc = "ret"
  /\ line' = [line EXCEPT ![line_len - 1] = NUL]
  /\ pc' = "exec"
  /\ UNCHANGED <<kbd, start_pos, p, line_len, i>>

\* ksh_exec ends the command name with one '\0' in the line, runs the command
\* and returns to the loop of ksh_run.
Exec ==
  /\ pc = "exec"
  /\ \E k \in 0..LINE_MAX-1 : line' = [line EXCEPT ![k] = NUL]
  /\ pc' = "call"
  /\ UNCHANGED <<kbd, start_pos, p, line_len, i>>

Reader ==
  \/ ReadlineEnter \/ Hlt \/ LoadPos \/ CheckLine
  \/ CopyByte \/ ReadlineReturn \/ StripNewline \/ Exec

Next ==
  \/ \E sc \in Scancodes : KbdIrq(sc)
  \/ TimerIrq
  \/ Reader

Spec == Init /\ [][Next]_vars

\* The thread is the only one and is never descheduled; the PIT keeps ticking
\* and IRQ0 has the highest priority.  The user owes the system nothing.
Fairness == WF_vars(Reader) /\ WF_vars(TimerIrq)

FairSpec == Spec /\ Fairness

-----------------------------------------------------------------------------
(* Properties.                                                             *)

TypeOK ==
  /\ kbd_buf \in [buf : [0..KBD_BUF_SIZE-1 -> Byte], pos : 0..KBD_BUF_SIZE-1]
  /\ shift_held \in BOOLEAN
  /\ con \in Console
  /\ pc \in {"call", "hlt", "halted", "load", "check", "copy", "ret", "exec"}
  /\ start_pos \in 0..KBD_BUF_SIZE-1
  /\ p \in 0..KBD_BUF_SIZE-1
  /\ line_len \in 0..LINE_MAX-1
  /\ i \in 0..LINE_MAX-1
  /\ line \in [0..LINE_MAX-1 -> Byte]

\* However the two actors interleave, kbd_readline returns a length that lets
\* ksh_run write line[len - 1] inside its array, and the line it hands over
\* ends with a NUL at line[len].
LineUsable ==
  pc = "ret" => /\ line_len \in 1..LINE_MAX-1
                /\ line[line_len] = NUL

\* The buffer handed out by kbd_get_buf_ptr is always a C string: the push
\* never writes its last byte, however often it wraps.
BufferTerminated == kbd_buf.buf[KBD_BUF_SIZE - 1] = NUL

\* A complete line is waiting for a thread that waits for one.
LinePending ==
  /\ pc \in {"hlt", "halted", "load", "check"}
  /\ kbd_buf.pos \notin {0, start_pos}
  /\ kbd_buf.buf[kbd_buf.pos - 1] = NL

\* Once the user stops typing, a complete line does not stay pending: even when
\* its newline arrives between the test of kbd_readline and its hlt, the next
\* timer interrupt ends the hlt.
PendingLineRead ==
  <>[][UNCHANGED kbd_buf]_vars => []<>~LinePending
=============================================================================
