---------------------------- MODULE KeyboardLine ----------------------------
(***************************************************************************)
(* What kbd_readline delivers, judged against what the user typed.         *)
(*                                                                         *)
(* The actions of Keyboard with history variables: the line as the user    *)
(* edits it (`typed`), what happened to it on the way, and which shift     *)
(* keys are physically down.  No history variable changes what Keyboard    *)
(* does, except for two facts about the keyboard itself: a break code is   *)
(* only sent for a shift key that is down, and MaxTyped bounds the line.   *)
(***************************************************************************)
EXTENDS Keyboard, FiniteSets

CONSTANT MaxTyped  \* bound: the user's line never grows beyond this

ASSUME MaxTypedAssumption == MaxTyped \in Nat

VARIABLES
  typed,    \* the line since kbd_readline was entered, edited by backspaces
  entered,  \* a newline was typed since then
  late,     \* a key was typed after that newline
  erased,   \* backspace was typed on the empty line
  wrapped,  \* the buffer restarted at index 0
  down      \* the shift keys that are down

hist  == <<typed, entered, late, erased, wrapped>>
hvars == <<vars, hist, down>>

HInit ==
  /\ Init
  /\ typed = <<>>
  /\ entered = FALSE /\ late = FALSE /\ erased = FALSE /\ wrapped = FALSE
  /\ down = {}

\* The user's view of one character: backspace takes the last one back.
Edit(text, c) ==
  IF c # BS THEN Append(text, c)
  ELSE IF text = <<>> THEN text ELSE SubSeq(text, 1, Len(text) - 1)

\* A key that stands for character c.
Record(c) ==
  /\ typed' = Edit(typed, c)
  /\ entered' = (entered \/ c = NL)
  /\ late' = (late \/ entered)
  /\ erased' = (erased \/ (c = BS /\ typed = <<>>))
  /\ wrapped' = (wrapped \/ (c # BS /\ kbd_buf.pos = KBD_BUF_SIZE - 1))
  /\ Len(typed') <= MaxTyped

ShiftCode(sc) == sc % 128 \in {SC_LSHIFT, SC_RSHIFT}

\* A shift key goes down (or repeats), or comes up after having been down.
HShiftIrq(sc) ==
  /\ ShiftCode(sc)
  /\ sc >= 128 => sc % 128 \in down
  /\ KbdIrq(sc)
  /\ down' = IF sc >= 128 THEN down \ {sc % 128} ELSE down \cup {sc}
  /\ UNCHANGED hist

HKeyIrq(sc) ==
  /\ ~ShiftCode(sc)
  /\ KbdIrq(sc)
  /\ IF sc >= 128 \/ KeyChar(sc) = NUL THEN UNCHANGED hist
     ELSE Record(KeyChar(sc))
  /\ UNCHANGED down

\* A new call forgets the line before it, typed ahead or not.
HReadlineEnter ==
  /\ ReadlineEnter
  /\ typed' = <<>>
  /\ entered' = FALSE /\ late' = FALSE /\ erased' = FALSE /\ wrapped' = FALSE
  /\ UNCHANGED down

HReader ==
  \/ HReadlineEnter
  \/ (Hlt \/ LoadPos \/ CheckLine \/ CopyByte
        \/ ReadlineReturn \/ StripNewline \/ Exec) /\ UNCHANGED <<hist, down>>

HTimerIrq == TimerIrq /\ UNCHANGED <<hist, down>>

HNext ==
  \/ \E sc \in Scancodes : HShiftIrq(sc) \/ HKeyIrq(sc)
  \/ HTimerIrq
  \/ HReader

HSpec == HInit /\ [][HNext]_hvars

HFairSpec == HSpec /\ WF_hvars(HReader) /\ WF_hvars(HTimerIrq)

-----------------------------------------------------------------------------
(* Properties.                                                             *)

\* The line delivered is the line typed, cut to what fits in front of the NUL.
Delivered ==
  /\ line_len = IF Len(typed) < LINE_MAX THEN Len(typed) ELSE LINE_MAX - 1
  /\ \A k \in 1..line_len : line[k - 1] = typed[k]

\* When the user ends a line with a newline and waits, never backspaces past
\* its beginning and does not reach the end of the buffer, kbd_readline gives
\* its caller exactly that line, whatever was typed, taken back or typed ahead
\* before, and wherever in the buffer it lies.
CleanLineDelivered ==
  pc = "ret" /\ ~late /\ ~erased /\ ~wrapped => Delivered

\* While such a line is being typed the buffer holds it from start_pos on: the
\* invariant behind CleanLineDelivered.
BufferHoldsLine ==
  pc \in {"hlt", "halted", "load", "check", "copy"} /\ ~erased /\ ~wrapped =>
    /\ kbd_buf.pos = start_pos + Len(typed)
    /\ \A k \in 1..Len(typed) : kbd_buf.buf[start_pos + k - 1] = typed[k]

\* With no shift key down the driver types lower case, in whatever order the
\* two shift keys went down, repeated and came up.
NoStuckShift == down = {} => ~shift_held

-----------------------------------------------------------------------------
(* What keyboard.h says, and the code does not do.                         *)

\* "Wrapping buffer for keyboard": the restart at index 0 should be invisible
\* to the reader of a line.
WrappedLineDelivered ==
  pc = "ret" /\ ~late /\ ~erased => Delivered
=============================================================================
