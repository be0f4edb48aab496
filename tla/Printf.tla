------------------------------ MODULE Printf -------------------------------
(***************************************************************************)
(* Formatted output: kvprintf and its helpers in kernel/vga.c, klog of     *)
(* kernel/log.c and dtoa of util/ascii.c.  The output of a call is the     *)
(* sequence of the characters it gives to vga_putc (module Vga).           *)
(*                                                                         *)
(* A run of literal text counts as one character, "ksh> " say.  An argument*)
(* carries the type it is passed with, because va_arg believes the format. *)
(***************************************************************************)
EXTENDS CString, SequencesExt

CONSTANTS
  DIGIT_BUF,  \* sizeof(buf) in kprint_uint: 20
  U64         \* number of values of a uintmax_t: 2^64

Digit == <<"0", "1", "2", "3", "4", "5", "6", "7", "8", "9",
           "A", "B", "C", "D", "E", "F">>

dtoa(digit) == IF digit <= 15 THEN Digit[digit + 1] ELSE NUL

\* What the loop has left of n after i divisions, for each i.
Left(n, base) ==
  LET left[i \in Nat] == IF i = 0 THEN n ELSE left[i - 1] \div base IN left

\* The buffer is enough for the largest number.
ASSUME DigitAssumption ==
  /\ DIGIT_BUF \in Nat \ {0} /\ U64 \in Nat /\ U64 >= 16
  /\ Left(U64 - 1, 10)[DIGIT_BUF] = 0

\* Digits of n: as often as n can be divided before it is 0.
Places(n, base) ==
  CHOOSE i \in 1..(DIGIT_BUF + 1) :
    Left(n, base)[i - 1] # 0 /\ (i <= DIGIT_BUF => Left(n, base)[i] = 0)

\* Mutant: the digits in the order in which the divisions yield them.
kprint_uint_reversed(n, base) ==
  IF n = 0 THEN <<"0">>
  ELSE [j \in 1..Places(n, base) |-> dtoa(Left(n, base)[j - 1] % base)]

kprint_uint(n, base) ==
  IF n = 0 THEN <<"0">>
  ELSE LET i == Places(n, base)
       IN  [j \in 1..i |-> dtoa(Left(n, base)[i - j] % base)]

kprint_int(num, base) ==
  IF num < 0 THEN <<"-">> \o kprint_uint(-num, base) ELSE kprint_uint(num, base)

\* The conversions, the types va_arg takes for them, and what they print.
ArgType ==
  [d |-> "int", u |-> "uint", c |-> "char", s |-> "str", X |-> "ulong", k |-> "color",
   ld |-> "long", lu |-> "ulong"]

Converted(conversion, value) ==
  CASE conversion \in {"d", "ld"} -> kprint_int(value, 10)
    [] conversion \in {"u", "lu"} -> kprint_uint(value, 10)
    [] conversion = "X" -> kprint_uint(value, 16)
    [] conversion = "c" -> IF value = NUL THEN << >> ELSE <<value>>
    [] conversion = "s" -> value
    [] OTHER -> << >>

\* kprint_uint stores more digits than its buffer has room for.
Overflows(conversion, value) ==
  /\ conversion \in {"d", "u", "X", "ld", "lu"}
  /\ Left(IF value < 0 THEN -value ELSE value, IF conversion = "X" THEN 16 ELSE 10)[DIGIT_BUF]
       # 0

\* A conversion takes the next argument.  The fault is an argument nobody
\* passed, one of another type, or a number too long for its buffer.
Convert(st, conversion) ==
  IF st.args = << >> \/ Head(st.args)[1] # ArgType[conversion]
  THEN [st EXCEPT !.mode = "text", !.fault = TRUE]
  ELSE LET value == Head(st.args)[2]
           text  == Converted(conversion, value)
       IN  [st EXCEPT
              !.mode = "text", !.args = Tail(@), !.out = @ \o text,
              !.color = IF conversion = "k" THEN value ELSE @,
              !.fault = @ \/ Overflows(conversion, value)]

\* One character of the format.
Format(st, ch) ==
  CASE st.mode = "text" /\ ch = "%" -> [st EXCEPT !.mode = "percent"]
    [] st.mode = "text" /\ ch # "%" -> [st EXCEPT !.out = Append(@, ch)]
    [] st.mode = "percent" /\ ch = "l" -> [st EXCEPT !.mode = "long"]
    [] st.mode = "percent" /\ ch \in {"d", "u", "c", "s", "X", "k"} -> Convert(st, ch)
    [] st.mode = "long" /\ ch \in {"d", "u"} -> Convert(st, IF ch = "d" THEN "ld" ELSE "lu")
    [] OTHER -> [st EXCEPT !.mode = "text",
                           !.out = @ \o (IF st.mode = "long" THEN <<"%", "l", ch>>
                                         ELSE <<"%", ch>>)]

\* Prints to a terminal t, a record [out, color, fault].  A '%' that ends the
\* format prints nothing.  Behind "%l" the loop steps over the terminator.
kvprintf(t, msg, args) ==
  LET st == FoldLeft(Format, [out |-> t.out, color |-> t.color, fault |-> t.fault,
                              args |-> args, mode |-> "text"], msg)
  IN  [out   |-> IF st.mode = "long" THEN st.out \o <<"%", "l">> ELSE st.out,
       color |-> st.color,
       fault |-> st.fault \/ st.mode = "long"]

kprintf(t, msg, args) == kvprintf(t, msg, args)

Str(s) == <<"str", s>>

klogl_str(level) ==
  CASE level = "INFO"     -> <<"OK">>
    [] level = "WARN"     -> <<"WARN">>
    [] level = "ERROR"    -> <<"ERROR">>
    [] level = "CRITICAL" -> <<"CRITICAL">>
    [] OTHER              -> << >>

klog(t, level, fmt, args) ==
  IF level = "NONE" THEN kvprintf(t, fmt, args)
  ELSE kvprintf(kprintf(t, <<"[", "%", "s", "] ">>, <<Str(klogl_str(level))>>), fmt, args)

\* One call of a loop that prints, a record [level, fmt, args], and the loop.
\* At level NONE klog does what kprintf does.
Logged(t, call) == klog(t, call.level, call.fmt, call.args)

LoggedAll(t, calls) == FoldLeft(Logged, t, calls)
=============================================================================
