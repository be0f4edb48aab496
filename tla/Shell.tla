------------------------------- MODULE Shell --------------------------------
(***************************************************************************)
(* The kernel shell: ksh_run and ksh_exec of kernel/ksh/ksh.c and the      *)
(* commands of kernel/ksh/handlers.c, from the boot messages of            *)
(* kernel_main on.  It composes the string functions and the formatted     *)
(* output.  Where the lines come from is module Keyboard's business: here  *)
(* a line is anything kbd_readline can leave in the buffer.                *)
(*                                                                         *)
(* A command is one step.  Between two steps a non-maskable interrupt may  *)
(* print its own message, in the colour of the moment.                     *)
(***************************************************************************)
EXTENDS Printf

CONSTANTS
  LINE_MAX,     \* sizeof(line) in ksh_run: 128
  Names,        \* the names of the commands: a function from Commands
  Helps,        \* their help texts: likewise
  Letters,      \* the characters of the keys, and of stray bytes
  Lines,        \* bound: what kbd_readline may deliver
  Times,        \* <<h, m, s>>: what module Timer computes for `uptime`
  Cpus,         \* what cpuid may say of the machine
  FeatureNames, \* the names in ksh_hndl_cpuid, six in the code
  FEATURE_NAME_LEN,
  Addresses     \* the addresses an interrupt may find the kernel at

\* In the order of ksh_handlers.
Commands == <<"uptime", "cpuid", "clear", "uname", "panic", "echo", "help">>

CommandNames == {Commands[k] : k \in DOMAIN Commands}

ASSUME ShellAssumption ==
  /\ LINE_MAX \in Nat
  /\ Lines \subseteq UNION {[1..n -> Letters] : n \in 1..LINE_MAX-1}
  /\ DOMAIN Names = CommandNames /\ DOMAIN Helps = CommandNames
  /\ \A c \in CommandNames :
       /\ Names[c] \in Seq(Letters \ {BLANK, NUL}) \ {<< >>}
       /\ \A d \in CommandNames : Names[c] = Names[d] => c = d
  /\ Addresses \subseteq 0..U64-1
  /\ Times \subseteq (0..U64-1) \X (0..U64-1) \X (0..U64-1)
  /\ FeatureNames \in Seq(Seq(STRING))
  /\ \A cpu \in Cpus : DOMAIN cpu.features = DOMAIN FeatureNames

VARIABLES
  at,      \* where the thread is: "boot", "prompt", "readline", "exec", "halted"
  line,    \* local of ksh_run; its bytes outlive the line they belong to
  term,    \* [out, color, fault]: the last message or command's output
  ran,     \* history: the command and its argument, of the last line
  typed    \* history: the last line up to its first NUL

vars == <<at, line, term, ran, typed>>

VGA_WHITE == 15
VGA_RED   == 4

Init ==
  /\ at = "boot"
  /\ line \in [0..LINE_MAX-1 -> {NUL}]
  /\ term = [out |-> << >>, color |-> VGA_WHITE, fault |-> FALSE]
  /\ ran = <<"none", << >>>> /\ typed = << >>

\* The terminal with the text of former messages out of sight.
fresh == [term EXCEPT !.out = << >>]

-----------------------------------------------------------------------------

BootMessages == <<"Initialized GDT.", "Initialized IDT.", "PIC initialization done.",
                  "Interrupts enabled.", "SSE enabled.">>

\* kernel_main and arch_init until the shell runs.
Boot ==
  LET info(msg) == [level |-> "INFO", fmt |-> <<msg, "\n">>, args |-> << >>]
      banner == klog(fresh, "NONE",
                     <<"Booting up ", "%", "s", " ", "%", "s", " for ", "%", "s", " ...", "\n">>,
                     <<Str(<<"FeudOS kernel">>), Str(<<"v0.0.7">>), Str(<<"x86_64">>)>>)
  IN  /\ at = "boot"
      /\ term' = LoggedAll(banner, [k \in DOMAIN BootMessages |-> info(BootMessages[k])])
      /\ at' = "prompt"
      /\ UNCHANGED <<line, ran, typed>>

Prompt ==
  /\ at = "prompt"
  /\ term' = kprintf(fresh, <<"ksh> ">>, << >>)
  /\ at' = "readline"
  /\ ran' = <<"none", << >>>> /\ typed' = << >>
  /\ UNCHANGED line

\* The NUL of kbd_readline, and ksh_run's over the last character, which is the
\* newline unless the line was cut.
ReadLine(text) ==
  LET len == Len(text)
      mem == [j \in 0..LINE_MAX-1 |->
                IF j < len - 1 THEN text[j + 1]
                ELSE IF j \in {len - 1, len} THEN NUL ELSE line[j]]
  IN  /\ at = "readline"
      /\ line' = mem
      /\ typed' = StringAt(mem, 0)
      /\ at' = "exec"
      /\ UNCHANGED <<term, ran>>

-----------------------------------------------------------------------------
(* The commands: what each leaves on the terminal t.                       *)

\* Mutant: the text itself as the format.
ksh_hndl_echo_format(t, args) == kprintf(t, args \o <<"\n">>, << >>)

ksh_hndl_echo(t, args) == kprintf(t, <<"%", "s", "\n">>, <<Str(args)>>)

ksh_hndl_uptime(t, time) ==
  kprintf(t, <<"up ", "%", "l", "u", ":", "%", "l", "u", ":", "%", "l", "u", "\n">>,
          [j \in 1..3 |-> <<"ulong", time[j]>>])

ksh_hndl_uname(t) ==
  kprintf(t, <<"%", "s", " ", "%", "s", " ", "%", "s", "\n">>,
          <<Str(<<"FeudOS kernel">>), Str(<<"v0.0.7">>), Str(<<"x86_64">>)>>)

ksh_hndl_help(t) ==
  LET entry(c) == [level |-> "NONE", fmt |-> <<"%", "s", ": ", "%", "s", "\n">>,
                   args |-> <<Str(Names[c]), Str(Helps[c])>>]
  IN  LoggedAll(t, [k \in DOMAIN Commands |-> entry(Commands[k])])

\* The names go through a buffer of FEATURE_NAME_LEN characters each.
ksh_hndl_cpuid(t, cpu) ==
  LET feature(k) ==
        [level |-> "NONE", fmt |-> <<" ", "%", "s", "%", "s", " ">>,
         args |-> <<Str(IF cpu.features[k] THEN <<"+">> ELSE <<"-">>),
                    Str(StringAt(strncpy_f(FeatureNames[k], FEATURE_NAME_LEN), 0))>>]
      model == kprintf(kprintf(t, <<"CPU vendor: ", "%", "s", "\n">>, <<Str(cpu.vendor)>>),
                       <<"CPU model: ", "%", "s", "\n">>, <<Str(cpu.brand)>>)
  IN  kprintf(LoggedAll(kprintf(model, <<"Features: ">>, << >>),
                        [k \in DOMAIN FeatureNames |-> feature(k)]),
              <<"\n">>, << >>)

\* vga_clear_screen: nothing of what was printed is left.
ksh_hndl_clear(t) == [t EXCEPT !.out = << >>]

kernel_panic(t, msg, args) ==
  kvprintf(kprintf(t, <<"%", "k", "Kernel panic!", "\n", "\t">>, <<<<"color", VGA_RED>>>>),
           msg, args)

ksh_hndl_panic(t, args) == kernel_panic(t, <<"%", "s", "\n">>, <<Str(args)>>)

\* What command c may leave behind.
Handled(c, t, args) ==
  CASE c = "uptime" -> {ksh_hndl_uptime(t, time) : time \in Times}
    [] c = "cpuid"  -> {ksh_hndl_cpuid(t, cpu) : cpu \in Cpus}
    [] c = "clear"  -> {ksh_hndl_clear(t)}
    [] c = "uname"  -> {ksh_hndl_uname(t)}
    [] c = "panic"  -> {ksh_hndl_panic(t, args)}
    [] c = "echo"   -> {ksh_hndl_echo(t, args)}
    [] OTHER        -> {ksh_hndl_help(t)}

-----------------------------------------------------------------------------

\* Mutant: the name is cut off before the arguments are looked for.
Split_cut_first(mem) ==
  LET cut  == [mem EXCEPT ![strfle(mem, 0, BLANK) + 1] = NUL]
      args == strfnl(cut, 0, BLANK)
  IN  [mem |-> cut, name |-> StringAt(cut, 0),
       args |-> IF args = NULL THEN << >> ELSE StringAt(cut, args)]

\* The two halves of a line: the arguments are found first, then the name is
\* ended by a NUL in the line itself.
Split(mem) ==
  LET args == strfnl(mem, 0, BLANK)
      cut  == [mem EXCEPT ![strfle(mem, 0, BLANK) + 1] = NUL]
  IN  [mem |-> cut, name |-> StringAt(cut, 0),
       args |-> IF args = NULL THEN << >> ELSE StringAt(cut, args)]

\* The first command of that name is run.
ksh_exec ==
  LET split == Split(line)
      found == {k \in DOMAIN Commands : streq(split.name, Names[Commands[k]])}
      k     == CHOOSE j \in found : \A i \in found : j <= i
  IN  /\ at = "exec"
      /\ line' = split.mem
      /\ IF found # {}
         THEN /\ term' \in Handled(Commands[k], term, split.args)
              /\ ran' = <<Commands[k], split.args>>
              /\ at' = IF Commands[k] = "panic" THEN "halted" ELSE "prompt"
         ELSE /\ term' = kprintf(term, <<"Unknown command: ", "%", "s", "\n">>,
                                 <<Str(split.name)>>)
              /\ ran' = <<"none", split.name>>
              /\ at' = "prompt"
      /\ UNCHANGED typed

\* interrupt_dispatch for a vector it has no case for; it returns.
Nmi(rip) ==
  /\ at \in {"prompt", "readline"}
  /\ term' = kprintf(fresh, <<"Unknown exception ", "%", "l", "u", " at 0x", "%", "X", "\n">>,
                     <<<<"ulong", 0>>, <<"ulong", rip>>>>)
  /\ UNCHANGED <<at, line, ran, typed>>

Next ==
  \/ Boot \/ Prompt \/ ksh_exec
  \/ \E text \in Lines : ReadLine(text)
  \/ \E rip \in Addresses : Nmi(rip)

Spec == Init /\ [][Next]_vars

-----------------------------------------------------------------------------
(* Properties.                                                             *)

Concat(s, n, t) == s \o [j \in 1..n |-> BLANK] \o t

\* w and rest are the first word of a text and what follows the blanks behind
\* it, up to the end, trailing blanks included.
FirstWord(text, w, rest) ==
  /\ \A j \in DOMAIN w : w[j] # BLANK
  /\ rest # << >> => rest[1] # BLANK
  /\ \E n \in 0..Len(text) :
       text = Concat(w, n, rest) /\ (n = 0 => rest = << >>)

\* A line that does not start with a blank runs the command its first word
\* names, with the rest of the line, undamaged by the NUL that is stored into
\* it and by what longer lines before it left in the buffer.
RunsFirstWord ==
  at \in {"prompt", "halted"} /\ typed # << >> /\ typed[1] # BLANK =>
    IF ran[1] = "none"
    THEN /\ \E rest \in {SubSeq(typed, j, Len(typed)) : j \in 1..Len(typed)+1} :
              FirstWord(typed, ran[2], rest)
         /\ \A c \in CommandNames : Names[c] # ran[2]
    ELSE FirstWord(typed, Names[ran[1]], ran[2])

\* No format takes an argument that was not passed or is of another type, none
\* is read behind its end and no number is too long, whatever was typed.
NoFault == ~term.fault

\* echo prints its argument as it is, percent signs too.
EchoVerbatim ==
  at = "prompt" /\ ran[1] = "echo" /\ term.out # << >> /\ term.out[1] = "ksh> " =>
    term.out = <<"ksh> ">> \o ran[2] \o <<"\n">>

Value(digits, base) ==
  LET value(d) == CHOOSE v \in 0..15 : Digit[v + 1] = d
  IN  FoldLeft(LAMBDA acc, d : acc * base + value(d), 0, digits)

\* The numbers in a message, decimal and hexadecimal, read back as the numbers
\* that were to be printed.
NumbersReadBack ==
  LET out == term.out
      fields(i, j) == <<Value(SubSeq(out, 3, i-1), 10), Value(SubSeq(out, i+1, j-1), 10),
                        Value(SubSeq(out, j+1, Len(out)-1), 10)>>
  IN  /\ at = "prompt" /\ ran[1] = "uptime" /\ out[1] = "ksh> " =>
           \E i, j \in DOMAIN out :
             i < j /\ out[i] = ":" /\ out[j] = ":" /\ fields(i, j) \in Times
      /\ at = "readline" /\ out[1] = "Unknown exception " =>
           Value(SubSeq(out, 4, Len(out)-1), 16) \in Addresses
=============================================================================
