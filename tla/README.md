# A verification model of FeudOS

FeudOS is a small x86-64 kernel: a boot path from Limine to a shell, a text
console in a linear framebuffer, a PS/2 keyboard, a timer, and the interrupt
plumbing between them.  This directory holds TLA+ specifications translated
from its source, TLC configurations that check them on small instances, and
TLAPS proofs that hold for every size.

All paths below are relative to the repository.  The kernel is built by its
`Makefile` (`-O2 -ffreestanding -mno-red-zone -mno-sse`), and where C leaves a
choice to the compiler the models follow that build; the places are named.

## 1. The system

One thread, interrupts, no scheduler, no heap, no locks.  Everything that is
concurrent is *thread against interrupt handler*; handlers start with
interrupts disabled and do not nest.

| Component | State | Operations | Talks to | Hard part |
|---|---|---|---|---|
| Keyboard driver, `kernel/keyboard.c` | `kbd_buf` (2048 bytes and an index), `shift_held` | `kbd_handle_scancode`, `kbd_buffer_push`, `kbd_buf_pop`, `kbd_readline` | called from IRQ1; echoes to the console; read by the shell | unlocked sharing between handler and `kbd_readline`, wake-ups of `hlt`, wrap, backspace, unsigned lengths |
| Text console, `kernel/vga.c` | cursor, `line_len` per row, the framebuffer | `vga_putc`, `vga_clear_screen`, scrolling | called by everything that prints, thread and handlers | index arithmetic with pitch, 8-bit lengths, backspace across rows, calls that overlap |
| Formatted output, `kernel/vga.c`, `kernel/log.c`, `util/ascii.c` | `text_color` | `kprintf`, `kvprintf`, `klog`, number conversion | console | scanning of the format, digit buffer |
| Interrupts, `arch/x86_64/idt.c`, `isr.s`, `pic.c`, `init.c` | IDT, masks and services of two 8259s, the stack of frames | `interrupt_dispatch`, `pic_*`, `arch_init` | drivers; CPU; devices | order of boot, acknowledgement, spurious interrupts, faults inside handlers, `kernel_panic` |
| Timer, `kernel/timer.c` | `ticks` | `timer_tick`, `sleep_ticks`, `timer_uptime_ms` | IRQ0; the shell's `uptime` | lost wake-ups, overflow |
| Kernel shell, `kernel/ksh/` | `line[128]`, the command table | `ksh_run`, `ksh_exec`, handlers | keyboard, console, timer, panic | pointer arithmetic on the line |
| Strings, `util/str.c`, `util/memops.c` | none | `strfle`, `strfnl`, `streq`, `kmemcpy`... | shell, keyboard | empty and separator-only strings |
| Paging, `arch/x86_64/paging.c` | page tables, `pt_scratch[4]`, its counter | `map_page` | `_start` | allocator without a limit, large pages, TLB |
| Boot entry, `arch/x86_64/boot.c` | what Limine answered, the kernel's two bases | `_start` | paging, serial, `kernel_main` | bases set before the first table is allocated |
| Serial, `arch/x86_64/serial.c` | the UART | `serial_init`, `serial_print` | called only by `_start` (init) | ports that change their meaning |
| GDT, SSE, `gdt.c`, `gdt_flush.s`, `sse.c` | descriptor table, control registers | `gdt_init`, `init_sse` | boot | only their order |
| `include/limine.h`, `include/font8x8_basic.h` | vendored | | | |

What makes each of them correct, in one line:

* keyboard: whatever the interleaving, indices stay in range, a complete line
  is not slept over, and the line delivered is the line typed;
* console: no write leaves the framebuffer, and the pixels show what a
  terminal with rows of characters would show;
* interrupts: nothing is delivered before its handler can run, handlers do not
  nest, every service is acknowledged, every byte of the keyboard is handled
  once, the timer keeps ticking, a panic is final;
* interrupt frames: a handler sees what was interrupted, is called with an
  aligned stack, and leaves no trace;
* timer: a sleep of n ticks takes n or n + 1 and ends; the uptime is exact;
* paging and boot: a mapping appears in one store, alone, and the CPU remembers
  nothing older; `kernel_main` starts with all it needs or not at all;
* shell, strings, formatted output: the first word names the command, the rest
  is its argument undamaged, no text is taken for a format, numbers read back.

## 2. Modules

| Module | What it is |
|---|---|
| `Keyboard` | the driver, its interrupt handler and the read loop of `ksh_run` |
| `KeyboardLine` | `Keyboard` with history variables: what the user typed |
| `MCKeyboardLine` | an instance for TLC |
| `KeyboardProofs` | TLAPS proofs about `Keyboard` and `KeyboardLine` |
| `Vga` | the console of `vga.c`, down to framebuffer indices |
| `Terminal` | what a console promises: a grid of characters, no pixels |
| `VgaTerminal` | the refinement mapping from `Vga` to `Terminal` |
| `VgaProofs` | TLAPS proofs about `Vga` and the refinement of `Terminal` |
| `Console` | `Vga` with the thread's `vga_putc` cut at its loads and stores, under echoes |
| `ConsoleProofs` | TLAPS proofs about `Console` |
| `Pic` | the two 8259s (external) and the functions of `pic.c` |
| `Interrupts` | boot order, gates, dispatch, EOI, panic, PIT and keyboard controller |
| `MCInterrupts` | instances for TLC |
| `InterruptsProofs` | TLAPS proofs about `Interrupts` |
| `IsrFrame`, `MCIsrFrame` | gates, stubs and the stack word by word; an instance |
| `IsrFrameProofs` | TLAPS proofs about `IsrFrame` |
| `Timer` | the counter, `sleep_ticks` and the clock of `uptime` |
| `TimerProofs` | TLAPS proofs about `Timer` |
| `AddressMap` | what a page mapper promises: one page, one instant, no tables |
| `Paging` | `map_page` and its allocator over page tables, with the CPU's walk and TLB; refines `AddressMap` |
| `Serial` | the UART and `serial_init` |
| `Boot`, `MCBoot` | `_start`, which composes `Paging` and `Serial`; an instance |
| `BootProofs` | TLAPS proofs about `Boot`, `Paging` and the refinement of `AddressMap` |
| `CString` | `util/str.c` as operators on a memory |
| `Printf` | `kvprintf`, number conversion, `klog` |
| `Shell`, `MCShell` | `ksh_run`, `ksh_exec` and the commands, over `CString` and `Printf`; an instance |
| `ShellProofs` | TLAPS proofs about `Shell`, `CString` and `Printf` |

Definitions marked *Mutant* in the modules are deliberate bugs (a dropped
guard, an off-by-one, a swapped order).  No specification uses them; each
property is known to fail when the definition below the mutant is replaced by
it, which is how we know that the property says something about the code.

### Keyboard

The interrupt handler is one atomic action, `KbdIrq`: gates clear the
interrupt flag and `Interrupts` shows that handlers do not nest.  The thread
may be interrupted between any two of its memory accesses, so `kbd_readline`
is cut at each access to `kbd_buf`: entry (`ReadlineEnter`), the `hlt`
(`Hlt`; an interrupt ends a halt only if it comes *after* the instruction), the
load of `pos` into a register (`LoadPos`), the tests and the length
(`CheckLine`), each byte of `kmemcpy` (`CopyByte`), the terminator
(`ReadlineReturn`), and in the caller `line[len - 1] = '\0'` (`StripNewline`)
and the one store `ksh_exec` makes (`Exec`).  `kbd_buf` is not volatile: the
compiled loop loads `pos` once after each `hlt` (the basic `asm` clobbers
memory) and both comparisons and the subtraction use that register, `p` in the
model; the byte in front of it is read from memory.

What `kmemcpy` reads behind the end of `kbd_buf.buf` is a free choice from
`Stray`.  `size_t` keeps its width as the constant `SIZE_T`.  `line` is an
uninitialised array in C; nothing reads it before `kbd_readline` wrote it, so
its initial value in the model is a convention.  The echo is an operator
parameter, so that a console can be plugged in.

`KeyboardLine` adds what the user did since `kbd_readline` was entered: the
edited line, whether a newline was typed, whether anything was typed after it
(`late`), whether a backspace went past the beginning (`erased`), whether the
buffer restarted (`wrapped`), and which shift keys are down.  The history
restricts the keyboard in one way: a shift key is only released when down.

### Vga and Terminal

A console is a record and each function of `vga.c` an operator on it.  A pixel
is an index computed with the code's arithmetic (`Pixels`), so that a cell
outside the text area lands where the code would put it; a write outside the
framebuffer sets `wild`.  A pixel holds the character whose glyph was drawn
over it last: glyph bits and colours are abstracted (all colours the kernel
prints with have a black background, so a blank cell is a black cell).
`char` is signed on x86: bytes above 127 take the `c <= 31` branch and print
nothing.

`Terminal` knows a grid, how far each row is written, and a cursor.  The
mapping in `VgaTerminal` reads a cell of the grid from the pixels of that cell (all
of them must agree), so pitch, invisible padding and scrolling by pixel rows
have to be right for the refinement to hold.

### Pic and Interrupts

`ctx` is the kernel stack as interrupts see it: the thread's context and one
for each handler, each with its own interrupt flag.  An interrupt pushes a
context with the flag clear (type 0x8E, `Enter`), `Iret` pops it.  The CPU
takes a deliverable interrupt before the next instruction of the context
(`Interrupted`).  A handler is `interrupt_dispatch`, for interrupts followed
by `SendEoi`, then `Iret`; devices may raise requests between any two of them,
and exceptions may be raised by the thread and by handlers that have not sent
their EOI yet.  A handler that does not panic returns, and after a fault of the
CPU (`Faults`: `#GP`, and most of those in the default case) it returns to the
instruction that faulted, which faults again (`Refault`).  For three vectors the
CPU's manual leaves open what the saved address is, and so does the model
(`Unsure`).  Boot is the list `BootCalls`, in the order of `kernel_main` and `arch_init`.

`Pic` models the 8259 pair from its documentation: request, in-service and
mask registers, fixed priorities, cascade, edge-triggered inputs,
non-specific EOI, spurious levels 7 and 15, and the loss of latched edges
when ICW1 is written.  These definitions are external, and so is the PIT
(`TimerFires`): the divisor `pit_init` writes is not translated, only that ticks
come, and that they are far apart.  What the firmware
leaves in the mask registers is unknown (`FirmwareMasks`).

### Console

`Vga` treats a call of `vga_putc` as one step, which is right for a handler and
wrong for the thread: the echo of a key can come between any two of its
accesses.  `Console` cuts the thread's call at each of them: both halves of the
cursor loaded into registers (`Load`, in either order), the glyph, the
comparison with `line_len` and its store, the scroll row by row (`UpPixels`,
`UpClear`, `UpLengths`, `UpLastLength`), both halves stored (`Store`).  An echo
is the atomic `vga_putc` of `Vga`.  `AloneIsAtomic` says that the cut call, left
alone, computes what `Vga` says, which ties the two descriptions together and
supports the use of the atomic one elsewhere.

Much does not survive the race, and is not claimed: a character may be
overwritten, a row may scroll twice, `NothingBelowCursor` and `LineLenCounts`
fail.  What is left is that everybody stays on the screen, until a key is echoed
that takes the cursor off it without any race: a backspace at the beginning of a
row behind a full one (`AtWrap`, *vga_wrap*).  The history variable `overWrap`
remembers that.  Afterwards the two halves of such a cursor may be combined with
a row of another call, the last one even, and a glyph right of the screen lies
behind the framebuffer there: *console_wrap* shows it.  `StrayNeedsOverWrap` says
that this is the only way.

`vga_clear_screen` is not cut under echoes: it stores constants, and the cursor
last.

### IsrFrame

The stack is a sequence of words, each a pair of what it is and its value, so
that a word popped into the wrong register shows.  `isr(v)` is the stub of
vector `v` as a list of instructions, `idt_ctx` the list of the fields of the C
struct; both are translated independently, and the properties compare them
through the stack.  `Deliver` is the CPU: alignment, five words, the error code
of the vectors that have one, the gate's three address parts put together again.
`interrupt_dispatch` may push words of its own and clobber what the ABI lets it.
An NMI may come between any two instructions of the stubs and is held back until
the next `iretq`.

### Timer

`sleep_ticks` is three steps: the target (64-bit sum), the comparison, the
`hlt`.  Ticks and other interrupts come between them.  `rested` says that the
thread took a step since the last tick: ticks are 10 ms apart.  `begin` and
`slept` are history.

### AddressMap, Paging, Serial, Boot

An address is a page or frame number; entries keep what decides where a store
goes: present, large, whether a bit above the address is set, and the frame.
`FollowTable`, `AllocTable`, `StoreEntry` and `Invlpg` are the stores of
`map_page`; `alloc_table` is part of the action that links the table, because
nobody can see the table before.  `Walk` is the CPU's walk, with large pages, and
`TlbFill` may remember any translation at any time; negative results are not
remembered.  The refinement to `AddressMap` reads the map from `Walk`: adding
tables is a stutter, the last store is the mapping.

An access through a frame that is no table (a large page, an address with a high
bit, the allocator behind its fourth table) is recorded in `wild`, after which
`map_page` goes no further: what such a store destroys depends on what lies
there.  `FirstMappingSafe` says when that cannot happen.  The real `_start` goes on
to `kernel_main` after such a store; that `KernelReady` speaks of "not at all" is
in this case the model's doing.

`map_page` masks the low bits of every entry, but takes `cr3` as it is
(`paging.c:25`).  The model takes the frame: bits 3 and 4 and the process
identifier of `cr3` are assumed to be 0.

`Boot` is `_start` from the checks of Limine's answers (any combination) to
`kernel_main`, with `serial_init` as its seven port writes in order.

What the boot loader and the firmware must have done is in two assumptions.
`BootTablesAssumption`: the tables form a tree (`IsTree`: an entry above the last
level leads to a table of the next level, that no other entry leads to, or is a
large page of memory there is), in memory the kernel does not own.  A table
reached by two ways would let one store map two pages.  `BootAssumption`: the
UART's divisor is hidden and nothing waits to be sent.  `serial_init` writes the
interrupt-enable register first, before it has written the line control register
(`serial.c:13`); were the divisor selected then, the write would miss.

### CString, Printf, Shell

A memory is a function from addresses to characters, a string what lies before
the next NUL; `strfle` and `strfnl` are given by what their loops find,
`strfle` of an empty lexeme included.  `line` keeps the bytes of older lines
behind the NUL.  A format is scanned character by character (`Format`), with the
argument list typed, since `va_arg` believes the format; literal runs of text
count as one character.  A number is printed by what its divisions leave
(`Left`), until nothing is left; a number that needs more places than the buffer
has is a fault.  Loops that print (the entries of `help`, the features of
`cpuid`, the messages of the boot) are lists of calls, `LoggedAll`.  A command is one step.  `cpuid` gets free answers,
`uptime` a time of `Timer`.  An NMI may print its message between two steps; of the
messages of `interrupt_dispatch` this is the one modelled, the one with both kinds
of numbers.

## 3. Runs

Passing runs:

* **keyboard** (`KeyboardLine.cfg`): the actions of `Keyboard` with the history of
  `KeyboardLine`; a buffer of 4, a line of 3, the keys blank, Enter, Backspace and
  both shifts.  With 4 the buffer restarts every three characters, so restart,
  underflow, over-read and a line longer than `max` all occur within a few keys;
  lines of up to `MaxTyped` = 4 characters go round once and further, and any
  number of lines may follow each other.  `LineUsable` is what makes
  `line[len - 1]` in `ksh_run` safe; `BufferTerminated` what makes
  `kbd_get_buf_ptr` a C string; `PendingLineRead` is the lost wake-up: a newline
  between test and `hlt` is picked up after the next tick.  `CleanLineDelivered`
  states when `kbd_readline` may be relied on, and `BufferHoldsLine` is the
  invariant behind it; `NoStuckShift` covers every order of the two shift keys, in
  one direction (see the known divergences).
* **vga** (`Vga.cfg`): 3 columns, 2 rows, glyphs of 1x2 pixels, no spare scan
  line, `line_len` counting to 5.  `line_len` overflows, rows wrap, scroll and
  are backspaced into, including the column right of the screen.  The geometry
  satisfies the assumption of the proof with little slack.
* **vga_terminal** (`VgaTerminal.cfg`): 3 columns, 3 rows, a padding pixel per
  scan line and a spare one at the bottom.  `ImplementsTerminal` is the
  refinement; `LineLenCounts` the comment on `line_len`.  `CarefulSpec` leaves
  out one input, the backspace directly after a wrap, which *vga_wrap* is
  about.
* **interrupts** (`Interrupts.cfg`): every mask or none set by the firmware,
  IRQ7 and IRQ12 as devices without a driver (one per chip, both able to turn
  spurious), one exception of each kind (`#BP`, a trap; `#DF`, which may be
  either; `#NP`, the default case; `#GP`; `#PF`, a panic), two faults, three
  contexts deep, two scan codes.  Two faults reach a fault inside a handler inside
  a fault; nothing in the handlers counts further.
* **console** (`Console.cfg`): 3 columns, 2 rows, no padding, so that what is
  drawn right of the last row is a stray write; the thread prints a letter, tabs,
  newlines and an unprintable character, keys echo a letter, a backspace, a
  newline, any number of them, over wrapped rows too.  Two rows are the least
  with which rows of two calls can mix and scrolls overlap.
* **isr_frame** (`IsrFrame.cfg`): NMI, `#BP`, `#UD` (a panic), two exceptions
  with an error code, IRQ1; three handlers deep, so that an NMI hits the stub of
  a handler that interrupted a handler.  The stub and the frame do not depend on
  what lies below.  Addresses have 4 x 2 bits, so that each of the gate's parts
  tells handlers apart.
* **timer** (`Timer.cfg`): a counter of 7 bits, sleeps of 0, 1, 3 and 64 ticks,
  from every count.  All counts are visited, wrap and overflow included.
  `SleepEnds` needs every tick acknowledged: without its EOI the first is the
  last.
* **boot** (`Boot.cfg`): tables of two entries, sixteen pages, eight kinds of
  tables: page mapped, mapped elsewhere, each level missing, large pages at two
  levels, an entry with a high bit; every answer of the boot loader; a TLB of
  two, so that the mapped page and another one are remembered together; a second
  mapping, which is where the scratch tables can run out.
* **shell** (`Shell.cfg`): every line of up to four characters over two letters,
  `%` and the blank, `e ` followed by any four, lines that were cut and lines
  with a NUL, one after another in the same buffer.  The commands are renamed so
  that names are beginnings of one another; their order is the code's.  Numbers
  have up to three digits, and the digit buffer has room for three.

Runs that show a disagreement between the code and what the repository says:

| Run | Says | Does |
|---|---|---|
| keyboard_wrap | `keyboard.h:8` "Wrapping buffer" | a line across the restart is not delivered: the copy starts at `start_pos`, the length underflowed |
| vga_wrap | `vga.c:46` "for correct '\b' across lines" | after a full row the cursor goes to column `VGA_WIDTH`; what is blanked there is padding, or, without padding, seven scan lines of the row's first cell and one of the row below |
| console_wrap | `vga.c:46`, as above | the cursor of *vga_wrap*, loaded half by half by the interrupted thread, makes it draw behind the framebuffer |

*console_wrap* needs rows that fill the framebuffer to its last scan line, and a
pitch of exactly `VGA_WIDTH` glyphs, as 1024x768 and 1920x1080 have without
padding; with a padding of one glyph the stray glyph lies in it.

Deadlock is checked where the system may not stop.  Four configurations turn it
off: `Interrupts`, `IsrFrame` and `Shell`, because a panic is final, and `Boot`,
because `hcf` is and because the bounded number of mappings is used up.

### Known divergences

Met while modelling and kept in the models.  The passing properties say in their
own text where they step around them; no run is spent on each.

* `keyboard.h:18` "Awaits user to write 1 line": after two empty lines a backspace
  uncovers the newline of the first, and `kbd_readline` returns although nothing
  was entered, with a length that underflowed and was cut to `max - 1`; a line that
  ends exactly at `start_pos` (backspaces and wrap) is never returned.
  `CleanLineDelivered` and `BufferHoldsLine` exclude `erased` and `wrapped`.
* `keyboard.h:19` "with null term counted": the result does not count it.
  `ksh.c:69` takes the last character for the newline, so that a line that was
  cut loses one more.
* `vga.c:46` "chars actually written on each row": an element of `line_len` is 8
  bits, and on 256 columns (a screen of 2048 pixels) a full row counts as empty.
  `LineLenCounts` is checked for narrower screens.
* `keyboard.c:64`: one flag stands for two shift keys, and releasing one of two
  that are held turns shift off.  `NoStuckShift` says only that it is off when
  both are up.
* `vga_init` (`vga.c:36`) checks neither depth nor size of the framebuffer;
  `GeometryAssumption` says what the rest of the code needs.
* `idt.c:36` prints "Unrecoverable CPU state" for a double fault, and returns.
* `idt.c:68` prints the error code of an unknown exception as its number.
* `ksh.h:14` "the first whitespace after cmd name": for a line that starts with a
  blank `strfle` returns the line itself, the NUL goes to the second character
  and the command is the blank.  `RunsFirstWord` leaves these lines out.
* `str.h` documents `strfle` as returning the end of the lexeme: it is the last
  character, and for an empty string the address in front of it.
* `ksh.c:35` gives `uname` the help text of `clear`.
* `handlers.c:40` leaves no room for a NUL behind the 48 characters of the CPU's
  brand string and relies on the CPU to send one; so does the model.
* `paging.c:14` has four scratch tables and no limit: one mapping always fits
  (`FirstMappingSafe`), a second that needs two tables or more may not.  Nothing
  calls `map_page` twice today.
* `vga.c:256`: a format that ends in `%l` is read behind its end.  No format of
  the kernel does, and `NoFault` shows that typed text never becomes a format.

### Fairness

* `Keyboard`: the thread is the only one and is never descheduled
  (`WF(Reader)`); the PIT is free-running, unmasked and of highest priority
  (`WF(TimerIrq)`).  No fairness on keys: the user owes nothing.
* `Timer`: `WF(SleepTest \/ SleepHlt \/ Work)`, the CPU executes the only thread,
  and `WF(timer_tick)`, the PIT is free-running.  Nobody has to call
  `sleep_ticks`, and no other interrupt has to come.  `SleepEnds` excludes a
  target behind the wrap of the counter (`Wraps`), where the comparison ends the
  sleep early or never.
* `Interrupts`: `WF(Cpu)` (the CPU executes) and `WF(TimerFires)`.  That the
  timer cannot starve IRQ1 follows from `rested`: 10 ms between ticks against
  microseconds in the handler, so something else runs between two ticks.
  `DeviceRequest`, `KeySent`, `Raise` and the `panic` command have none.
  `TicksGoOn` and `KeyAnswered` exclude `Hung` (a panic, or a handler whose
  fault is returned to with interrupts off), and `KeyAnswered` excludes a
  byte that was in the port while `pic_remap` reset the edge latch.

## 4. Proofs

`KeyboardProofs`, for all `KBD_BUF_SIZE`, `LINE_MAX >= 2`, any set of scan
codes and any console:

* `TypeCorrect`: indices and lengths stay in range;
* `LineAlwaysUsable`: on return the length is in `1..LINE_MAX-1` and is the
  index of a NUL.  The argument: `CheckLine` compares the register `p` with
  `start_pos`, both below `KBD_BUF_SIZE`, so the difference modulo `SIZE_T` is
  not 0 (`SizeAssumption` keeps `SIZE_T` larger), and clipping keeps it below
  `LINE_MAX`; no later step changes `line_len`, whatever the handler does to
  the buffer;
* `BufferAlwaysTerminated`: a push writes at an index of at most
  `KBD_BUF_SIZE - 2`.

and, about `KeyboardLine`:

* `CleanLinesDelivered`, `BufferAlwaysHoldsLine` and `ShiftNeverStuck`.
  `CleanLineDelivered` speaks of one moment, the return of
  `kbd_readline`, and rests on everything before it: `BufferHoldsLine` (the
  buffer holds the typed line from `start_pos` on), `NewlineEnds` (once a
  newline is in, the line does not move any more, whatever is typed behind it),
  `StaleNotNewline` (the register the wait loop tests may be older than the
  buffer, and then there is no newline in front of it) and `CopiedPrefix` (the
  bytes copied so far are the line's, while the handler keeps pushing).

`VgaProofs`, for all screens and glyph sizes:

* `NeverWild`: no sequence of characters makes the code write outside the
  framebuffer, although the cursor may stand right of the screen.
  `NoWildWrite` is not inductive.  The invariant `Good` adds
  `NothingBelowCursor` (so that the row a backspace returns to is known) and
  `CursorReachable`: the cursor is right of the screen only on a row that is
  not the last, and no further than a `uint8_t` counts.  Such a cell lies
  within the next `GLYPH_H + 1` scan lines, which are inside the framebuffer by
  `WideAssumption` (with 8x8 glyphs, a screen of at least 228 pixels);
* `TextBeforeCursor` (`NothingBelowCursor`) and `TypeCorrect` follow from the
  same invariant.

and, for all of them on which `VGA_WIDTH < BYTE_VALUES` (a full row fits in an
element of `line_len`; beyond, the code counts wrongly) under `CarefulSpec`:

* `ConsoleIsTerminal`: `Vga` implements `Terminal`.  The state of the terminal is
  read off the framebuffer (`Text`).  That a drawing changes one character rests
  on `CellsApart`, no two cells share a pixel, which is division with remainder
  three times; that the scroll moves every row, on `CellScrolls` and
  `PixelBelow` (`UpText`).  `StepShows` takes the characters one by one;
* `CountedTextOnly` (`LineLenCounts`).  It is not inductive: that a cell behind
  the length of its row is blank is kept by a backspace only if nothing is
  counted behind the cursor, since it blanks one cell.  The invariant `Neat` is `Good`, `Sound` (cursor on the screen, no row
  longer than it is wide) and `BlankBehind`; that it survives is proved on the
  terminal (`StepBlank`), where there are no pixels.

`ConsoleProofs`, for all screens and glyph sizes, and any characters:

* `AlwaysOnScreen` and `StrayOnlyAfterOverWrap`: until a backspace over a wrapped
  row is echoed, no interleaving of `vga_putc` with echoes puts the cursor off the
  screen, makes a row too long, or draws outside the framebuffer.  `Good` of
  `VgaProofs` is not an invariant here: a stale cursor stored late leaves text
  behind it.  The inductive invariant has two parts.  `Typed` holds always; the
  column in a register is any number there.  `Placed` holds until `overWrap`, and
  is the same for everybody: `Sound`, and what the thread loaded, or computed from
  it, is a place on the screen.  Since each half of the cursor is a legal row or
  column whoever wrote it, mixing them is harmless; with that backspace a half
  would not be legal;
* `AloneDoesPutc` (`AloneIsAtomic`): a call of `vga_putc` during which nothing
  was echoed leaves what the atomic `vga_putc` of `Vga` does.  `Alone` is the
  invariant: at every `pc`, what the call has done so far to the console it was
  called on (`Follows`).  In the scroll that is the picture with the first rows
  moved (`PictureUp`, `LengthsUp`); copying row by row from the top is moving all
  of them at once because a row is read before it is overwritten
  (`PictureStep`).

`TimerProofs`, for every frequency, width of the counter and argument:

* `SleepIsExact`: the invariant `OnTime` says that while the deadline is no
  wrapped count, `ticks = begin + slept`, and that the thread is never further
  behind than the one tick that may still come before its next step;
* `UptimeIsExact`: the milliseconds are cut to seconds without losing one
  (`WholeSeconds`), and the split into hours, minutes and seconds has no
  remainder; both rest on `DivideTwice`, which is proved from the meaning of
  quotient and remainder.

`InterruptsProofs`, for any firmware masks, devices, exceptions, depth and
keys:

* `HandlersReady`, `HandlersDoNotNest`, `NothingLeftInService`,
  `KeysHandledOnce`, `PanicStopsKernel` and `TypeCorrect`.  The inductive
  invariant has one part for each thing that is shared.  `StackFits`: only the
  thread at the bottom of the stack can have its flag set, so a context of an
  interrupt is the second.  `ReadyInv`: how far the boot list has come decides
  what is set up.  `PicInv`: what is in service in the two controllers is what
  the one handler on the stack has yet to acknowledge, the cascade line
  included; without it `AllAcknowledged` says nothing before the last step.
  `KeyInv`: a byte in the port is a request, a request in service, or was lost
  with the edge latch.  `TickInv`: the rate of the timer.

`IsrFrameProofs`, for any vectors and error codes, any place the linker puts the
stubs, any depth of handlers and any contents of the stack below:

* `CallIsAligned`, `DispatchReadsFrame` and `HandlersLeaveNoTrace`.  A stub never
  looks below what its own frame put on the stack.  `Runs` says of one handler
  what its words are at each of its instructions: the height of the stack and the
  registers (`At`), and what lies at each distance from the aligned bottom of its
  frame (`Base`, `Content`).  `Running` says it of the handler that runs;
  `Suspended` says it of every handler below, in the stack and the registers saved
  when it was interrupted.  The invariant needs both: `Deliver` makes the running
  handler a suspended one, between any two of its instructions, and `iretq` makes
  it the running one again.  That a gate leads to the stub of its vector is
  `VectorFindsStub`: the three parts `idt_set_gate` cuts an address into make it
  up again (`GateIs`).  The registers come back because the stub pops them in the
  opposite order (`RegisterLists`).

`BootProofs`, for tables of any number of entries (`FAN >= 2`), any tree of
tables, any answers of the boot loader, any number of mappings and any TLB:

* `MapPageMapsOnePage`: `Boot` implements `AddressMap`.  The steps are that the
  four indices tell two pages apart (`SamePage`), that the walk of a page meets
  a table at its level only (`PathRanks`), that in a tree an entry lies on the
  way of exactly the pages with its indices (`OneParent`, `OneWay`), so that the
  last store changes the walk of one page (`StoreMapsOne`), and that an empty
  table where nothing was present changes no walk (`AddMapsNone`) and leaves a
  tree (`AddKeepsTree`);
* `TlbStaysCoherent`: from `MappedInv` and `TlbInv` (during a call the TLB may be
  wrong about the page of the call only);
* `FirstMappingIsSafe`: no store through a frame that is no table unless
  `Impassable`, and never more than three tables for one mapping (`FirstInv`);
* `KernelStartsReady`: the steps of `_start` in order (`OrderInv`), and
  `SerialInit`, which computes the UART after the seven writes;
* `TypeCorrect`.

`ShellProofs`, for every set of lines, any length of the line buffer, any
characters, any names of the commands (without blanks, no two the same), any
answers of `cpuid`, and numbers up to any `U64` whose decimal digits fit in the
buffer (`DigitAssumption`):

* `LineRunsCommand` (`RunsFirstWord`): the shell takes a line apart as its words
  are (`SplitIs`, `PartsMakeLine`).  `LineReady` is the part of the invariant that says the line ends
  within the buffer, whatever longer lines left behind it (`ReadEnds`), and that
  nobody has touched it when `ksh_exec` starts;
* `NothingFaults` (`NoFault`): what each format of the kernel prints is computed
  once, with free texts and arguments (`PrintsString`, `PrintsUptime`...).  That
  no number overflows the buffer is `NoOverflow`: more division leaves less
  (`LeftShrinks`), and a hexadecimal number has no more digits than a decimal
  one;
* `EchoIsVerbatim` (`EchoVerbatim`) and `NumbersAreRight` (`NumbersReadBack`):
  both say something of the terminal that depends on what was printed *before*
  the command, the prompt or the message of an interrupt that came behind it.
  The invariant `Said` keeps that: `Asked` of the terminal while a command is
  read, `EchoSaid` and `UptimeSaid` behind it.  That a terminal which starts with
  the prompt was not interrupted is `OtherStart`.  That digits read back as the
  number is `ReadsBack`: what has been read from the left is what the divisions
  had left at that place.

The invariant is `ShellInv`: `LineReady`, `RunsFirstWord` and `Said`.  `ShellNext`
takes it through a step; it is needed as a whole, because `ksh_exec` hands its
argument to a format only as a string that ends within the line (`ExecSays`).

Loops are dealt with by induction.  The library's induction theorems take an
operator the provers cannot instantiate, so it is stated for a *set* of numbers
(`Induction`, from a least element), and what a loop has done after k rounds is
a set of such k.  A fold (the scan of a format, the calls of a loop, the value of
digits) is shown to be the last of a row of values, one for each element that was
read (`Formatted`, `LogsInRow`, `ValueInRow`); its definition in the library is a
recursion over the sets of the positions, of which a bounded part exists by that
induction (`FormatFolds`).

The assumptions on constants are named in the modules that declare them and
evaluated by TLC on every run.

Every inductive invariant was first checked by TLC as an invariant of the run
of its component.

Only model-checked: everything temporal with fairness (`PendingLineRead`,
`TicksGoOn`, `KeyAnswered`, `SleepEnds`), which is out of the prover's reach.

## 5. Not modelled, and the plan

Left out for good:

* `serial_print` and `serial_print_hex`: they poll one status bit, and nothing
  calls them;
* `isalnum`: no state and no caller;
* the bits of segment descriptors (`gdt.c`) and control registers (`sse.c`):
  constants only the CPU interprets.  `Interrupts` has the place of both calls in
  the boot, which is what can be wrong between components;
* what a page-table entry permits, and caching attributes: `map_page` writes
  the constant 3;
* glyphs and colours on the screen: all colours the kernel prints with have a
  black background.  `Printf` keeps the current text colour, which `%k` sets;
* the vendored headers `limine.h` and `font8x8_basic.h`.

Every safety property that a run checks has its theorem; what is not proved is
what section 4 lists as only model-checked.

The three hazards no property covers are listed with a note in `PROJECT.json`.
