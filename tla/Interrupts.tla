----------------------------- MODULE Interrupts -----------------------------
(***************************************************************************)
(* Boot and interrupt handling: kernel_main and arch_init, the interrupt   *)
(* stubs of isr.s, interrupt_dispatch, kernel_panic, and the two devices   *)
(* the kernel serves, the PIT (IRQ0) and the keyboard controller (IRQ1).   *)
(*                                                                         *)
(* `ctx` is the kernel's stack as interrupts see it: one context for the   *)
(* thread and one for each interrupt or exception being handled, each with *)
(* its own interrupt flag (an interrupt gate starts a handler with the     *)
(* flag clear, iretq brings back the flag of the context below).  The last *)
(* context runs.                                                           *)
(***************************************************************************)
EXTENDS Pic, Sequences

CONSTANTS
  FirmwareMasks,  \* the sets of masked IRQs the firmware may leave
  Devices,        \* the IRQs of devices the kernel has no driver for
  Exceptions,     \* the exceptions that may be raised
  TICKS,          \* number of values of `ticks`: 2^64
  MaxKeys,        \* bound: scan codes sent
  MaxDepth,       \* bound: contexts on the stack
  MaxFaults       \* bound: exceptions raised, returns to a fault not counted

ASSUME MasksAssumption == FirmwareMasks \subseteq SUBSET Irq /\ FirmwareMasks # {}
ASSUME DevicesAssumption == Devices \subseteq Irq \ {0, 1, Cascade}
ASSUME ExceptionsAssumption == Exceptions \subseteq 0..31
ASSUME BoundsAssumption ==
  /\ TICKS \in Nat /\ TICKS >= 2
  /\ {MaxKeys, MaxDepth, MaxFaults} \subseteq Nat /\ MaxDepth >= 1

DE == 0  UD == 6  PF == 14
Timer == 32
Kbd   == 33

Panicking == {DE, UD, PF}   \* vectors whose handler calls kernel_panic
ThreadVector == -1          \* the "vector" of the thread's own context

\* The CPU's faults: the address saved is that of the instruction, which faults
\* again when the handler returns.  Of #DB, #DF and #MC it may be either.
Faults == {0, 5, 6, 7} \cup 9..14 \cup {16, 17, 19, 20, 21, 29}
Unsure == {1, 8, 18}
Ok     == -1                \* the fate of an instruction that does not fault

VARIABLES
  ctx,      \* Seq of [vector, iflag, at, fate], the last one runs; fate is
            \* the exception its next instruction raises again, or Ok
  pic,
  done,     \* the calls of the boot sequence that have returned
  ticks,    \* of timer.c
  rested,   \* the CPU got to other work since the last timer interrupt
  sent,     \* scan codes the keyboard has sent: the last one is in port 0x60
  full,     \* that one has not been read
  handled,  \* kbd_handle_scancode's last argument
  served,   \* and how often it was called
  missed,   \* the port was full while pic_remap forgot the latched edges
  faults

devices == <<rested, sent, full>>
history == <<handled, served, missed, faults>>
vars == <<ctx, pic, done, ticks, devices, history>>

Top == ctx[Len(ctx)]
SetTop(c) == [ctx EXCEPT ![Len(ctx)] = c]

\* Mutant: trap gates (type 0x8F), which leave the flag of the thread alone.
Enter_trap_gate(v) ==
  [vector |-> v, iflag |-> Top.iflag, at |-> "dispatch", fate |-> Ok]

\* Through an interrupt gate.
Enter(v) ==
  [vector |-> v, iflag |-> FALSE, at |-> "dispatch", fate |-> Ok]

\* The CPU takes an interrupt before the next instruction of the context.
Interrupted == Top.iflag /\ Intr(pic)

-----------------------------------------------------------------------------
(* Boot.                                                                   *)

\* Mutant: interrupts enabled as soon as there are handlers for them.
BootCalls_early_sti ==
  <<"vga_init", "gdt_init", "idt_init", "sti", "pic_remap", "pit_init",
    "set_mask0", "clear_mask0", "clear_mask1", "init_sse">>

\* Mutant: the PIT is programmed last.
BootCalls_late_pit ==
  <<"vga_init", "gdt_init", "idt_init", "pic_remap",
    "set_mask0", "clear_mask0", "clear_mask1", "sti", "init_sse", "pit_init">>

\* What kernel_main and arch_init call, in order.
BootCalls ==
  <<"vga_init", "gdt_init", "idt_init", "pic_remap", "pit_init",
    "set_mask0", "clear_mask0", "clear_mask1", "sti", "init_sse">>

Init ==
  /\ ctx = <<[vector |-> ThreadVector, iflag |-> FALSE, at |-> "boot", fate |-> Ok]>>
  /\ \E masks \in FirmwareMasks : pic = FirmwarePic(masks)
  /\ done = {}
  /\ ticks = 0 /\ rested = TRUE
  /\ sent = 0 /\ full = FALSE
  /\ handled = 0 /\ served = 0 /\ missed = FALSE /\ faults = 0

\* The effect of a call on the interrupt controllers.
BootPic(call) ==
  CASE call = "pic_remap"   -> pic_remap(pic)
    [] call = "set_mask0"   -> pic_set_mask(pic, 0)
    [] call = "clear_mask0" -> pic_clear_mask(pic, 0)
    [] call = "clear_mask1" -> pic_clear_mask(pic, 1)
    [] OTHER                -> pic

BootStep ==
  /\ Len(ctx) = 1 /\ Top.at = "boot" /\ ~Interrupted
  /\ \E n \in 1..Len(BootCalls) :
       /\ done = {BootCalls[k] : k \in 1..n-1}
       /\ done' = done \cup {BootCalls[n]}
       /\ pic' = BootPic(BootCalls[n])
       /\ missed' = (missed \/ (BootCalls[n] = "pic_remap" /\ full))
       /\ ctx' = SetTop([Top EXCEPT
                   !.iflag = @ \/ BootCalls[n] = "sti",
                   !.at = IF n = Len(BootCalls) THEN "run" ELSE "boot"])
  /\ rested' = TRUE
  /\ UNCHANGED <<ticks, sent, full, handled, served, faults>>

-----------------------------------------------------------------------------
(* The devices.                                                            *)

\* The PIT period is 10 ms, its handler takes microseconds: the CPU gets to
\* something else between two ticks.
TimerFires ==
  /\ 0 \notin pic.irr /\ rested
  /\ pic' = Edge(pic, 0)
  /\ UNCHANGED <<ctx, done, ticks, devices, history>>

\* The controller takes the next byte once the last one was read.
KeySent ==
  /\ sent < MaxKeys /\ ~full
  /\ sent' = sent + 1 /\ full' = TRUE
  /\ pic' = Edge(pic, 1)
  /\ UNCHANGED <<ctx, done, ticks, rested, history>>

DeviceRequest(irq) ==
  /\ irq \notin pic.irr
  /\ pic' = Edge(pic, irq)
  /\ UNCHANGED <<ctx, done, ticks, devices, history>>

-----------------------------------------------------------------------------
(* The CPU.                                                                *)

\* The thread, or what is left of a handler, does something of its own.
Work ==
  /\ Top.at = "run" /\ Top.fate = Ok /\ ~Interrupted
  /\ rested' = TRUE
  /\ UNCHANGED <<ctx, pic, done, ticks, sent, full, history>>

AcceptIrq(irq) ==
  /\ Top.iflag /\ Highest(pic, irq)
  /\ ctx' = Append(ctx, Enter(VectorOf(pic, irq)))
  /\ pic' = Acknowledge(pic, irq)
  /\ rested' = (irq # 0)
  /\ UNCHANGED <<done, ticks, sent, full, history>>

\* A device takes its request back while the CPU is acknowledging it.
AcceptSpurious(irq) ==
  /\ Top.iflag /\ Highest(pic, irq)
  /\ ctx' = Append(ctx, Enter(VectorOf(pic, Spurious(irq))))
  /\ pic' = AcknowledgeSpurious(pic, irq)
  /\ rested' = TRUE
  /\ UNCHANGED <<done, ticks, sent, full, history>>

\* What the next instruction does once the handler of exception v returned.
Fates(v) ==
  IF v \in Faults THEN {v} ELSE IF v \in Unsure THEN {v, Ok} ELSE {Ok}

\* An instruction of the running context raises exception v.
Raise(v) ==
  /\ Top.at \in {"run", "dispatch"} /\ Top.fate = Ok /\ ~Interrupted
  /\ Len(ctx) < MaxDepth /\ faults < MaxFaults
  /\ \E fate \in Fates(v) : ctx' = Append(SetTop([Top EXCEPT !.fate = fate]), Enter(v))
  /\ faults' = faults + 1
  /\ UNCHANGED <<pic, done, ticks, devices, handled, served, missed>>

\* The handler printed and returned to the instruction that faulted.
Refault ==
  /\ Top.fate # Ok /\ ~Interrupted
  /\ ctx' = Append(ctx, Enter(Top.fate))
  /\ rested' = TRUE
  /\ UNCHANGED <<pic, done, ticks, sent, full, history>>

Go(stage) == ctx' = SetTop([Top EXCEPT !.at = stage])

\* Mutant: the cases of the two IRQs swapped.
DispatchIrq_swapped ==
  /\ Top.vector \in 32..47
  /\ ticks' = IF Top.vector = Kbd THEN (ticks + 1) % TICKS ELSE ticks
  /\ IF Top.vector = Timer
     THEN handled' = sent /\ served' = served + 1 /\ full' = FALSE
     ELSE UNCHANGED <<handled, served, full>>
  /\ Go("eoi")

\* The interrupts; the drivers run before the EOI is sent.
DispatchIrq ==
  /\ Top.vector \in 32..47
  /\ ticks' = IF Top.vector = Timer THEN (ticks + 1) % TICKS ELSE ticks
  /\ IF Top.vector = Kbd
     THEN handled' = sent /\ served' = served + 1 /\ full' = FALSE
     ELSE UNCHANGED <<handled, served, full>>
  /\ Go("eoi")

\* The exceptions: three are a panic, the others print and return.
DispatchException ==
  /\ Top.vector \notin 32..47
  /\ Go(IF Top.vector \in Panicking THEN "panic" ELSE "iret")
  /\ UNCHANGED <<ticks, handled, served, full>>

interrupt_dispatch ==
  /\ Top.at = "dispatch" /\ Top.fate = Ok
  /\ DispatchIrq \/ DispatchException
  /\ UNCHANGED <<pic, done, rested, sent, missed, faults>>

SendEoi ==
  /\ Top.at = "eoi"
  /\ pic' = pic_send_eoi(pic, Top.vector - 32)
  /\ Go("iret")
  /\ UNCHANGED <<done, ticks, devices, history>>

\* POP_REGS, the vector and the error code dropped, iretq.
Iret ==
  /\ Top.at = "iret"
  /\ ctx' = SubSeq(ctx, 1, Len(ctx) - 1)
  /\ UNCHANGED <<pic, done, ticks, devices, history>>

\* The shell's `panic` command.
PanicCommand ==
  /\ Len(ctx) = 1 /\ Top.at = "run" /\ Top.fate = Ok /\ ~Interrupted
  /\ Go("panic")
  /\ UNCHANGED <<pic, done, ticks, devices, history>>

\* Mutant: the panic returns, and the handler runs into the code behind it.
kernel_panic_falls_through ==
  /\ Top.at = "panic" /\ ~Interrupted
  /\ ctx' = SubSeq(ctx, 1, Len(ctx) - 1)
  /\ UNCHANGED <<pic, done, ticks, devices, history>>

\* Mutant: a halt loop like the one at the end of kernel_main.
kernel_panic_without_cli ==
  /\ Top.at = "panic" /\ ~Interrupted
  /\ Go("dead")
  /\ UNCHANGED <<pic, done, ticks, devices, history>>

\* kernel_panic prints with the flag as it is; then cli; hlt for good.
kernel_panic ==
  /\ Top.at = "panic" /\ ~Interrupted
  /\ ctx' = SetTop([Top EXCEPT !.at = "dead", !.iflag = FALSE])
  /\ UNCHANGED <<pic, done, ticks, devices, history>>

Cpu ==
  \/ BootStep \/ Work \/ Refault
  \/ \E irq \in Irq : AcceptIrq(irq)
  \/ interrupt_dispatch \/ SendEoi \/ Iret \/ kernel_panic

Next ==
  \/ Cpu
  \/ TimerFires \/ KeySent \/ PanicCommand
  \/ \E irq \in Devices : DeviceRequest(irq) \/ AcceptSpurious(irq)
  \/ \E v \in Exceptions : Raise(v)

Spec == Init /\ [][Next]_vars

\* The CPU runs and the PIT is a free-running counter; nobody else owes
\* anything.
FairSpec == Spec /\ WF_vars(Cpu) /\ WF_vars(TimerFires)

-----------------------------------------------------------------------------
(* Properties.                                                             *)

Context == [vector : {ThreadVector} \cup 0..47, iflag : BOOLEAN,
            at : {"boot", "run", "dispatch", "eoi", "iret", "panic", "dead"},
            fate : {Ok} \cup 0..31]

TypeOK ==
  /\ ctx \in Seq(Context) /\ Len(ctx) \in 1..MaxDepth+1
  /\ pic \in Pics
  /\ done \subseteq {BootCalls[k] : k \in 1..Len(BootCalls)}
  /\ ticks \in 0..TICKS-1
  /\ {rested, full, missed} \subseteq BOOLEAN
  /\ {sent, handled} \subseteq 0..MaxKeys /\ served \in Nat
  /\ faults \in 0..MaxFaults

\* No interrupt is taken before its handler can run: the console it prints to,
\* the code segment of the gates, the gates, and vectors that are no
\* exception's; and no tick is counted at the rate the firmware left.
InterruptsReady ==
  /\ Top.iflag \/ Len(ctx) > 1 =>
       {"vga_init", "gdt_init", "idt_init", "pic_remap"} \subseteq done
  /\ ticks # 0 => "pit_init" \in done

IrqContexts == {k \in 1..Len(ctx) : ctx[k].vector \in 32..47}

\* The handlers of interrupts do not nest, whatever else happens while one
\* runs: what a driver does in its handler is atomic for the other drivers.
NoNestedIrq == Cardinality(IrqContexts) <= 1

\* Whatever was interrupted, real or spurious, of either chip: with no handler
\* on the stack nothing is in service, so that no later request is held back.
AllAcknowledged == IrqContexts = {} => pic.isr = {}

\* kbd_handle_scancode gets every byte of the keyboard once, in order.
EachKeyOnce ==
  /\ handled = served
  /\ handled = IF full THEN sent - 1 ELSE sent

Dead == \E k \in 1..Len(ctx) : ctx[k].at = "dead"

\* After a panic, wherever it came from, no driver runs any more.
PanicIsFinal == [][Dead => UNCHANGED <<ctx, ticks, served>>]_vars

\* The kernel panicked or a handler faults again and again with interrupts off.
Hung ==
  \E k \in 1..Len(ctx) :
    \/ ctx[k].at \in {"panic", "dead"}
    \/ ctx[k].fate # Ok /\ ctx[k].vector # ThreadVector

\* The timer keeps ticking, whatever the other devices and the faults of the
\* thread do.
TicksGoOn == <>Hung \/ []<><<ticks' # ticks>>_vars

\* A byte of the keyboard is read in the end, unless it lay in the port before
\* the controllers were programmed.
KeyAnswered == full ~> (~full \/ missed \/ Hung)
=============================================================================
