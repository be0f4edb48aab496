------------------------------ MODULE IsrFrame ------------------------------
(***************************************************************************)
(* The way into an interrupt handler and back: the gates idt_init writes,  *)
(* the stubs of isr.s instruction by instruction, and the layout of        *)
(* struct idt_ctx through which interrupt_dispatch reads the stack.        *)
(*                                                                         *)
(* The stack is a sequence of 8-byte words, its top at the end; an even    *)
(* length is an address divisible by 16.  A word is a pair of what it is   *)
(* and a value, so that a word taken for another one shows.  `ip` is the   *)
(* vector whose stub runs and the instruction of it that is next: 0 inside *)
(* interrupt_dispatch.  A non-maskable interrupt may come between any two  *)
(* instructions, the stubs' own included.                                  *)
(***************************************************************************)
EXTENDS Integers, Sequences

CONSTANTS
  Vectors,      \* the vectors that are raised
  ErrorCodes,   \* the error codes the CPU pushes
  LinkAddress,  \* where the linker put isr0 .. isr47
  HALF,         \* number of values of 16 bits: 2^16
  MaxDepth      \* bound: handlers on the stack

Stubs == 0..47

NMI == 2
Panicking == {0, 6, 14}   \* interrupt_dispatch does not return
Irqs == 32..47

ASSUME AddressAssumption ==
  /\ HALF \in Nat \ {0}
  /\ LinkAddress \in [Stubs -> 0..HALF*HALF*HALF*HALF-1]
  /\ \A v, w \in Stubs : LinkAddress[v] = LinkAddress[w] => v = w

\* The vectors the CPU pushes an error code for.  29 and 30 have one too, on
\* processors that raise them: the kernel is built for those that do not.
CpuErrorCode == {8} \cup 10..14 \cup {17, 21}

ASSUME VectorsAssumption ==
  /\ Vectors \subseteq Stubs \ {29, 30}
  /\ ErrorCodes \subseteq Nat /\ ErrorCodes # {}
  /\ MaxDepth \in Nat

-----------------------------------------------------------------------------
(* isr.s.                                                                  *)

\* Mutant: one error code forgotten.
ISR_ERR_without_gp == {8, 10, 11, 12, 14, 17, 21}

\* The vectors declared with ISR_ERR; the others use ISR_NOERRC.
ISR_ERR == {8, 10, 11, 12, 13, 14, 17, 21}

\* Mutant: one register less, so that the words pushed are odd in number.
PUSH_REGS_without_r15 ==
  <<"rax", "rbx", "rcx", "rdx", "rbp", "rsi", "rdi", "r8", "r9", "r10",
    "r11", "r12", "r13", "r14">>

PUSH_REGS ==
  <<"rax", "rbx", "rcx", "rdx", "rbp", "rsi", "rdi", "r8", "r9", "r10",
    "r11", "r12", "r13", "r14", "r15">>

\* Mutant: two neighbours swapped.
POP_REGS_swapped ==
  <<"r15", "r14", "r13", "r12", "r11", "r10", "r9", "r8", "rsi", "rdi",
    "rbp", "rdx", "rcx", "rbx", "rax">>

POP_REGS ==
  <<"r15", "r14", "r13", "r12", "r11", "r10", "r9", "r8", "rdi", "rsi",
    "rbp", "rdx", "rcx", "rbx", "rax">>

\* Instructions: an operation and its operand.
isr_entry(v) ==
  IF v \in ISR_ERR THEN << <<"push", v>> >> ELSE << <<"push", 0>>, <<"push", v>> >>

isr_common ==
  [k \in 1..Len(PUSH_REGS) |-> <<"save", PUSH_REGS[k]>>]
  \o << <<"mov", "rdi">>, <<"call", "interrupt_dispatch">> >>
  \o [k \in 1..Len(POP_REGS) |-> <<"restore", POP_REGS[k]>>]
  \o << <<"discard", 2>>, <<"iretq", 0>> >>

isr(v) == isr_entry(v) \o isr_common

-----------------------------------------------------------------------------
(* idt.h and idt.c.                                                        *)

\* The fields of struct idt_ctx, from its lowest address.
idt_ctx ==
  <<"r15", "r14", "r13", "r12", "r11", "r10", "r9", "r8", "rdi", "rsi",
    "rbp", "rdx", "rcx", "rbx", "rax", "vector", "errc", "rip", "cs", "rflags">>

\* Mutant: the upper parts of the address swapped.
idt_set_gate_swapped(handler) ==
  [offset_low  |-> handler % HALF,
   selector    |-> 8,
   type_attr   |-> 142,
   offset_mid  |-> (handler \div (HALF * HALF)) % HALF,
   offset_high |-> (handler \div HALF) % HALF]

\* A gate: the address in three parts, the code segment, and 0x8E, a present
\* interrupt gate.  The parts that are always zero are left out.
idt_set_gate(handler) ==
  [offset_low  |-> handler % HALF,
   selector    |-> 8,
   type_attr   |-> 142,
   offset_mid  |-> (handler \div HALF) % HALF,
   offset_high |-> (handler \div (HALF * HALF)) % (HALF * HALF)]

\* idt_init: isr<v> for vector v.
idt == [v \in Stubs |-> idt_set_gate(LinkAddress[v])]

\* Where the CPU jumps to.
GateTarget(gate) ==
  gate.offset_low + gate.offset_mid * HALF + gate.offset_high * HALF * HALF

-----------------------------------------------------------------------------
VARIABLES
  stack,  \* Seq of words
  regs,   \* the general registers but rsp
  ip,     \* <<vector, instruction>>
  iflag,
  nmi,    \* the CPU holds further NMIs back until an iretq
  frames  \* history: what was interrupted and by what

vars == <<stack, regs, ip, iflag, nmi, frames>>

Registers == {PUSH_REGS[k] : k \in 1..Len(PUSH_REGS)}
CallerSaved == {"rax", "rcx", "rdx", "rsi", "rdi", "r8", "r9", "r10", "r11"}
ThreadIp == <<-1, 0>>

Init ==
  /\ stack = <<>>
  /\ regs = [r \in Registers |-> <<r, 0>>]
  /\ ip = ThreadIp
  /\ iflag = TRUE /\ nmi = FALSE
  /\ frames = <<>>

Depth == Len(frames)
InThread == ip = ThreadIp
InDispatch == ip[1] \in Stubs /\ ip[2] = 0
InStub == ip[2] > 0
Instruction == isr(ip[1])[ip[2]]
Interrupting == frames[Depth]   \* the event that is being handled

\* What the CPU pushes for vector v: in long mode always five words, from an
\* aligned address, and the error code of those that have one.
CpuFrame(v, errc) ==
  (IF Len(stack) % 2 = 1 THEN << <<"padding", 0>> >> ELSE <<>>)
  \o << <<"ss", 16>>, <<"rsp", Len(stack)>>, <<"rflags", iflag>>,
        <<"cs", 8>>, <<"rip", ip>> >>
  \o (IF v \in CpuErrorCode THEN << <<"imm", errc>> >> ELSE <<>>)

Deliver(v, errc) ==
  /\ Depth < MaxDepth
  /\ stack' = stack \o CpuFrame(v, errc)
  /\ ip' = <<CHOOSE w \in Stubs : LinkAddress[w] = GateTarget(idt[v]), 1>>
  /\ iflag' = (iflag /\ idt[v].type_attr % 16 # 14)
  /\ nmi' = (nmi \/ v = NMI)
  /\ frames' = Append(frames,
       [vector |-> v, errc |-> IF v \in CpuErrorCode THEN errc ELSE 0,
        ip |-> ip, iflag |-> iflag, regs |-> regs, stack |-> stack])
  /\ UNCHANGED regs

Nmi == NMI \in Vectors /\ ~nmi /\ Deliver(NMI, 0)

Interrupt(v) == v \in Irqs /\ iflag /\ Deliver(v, 0)

\* An instruction of the thread or of interrupt_dispatch faults.
Exception(v) ==
  /\ v \in 0..31 \ {NMI}
  /\ ~InStub
  /\ \E errc \in ErrorCodes : Deliver(v, errc)

\* The thread's own use of the stack; it need not be aligned.
ThreadStack ==
  /\ InThread
  /\ stack' = IF stack = <<>> THEN << <<"local", 0>> >> ELSE <<>>
  /\ UNCHANGED <<regs, ip, iflag, nmi, frames>>

-----------------------------------------------------------------------------
(* The instructions of the stubs.                                          *)

Step(operation) ==
  /\ InStub /\ Instruction[1] = operation
  /\ UNCHANGED <<iflag, frames>>

Advance == ip' = <<ip[1], ip[2] + 1>>

Push ==
  /\ Step("push")
  /\ stack' = Append(stack, <<"imm", Instruction[2]>>)
  /\ Advance /\ UNCHANGED <<regs, nmi>>

Save ==
  /\ Step("save")
  /\ stack' = Append(stack, regs[Instruction[2]])
  /\ Advance /\ UNCHANGED <<regs, nmi>>

PassCtx ==
  /\ Step("mov")
  /\ regs' = [regs EXCEPT !["rdi"] = <<"ctx", Len(stack)>>]
  /\ Advance /\ UNCHANGED <<stack, nmi>>

Restore ==
  /\ Step("restore")
  /\ regs' = [regs EXCEPT ![Instruction[2]] = stack[Len(stack)]]
  /\ stack' = SubSeq(stack, 1, Len(stack) - 1)
  /\ Advance /\ UNCHANGED nmi

\* add rsp, 16: the vector and the error code.
Discard ==
  /\ Step("discard")
  /\ stack' = SubSeq(stack, 1, Len(stack) - Instruction[2])
  /\ Advance /\ UNCHANGED <<regs, nmi>>

\* The field f of a struct idt_ctx whose lowest word is the given one.
Ctx(lowest, f) ==
  stack[lowest - ((CHOOSE k \in 1..Len(idt_ctx) : idt_ctx[k] = f) - 1)]

\* The call, and what the C function does to the machine: its own words on
\* the stack, and the registers the ABI lets it change.
CallDispatch ==
  /\ Step("call")
  /\ \E locals \in {<<>>, << <<"local", Depth>> >>} :
       stack' = Append(stack, <<"rip", <<ip[1], ip[2] + 1>>>>) \o locals
  /\ regs' = [r \in Registers |-> IF r \in CallerSaved THEN <<r, Depth>> ELSE regs[r]]
  /\ ip' = <<ip[1], 0>>
  /\ UNCHANGED nmi

\* Where interrupt_dispatch left its return address.
ReturnAt == IF stack[Len(stack)][1] = "local" THEN Len(stack) - 1 ELSE Len(stack)

interrupt_dispatch ==
  /\ InDispatch
  /\ Ctx(ReturnAt - 1, "vector")[2] \notin Panicking
  /\ ip' = stack[ReturnAt][2]
  /\ stack' = SubSeq(stack, 1, ReturnAt - 1)
  /\ UNCHANGED <<regs, iflag, nmi, frames>>

\* Mutant: the stack pointer the CPU pushed is not taken back.
Iretq_same_stack ==
  /\ InStub /\ Instruction[1] = "iretq"
  /\ LET top == Len(stack)
     IN  /\ ip' = stack[top][2]
         /\ iflag' = stack[top - 2][2]
         /\ stack' = SubSeq(stack, 1, top - 5)
  /\ nmi' = FALSE
  /\ frames' = SubSeq(frames, 1, Depth - 1)
  /\ UNCHANGED regs

\* Pops rip, cs, rflags, rsp and ss.
Iretq ==
  /\ InStub /\ Instruction[1] = "iretq"
  /\ LET top == Len(stack)
     IN  /\ ip' = stack[top][2]
         /\ iflag' = stack[top - 2][2]
         /\ stack' = SubSeq(stack, 1, stack[top - 3][2])
  /\ nmi' = FALSE
  /\ frames' = SubSeq(frames, 1, Depth - 1)
  /\ UNCHANGED regs

Cpu ==
  \/ Push \/ Save \/ PassCtx \/ CallDispatch \/ interrupt_dispatch
  \/ Restore \/ Discard \/ Iretq \/ ThreadStack

Next == Cpu \/ Nmi \/ (\E v \in Vectors : Interrupt(v) \/ Exception(v))

Spec == Init /\ [][Next]_vars

-----------------------------------------------------------------------------
(* Properties.                                                             *)

AtCall == InStub /\ Instruction[1] = "call"

\* The pointer interrupt_dispatch gets leads to what its struct says: the
\* vector that was raised, its error code or 0, where and in which state the
\* code was interrupted, and every register of it.
DispatchSeesFrame ==
  AtCall =>
    LET field(f) == Ctx(regs["rdi"][2], f)
    IN  /\ field("vector") = <<"imm", Interrupting.vector>>
        /\ field("errc")   = <<"imm", Interrupting.errc>>
        /\ field("rip")    = <<"rip", Interrupting.ip>>
        /\ field("cs")     = <<"cs", 8>>
        /\ field("rflags") = <<"rflags", Interrupting.iflag>>
        /\ \A r \in Registers : field(r) = Interrupting.regs[r]

\* The C code is entered with the stack aligned as its ABI demands, whatever
\* was interrupted and whether or not there is an error code.
CallAligned == AtCall => Len(stack) % 2 = 0

\* A handler that returns leaves no trace: the code it interrupted, be it
\* another handler's stub, goes on with its registers, its stack and its flag.
Resumed ==
  [][Depth' < Depth =>
       /\ regs'  = Interrupting.regs
       /\ stack' = Interrupting.stack
       /\ ip'    = Interrupting.ip
       /\ iflag' = Interrupting.iflag]_vars
=============================================================================
