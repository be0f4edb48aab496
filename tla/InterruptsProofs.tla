-------------------------- MODULE InterruptsProofs --------------------------
(***************************************************************************)
(* Theorems about Interrupts for every set of masks the firmware leaves,   *)
(* every set of devices without a driver, every set of exceptions and any  *)
(* depth of the stack.                                                     *)
(***************************************************************************)
EXTENDS Interrupts, SequenceTheorems, FiniteSetTheorems, TLAPS

\* The calls without which no handler can run.
Ready ==
  /\ "vga_init" \in done /\ "gdt_init" \in done /\ "idt_init" \in done
  /\ "pic_remap" \in done /\ "pit_init" \in done

\* The context of a handler: it runs with the flag clear, and only an
\* interrupt's passes through an EOI, which it never misses for a panic.
HandlerFits(c) ==
  /\ c.vector \in 0..47
  /\ c.iflag = FALSE
  /\ c.at \in {"dispatch", "eoi", "iret", "panic", "dead"}
  /\ c.at = "eoi" => c.vector \in 32..47
  /\ c.vector \in 32..47 => c.at \in {"dispatch", "eoi", "iret"}

\* Only what can be resumed is under another context: a dead one is the last,
\* and one that faults again is at the instruction that faulted.
LevelFits(c, k, last) ==
  /\ c.fate # Ok => c.at \in {"run", "dispatch"} /\ k < MaxDepth
  /\ c.at = "dead" => c.iflag = FALSE /\ k = last

\* The thread is the first context.  An interrupt comes in the thread only,
\* where the flag is set, so that its handler is the second.
StackFits(stack) ==
  /\ stack[1].vector = ThreadVector
  /\ stack[1].at \in {"boot", "run", "panic", "dead"}
  /\ \A k \in 2..Len(stack) : HandlerFits(stack[k])
  /\ \A k \in 3..Len(stack) : stack[k].vector \notin 32..47
  /\ \A k \in 1..Len(stack) : LevelFits(stack[k], k, Len(stack))

ReadyInv == Len(ctx) > 1 \/ ctx[1].iflag = TRUE \/ ctx[1].at # "boot" => Ready

IrqHandled == Len(ctx) > 1 /\ ctx[2].vector \in 32..47

\* The controllers have nothing in service but the request being handled and,
\* for one of the slave, the cascade; and nothing once the EOI is sent.
PicInv ==
  /\ "pic_remap" \in done => pic.master = PIC1_OFFSET /\ pic.slave = PIC2_OFFSET
  /\ ~IrqHandled => pic.isr = {}
  /\ IrqHandled /\ ctx[2].at = "iret" => pic.isr = {}
  /\ IrqHandled => pic.isr \subseteq {ctx[2].vector - 32, Input(ctx[2].vector - 32)}

\* A request of the keyboard, latched or being handled, stands for one byte in
\* the port that has not been read.
KeyInv ==
  /\ EachKeyOnce
  /\ 1 \in pic.irr => full = TRUE
  /\ IrqHandled /\ ctx[2].vector = Kbd /\ ctx[2].at = "dispatch" =>
       full = TRUE /\ 1 \notin pic.irr

TickInv == ticks # 0 => Ready

IInv == TypeOK /\ StackFits(ctx) /\ ReadyInv /\ PicInv /\ KeyInv /\ TickInv

-----------------------------------------------------------------------------
(* Stacks of contexts.                                                     *)

Stacks == {s \in Seq(Context) : Len(s) >= 1}

LEMMA SetTopStack ==
  ASSUME NEW s \in Stacks, NEW c \in Context
  PROVE  /\ [s EXCEPT ![Len(s)] = c] \in Stacks
         /\ Len([s EXCEPT ![Len(s)] = c]) = Len(s)
         /\ [s EXCEPT ![Len(s)] = c][Len(s)] = c
         /\ \A k \in 1..Len(s) : k # Len(s) => [s EXCEPT ![Len(s)] = c][k] = s[k]
<1>1. s \in Seq(Context) /\ Len(s) \in Nat /\ Len(s) \in 1..Len(s)
  BY DEF Stacks
<1> DEFINE t == [s EXCEPT ![Len(s)] = c]
<1>2. /\ t \in Seq(Context)
      /\ Len(t) = Len(s)
      /\ \A k \in 1..Len(s) : t[k] = IF k = Len(s) THEN c ELSE s[k]
  BY <1>1, ExceptSeq
<1> QED
  BY <1>1, <1>2 DEF Stacks

LEMMA PushStack ==
  ASSUME NEW s \in Stacks, NEW c \in Context
  PROVE  /\ Append(s, c) \in Stacks
         /\ Len(Append(s, c)) = Len(s) + 1
         /\ Append(s, c)[Len(s) + 1] = c
         /\ \A k \in 1..Len(s) : Append(s, c)[k] = s[k]
<1>1. s \in Seq(Context) /\ Len(s) \in Nat
  BY DEF Stacks
<1> QED
  BY <1>1, AppendProperties DEF Stacks

LEMMA PopStack ==
  ASSUME NEW s \in Stacks, Len(s) >= 2
  PROVE  /\ SubSeq(s, 1, Len(s) - 1) \in Stacks
         /\ Len(SubSeq(s, 1, Len(s) - 1)) = Len(s) - 1
         /\ \A k \in 1..Len(s)-1 : SubSeq(s, 1, Len(s) - 1)[k] = s[k]
<1>1. s \in Seq(Context) /\ Len(s) \in Nat
  BY DEF Stacks
<1> DEFINE last == Len(s) - 1
<1>2. last \in Int /\ 1 \in Int /\ last >= 1 /\ 1..last \subseteq 1..Len(s)
  BY <1>1
<1>3. \A k \in 1..last : s[k] \in Context
  <2>1. \A k \in 1..Len(s) : s[k] \in Context
    BY <1>1, ElementOfSeq
  <2> HIDE DEF last
  <2> QED
    BY <1>2, <2>1
<1> HIDE DEF last
<1>4. /\ SubSeq(s, 1, last) \in Seq(Context)
      /\ Len(SubSeq(s, 1, last)) = IF 1 <= last THEN last - 1 + 1 ELSE 0
      /\ \A k \in 1..last-1+1 : SubSeq(s, 1, last)[k] = s[1+k-1]
  BY <1>2, <1>3, SubSeqProperties
<1>5. last - 1 + 1 = last /\ \A k \in 1..last : 1+k-1 = k
  BY <1>2
<1>6. /\ SubSeq(s, 1, last) \in Seq(Context)
      /\ Len(SubSeq(s, 1, last)) = last
      /\ \A k \in 1..last : SubSeq(s, 1, last)[k] = s[k]
  BY <1>2, <1>4, <1>5
<1> QED
  BY <1>2, <1>6 DEF last, Stacks

LEMMA SetTopFits ==
  ASSUME NEW s \in Stacks, StackFits(s), NEW c \in Context,
         Len(s) = 1 => /\ c.vector = ThreadVector
                       /\ c.at \in {"boot", "run", "panic", "dead"},
         Len(s) >= 2 => HandlerFits(c),
         Len(s) >= 3 => c.vector \notin 32..47,
         LevelFits(c, Len(s), Len(s))
  PROVE  StackFits([s EXCEPT ![Len(s)] = c])
<1> DEFINE t == [s EXCEPT ![Len(s)] = c]
<1>1. /\ Len(t) = Len(s) /\ t[Len(s)] = c
      /\ \A k \in 1..Len(s) : k # Len(s) => t[k] = s[k]
  BY SetTopStack
<1>2. Len(s) \in Nat /\ Len(s) >= 1
  BY DEF Stacks
<1> HIDE DEF t
<1>3. t[1].vector = ThreadVector /\ t[1].at \in {"boot", "run", "panic", "dead"}
  BY <1>1, <1>2 DEF StackFits
<1>4. ASSUME NEW k \in 2..Len(t) PROVE HandlerFits(t[k])
  <2>1. CASE k = Len(s)
    BY <1>1, <1>2, <2>1
  <2>2. CASE k \in 2..Len(s) /\ k # Len(s)
    <3>1. HandlerFits(s[k])
      BY <2>2 DEF StackFits
    <3>2. t[k] = s[k]
      BY <1>1, <1>2, <2>2
    <3> QED
      BY <3>1, <3>2
  <2> QED
    BY <1>1, <2>1, <2>2
<1>5. ASSUME NEW k \in 3..Len(t) PROVE t[k].vector \notin 32..47
  <2>1. CASE k = Len(s)
    BY <1>1, <1>2, <2>1
  <2>2. CASE k \in 3..Len(s) /\ k # Len(s)
    <3>1. s[k].vector \notin 32..47
      BY <2>2 DEF StackFits
    <3>2. t[k] = s[k]
      BY <1>1, <1>2, <2>2
    <3> QED
      BY <3>1, <3>2
  <2> QED
    BY <1>1, <2>1, <2>2
<1>6. ASSUME NEW k \in 1..Len(t) PROVE LevelFits(t[k], k, Len(t))
  BY <1>1, <1>2, <1>6 DEF StackFits
<1>7. StackFits(t)
  BY <1>3, <1>4, <1>5, <1>6 DEF StackFits
<1> QED
  BY <1>7 DEF t

\* The indices of a sequence one longer.
LEMMA OneMore ==
  ASSUME NEW n \in Nat
  PROVE  /\ \A m \in {1, 2, 3} : \A k \in m..n+1 : k \in m..n \/ k = n + 1
         /\ 2..n \subseteq 1..n /\ 3..n \subseteq 1..n
OBVIOUS

LEMMA PushFits ==
  ASSUME NEW s \in Stacks, StackFits(s), s[Len(s)].at # "dead",
         NEW c \in Context, HandlerFits(c), c.fate = Ok, c.at # "dead",
         c.vector \in 32..47 => Len(s) = 1
  PROVE  StackFits(Append(s, c))
<1> DEFINE t == Append(s, c)
<1>1. /\ Len(t) = Len(s) + 1 /\ t[Len(s) + 1] = c
      /\ \A k \in 1..Len(s) : t[k] = s[k]
  BY PushStack
<1>2. Len(s) \in Nat /\ Len(s) >= 1
  BY DEF Stacks
<1> HIDE DEF t
<1>3. t[1].vector = ThreadVector /\ t[1].at \in {"boot", "run", "panic", "dead"}
  BY <1>1, <1>2 DEF StackFits
<1>4. /\ \A k \in 1..Len(t) : k \in 1..Len(s) \/ k = Len(s) + 1
      /\ \A k \in 2..Len(t) : k \in 2..Len(s) \/ k = Len(s) + 1
      /\ \A k \in 3..Len(t) : k \in 3..Len(s) \/ k = Len(s) + 1
      /\ 2..Len(s) \subseteq 1..Len(s) /\ 3..Len(s) \subseteq 1..Len(s)
  <2>1. Len(t) = Len(s) + 1
    BY <1>1
  <2> QED
    BY <1>2, <2>1, OneMore
<1>5. ASSUME NEW k \in 2..Len(t) PROVE HandlerFits(t[k])
  <2>1. CASE k = Len(s) + 1
    <3>1. t[k] = c
      BY <1>1, <2>1
    <3> QED
      BY <3>1
  <2>2. CASE k \in 2..Len(s)
    <3>1. t[k] = s[k]
      BY <1>1, <1>4, <2>2
    <3>2. HandlerFits(s[k])
      BY <2>2 DEF StackFits
    <3> QED
      BY <3>1, <3>2
  <2> QED
    BY <1>4, <2>1, <2>2
<1>6. ASSUME NEW k \in 3..Len(t) PROVE t[k].vector \notin 32..47
  <2>1. CASE k = Len(s) + 1
    <3>1. t[k] = c /\ Len(s) # 1
      BY <1>1, <1>2, <2>1
    <3> QED
      BY <3>1
  <2>2. CASE k \in 3..Len(s)
    <3>1. t[k] = s[k]
      BY <1>1, <1>4, <2>2
    <3>2. s[k].vector \notin 32..47
      BY <2>2 DEF StackFits
    <3> QED
      BY <3>1, <3>2
  <2> QED
    BY <1>4, <2>1, <2>2
<1>7. ASSUME NEW k \in 1..Len(t) PROVE LevelFits(t[k], k, Len(t))
  <2>1. CASE k = Len(s) + 1
    BY <1>1, <1>2, <2>1 DEF LevelFits
  <2>2. CASE k \in 1..Len(s)
    <3>1. t[k] = s[k] /\ LevelFits(s[k], k, Len(s))
      BY <1>1, <2>2 DEF StackFits
    <3>2. s[k].at # "dead"
      BY <3>1 DEF LevelFits
    <3> QED
      BY <3>1, <3>2 DEF LevelFits
  <2> QED
    BY <1>4, <2>1, <2>2
<1>8. StackFits(t)
  BY <1>3, <1>5, <1>6, <1>7 DEF StackFits
<1> QED
  BY <1>8 DEF t

LEMMA PopFits ==
  ASSUME NEW s \in Stacks, StackFits(s), Len(s) >= 2
  PROVE  StackFits(SubSeq(s, 1, Len(s) - 1))
<1> DEFINE t == SubSeq(s, 1, Len(s) - 1)
<1>1. Len(t) = Len(s) - 1 /\ \A k \in 1..Len(s)-1 : t[k] = s[k]
  BY PopStack
<1>2. Len(s) \in Nat
  BY DEF Stacks
<1> HIDE DEF t
<1>3. t[1].vector = ThreadVector /\ t[1].at \in {"boot", "run", "panic", "dead"}
  BY <1>1, <1>2 DEF StackFits
<1>4. ASSUME NEW k \in 2..Len(t) PROVE HandlerFits(t[k])
  BY <1>1, <1>2, <1>4 DEF StackFits
<1>5. ASSUME NEW k \in 3..Len(t) PROVE t[k].vector \notin 32..47
  BY <1>1, <1>2, <1>5 DEF StackFits
<1>6. ASSUME NEW k \in 1..Len(t) PROVE LevelFits(t[k], k, Len(t))
  <2>1. k \in 1..Len(s) /\ k \in 1..Len(s)-1 /\ k # Len(s)
    BY <1>1, <1>2, <1>6
  <2>2. t[k] = s[k] /\ LevelFits(s[k], k, Len(s))
    BY <1>1, <2>1 DEF StackFits
  <2> QED
    BY <2>1, <2>2 DEF LevelFits
<1>7. StackFits(t)
  BY <1>3, <1>4, <1>5, <1>6 DEF StackFits
<1> QED
  BY <1>7 DEF t

-----------------------------------------------------------------------------
(* The controllers.                                                        *)

\* An end of interrupt where at most one request is in service.
LEMMA EoiAlone ==
  ASSUME NEW S, NEW x \in Int, S \subseteq {x}
  PROVE  (IF S = {} THEN S ELSE S \ {Min(S)}) = {}
<1>1. CASE S = {}
  BY <1>1
<1>2. CASE S = {x}
  <2>1. \A y \in S : x <= y
    BY <1>2
  <2>2. Min(S) = x
    BY <1>2, <2>1 DEF Min
  <2> QED
    BY <1>2, <2>2
<1> QED
  BY <1>1, <1>2

\* pic_send_eoi ends the request it is sent for, on both chips.
LEMMA EoiEmpties ==
  ASSUME NEW pics \in Pics, NEW irq \in Irq, pics.isr \subseteq {irq, Input(irq)}
  PROVE  pic_send_eoi(pics, irq) = [pics EXCEPT !.isr = {}]
<1>1. irq \in Int /\ Cascade \in Int /\ 0 \in Int
  BY DEF Irq, Cascade
<1>2. CASE irq \in Slave
  <2>1. irq >= 8 /\ pics.isr \subseteq {irq, Cascade}
    BY <1>2 DEF Slave, Input
  <2>2. pics.isr \cap Slave \subseteq {irq}
    BY <2>1 DEF Slave, Cascade
  <2>3. (IF pics.isr \cap Slave = {} THEN pics.isr \cap Slave
         ELSE (pics.isr \cap Slave) \ {Min(pics.isr \cap Slave)}) = {}
    BY <1>1, <2>2, EoiAlone
  <2> DEFINE slave == EndOfInterrupt(pics, Slave)
  <2>4. slave \in Pics /\ slave.isr \subseteq {Cascade}
        /\ \A set \in SUBSET Irq : [slave EXCEPT !.isr = set] = [pics EXCEPT !.isr = set]
    <3>1. slave.isr = IF pics.isr \cap Slave = {} THEN pics.isr
                      ELSE pics.isr \ {Min(pics.isr \cap Slave)}
      BY DEF EndOfInterrupt, Pics
    <3>2. slave.isr \subseteq pics.isr /\ slave.isr \cap Slave = {}
      BY <2>3, <3>1
    <3>3. slave.isr \subseteq {Cascade}
      BY <1>2, <2>1, <3>2
    <3>4. slave = [pics EXCEPT !.isr = slave.isr]
      BY <3>1 DEF EndOfInterrupt
    <3> HIDE DEF slave
    <3> QED
      BY <3>2, <3>3, <3>4 DEF Pics
  <2> HIDE DEF slave
  <2>5. slave.isr \cap Master \subseteq {Cascade} /\ slave.isr \subseteq Master
    BY <2>4 DEF Master, Cascade
  <2>6. (IF slave.isr \cap Master = {} THEN slave.isr \cap Master
         ELSE (slave.isr \cap Master) \ {Min(slave.isr \cap Master)}) = {}
    BY <1>1, <2>5, EoiAlone
  <2>7. EndOfInterrupt(slave, Master) = [slave EXCEPT !.isr = {}]
    <3>1. slave.isr \cap Master = slave.isr
      BY <2>5
    <3> QED
      BY <2>6, <3>1 DEF EndOfInterrupt
  <2>8. pic_send_eoi(pics, irq) = EndOfInterrupt(slave, Master)
    BY <2>1 DEF pic_send_eoi, slave
  <2> QED
    BY <2>4, <2>7, <2>8
<1>3. CASE irq \notin Slave
  <2>1. irq \in Master /\ ~(irq >= 8) /\ pics.isr \subseteq {irq}
    BY <1>3 DEF Irq, Master, Slave, Input
  <2>2. pics.isr \cap Master = pics.isr
    BY <2>1
  <2>3. (IF pics.isr = {} THEN pics.isr ELSE pics.isr \ {Min(pics.isr)}) = {}
    BY <1>1, <2>1, EoiAlone
  <2> QED
    BY <2>1, <2>2, <2>3 DEF pic_send_eoi, EndOfInterrupt
<1> QED
  BY <1>2, <1>3

\* What the other functions do to the record of the controllers.
LEMMA PicsTyped ==
  ASSUME NEW pics \in Pics, NEW irq \in Irq, NEW set \in SUBSET Irq
  PROVE  /\ [pics EXCEPT !.isr = set] \in Pics
         /\ [pics EXCEPT !.irr = set] \in Pics
         /\ [pics EXCEPT !.imr = set] \in Pics
         /\ Edge(pics, irq) = [pics EXCEPT !.irr = pics.irr \cup {irq}]
         /\ Edge(pics, irq) \in Pics
BY DEF Pics, Edge

\* With the kernel's offsets a request has the vector 32 above its number.
LEMMA VectorOfIrq ==
  ASSUME NEW irq \in Irq, pic.master = PIC1_OFFSET, pic.slave = PIC2_OFFSET
  PROVE  VectorOf(pic, irq) \in 32..47 /\ VectorOf(pic, irq) = 32 + irq
BY DEF VectorOf, Irq, Master, PIC1_OFFSET, PIC2_OFFSET

-----------------------------------------------------------------------------
(* What the invariant says of the running context, and how an action that  *)
(* changes or adds it keeps the stack in order.                            *)

LEMMA Heights ==
  ASSUME IInv
  PROVE  /\ Len(ctx) = 1 \/ Len(ctx) = 2 \/ Len(ctx) >= 3
         /\ Len(ctx) = 1 \/ Len(ctx) > 1
         /\ Len(ctx) \in Nat /\ Len(ctx) >= 1
         /\ Len(ctx) >= 2 <=> Len(ctx) > 1
<1>1. Len(ctx) \in Nat /\ Len(ctx) >= 1
  BY BoundsAssumption DEF IInv, TypeOK
<1>2. \A n \in Nat : n >= 1 =>
        /\ n = 1 \/ n = 2 \/ n >= 3
        /\ n = 1 \/ n > 1
        /\ n >= 2 <=> n > 1
  OBVIOUS
<1> DEFINE height == Len(ctx)
<1>3. height \in Nat /\ height >= 1
  BY <1>1
<1> HIDE DEF height
<1>4. /\ height = 1 \/ height = 2 \/ height >= 3
      /\ height = 1 \/ height > 1
      /\ height >= 2 <=> height > 1
  BY <1>2, <1>3
<1> QED
  BY <1>3, <1>4 DEF height

LEMMA TopFacts ==
  ASSUME IInv
  PROVE  /\ ctx \in Stacks /\ Len(ctx) \in 1..MaxDepth+1 /\ Top \in Context
         /\ Top.iflag = TRUE => Len(ctx) = 1
         /\ Len(ctx) = 1 => /\ Top = ctx[1] /\ Top.vector = ThreadVector
                            /\ Top.at \in {"boot", "run", "panic", "dead"}
         /\ Len(ctx) >= 2 => HandlerFits(Top)
         /\ Len(ctx) >= 3 => Top.vector \notin 32..47
         /\ LevelFits(Top, Len(ctx), Len(ctx))
<1>1. /\ ctx \in Stacks /\ Len(ctx) \in 1..MaxDepth+1
      /\ Len(ctx) \in Nat /\ Len(ctx) >= 1
  BY BoundsAssumption DEF IInv, TypeOK, Stacks
<1>2. ctx[Len(ctx)] \in Context
  BY <1>1, ElementOfSeq DEF Stacks
<1>3. Len(ctx) >= 2 => HandlerFits(ctx[Len(ctx)])
  BY <1>1 DEF IInv, StackFits
<1>4. Len(ctx) >= 3 => ctx[Len(ctx)].vector \notin 32..47
  BY <1>1 DEF IInv, StackFits
<1>5. LevelFits(ctx[Len(ctx)], Len(ctx), Len(ctx))
  BY <1>1 DEF IInv, StackFits
<1>6. Len(ctx) = 1 => /\ ctx[1].vector = ThreadVector
                      /\ ctx[1].at \in {"boot", "run", "panic", "dead"}
  BY DEF IInv, StackFits
<1>7. ctx[Len(ctx)].iflag = TRUE => Len(ctx) = 1
  <2>1. Len(ctx) >= 2 => ctx[Len(ctx)].iflag = FALSE
    BY <1>3 DEF HandlerFits
  <2>2. Len(ctx) >= 2 \/ Len(ctx) = 1
    <3>1. Len(ctx) \in Nat /\ Len(ctx) >= 1
      BY <1>1
    <3> QED
      BY <3>1
  <2> QED
    BY <2>1, <2>2
<1> QED
  BY <1>1, <1>2, <1>3, <1>4, <1>5, <1>6, <1>7 DEF Top

LEMMA TopChanged ==
  ASSUME IInv, NEW c \in Context, ctx' = SetTop(c),
         Len(ctx) = 1 => /\ c.vector = ThreadVector
                         /\ c.at \in {"boot", "run", "panic", "dead"},
         Len(ctx) >= 2 => HandlerFits(c),
         Len(ctx) >= 3 => c.vector \notin 32..47,
         LevelFits(c, Len(ctx), Len(ctx))
  PROVE  /\ StackFits(ctx)' /\ ctx' \in Seq(Context) /\ Len(ctx') = Len(ctx)
         /\ ctx'[Len(ctx)] = c
         /\ Len(ctx) >= 2 => ctx'[1] = ctx[1]
         /\ Len(ctx) >= 3 => ctx'[2] = ctx[2]
<1>1. ctx \in Stacks /\ Len(ctx) \in Nat /\ StackFits(ctx)
  BY TopFacts, BoundsAssumption DEF IInv
<1>2. ctx' = [ctx EXCEPT ![Len(ctx)] = c]
  BY DEF SetTop
<1>3. StackFits(ctx')
  BY <1>1, <1>2, SetTopFits
<1>4. /\ ctx' \in Stacks /\ Len(ctx') = Len(ctx) /\ ctx'[Len(ctx)] = c
      /\ \A k \in 1..Len(ctx) : k # Len(ctx) => ctx'[k] = ctx[k]
  <2> DEFINE s == [ctx EXCEPT ![Len(ctx)] = c]
  <2>1. /\ s \in Stacks /\ Len(s) = Len(ctx) /\ s[Len(ctx)] = c
        /\ \A k \in 1..Len(ctx) : k # Len(ctx) => s[k] = ctx[k]
    BY <1>1, SetTopStack
  <2>2. ctx' = s
    BY <1>2
  <2> HIDE DEF s
  <2> QED
    BY <2>1, <2>2
<1> QED
  BY <1>1, <1>3, <1>4 DEF Stacks

LEMMA TopAdded ==
  ASSUME IInv, NEW t \in Context, t.vector = Top.vector, t.at = Top.at,
         t.iflag = Top.iflag, Top.at # "dead",
         t.fate # Ok => Top.at \in {"run", "dispatch"} /\ Len(ctx) < MaxDepth,
         NEW v \in 0..47, ctx' = Append(SetTop(t), Enter(v)),
         v \in 32..47 => Len(ctx) = 1
  PROVE  /\ StackFits(ctx)' /\ ctx' \in Seq(Context) /\ Len(ctx') = Len(ctx) + 1
         /\ ctx'[Len(ctx)] = t /\ ctx'[Len(ctx) + 1] = Enter(v)
         /\ Len(ctx) >= 2 => ctx'[1] = ctx[1]
         /\ Len(ctx) >= 3 => ctx'[2] = ctx[2]
<1>1. /\ ctx \in Stacks /\ Len(ctx) \in Nat /\ StackFits(ctx)
      /\ Len(ctx) = 1 => /\ Top.vector = ThreadVector
                         /\ Top.at \in {"boot", "run", "panic", "dead"}
      /\ Len(ctx) >= 2 => HandlerFits(Top)
      /\ Len(ctx) >= 3 => Top.vector \notin 32..47
      /\ LevelFits(Top, Len(ctx), Len(ctx))
  BY TopFacts, BoundsAssumption DEF IInv
<1> DEFINE s == [ctx EXCEPT ![Len(ctx)] = t]
<1>2. LevelFits(t, Len(ctx), Len(ctx)) /\ (Len(ctx) >= 2 => HandlerFits(t))
  BY <1>1 DEF LevelFits, HandlerFits
<1>3. StackFits(s)
  BY <1>1, <1>2, SetTopFits
<1>4. /\ s \in Stacks /\ Len(s) = Len(ctx) /\ s[Len(ctx)] = t
      /\ \A k \in 1..Len(ctx) : k # Len(ctx) => s[k] = ctx[k]
  BY <1>1, SetTopStack
<1>5. /\ Enter(v) \in Context /\ HandlerFits(Enter(v))
      /\ Enter(v).fate = Ok /\ Enter(v).at # "dead" /\ Enter(v).vector = v
  BY DEF Enter, Context, HandlerFits
<1>6. ctx' = Append(s, Enter(v))
  BY DEF SetTop
<1> HIDE DEF s
<1>7. StackFits(ctx')
  BY <1>3, <1>4, <1>5, <1>6, PushFits
<1>8. /\ ctx' \in Stacks /\ Len(ctx') = Len(s) + 1
      /\ ctx'[Len(s) + 1] = Enter(v)
      /\ \A k \in 1..Len(s) : ctx'[k] = s[k]
  BY <1>4, <1>5, <1>6, PushStack
<1>9. \A k \in Nat : k >= 1 /\ k < Len(ctx) => ctx'[k] = ctx[k]
  <2> SUFFICES ASSUME NEW k \in Nat, k >= 1, k < Len(ctx) PROVE ctx'[k] = ctx[k]
    OBVIOUS
  <2>1. k \in 1..Len(ctx) /\ k # Len(ctx)
    BY <1>1
  <2>2. s[k] = ctx[k]
    BY <1>4, <2>1
  <2>3. ctx'[k] = s[k]
    BY <1>4, <1>8, <2>1
  <2> QED
    BY <2>2, <2>3
<1>10. (Len(ctx) >= 2 => ctx'[1] = ctx[1]) /\ (Len(ctx) >= 3 => ctx'[2] = ctx[2])
  <2>1. Len(ctx) >= 2 => ctx'[1] = ctx[1]
    <3>1. 1 \in Nat /\ 1 >= 1 /\ (Len(ctx) >= 2 => 1 < Len(ctx))
      BY <1>1
    <3> QED
      BY <1>9, <3>1
  <2>2. Len(ctx) >= 3 => ctx'[2] = ctx[2]
    <3>1. 2 \in Nat /\ 2 >= 1 /\ (Len(ctx) >= 3 => 2 < Len(ctx))
      BY <1>1
    <3> QED
      BY <1>9, <3>1
  <2> QED
    BY <2>1, <2>2
<1>11. ctx'[Len(ctx)] = t
  <2>1. Len(ctx) \in 1..Len(ctx)
    BY <1>1 DEF Stacks
  <2> QED
    BY <1>4, <1>8, <2>1
<1>12. StackFits(ctx)'
  BY <1>7
<1>13. ctx' \in Seq(Context) /\ Len(ctx') = Len(ctx) + 1 /\ ctx'[Len(ctx) + 1] = Enter(v)
  BY <1>4, <1>8 DEF Stacks
<1> QED
  BY <1>10, <1>11, <1>12, <1>13

-----------------------------------------------------------------------------
(* The invariant, action by action.                                        *)

LEMMA Calls ==
  /\ Len(BootCalls) = 10
  /\ BootCalls[1] = "vga_init" /\ BootCalls[2] = "gdt_init"
  /\ BootCalls[3] = "idt_init" /\ BootCalls[4] = "pic_remap"
  /\ BootCalls[5] = "pit_init" /\ BootCalls[6] = "set_mask0"
  /\ BootCalls[7] = "clear_mask0" /\ BootCalls[8] = "clear_mask1"
  /\ BootCalls[9] = "sti" /\ BootCalls[10] = "init_sse"
BY DEF BootCalls

LEMMA InitInv == Init => IInv
<1> SUFFICES ASSUME Init PROVE IInv
  OBVIOUS
<1> DEFINE thread ==
      [vector |-> ThreadVector, iflag |-> FALSE, at |-> "boot", fate |-> Ok]
<1>1. thread \in Context
  BY DEF Context
<1>2. ctx = <<thread>> /\ ctx \in Seq(Context) /\ Len(ctx) = 1 /\ ctx[1] = thread
  BY <1>1 DEF Init
<1>3. Len(ctx) \in 1..MaxDepth+1
  BY <1>2, BoundsAssumption
<1>4. pic \in Pics /\ pic.isr = {} /\ pic.irr = {}
  BY MasksAssumption DEF Init, FirmwarePic, Pics
<1>5. /\ ticks \in 0..TICKS-1 /\ {sent, handled} \subseteq 0..MaxKeys
      /\ served \in Nat /\ faults \in 0..MaxFaults
      /\ {rested, full, missed} \subseteq BOOLEAN
  <2>1. /\ ticks = 0 /\ sent = 0 /\ handled = 0 /\ served = 0 /\ faults = 0
        /\ rested = TRUE /\ full = FALSE /\ missed = FALSE
    BY DEF Init
  <2>2. 0 \in 0..TICKS-1 /\ 0 \in 0..MaxKeys /\ 0 \in Nat /\ 0 \in 0..MaxFaults
    BY BoundsAssumption
  <2> QED
    BY <2>1, <2>2
<1>6. TypeOK
  BY <1>2, <1>3, <1>4, <1>5 DEF TypeOK, Init
<1>7. StackFits(ctx)
  BY <1>2 DEF StackFits, LevelFits
<1>8. ReadyInv /\ PicInv /\ KeyInv /\ TickInv
  BY <1>2, <1>4 DEF Init, ReadyInv, PicInv, KeyInv, TickInv, IrqHandled, EachKeyOnce
<1> QED
  BY <1>6, <1>7, <1>8 DEF IInv

LEMMA BootStepKeeps ==
  ASSUME IInv, BootStep
  PROVE  IInv'
<1>1. /\ Len(ctx) = 1 /\ Top = ctx[1] /\ Top \in Context /\ Top.at = "boot"
      /\ Top.vector = ThreadVector /\ LevelFits(Top, 1, 1)
  BY TopFacts DEF BootStep
<1>2. PICK n \in 1..Len(BootCalls) :
        /\ done = {BootCalls[k] : k \in 1..n-1}
        /\ done' = done \cup {BootCalls[n]}
        /\ pic' = BootPic(BootCalls[n])
        /\ missed' = (missed \/ (BootCalls[n] = "pic_remap" /\ full))
        /\ ctx' = SetTop([Top EXCEPT
                    !.iflag = @ \/ BootCalls[n] = "sti",
                    !.at = IF n = Len(BootCalls) THEN "run" ELSE "boot"])
  BY DEF BootStep
<1> DEFINE t == [Top EXCEPT !.iflag = @ \/ BootCalls[n] = "sti",
                            !.at = IF n = Len(BootCalls) THEN "run" ELSE "boot"]
<1>3. /\ t \in Context /\ t.vector = ThreadVector /\ t.at \in {"boot", "run"}
      /\ t.fate = Top.fate
      /\ t.iflag = (Top.iflag \/ BootCalls[n] = "sti")
      /\ t.at = IF n = 10 THEN "run" ELSE "boot"
  BY <1>1, Calls DEF Context
<1>4. LevelFits(t, 1, 1)
  BY <1>1, <1>3 DEF LevelFits
<1>5. ctx' = SetTop(t)
  BY <1>2
<1> HIDE DEF t
<1>6. /\ StackFits(ctx)' /\ ctx' \in Seq(Context) /\ Len(ctx') = 1
      /\ ctx'[1] = t
  BY <1>1, <1>3, <1>4, <1>5, TopChanged
<1>7. Ready => Ready'
  BY <1>2 DEF Ready
<1>8. ReadyInv'
  <2>1. CASE n \in {9, 10}
    <3>1. {1, 2, 3, 4, 5} \subseteq 1..n-1
      BY <2>1
    <3>2. \A k \in {1, 2, 3, 4, 5} : BootCalls[k] \in done'
      BY <1>2, <3>1
    <3>3. Ready'
      BY <3>2, Calls DEF Ready
    <3> QED
      BY <3>3 DEF ReadyInv
  <2>2. CASE n \notin {9, 10}
    <3>1. BootCalls[n] # "sti"
      <4>1. n \in {1, 2, 3, 4, 5, 6, 7, 8}
        BY <2>2, Calls
      <4> QED
        BY <4>1, Calls
    <3>2. t.iflag = Top.iflag /\ t.at = "boot"
      BY <1>1, <1>3, <2>2, <3>1 DEF Context
    <3>3. ctx'[1].iflag = TRUE \/ ctx'[1].at # "boot" \/ Len(ctx') > 1 => Ready
      BY <1>1, <1>6, <3>2 DEF IInv, ReadyInv
    <3> QED
      BY <1>7, <3>3 DEF ReadyInv
  <2> QED
    BY <2>1, <2>2
<1>9. /\ pic \in Pics /\ pic.isr = {}
      /\ "pic_remap" \in done => pic.master = PIC1_OFFSET /\ pic.slave = PIC2_OFFSET
  BY <1>1 DEF IInv, TypeOK, PicInv, IrqHandled
<1>10. /\ pic' \in Pics /\ pic'.isr = {} /\ pic'.irr \subseteq pic.irr
       /\ \/ pic'.master = PIC1_OFFSET /\ pic'.slave = PIC2_OFFSET
          \/ /\ pic'.master = pic.master /\ pic'.slave = pic.slave
             /\ BootCalls[n] # "pic_remap"
  <2>1. CASE BootCalls[n] = "pic_remap"
    <3>1. pic' = pic_remap(pic)
      BY <1>2, <2>1 DEF BootPic
    <3> QED
      BY <1>9, <3>1 DEF pic_remap, Pics
  <2>2. CASE BootCalls[n] # "pic_remap"
    <3>1. pic' \in {pic, pic_set_mask(pic, 0), pic_clear_mask(pic, 0), pic_clear_mask(pic, 1)}
      BY <1>2, <2>2 DEF BootPic
    <3>2. \A imr \in SUBSET Irq :
            LET p == [pic EXCEPT !.imr = imr]
            IN  /\ p \in Pics /\ p.isr = pic.isr /\ p.irr = pic.irr
                /\ p.master = pic.master /\ p.slave = pic.slave
      BY <1>9 DEF Pics
    <3>3. \E imr \in SUBSET Irq : pic' = [pic EXCEPT !.imr = imr]
      <4>1. pic.imr \in SUBSET Irq /\ {0, 1} \subseteq Irq
        BY <1>9 DEF Pics, Irq
      <4>2. CASE pic' = pic
        BY <1>9, <4>1, <4>2 DEF Pics
      <4>3. CASE pic' = pic_set_mask(pic, 0)
        BY <4>1, <4>3 DEF pic_set_mask
      <4>4. CASE pic' \in {pic_clear_mask(pic, 0), pic_clear_mask(pic, 1)}
        BY <4>1, <4>4 DEF pic_clear_mask
      <4> QED
        BY <3>1, <4>2, <4>3, <4>4
    <3>4. /\ pic' \in Pics /\ pic'.isr = pic.isr /\ pic'.irr = pic.irr
          /\ pic'.master = pic.master /\ pic'.slave = pic.slave
      BY <3>2, <3>3
    <3> QED
      BY <1>9, <2>2, <3>4
  <2> QED
    BY <2>1, <2>2
<1>11. PicInv'
  <2>1. "pic_remap" \in done' =>
          "pic_remap" \in done \/ BootCalls[n] = "pic_remap"
    BY <1>2
  <2>2. ~IrqHandled'
    BY <1>6 DEF IrqHandled
  <2> QED
    BY <1>9, <1>10, <2>1, <2>2 DEF PicInv
<1>12. KeyInv'
  <2>1. ~IrqHandled'
    BY <1>6 DEF IrqHandled
  <2> QED
    BY <1>10, <2>1 DEF BootStep, IInv, KeyInv, EachKeyOnce
<1>13. TickInv'
  BY <1>7 DEF BootStep, IInv, TickInv
<1>14. TypeOK'
  <2>1. done' \subseteq {BootCalls[k] : k \in 1..Len(BootCalls)}
    BY <1>2, Calls DEF IInv, TypeOK
  <2>2. Len(ctx') \in 1..MaxDepth+1
    BY <1>6, BoundsAssumption
  <2>3. {rested', full', missed'} \subseteq BOOLEAN
    BY <1>2 DEF BootStep, IInv, TypeOK
  <2> QED
    BY <1>6, <1>10, <2>1, <2>2, <2>3 DEF BootStep, IInv, TypeOK
<1> QED
  BY <1>6, <1>8, <1>11, <1>12, <1>13, <1>14 DEF IInv

\* A device's request changes nothing but a latch, and the keyboard's only
\* when the port was empty.
LEMMA RequestKeeps ==
  ASSUME IInv, TimerFires \/ KeySent \/ \E irq \in Devices : DeviceRequest(irq)
  PROVE  IInv'
<1>1. PICK q \in Irq :
        /\ pic' = Edge(pic, q)
        /\ q = 1 => KeySent
  <2>1. 0 \in Irq /\ 1 \in Irq
    BY DEF Irq
  <2>2. CASE TimerFires
    BY <2>1, <2>2 DEF TimerFires
  <2>3. CASE KeySent
    BY <2>1, <2>3 DEF KeySent
  <2>4. CASE \E irq \in Devices : DeviceRequest(irq)
    BY <2>4, DevicesAssumption DEF DeviceRequest
  <2> QED
    BY <2>2, <2>3, <2>4
<1>2. UNCHANGED <<ctx, done, ticks, handled, served, missed, faults>>
  BY DEF TimerFires, KeySent, DeviceRequest, devices, history
<1>3. /\ KeySent => sent < MaxKeys /\ ~full /\ sent' = sent + 1 /\ full' = TRUE
      /\ UNCHANGED <<sent, full>> \/ KeySent
      /\ rested' = rested
  BY DEF TimerFires, KeySent, DeviceRequest, devices
<1>4. pic \in Pics
  BY DEF IInv, TypeOK
<1>5. /\ pic' \in Pics /\ pic'.irr = pic.irr \cup {q} /\ pic'.isr = pic.isr
      /\ pic'.master = pic.master /\ pic'.slave = pic.slave
  BY <1>1, <1>4 DEF Edge, Pics
<1>6. /\ sent \in 0..MaxKeys /\ handled \in 0..MaxKeys /\ MaxKeys \in Nat
      /\ full \in BOOLEAN
  BY BoundsAssumption DEF IInv, TypeOK
<1>7. TypeOK'
  <2>1. sent' \in 0..MaxKeys /\ full' \in BOOLEAN
    <3>1. CASE KeySent
      <4>1. sent < MaxKeys /\ sent' = sent + 1 /\ full' = TRUE
        BY <1>3, <3>1
      <4> QED
        BY <1>6, <4>1
    <3>2. CASE sent' = sent /\ full' = full
      BY <1>6, <3>2
    <3> QED
      BY <1>3, <3>1, <3>2
  <2> QED
    BY <1>2, <1>3, <1>5, <2>1 DEF IInv, TypeOK
<1>8. StackFits(ctx)' /\ ReadyInv' /\ TickInv'
  BY <1>2 DEF IInv, StackFits, ReadyInv, TickInv, Ready
<1>9. PicInv'
  BY <1>2, <1>5 DEF IInv, PicInv, IrqHandled
<1>10. KeyInv'
  <2>1. CASE KeySent
    <3>1. full = FALSE /\ full' = TRUE /\ sent' = sent + 1
      BY <1>3, <1>6, <2>1
    <3>2. handled = served /\ handled = sent
      BY <3>1 DEF IInv, KeyInv, EachKeyOnce
    <3>3. handled' = served' /\ handled' = sent' - 1
      BY <1>2, <1>6, <3>1, <3>2
    <3>4. EachKeyOnce'
      BY <3>1, <3>3 DEF EachKeyOnce
    <3> QED
      BY <1>2, <3>1, <3>4 DEF IInv, KeyInv, IrqHandled
  <2>2. CASE ~KeySent
    <3>1. q # 1 /\ sent' = sent /\ full' = full
      BY <1>1, <1>3, <2>2
    <3>2. 1 \in pic'.irr <=> 1 \in pic.irr
      BY <1>5, <3>1
    <3> QED
      BY <1>2, <3>1, <3>2 DEF IInv, KeyInv, EachKeyOnce, IrqHandled
  <2> QED
    BY <2>1, <2>2
<1> QED
  BY <1>7, <1>8, <1>9, <1>10 DEF IInv

LEMMA SetTopSelf == IInv => SetTop(Top) = ctx
<1> SUFFICES ASSUME IInv PROVE SetTop(Top) = ctx
  OBVIOUS
<1>1. ctx \in Stacks /\ Top \in Context
  BY TopFacts
<1> DEFINE s == [ctx EXCEPT ![Len(ctx)] = Top]
<1>2. /\ s \in Stacks /\ Len(s) = Len(ctx) /\ s[Len(ctx)] = Top
      /\ \A k \in 1..Len(ctx) : k # Len(ctx) => s[k] = ctx[k]
  BY <1>1, SetTopStack
<1> HIDE DEF s
<1>3. \A k \in 1..Len(s) : s[k] = ctx[k]
  BY <1>2 DEF Top
<1>4. s = ctx
  BY <1>1, <1>2, <1>3, SeqEqual DEF Stacks
<1> QED
  BY <1>4 DEF s, SetTop

\* An interrupt is taken with the thread running and nothing in service.
LEMMA AcceptKeeps ==
  ASSUME IInv, NEW raised \in Irq, Top.iflag,
         ctx' = Append(ctx, Enter(VectorOf(pic, raised))),
         pic' \in Pics, pic'.master = pic.master, pic'.slave = pic.slave,
         pic'.irr \subseteq pic.irr,
         pic'.isr \subseteq pic.isr \cup {raised, Input(raised)},
         raised = 1 => 1 \in pic.irr \ pic'.irr,
         rested' \in BOOLEAN,
         UNCHANGED <<done, ticks, sent, full, handled, served, missed, faults>>
  PROVE  IInv'
<1>1. Len(ctx) = 1 /\ Top = ctx[1] /\ Top \in Context /\ Top.iflag = TRUE
  <2>1. Top \in Context
    BY TopFacts
  <2>2. Top.iflag = TRUE
    BY <2>1 DEF Context
  <2> QED
    BY <2>1, <2>2, TopFacts
<1>2. Ready /\ Ready'
  BY <1>1 DEF IInv, ReadyInv, Ready
<1>3. /\ pic.isr = {} /\ pic.master = PIC1_OFFSET /\ pic.slave = PIC2_OFFSET
  BY <1>1, <1>2 DEF IInv, PicInv, IrqHandled, Ready
<1> DEFINE v == VectorOf(pic, raised)
<1>4. v \in 32..47 /\ v = 32 + raised
  BY <1>3, VectorOfIrq
<1>5. /\ Top.at # "dead"
      /\ Top.fate # Ok => Top.at \in {"run", "dispatch"} /\ Len(ctx) < MaxDepth
  BY <1>1, TopFacts DEF LevelFits
<1>6. ctx' = Append(SetTop(Top), Enter(v))
  BY SetTopSelf
<1> HIDE DEF v
<1>7. v \in 0..47 /\ v - 32 = raised
  BY <1>4 DEF Irq
<1>8. /\ StackFits(ctx)' /\ ctx' \in Seq(Context) /\ Len(ctx') = Len(ctx) + 1
      /\ ctx'[Len(ctx) + 1] = Enter(v)
  <2>1. /\ Top \in Context /\ Top.at # "dead"
        /\ Top.fate # Ok => Top.at \in {"run", "dispatch"} /\ Len(ctx) < MaxDepth
        /\ v \in 32..47 => Len(ctx) = 1
        /\ v \in 0..47
    BY <1>1, <1>5, <1>7
  <2> QED
    BY <1>6, <2>1, TopAdded
<1>9. /\ Len(ctx') = 2
      /\ ctx'[2].vector = v /\ ctx'[2].at = "dispatch"
  BY <1>1, <1>8 DEF Enter
<1>10. PicInv'
  <2>1. pic'.isr \subseteq {raised, Input(raised)}
    BY <1>3
  <2>2. IrqHandled' /\ ctx'[2].at # "iret" /\ ctx'[2].vector - 32 = raised
    BY <1>4, <1>7, <1>9 DEF IrqHandled
  <2> QED
    BY <1>3, <2>1, <2>2 DEF PicInv
<1>11. KeyInv'
  <2>1. EachKeyOnce' /\ (1 \in pic'.irr => full' = TRUE)
    BY DEF IInv, KeyInv, EachKeyOnce
  <2>2. ASSUME v = Kbd PROVE full' = TRUE /\ 1 \notin pic'.irr
    <3>1. raised = 1
      BY <1>7, <2>2 DEF Kbd
    <3> QED
      BY <3>1 DEF IInv, KeyInv
  <2> QED
    BY <1>9, <2>1, <2>2 DEF KeyInv
<1>12. TypeOK'
  <2>1. Len(ctx') \in 1..MaxDepth+1
    BY <1>9, BoundsAssumption
  <2> QED
    BY <1>8, <2>1 DEF IInv, TypeOK
<1>13. ReadyInv' /\ TickInv'
  BY <1>2 DEF ReadyInv, TickInv
<1> QED
  BY <1>8, <1>10, <1>11, <1>12, <1>13 DEF IInv

LEMMA AcceptIrqKeeps ==
  ASSUME IInv, NEW irq \in Irq, AcceptIrq(irq)
  PROVE  IInv'
<1>1. Input(irq) \in Irq
  BY DEF Irq, Input, Cascade
<1>2. pic \in Pics /\ irq \in pic.irr
  BY DEF AcceptIrq, Highest, Eligible, IInv, TypeOK
<1>3. /\ pic' \in Pics /\ pic'.master = pic.master /\ pic'.slave = pic.slave
      /\ pic'.irr = pic.irr \ {irq} /\ pic'.isr = pic.isr \cup {irq, Input(irq)}
  BY <1>1, <1>2 DEF AcceptIrq, Acknowledge, Pics
<1>4. /\ Top.iflag /\ ctx' = Append(ctx, Enter(VectorOf(pic, irq)))
      /\ rested' \in BOOLEAN
      /\ UNCHANGED <<done, ticks, sent, full, handled, served, missed, faults>>
  BY DEF AcceptIrq, history
<1> QED
  BY <1>2, <1>3, <1>4, AcceptKeeps

LEMMA AcceptSpuriousKeeps ==
  ASSUME IInv, NEW irq \in Devices, AcceptSpurious(irq)
  PROVE  IInv'
<1>1. irq \in Irq /\ Spurious(irq) \in Irq /\ Spurious(irq) # 1
  BY DevicesAssumption DEF Irq, Spurious
<1>2. irq \in Slave => Spurious(irq) = 15 /\ Input(15) = Cascade
  BY DEF Slave, Master, Spurious, Input
<1>3. pic \in Pics /\ Cascade \in Irq
  BY DEF IInv, TypeOK, Cascade, Irq
<1>4. /\ pic' \in Pics /\ pic'.master = pic.master /\ pic'.slave = pic.slave
      /\ pic'.irr \subseteq pic.irr
      /\ pic'.isr \subseteq pic.isr \cup {Spurious(irq), Input(Spurious(irq))}
  <2>1. pic' = AcknowledgeSpurious(pic, irq)
    BY DEF AcceptSpurious
  <2>2. CASE irq \in Slave
    BY <1>2, <1>3, <2>1, <2>2 DEF AcknowledgeSpurious, Pics
  <2>3. CASE irq \notin Slave
    BY <1>3, <2>1, <2>3 DEF AcknowledgeSpurious, Pics
  <2> QED
    BY <2>2, <2>3
<1>5. /\ Top.iflag /\ ctx' = Append(ctx, Enter(VectorOf(pic, Spurious(irq))))
      /\ rested' \in BOOLEAN
      /\ UNCHANGED <<done, ticks, sent, full, handled, served, missed, faults>>
  BY DEF AcceptSpurious, history
<1> QED
  BY <1>1, <1>4, <1>5, AcceptKeeps

\* An exception keeps the interrupt below it where it was.
LEMMA ExceptionKeeps ==
  ASSUME IInv, NEW t \in Context, t.vector = Top.vector, t.at = Top.at,
         t.iflag = Top.iflag, Top.at \in {"run", "dispatch"},
         t.fate # Ok => Len(ctx) < MaxDepth, Len(ctx) <= MaxDepth,
         NEW v \in 0..31, ctx' = Append(SetTop(t), Enter(v)),
         rested' \in BOOLEAN, faults' \in 0..MaxFaults,
         UNCHANGED <<pic, done, ticks, sent, full, handled, served, missed>>
  PROVE  IInv'
<1>1. /\ v \in 0..47 /\ v \notin 32..47
      /\ Top.at # "dead" /\ Len(ctx) \in Nat /\ Len(ctx) >= 1
  BY TopFacts DEF Stacks
<1>2. /\ StackFits(ctx)' /\ ctx' \in Seq(Context) /\ Len(ctx') = Len(ctx) + 1
      /\ ctx'[Len(ctx)] = t /\ ctx'[Len(ctx) + 1] = Enter(v)
      /\ Len(ctx) >= 2 => ctx'[1] = ctx[1]
      /\ Len(ctx) >= 3 => ctx'[2] = ctx[2]
  BY <1>1, TopAdded
<1>3. /\ IrqHandled' <=> IrqHandled
      /\ IrqHandled => /\ ctx'[2].vector = ctx[2].vector
                       /\ ctx'[2].at = ctx[2].at
  <2>1. CASE Len(ctx) = 1
    <3>1. ctx'[2].vector = v
      BY <1>2, <2>1 DEF Enter
    <3> QED
      BY <1>1, <2>1, <3>1 DEF IrqHandled
  <2>2. CASE Len(ctx) = 2
    <3>1. ctx'[2] = t /\ Top = ctx[2] /\ Len(ctx') = 3
      BY <1>2, <2>2 DEF Top
    <3> QED
      BY <2>2, <3>1 DEF IrqHandled
  <2>3. CASE Len(ctx) >= 3
    <3>1. ctx'[2] = ctx[2] /\ Len(ctx') > 1 /\ Len(ctx) > 1
      BY <1>1, <1>2, <2>3
    <3> QED
      BY <3>1 DEF IrqHandled
  <2>4. Len(ctx) = 1 \/ Len(ctx) = 2 \/ Len(ctx) >= 3
    BY Heights
  <2> QED
    BY <2>1, <2>2, <2>3, <2>4
<1>4. Ready /\ Ready'
  <2>1. Len(ctx) > 1 \/ ctx[1].at # "boot"
    <3>1. CASE Len(ctx) = 1
      BY <3>1 DEF Top
    <3> QED
      BY <3>1, Heights
  <2> QED
    BY <2>1 DEF IInv, ReadyInv, Ready
<1>5. ReadyInv' /\ TickInv'
  BY <1>4 DEF ReadyInv, TickInv
<1>6. PicInv'
  BY <1>3 DEF IInv, PicInv
<1>7. KeyInv'
  <2>1. EachKeyOnce' /\ (1 \in pic'.irr => full' = TRUE)
    BY DEF IInv, KeyInv, EachKeyOnce
  <2>2. IrqHandled' /\ ctx'[2].vector = Kbd /\ ctx'[2].at = "dispatch"
          => full' = TRUE /\ 1 \notin pic'.irr
    BY <1>3 DEF IInv, KeyInv
  <2> QED
    BY <2>1, <2>2 DEF KeyInv
<1>8. TypeOK'
  <2>1. Len(ctx') \in 1..MaxDepth+1
    BY <1>1, <1>2, BoundsAssumption
  <2> QED
    BY <1>2, <2>1 DEF IInv, TypeOK
<1> QED
  BY <1>2, <1>5, <1>6, <1>7, <1>8 DEF IInv

LEMMA RaiseKeeps ==
  ASSUME IInv, NEW v \in Exceptions, Raise(v)
  PROVE  IInv'
<1>1. Top \in Context /\ v \in 0..31
  BY TopFacts, ExceptionsAssumption
<1>2. PICK fate \in Fates(v) : ctx' = Append(SetTop([Top EXCEPT !.fate = fate]), Enter(v))
  BY DEF Raise
<1> DEFINE t == [Top EXCEPT !.fate = fate]
<1>3. /\ t \in Context /\ t.vector = Top.vector /\ t.at = Top.at
      /\ t.iflag = Top.iflag
  <2>1. fate \in {Ok} \cup 0..31
    BY <1>1 DEF Fates
  <2> QED
    BY <1>1, <2>1 DEF Context
<1>4. Top.at \in {"run", "dispatch"} /\ Len(ctx) < MaxDepth
  BY DEF Raise
<1>5. Len(ctx) <= MaxDepth
  <2>1. Len(ctx) \in Nat /\ MaxDepth \in Nat
    BY TopFacts, BoundsAssumption DEF Stacks
  <2> QED
    BY <1>4, <2>1
<1>6. faults' \in 0..MaxFaults
  <2>1. faults \in 0..MaxFaults /\ MaxFaults \in Nat
    BY BoundsAssumption DEF IInv, TypeOK
  <2>2. faults < MaxFaults /\ faults' = faults + 1
    BY DEF Raise
  <2> QED
    BY <2>1, <2>2
<1>7. /\ UNCHANGED <<pic, done, ticks, sent, full, handled, served, missed>>
      /\ rested' \in BOOLEAN
  BY DEF Raise, devices, IInv, TypeOK
<1>8. ctx' = Append(SetTop(t), Enter(v)) /\ (t.fate # Ok => Len(ctx) < MaxDepth)
  BY <1>2, <1>4
<1> HIDE DEF t
<1> QED
  BY <1>1, <1>3, <1>4, <1>5, <1>6, <1>7, <1>8, ExceptionKeeps

LEMMA RefaultKeeps ==
  ASSUME IInv, Refault
  PROVE  IInv'
<1>1. Top \in Context /\ Top.fate # Ok /\ LevelFits(Top, Len(ctx), Len(ctx))
  BY TopFacts DEF Refault
<1>2. Top.at \in {"run", "dispatch"} /\ Len(ctx) < MaxDepth
  BY <1>1 DEF LevelFits
<1>3. Len(ctx) <= MaxDepth
  <2>1. Len(ctx) \in Nat /\ MaxDepth \in Nat
    BY TopFacts, BoundsAssumption DEF Stacks
  <2> QED
    BY <1>2, <2>1
<1>4. ctx' = Append(SetTop(Top), Enter(Top.fate)) /\ Top.fate \in 0..31
  BY <1>1, SetTopSelf DEF Refault, Context
<1>5. /\ UNCHANGED <<pic, done, ticks, sent, full, handled, served, missed>>
      /\ rested' \in BOOLEAN /\ faults' \in 0..MaxFaults
  BY DEF Refault, history, IInv, TypeOK
<1> QED
  BY <1>1, <1>2, <1>3, <1>4, <1>5, ExceptionKeeps

\* Only the second context handles an interrupt.
LEMMA IrqIsSecond ==
  ASSUME IInv, Top.vector \in 32..47
  PROVE  Len(ctx) = 2 /\ Top = ctx[2] /\ IrqHandled
<1>1. Len(ctx) # 1
  <2>1. Len(ctx) = 1 => Top.vector = ThreadVector
    BY TopFacts
  <2>2. ThreadVector \notin 32..47
    BY DEF ThreadVector
  <2> QED
    BY <2>1, <2>2
<1>2. ~(Len(ctx) >= 3)
  BY TopFacts
<1>3. Len(ctx) = 2
  BY <1>1, <1>2, Heights
<1> QED
  BY <1>3 DEF Top, IrqHandled

LEMMA DispatchIrqKeeps ==
  ASSUME IInv, interrupt_dispatch, DispatchIrq
  PROVE  IInv'
<1>1. /\ Len(ctx) = 2 /\ Top = ctx[2] /\ IrqHandled /\ Top \in Context
      /\ Top.vector \in 32..47 /\ Top.at = "dispatch" /\ Top.fate = Ok
      /\ HandlerFits(Top)
  BY IrqIsSecond, TopFacts DEF DispatchIrq, interrupt_dispatch
<1> DEFINE c == [Top EXCEPT !.at = "eoi"]
<1>2. /\ c \in Context /\ c.vector = Top.vector /\ c.at = "eoi"
      /\ HandlerFits(c) /\ LevelFits(c, 2, 2)
  BY <1>1 DEF Context, HandlerFits, LevelFits
<1>3. ctx' = SetTop(c)
  BY DEF DispatchIrq, Go
<1> HIDE DEF c
<1>4. /\ StackFits(ctx)' /\ ctx' \in Seq(Context) /\ Len(ctx') = Len(ctx)
      /\ ctx'[Len(ctx)] = c
  BY <1>1, <1>2, <1>3, TopChanged
<1>5. IrqHandled' /\ ctx'[2].vector = ctx[2].vector /\ ctx'[2].at = "eoi"
  BY <1>1, <1>2, <1>4 DEF IrqHandled
<1>6. Ready /\ Ready'
  BY <1>1 DEF IInv, ReadyInv, Ready, interrupt_dispatch
<1>7. ReadyInv' /\ TickInv'
  BY <1>6 DEF ReadyInv, TickInv
<1>8. PicInv'
  BY <1>1, <1>5 DEF interrupt_dispatch, IInv, PicInv
<1>9. /\ sent \in 0..MaxKeys /\ handled \in 0..MaxKeys /\ MaxKeys \in Nat
      /\ full \in BOOLEAN /\ served \in Nat
  BY BoundsAssumption DEF IInv, TypeOK
<1>10. /\ pic' = pic /\ sent' = sent /\ EachKeyOnce'
       /\ 1 \in pic'.irr => full' = TRUE
       /\ handled' \in 0..MaxKeys /\ served' \in Nat /\ full' \in BOOLEAN
  <2>1. pic' = pic /\ sent' = sent
    BY DEF interrupt_dispatch
  <2>2. CASE Top.vector = Kbd
    <3>1. full = TRUE /\ 1 \notin pic.irr
      BY <1>1, <2>2 DEF IInv, KeyInv
    <3>2. handled' = sent /\ served' = served + 1 /\ full' = FALSE
      BY <2>2 DEF DispatchIrq
    <3>3. served = sent - 1
      BY <3>1 DEF IInv, KeyInv, EachKeyOnce
    <3>4. served' = sent
      BY <1>9, <3>2, <3>3
    <3>5. handled' = sent' /\ handled' = served' /\ ~full'
      BY <2>1, <3>2, <3>4
    <3>6. EachKeyOnce'
      BY <3>5 DEF EachKeyOnce
    <3>7. handled' \in 0..MaxKeys /\ served' \in Nat /\ full' \in BOOLEAN
      <4>1. handled' \in 0..MaxKeys /\ full' \in BOOLEAN
        BY <1>9, <3>2
      <4>2. served' \in Nat
        BY <1>9, <3>2
      <4> QED
        BY <4>1, <4>2
    <3> QED
      BY <2>1, <3>1, <3>6, <3>7
  <2>3. CASE Top.vector # Kbd
    <3>1. handled' = handled /\ served' = served /\ full' = full
      BY <2>3 DEF DispatchIrq
    <3> QED
      BY <1>9, <2>1, <3>1 DEF IInv, KeyInv, EachKeyOnce
  <2> QED
    BY <2>2, <2>3
<1>11. KeyInv'
  BY <1>5, <1>10 DEF KeyInv
<1>12. ticks' \in 0..TICKS-1
  <2>1. ticks \in 0..TICKS-1 /\ TICKS \in Nat /\ TICKS >= 2
    BY BoundsAssumption DEF IInv, TypeOK
  <2>2. ticks' = ticks \/ ticks' = (ticks + 1) % TICKS
    BY DEF DispatchIrq
  <2> QED
    BY <2>1, <2>2
<1>13. TypeOK'
  <2>1. Len(ctx') \in 1..MaxDepth+1
    BY <1>4 DEF IInv, TypeOK
  <2>2. UNCHANGED <<pic, done, rested, sent, missed, faults>>
    BY DEF interrupt_dispatch
  <2> QED
    BY <1>4, <1>10, <1>12, <2>1, <2>2 DEF IInv, TypeOK
<1> QED
  BY <1>4, <1>7, <1>8, <1>11, <1>13 DEF IInv

\* A step of a context that is not an interrupt's handler.
LEMMA OtherTopKeeps ==
  ASSUME IInv, NEW c \in Context, ctx' = SetTop(c),
         Top.vector \notin 32..47, c.vector = Top.vector,
         c.iflag = TRUE \/ c.at # "boot" => Len(ctx) > 1 \/ Top.at # "boot",
         Len(ctx) = 1 => c.at \in {"run", "panic", "dead"},
         Len(ctx) >= 2 => c.at \in {"dispatch", "iret", "panic", "dead"},
         Len(ctx) >= 2 => c.iflag = FALSE,
         c.at = "dead" => c.iflag = FALSE,
         c.fate = Ok,
         UNCHANGED <<pic, done, ticks, devices, history>>
  PROVE  IInv'
<1>1. /\ Len(ctx) = 1 => Top = ctx[1] /\ Top.vector = ThreadVector
      /\ Len(ctx) >= 2 => HandlerFits(Top)
      /\ Len(ctx) >= 3 => Top.vector \notin 32..47
  BY TopFacts
<1>2. LevelFits(c, Len(ctx), Len(ctx)) /\ (Len(ctx) >= 2 => HandlerFits(c))
  BY <1>1 DEF LevelFits, HandlerFits
<1>3. /\ StackFits(ctx)' /\ ctx' \in Seq(Context) /\ Len(ctx') = Len(ctx)
      /\ ctx'[Len(ctx)] = c
      /\ Len(ctx) >= 3 => ctx'[2] = ctx[2]
  BY <1>1, <1>2, TopChanged
<1>4. /\ IrqHandled' <=> IrqHandled
      /\ IrqHandled => ctx'[2] = ctx[2]
  <2>1. CASE Len(ctx) = 1
    BY <1>3, <2>1 DEF IrqHandled
  <2>2. CASE Len(ctx) = 2
    BY <1>3, <2>2 DEF IrqHandled, Top
  <2>3. CASE Len(ctx) >= 3
    BY <1>3, <2>3, Heights DEF IrqHandled
  <2> QED
    BY <2>1, <2>2, <2>3, Heights
<1>5. Ready' <=> Ready
  BY DEF Ready
<1>6. ReadyInv'
  <2>1. CASE Len(ctx) > 1
    BY <1>5, <2>1 DEF IInv, ReadyInv
  <2>2. CASE Len(ctx) = 1
    <3>1. ctx'[1] = c /\ Top = ctx[1] /\ Len(ctx') = 1
      BY <1>1, <1>3, <2>2
    <3>2. ctx'[1].iflag = TRUE \/ ctx'[1].at # "boot" => Top.at # "boot"
      BY <2>2, <3>1
    <3>3. Top.at # "boot" => Ready
      BY <3>1 DEF IInv, ReadyInv
    <3> QED
      BY <1>5, <3>1, <3>2, <3>3 DEF ReadyInv
  <2> QED
    BY <2>1, <2>2, Heights
<1>7. PicInv'
  BY <1>4 DEF IInv, PicInv
<1>8. KeyInv'
  <2>1. EachKeyOnce' /\ (1 \in pic'.irr => full' = TRUE)
    BY DEF IInv, KeyInv, EachKeyOnce, devices, history
  <2>2. IrqHandled' /\ ctx'[2].vector = Kbd /\ ctx'[2].at = "dispatch"
          => full' = TRUE /\ 1 \notin pic'.irr
    BY <1>4 DEF IInv, KeyInv, devices
  <2> QED
    BY <2>1, <2>2 DEF KeyInv
<1>9. TickInv'
  BY <1>5 DEF IInv, TickInv
<1>10. TypeOK'
  BY <1>3 DEF IInv, TypeOK, devices, history
<1> QED
  BY <1>3, <1>6, <1>7, <1>8, <1>9, <1>10 DEF IInv

LEMMA DispatchExceptionKeeps ==
  ASSUME IInv, interrupt_dispatch, DispatchException
  PROVE  IInv'
<1>1. /\ Top \in Context /\ Top.vector \notin 32..47 /\ Top.at = "dispatch"
      /\ Top.fate = Ok
  BY TopFacts DEF DispatchException, interrupt_dispatch
<1>2. Len(ctx) > 1 /\ Len(ctx) >= 2 /\ Len(ctx) # 1 /\ HandlerFits(Top)
  <2>1. Len(ctx) # 1
    BY <1>1, TopFacts
  <2>2. Len(ctx) > 1 /\ Len(ctx) >= 2
    BY <2>1, Heights
  <2> QED
    BY <2>1, <2>2, TopFacts
<1> DEFINE c == [Top EXCEPT !.at = IF Top.vector \in Panicking THEN "panic" ELSE "iret"]
<1>3. /\ c \in Context /\ c.vector = Top.vector /\ c.at \in {"panic", "iret"}
      /\ c.iflag = FALSE /\ c.fate = Ok
  BY <1>1, <1>2 DEF Context, HandlerFits
<1>4. ctx' = SetTop(c) /\ UNCHANGED <<pic, done, ticks, devices, history>>
  BY DEF DispatchException, Go, interrupt_dispatch, devices, history
<1> HIDE DEF c
<1> QED
  BY <1>1, <1>2, <1>3, <1>4, OtherTopKeeps

LEMMA PanicKeeps ==
  ASSUME IInv, PanicCommand \/ kernel_panic
  PROVE  IInv'
<1>1. /\ Top \in Context
      /\ Len(ctx) = 1 => Top.vector = ThreadVector
      /\ Len(ctx) >= 2 => HandlerFits(Top)
      /\ LevelFits(Top, Len(ctx), Len(ctx))
  BY TopFacts
<1>2. CASE PanicCommand
  <2> DEFINE c == [Top EXCEPT !.at = "panic"]
  <2>1. Len(ctx) = 1 /\ Top.at = "run" /\ Top.fate = Ok
    BY <1>2 DEF PanicCommand
  <2>2. /\ c \in Context /\ c.vector = Top.vector /\ c.at = "panic"
        /\ c.fate = Ok
    BY <1>1, <2>1 DEF Context
  <2>3. ctx' = SetTop(c) /\ UNCHANGED <<pic, done, ticks, devices, history>>
    BY <1>2 DEF PanicCommand, Go
  <2>4. Top.vector \notin 32..47
    BY <1>1, <2>1 DEF ThreadVector
  <2>5. ~(Len(ctx) >= 2)
    BY <2>1
  <2> HIDE DEF c
  <2> QED
    BY <2>1, <2>2, <2>3, <2>4, <2>5, OtherTopKeeps
<1>3. CASE kernel_panic
  <2> DEFINE c == [Top EXCEPT !.at = "dead", !.iflag = FALSE]
  <2>1. Top.at = "panic"
    BY <1>3 DEF kernel_panic
  <2>2. Top.fate = Ok
    BY <1>1, <2>1 DEF LevelFits
  <2>3. /\ c \in Context /\ c.vector = Top.vector /\ c.at = "dead"
        /\ c.iflag = FALSE /\ c.fate = Ok
    BY <1>1, <2>2 DEF Context
  <2>4. ctx' = SetTop(c) /\ UNCHANGED <<pic, done, ticks, devices, history>>
    BY <1>3 DEF kernel_panic
  <2>5. Top.vector \notin 32..47
    <3>1. CASE Len(ctx) = 1
      BY <1>1, <3>1 DEF ThreadVector
    <3>2. CASE Len(ctx) >= 2
      BY <1>1, <2>1, <3>2 DEF HandlerFits
    <3> QED
      BY <3>1, <3>2, Heights
  <2> HIDE DEF c
  <2> QED
    BY <2>1, <2>3, <2>4, <2>5, OtherTopKeeps
<1> QED
  BY <1>2, <1>3

\* The EOI comes after the driver: what it ends is the request being handled.
LEMMA SendEoiKeeps ==
  ASSUME IInv, SendEoi
  PROVE  IInv'
<1>1. Top.vector \in 32..47
  <2>1. Len(ctx) # 1
    BY TopFacts DEF SendEoi
  <2>2. Len(ctx) >= 2
    BY <2>1, Heights
  <2> QED
    BY <2>2, TopFacts DEF SendEoi, HandlerFits
<1>2. /\ Len(ctx) = 2 /\ Top = ctx[2] /\ IrqHandled /\ Top \in Context
      /\ HandlerFits(Top) /\ LevelFits(Top, 2, 2) /\ Top.at = "eoi"
  BY <1>1, IrqIsSecond, TopFacts DEF SendEoi
<1> DEFINE c == [Top EXCEPT !.at = "iret"]
<1>3. /\ c \in Context /\ c.vector = Top.vector /\ c.at = "iret"
      /\ HandlerFits(c) /\ LevelFits(c, 2, 2)
  BY <1>2 DEF Context, HandlerFits, LevelFits
<1>4. ctx' = SetTop(c)
  BY DEF SendEoi, Go
<1> HIDE DEF c
<1>5. /\ StackFits(ctx)' /\ ctx' \in Seq(Context) /\ Len(ctx') = Len(ctx)
      /\ ctx'[Len(ctx)] = c
  BY <1>2, <1>3, <1>4, TopChanged
<1>6. IrqHandled' /\ ctx'[2].at = "iret"
  BY <1>1, <1>2, <1>3, <1>5 DEF IrqHandled
<1>7. pic \in Pics /\ Top.vector - 32 \in Irq
  BY <1>1 DEF IInv, TypeOK, Irq
<1>8. pic.isr \subseteq {Top.vector - 32, Input(Top.vector - 32)}
  BY <1>2 DEF IInv, PicInv
<1>9. pic' = [pic EXCEPT !.isr = {}]
  BY <1>7, <1>8, EoiEmpties DEF SendEoi
<1>10. /\ pic' \in Pics /\ pic'.isr = {} /\ pic'.irr = pic.irr
       /\ pic'.master = pic.master /\ pic'.slave = pic.slave
  BY <1>7, <1>9 DEF Pics
<1>11. UNCHANGED <<done, ticks, rested, sent, full, handled, served, missed, faults>>
  BY DEF SendEoi, devices, history
<1>12. ReadyInv' /\ TickInv'
  BY <1>2, <1>11 DEF IInv, ReadyInv, TickInv, Ready
<1>13. PicInv'
  BY <1>6, <1>10, <1>11 DEF IInv, PicInv
<1>14. KeyInv'
  BY <1>6, <1>10, <1>11 DEF IInv, KeyInv, EachKeyOnce
<1>15. TypeOK'
  BY <1>5, <1>10, <1>11 DEF IInv, TypeOK
<1> QED
  BY <1>5, <1>12, <1>13, <1>14, <1>15 DEF IInv

LEMMA IretKeeps ==
  ASSUME IInv, Iret
  PROVE  IInv'
<1>1. Len(ctx) # 1
  BY TopFacts DEF Iret
<1>2. ctx \in Stacks /\ StackFits(ctx) /\ Len(ctx) >= 2 /\ Len(ctx) \in Nat
  BY <1>1, Heights, TopFacts DEF IInv
<1>3. ctx' = SubSeq(ctx, 1, Len(ctx) - 1)
  BY DEF Iret
<1>4. StackFits(ctx)'
  BY <1>2, <1>3, PopFits
<1>5. /\ ctx' \in Stacks /\ Len(ctx') = Len(ctx) - 1
      /\ \A k \in 1..Len(ctx)-1 : ctx'[k] = ctx[k]
  BY <1>2, <1>3, PopStack
<1>6. Ready /\ Ready'
  <2>1. Len(ctx) > 1
    BY <1>1, Heights
  <2> QED
    BY <2>1 DEF IInv, ReadyInv, Ready, Iret
<1>7. UNCHANGED <<pic, done, ticks, rested, sent, full, handled, served, missed, faults>>
  BY DEF Iret, devices, history
<1>8. CASE Len(ctx) = 2
  <2>1. ~IrqHandled'
    BY <1>5, <1>8 DEF IrqHandled
  <2>2. pic.isr = {}
    <3>1. Top = ctx[2] /\ Top.at = "iret"
      BY <1>8 DEF Top, Iret
    <3> QED
      BY <3>1 DEF IInv, PicInv
  <2>3. PicInv'
    BY <1>7, <2>1, <2>2 DEF IInv, PicInv
  <2>4. KeyInv'
    BY <1>7, <2>1 DEF IInv, KeyInv, EachKeyOnce
  <2> QED
    <3>1. Len(ctx') \in 1..MaxDepth+1
      BY <1>5, <1>8, BoundsAssumption
    <3>2. TypeOK'
      BY <1>5, <1>7, <3>1 DEF IInv, TypeOK, Stacks
    <3> QED
      BY <1>4, <1>6, <2>3, <2>4, <3>2 DEF IInv, ReadyInv, TickInv
<1>9. CASE Len(ctx) >= 3
  <2>1. ctx'[2] = ctx[2] /\ (IrqHandled' <=> IrqHandled)
    <3>1. 2 \in 1..Len(ctx)-1 /\ Len(ctx) > 1 /\ Len(ctx) - 1 > 1
      BY <1>2, <1>9
    <3> QED
      BY <1>5, <3>1 DEF IrqHandled
  <2>2. PicInv'
    BY <1>7, <2>1 DEF IInv, PicInv
  <2>3. KeyInv'
    BY <1>7, <2>1 DEF IInv, KeyInv, EachKeyOnce
  <2> QED
    <3>1. Len(ctx') \in 1..MaxDepth+1
      <4>1. Len(ctx) <= MaxDepth + 1 /\ MaxDepth \in Nat
        BY BoundsAssumption DEF IInv, TypeOK
      <4> QED
        BY <1>2, <1>5, <4>1
    <3>2. TypeOK'
      BY <1>5, <1>7, <3>1 DEF IInv, TypeOK, Stacks
    <3> QED
      BY <1>4, <1>6, <2>2, <2>3, <3>2 DEF IInv, ReadyInv, TickInv
<1> QED
  BY <1>1, <1>8, <1>9, Heights

LEMMA NextInv == IInv /\ [Next]_vars => IInv'
<1> SUFFICES ASSUME IInv, [Next]_vars PROVE IInv'
  OBVIOUS
<1>1. CASE BootStep
  BY <1>1, BootStepKeeps
<1>2. CASE Work \/ UNCHANGED vars
  <2>1. /\ UNCHANGED <<ctx, pic, done, ticks, sent, full, handled, served, missed, faults>>
        /\ rested' \in BOOLEAN
    BY <1>2 DEF Work, vars, devices, history, IInv, TypeOK
  <2> QED
    BY <2>1 DEF IInv, TypeOK, StackFits, ReadyInv, Ready, PicInv, KeyInv, TickInv,
                IrqHandled, EachKeyOnce
<1>3. CASE Refault
  BY <1>3, RefaultKeeps
<1>4. ASSUME NEW irq \in Irq, AcceptIrq(irq) PROVE IInv'
  BY <1>4, AcceptIrqKeeps
<1>5. CASE interrupt_dispatch
  BY <1>5, DispatchIrqKeeps, DispatchExceptionKeeps DEF interrupt_dispatch
<1>6. CASE SendEoi
  BY <1>6, SendEoiKeeps
<1>7. CASE Iret
  BY <1>7, IretKeeps
<1>8. CASE kernel_panic \/ PanicCommand
  BY <1>8, PanicKeeps
<1>9. CASE TimerFires \/ KeySent \/ \E irq \in Devices : DeviceRequest(irq)
  BY <1>9, RequestKeeps
<1>10. ASSUME NEW irq \in Devices, AcceptSpurious(irq) PROVE IInv'
  BY <1>10, AcceptSpuriousKeeps
<1>11. ASSUME NEW v \in Exceptions, Raise(v) PROVE IInv'
  BY <1>11, RaiseKeeps
<1> QED
  BY <1>1, <1>2, <1>3, <1>4, <1>5, <1>6, <1>7, <1>8, <1>9, <1>10, <1>11
     DEF Next, Cpu

-----------------------------------------------------------------------------
(* The theorems.                                                           *)

\* The stack never holds more than one context above the depth at which
\* exceptions stop, the controllers' registers name IRQs, and every counter
\* keeps to its range.
THEOREM TypeCorrect == Spec => []TypeOK
<1>1. IInv => TypeOK
  BY DEF IInv
<1> QED
  BY <1>1, InitInv, NextInv, PTL DEF Spec

\* No handler runs before the console, the segments, the gates and the
\* controllers' vectors are set up, and no tick is counted at the rate the
\* firmware left, whatever it left masked or pending.
THEOREM HandlersReady == Spec => []InterruptsReady
<1>1. ASSUME IInv PROVE InterruptsReady
  <2>1. Top.iflag \/ Len(ctx) > 1 => Ready
    <3>1. ASSUME Top.iflag, Len(ctx) = 1 PROVE ctx[1].iflag = TRUE
      BY <1>1, <3>1, TopFacts DEF Context
    <3> QED
      BY <1>1, <3>1, Heights DEF IInv, ReadyInv
  <2>2. ticks # 0 => Ready
    BY <1>1 DEF IInv, TickInv
  <2> QED
    BY <2>1, <2>2 DEF InterruptsReady, Ready
<1> QED
  BY <1>1, InitInv, NextInv, PTL DEF Spec

\* Interrupt handlers never nest, whatever exceptions their drivers raise.
THEOREM HandlersDoNotNest == Spec => []NoNestedIrq
<1>1. ASSUME IInv PROVE NoNestedIrq
  <2>1. IrqContexts \subseteq {2}
    <3> SUFFICES ASSUME NEW k \in 1..Len(ctx), ctx[k].vector \in 32..47
                 PROVE  k = 2
      BY DEF IrqContexts
    <3>1. k # 1
      BY <1>1 DEF IInv, StackFits, ThreadVector
    <3>2. ~(k >= 3)
      BY <1>1 DEF IInv, StackFits
    <3> QED
      BY <3>1, <3>2
  <2>2. IsFiniteSet({2}) /\ Cardinality({2}) = 1
    BY FS_Singleton
  <2>3. Cardinality(IrqContexts) <= Cardinality({2})
    BY <2>1, <2>2, FS_Subset
  <2> QED
    BY <2>2, <2>3 DEF NoNestedIrq
<1> QED
  BY <1>1, InitInv, NextInv, PTL DEF Spec

\* Every request, real or spurious, of either controller, is ended by the time
\* its handler is gone: nothing is held back for good.
THEOREM NothingLeftInService == Spec => []AllAcknowledged
<1>1. ASSUME IInv PROVE AllAcknowledged
  <2> SUFFICES ASSUME IrqContexts = {} PROVE pic.isr = {}
    BY DEF AllAcknowledged
  <2>1. ~IrqHandled
    <3>1. Len(ctx) > 1 => 2 \in 1..Len(ctx)
      BY <1>1, Heights
    <3> QED
      BY <3>1 DEF IrqHandled, IrqContexts
  <2> QED
    BY <1>1, <2>1 DEF IInv, PicInv
<1> QED
  BY <1>1, InitInv, NextInv, PTL DEF Spec

\* The driver gets each byte of the keyboard once, in the order sent.
THEOREM KeysHandledOnce == Spec => []EachKeyOnce
<1>1. IInv => EachKeyOnce
  BY DEF IInv, KeyInv
<1> QED
  BY <1>1, InitInv, NextInv, PTL DEF Spec

\* After a panic nothing runs: the dead context is the last one, and with its
\* flag clear no interrupt is put on top of it.
THEOREM PanicStopsKernel == Spec => PanicIsFinal
<1>1. ASSUME IInv, [Next]_vars, Dead PROVE UNCHANGED <<ctx, ticks, served>>
  <2>1. PICK k \in 1..Len(ctx) : ctx[k].at = "dead"
    BY <1>1 DEF Dead
  <2>2. k = Len(ctx) /\ ctx[k].iflag = FALSE /\ ctx[k].fate = Ok
    BY <1>1, <2>1 DEF IInv, StackFits, LevelFits
  <2>3. Top.at = "dead" /\ Top.iflag = FALSE /\ Top.fate = Ok
    BY <2>1, <2>2 DEF Top
  <2>4. CASE TimerFires \/ KeySent \/ \E irq \in Devices : DeviceRequest(irq)
    BY <2>4 DEF TimerFires, KeySent, DeviceRequest, history, devices
  <2>5. CASE UNCHANGED vars
    BY <2>5 DEF vars, history
  <2>6. ~BootStep /\ ~Work /\ ~Refault /\ ~interrupt_dispatch /\ ~SendEoi /\ ~Iret
        /\ ~kernel_panic /\ ~PanicCommand
    BY <2>3 DEF BootStep, Work, Refault, interrupt_dispatch, SendEoi, Iret,
                kernel_panic, PanicCommand
  <2>7. /\ \A irq \in Irq : ~AcceptIrq(irq)
        /\ \A irq \in Devices : ~AcceptSpurious(irq)
        /\ \A v \in Exceptions : ~Raise(v)
    BY <2>3 DEF AcceptIrq, AcceptSpurious, Raise
  <2> QED
    BY <1>1, <2>4, <2>5, <2>6, <2>7 DEF Next, Cpu
<1>2. IInv /\ [Next]_vars => [Dead => UNCHANGED <<ctx, ticks, served>>]_vars
  BY <1>1
<1> QED
  BY <1>2, InitInv, NextInv, PTL DEF Spec, PanicIsFinal
=============================================================================
