-------------------------------- MODULE Pic ---------------------------------
(***************************************************************************)
(* The two cascaded 8259 interrupt controllers, and the functions of       *)
(* arch/x86_64/pic.c that program them.                                    *)
(*                                                                         *)
(* A controller pair is a record: the vectors of IRQ0 and of IRQ8, and the *)
(* request, in-service and mask registers as sets of IRQ numbers, in which *)
(* 2 stands for the cascade input of the master.  How the chips behave is  *)
(* external: edge-triggered inputs, fixed priorities (0 highest), no       *)
(* automatic end of interrupt, as pic_remap programs them.                 *)
(***************************************************************************)
EXTENDS Integers, FiniteSets, FiniteSetsExt

Irq == 0..15
Master == 0..7
Slave == 8..15
Cascade == 2

PIC1_OFFSET == 32
PIC2_OFFSET == 40

Pics == [master : {8, PIC1_OFFSET}, slave : {112, PIC2_OFFSET},
         irr : SUBSET Irq, isr : SUBSET Irq, imr : SUBSET Irq]

\* What the firmware leaves behind: its own vectors and some set of masks.
FirmwarePic(masks) ==
  [master |-> 8, slave |-> 112, irr |-> {}, isr |-> {}, imr |-> masks]

-----------------------------------------------------------------------------
(* The chips.                                                              *)

\* The input of the master a request arrives at.
Input(irq) == IF irq \in Slave THEN Cascade ELSE irq

\* A rising edge on a request line is latched, masked or not.
Edge(pic, irq) == [pic EXCEPT !.irr = @ \cup {irq}]

\* An unmasked request is held back by what is in service at its own level or
\* a higher one, on its own chip and, through the cascade, on the master.
Eligible(pic, irq) ==
  /\ irq \in pic.irr \ pic.imr
  /\ Input(irq) \notin pic.imr
  /\ \A busy \in pic.isr \cap Master : Input(irq) < busy
  /\ irq \in Slave => \A busy \in pic.isr \cap Slave : irq < busy

\* The INTR line of the CPU.
Intr(pic) == \E irq \in Irq : Eligible(pic, irq)

\* The request the next acknowledge cycle is for.
Highest(pic, irq) ==
  /\ Eligible(pic, irq)
  /\ \A other \in Irq : Eligible(pic, other) =>
       \/ Input(irq) < Input(other)
       \/ Input(irq) = Input(other) /\ irq <= other

VectorOf(pic, irq) ==
  IF irq \in Master THEN pic.master + irq ELSE pic.slave + irq - 8

Acknowledge(pic, irq) ==
  [pic EXCEPT !.irr = @ \ {irq}, !.isr = @ \cup {irq, Input(irq)}]

\* The request went away before it was acknowledged: its chip answers with its
\* lowest level, 7 or 15, and puts nothing in service.
Spurious(irq) == IF irq \in Master THEN 7 ELSE 15
AcknowledgeSpurious(pic, irq) ==
  [pic EXCEPT !.irr = @ \ {irq},
              !.isr = IF irq \in Slave THEN @ \cup {Cascade} ELSE @]

\* A non-specific end of interrupt: the highest level in service on a chip.
EndOfInterrupt(pic, chip) ==
  [pic EXCEPT !.isr =
     IF @ \cap chip = {} THEN @ ELSE @ \ {Min(@ \cap chip)}]

-----------------------------------------------------------------------------
(* The functions of pic.c.                                                 *)

\* ICW1 forgets requests, latched edges and services; the masks are restored.
pic_remap(pic) ==
  [pic EXCEPT !.master = PIC1_OFFSET, !.slave = PIC2_OFFSET,
              !.irr = {}, !.isr = {}]

\* Mutant: the slave is not told.
pic_send_eoi_master_only(pic, irq) == EndOfInterrupt(pic, Master)

\* Mutant: the first IRQ of the slave is taken for one of the master.
pic_send_eoi_off_by_one(pic, irq) ==
  IF irq > 8 THEN EndOfInterrupt(EndOfInterrupt(pic, Slave), Master)
  ELSE EndOfInterrupt(pic, Master)

pic_send_eoi(pic, irq) ==
  IF irq >= 8 THEN EndOfInterrupt(EndOfInterrupt(pic, Slave), Master)
  ELSE EndOfInterrupt(pic, Master)

pic_set_mask(pic, irq_line) == [pic EXCEPT !.imr = @ \cup {irq_line}]

\* Mutant: `|` where `& ~` is meant.
pic_clear_mask_sets(pic, irq_line) == [pic EXCEPT !.imr = @ \cup {irq_line}]

pic_clear_mask(pic, irq_line) == [pic EXCEPT !.imr = @ \ {irq_line}]
=============================================================================
