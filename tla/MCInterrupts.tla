---------------------------- MODULE MCInterrupts ----------------------------
(***************************************************************************)
(* One device without a driver on each chip, IRQ7 (also the level of the   *)
(* master's spurious interrupts) and IRQ12.                                *)
(***************************************************************************)
EXTENDS Interrupts

AllOrNothingMasked == {{}, Irq}
NothingMasked == {{}}
=============================================================================
