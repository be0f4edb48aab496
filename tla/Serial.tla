------------------------------- MODULE Serial -------------------------------
(***************************************************************************)
(* serial_init of arch/x86_64/serial.c and the UART it programs: the same  *)
(* two ports are the divisor or the data and interrupt-enable registers,   *)
(* depending on a bit of the line control register.                        *)
(***************************************************************************)
EXTENDS Integers, Sequences

\* The registers of a 16550, and whether a byte was put on the line.
Uarts ==
  [divisor_low : 0..255, divisor_high : 0..255, ier : 0..255, fcr : 0..255,
   lcr : 0..255, mcr : 0..255, sent : BOOLEAN]

\* What a write to port 0x3F8 + reg does (external).
outb(uart, reg, val) ==
  LET dlab == uart.lcr >= 128
  IN  CASE reg = 0 /\ dlab  -> [uart EXCEPT !.divisor_low = val]
        [] reg = 0 /\ ~dlab -> [uart EXCEPT !.sent = TRUE]
        [] reg = 1 /\ dlab  -> [uart EXCEPT !.divisor_high = val]
        [] reg = 1 /\ ~dlab -> [uart EXCEPT !.ier = val]
        [] reg = 2 -> [uart EXCEPT !.fcr = val]
        [] reg = 3 -> [uart EXCEPT !.lcr = val]
        [] OTHER   -> [uart EXCEPT !.mcr = val]

\* Mutant: the divisor written before its register was selected.
InitWrites_divisor_first ==
  << <<1, 0>>, <<0, 3>>, <<3, 128>>, <<1, 0>>, <<3, 3>>, <<2, 199>>, <<4, 11>> >>

InitWrites ==
  << <<1, 0>>, <<3, 128>>, <<0, 3>>, <<1, 0>>, <<3, 3>>, <<2, 199>>, <<4, 11>> >>

\* The seven writes, in their order.
Write(k, uart) == outb(uart, InitWrites[k][1], InitWrites[k][2])
serial_init(uart) ==
  Write(7, Write(6, Write(5, Write(4, Write(3, Write(2, Write(1, uart)))))))

\* 38400 baud, eight bits, no interrupts, and nothing was put on the line
\* by the programming itself.
SerialReady(uart) ==
  /\ uart.divisor_low = 3 /\ uart.divisor_high = 0
  /\ uart.lcr = 3 /\ uart.ier = 0
  /\ ~uart.sent
=============================================================================
