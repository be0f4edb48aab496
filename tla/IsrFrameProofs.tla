--------------------------- MODULE IsrFrameProofs ---------------------------
(***************************************************************************)
(* Theorems about IsrFrame for any depth of handlers, any place where one  *)
(* is interrupted, and any contents of the stack below.                    *)
(*                                                                         *)
(* The argument is that a stub never looks below what its own frame put on *)
(* the stack.  Runs says of one handler what its words are at each of its  *)
(* instructions.  It holds of the handler that runs and, in what was saved *)
(* when it was interrupted, of each handler below.                         *)
(***************************************************************************)
EXTENDS IsrFrame, SequenceTheorems, TLAPS

-----------------------------------------------------------------------------
(* The program: which instruction is where.                                *)

Names == {"rax", "rbx", "rcx", "rdx", "rbp", "rsi", "rdi", "r8", "r9", "r10",
          "r11", "r12", "r13", "r14", "r15"}

Ops == {"push", "save", "mov", "call", "restore", "discard", "iretq"}
         \X (Names \cup {"interrupt_dispatch"} \cup Nat)

\* Instructions of the entry of a stub.
Entry(v) == IF v \in ISR_ERR THEN 1 ELSE 2

\* The registers come back in the opposite order.
LEMMA RegisterLists ==
  /\ Len(PUSH_REGS) = 15 /\ Len(POP_REGS) = 15 /\ Len(idt_ctx) = 20
  /\ \A q \in 1..15 : PUSH_REGS[q] \in Names /\ POP_REGS[q] \in Names
  /\ \A q \in 1..15 : POP_REGS[q] = PUSH_REGS[16 - q] /\ idt_ctx[q] = PUSH_REGS[16 - q]
<1>1. Len(PUSH_REGS) = 15 /\ Len(POP_REGS) = 15 /\ Len(idt_ctx) = 20
  BY DEF PUSH_REGS, POP_REGS, idt_ctx
<1>2. ASSUME NEW q \in 1..15
      PROVE  /\ PUSH_REGS[q] \in Names /\ POP_REGS[q] \in Names
             /\ POP_REGS[q] = PUSH_REGS[16 - q] /\ idt_ctx[q] = PUSH_REGS[16 - q]
  <2>1. q \in {1, 2, 3, 4, 5, 6, 7, 8, 9, 10, 11, 12, 13, 14, 15}
    OBVIOUS
  <2>2. PUSH_REGS[q] \in Names /\ POP_REGS[q] \in Names
    BY <2>1 DEF PUSH_REGS, POP_REGS, Names
  <2>3. POP_REGS[q] = PUSH_REGS[16 - q]
    BY <2>1 DEF PUSH_REGS, POP_REGS
  <2>4. idt_ctx[q] = PUSH_REGS[16 - q]
    BY <2>1 DEF PUSH_REGS, idt_ctx
  <2> QED
    BY <2>2, <2>3, <2>4
<1> QED
  BY <1>1, <1>2

LEMMA RegisterNames ==
  /\ Registers = {PUSH_REGS[q] : q \in 1..15}
  /\ Registers = {POP_REGS[q] : q \in 1..15}
  /\ "rdi" \in Registers
<1>1. Registers = {PUSH_REGS[q] : q \in 1..15}
  BY RegisterLists DEF Registers
<1>2. \A q \in 1..15 : 16 - q \in 1..15 /\ 16 - (16 - q) = q
  OBVIOUS
<1>3. {PUSH_REGS[q] : q \in 1..15} = {POP_REGS[q] : q \in 1..15}
  BY <1>2, RegisterLists
<1>4. PUSH_REGS[7] = "rdi"
  BY DEF PUSH_REGS
<1> QED
  BY <1>1, <1>3, <1>4

\* A sequence of n elements of S.
Listing(S, s, n) == s \in Seq(S) /\ Len(s) = n

\* l elements: the j of s, and then those of t.
Joined(st, s, j, t, l) ==
  /\ \A q \in 1..l : q <= j => st[q] = s[q]
  /\ \A q \in 1..l : q > j => st[q] = t[q - j]

LEMMA Behind ==
  ASSUME NEW S, NEW s, NEW t, NEW j, NEW k, Listing(S, s, j), Listing(S, t, k)
  PROVE  Listing(S, s \o t, j + k) /\ Joined(s \o t, s, j, t, j + k)
<1>1. /\ s \in Seq(S) /\ t \in Seq(S) /\ Len(s) = j /\ Len(t) = k
      /\ j \in Nat /\ k \in Nat
  BY LenProperties DEF Listing
<1>2. /\ s \o t \in Seq(S) /\ Len(s \o t) = Len(s) + Len(t)
      /\ \A q \in 1 .. Len(s) + Len(t) :
           (s \o t)[q] = IF q <= Len(s) THEN s[q] ELSE t[q - Len(s)]
  BY <1>1, ConcatProperties
<1> DEFINE st == s \o t
           l == j + k
<1> HIDE DEF st, l
<1>3. /\ st \in Seq(S) /\ Len(st) = l /\ l \in Nat
      /\ \A q \in 1..l : st[q] = IF q <= j THEN s[q] ELSE t[q - j]
  BY <1>1, <1>2 DEF st, l
<1>4. ASSUME NEW q \in 1..l, q <= j PROVE st[q] = s[q]
  BY <1>1, <1>3, <1>4
<1>5. ASSUME NEW q \in 1..l, q > j PROVE st[q] = t[q - j]
  BY <1>1, <1>3, <1>5
<1> QED
  BY <1>3, <1>4, <1>5 DEF Listing, Joined, st, l

\* The common part of the stubs is four lists one behind the other.
Concatenated(all, a, b, c, d) ==
  /\ \A q \in 1..15 : all[q] = a[q]
  /\ \A q \in 1..2  : all[15 + q] = b[q]
  /\ \A q \in 1..15 : all[17 + q] = c[q]
  /\ \A q \in 1..2  : all[32 + q] = d[q]

LEMMA FourLists ==
  ASSUME NEW S, NEW a, NEW b, NEW c, NEW d,
         Listing(S, a, 15), Listing(S, b, 2), Listing(S, c, 15), Listing(S, d, 2)
  PROVE  /\ Listing(S, ((a \o b) \o c) \o d, 34)
         /\ Concatenated(((a \o b) \o c) \o d, a, b, c, d)
<1> DEFINE ab  == a \o b
           abc == ab \o c
           all == abc \o d
<1>1. Listing(S, ab, 15 + 2) /\ Joined(ab, a, 15, b, 15 + 2)
  BY Behind, Zenon
<1> HIDE DEF ab
<1>2. Listing(S, abc, 17 + 15) /\ Joined(abc, ab, 17, c, 17 + 15)
  <2>1. Listing(S, ab, 17)
    BY <1>1
  <2> QED
    BY <2>1, Behind, Zenon
<1> HIDE DEF abc
<1>3. Listing(S, all, 32 + 2) /\ Joined(all, abc, 32, d, 32 + 2)
  <2>1. Listing(S, abc, 32)
    BY <1>2
  <2> QED
    BY <2>1, Behind, Zenon
<1> HIDE DEF all
<1>4. \A q \in 1..15 : all[q] = a[q]
  BY <1>1, <1>2, <1>3 DEF Joined
<1>5. \A q \in 1..2 : all[15 + q] = b[q]
  BY <1>1, <1>2, <1>3 DEF Joined
<1>6. \A q \in 1..15 : all[17 + q] = c[q]
  BY <1>2, <1>3 DEF Joined
<1>7. \A q \in 1..2 : all[32 + q] = d[q]
  BY <1>3 DEF Joined
<1>8. Listing(S, all, 34)
  BY <1>3
<1>9. Concatenated(all, a, b, c, d)
  BY <1>4, <1>5, <1>6, <1>7 DEF Concatenated
<1> QED
  BY <1>8, <1>9 DEF all, abc, ab

\* The same operation for each register of a list.
LEMMA Operations ==
  ASSUME NEW f, \A n \in 1..15 : f[n] \in Names, NEW op \in {"save", "restore"}
  PROVE  Listing(Ops, [n \in 1..15 |-> <<op, f[n]>>], 15)
<1> DEFINE ops == [n \in 1..15 |-> <<op, f[n]>>]
<1>2. \A n \in 1..15 : <<op, f[n]>> \in Ops
  BY DEF Ops
<1>3. ops \in [1..15 -> Ops]
  BY <1>2
<1>4. 15 \in Nat
  OBVIOUS
<1> HIDE DEF ops
<1>5. ops \in Seq(Ops)
  <2>1. ops \in UNION {[1..n -> Ops] : n \in Nat}
    BY <1>3, <1>4
  <2> QED
    BY <2>1, SeqDef
<1>6. DOMAIN ops = 1..15
  BY <1>3
<1>7. Len(ops) = 15
  BY <1>5, <1>6, LenProperties
<1> QED
  BY <1>5, <1>7 DEF ops, Listing

LEMMA Short ==
  ASSUME NEW S, NEW a \in S, NEW b \in S
  PROVE  Listing(S, <<a>>, 1) /\ Listing(S, <<a, b>>, 2)
BY DEF Listing

\* What every stub has in common.
LEMMA CommonIs ==
  /\ Listing(Ops, isr_common, 34)
  /\ \A q \in 1..15 : isr_common[q] = <<"save", PUSH_REGS[q]>>
  /\ isr_common[16] = <<"mov", "rdi">>
  /\ isr_common[17] = <<"call", "interrupt_dispatch">>
  /\ \A q \in 1..15 : isr_common[17 + q] = <<"restore", POP_REGS[q]>>
  /\ isr_common[33] = <<"discard", 2>>
  /\ isr_common[34] = <<"iretq", 0>>
<1> DEFINE saves == [n \in 1..15 |-> <<"save", PUSH_REGS[n]>>]
           call == << <<"mov", "rdi">>, <<"call", "interrupt_dispatch">> >>
           restores == [n \in 1..15 |-> <<"restore", POP_REGS[n]>>]
           leave == << <<"discard", 2>>, <<"iretq", 0>> >>
<1>1. isr_common = ((saves \o call) \o restores) \o leave
  BY RegisterLists DEF isr_common
<1>2. Listing(Ops, saves, 15) /\ Listing(Ops, restores, 15)
  BY RegisterLists, Operations
<1>3. Listing(Ops, call, 2) /\ Listing(Ops, leave, 2)
  <2>1. /\ <<"mov", "rdi">> \in Ops /\ <<"call", "interrupt_dispatch">> \in Ops
        /\ <<"discard", 2>> \in Ops /\ <<"iretq", 0>> \in Ops
    BY DEF Ops, Names
  <2> QED
    BY <2>1, Short
<1>4. /\ call[1] = <<"mov", "rdi">> /\ call[2] = <<"call", "interrupt_dispatch">>
      /\ leave[1] = <<"discard", 2>> /\ leave[2] = <<"iretq", 0>>
      /\ \A q \in 1..15 : saves[q] = <<"save", PUSH_REGS[q]>>
      /\ \A q \in 1..15 : restores[q] = <<"restore", POP_REGS[q]>>
  OBVIOUS
<1> HIDE DEF saves, call, restores, leave
<1>5. /\ Listing(Ops, isr_common, 34)
      /\ \A q \in 1..15 : isr_common[q] = saves[q]
      /\ \A q \in 1..2  : isr_common[15 + q] = call[q]
      /\ \A q \in 1..15 : isr_common[17 + q] = restores[q]
      /\ \A q \in 1..2  : isr_common[32 + q] = leave[q]
  <2> DEFINE all == ((saves \o call) \o restores) \o leave
  <2>1. Listing(Ops, all, 34) /\ Concatenated(all, saves, call, restores, leave)
    BY <1>2, <1>3, FourLists
  <2>2. isr_common = all
    BY <1>1
  <2> HIDE DEF all
  <2> QED
    BY <2>1, <2>2 DEF Concatenated
<1>6. isr_common[16] = call[1] /\ isr_common[17] = call[2]
  <2>1. isr_common[15 + 1] = call[1] /\ isr_common[15 + 2] = call[2]
    BY <1>5
  <2> QED
    BY <2>1
<1>7. isr_common[33] = leave[1] /\ isr_common[34] = leave[2]
  <2>1. isr_common[32 + 1] = leave[1] /\ isr_common[32 + 2] = leave[2]
    BY <1>5
  <2> QED
    BY <2>1
<1> QED
  BY <1>4, <1>5, <1>6, <1>7

\* The instructions of a stub: its entry pushes one word or two, and then
\* comes what is common to all.
LEMMA InstructionIs ==
  ASSUME NEW v \in Stubs
  PROVE  /\ v \in ISR_ERR => isr(v)[1] = <<"push", v>>
         /\ v \notin ISR_ERR => isr(v)[1] = <<"push", 0>> /\ isr(v)[2] = <<"push", v>>
         /\ \A m \in 1..34 : isr(v)[Entry(v) + m] = isr_common[m]
<1>1. <<"push", v>> \in Ops /\ <<"push", 0>> \in Ops
  <2>1. v \in Nat /\ 0 \in Nat
    BY DEF Stubs
  <2> QED
    BY <2>1 DEF Ops
<1> DEFINE entry == isr_entry(v)
           stub == entry \o isr_common
<1>2. isr(v) = stub
  BY DEF isr
<1>3. Listing(Ops, isr_common, 34)
  BY CommonIs
<1>4. CASE v \in ISR_ERR
  <2>1. entry = << <<"push", v>> >> /\ Entry(v) = 1
    BY <1>4 DEF isr_entry, Entry
  <2>2. Listing(Ops, entry, 1) /\ entry[1] = <<"push", v>>
    <3>1. Listing(Ops, << <<"push", v>> >>, 1)
      BY <1>1, Short
    <3> QED
      BY <2>1, <3>1
  <2> HIDE DEF entry
  <2>3. Joined(stub, entry, 1, isr_common, 1 + 34)
    BY <1>3, <2>2, Behind, Zenon
  <2> HIDE DEF stub
  <2>4. stub[1] = entry[1] /\ \A m \in 1..34 : stub[1 + m] = isr_common[m]
    BY <2>3 DEF Joined
  <2> QED
    BY <1>2, <1>4, <2>1, <2>2, <2>4
<1>5. CASE v \notin ISR_ERR
  <2>1. entry = << <<"push", 0>>, <<"push", v>> >> /\ Entry(v) = 2
    BY <1>5 DEF isr_entry, Entry
  <2>2. Listing(Ops, entry, 2) /\ entry[1] = <<"push", 0>> /\ entry[2] = <<"push", v>>
    <3>1. Listing(Ops, << <<"push", 0>>, <<"push", v>> >>, 2)
      BY <1>1, Short
    <3> QED
      BY <2>1, <3>1
  <2> HIDE DEF entry
  <2>3. Joined(stub, entry, 2, isr_common, 2 + 34)
    BY <1>3, <2>2, Behind, Zenon
  <2> HIDE DEF stub
  <2>4. /\ stub[1] = entry[1] /\ stub[2] = entry[2]
        /\ \A m \in 1..34 : stub[2 + m] = isr_common[m]
    BY <2>3 DEF Joined
  <2> QED
    BY <1>2, <1>5, <2>1, <2>2, <2>4
<1> QED
  BY <1>4, <1>5

\* What is at place p of the stub of v: m counts from the end of the entry.
LEMMA Decode ==
  ASSUME NEW v \in Stubs, NEW p \in Nat, p > 0, NEW m \in Int, p = Entry(v) + m, m <= 34
  PROVE  /\ m < 0 => isr(v)[p] = <<"push", 0>>
         /\ m = 0 => isr(v)[p] = <<"push", v>>
         /\ m \in 1..15 => isr(v)[p] = <<"save", PUSH_REGS[m]>>
         /\ m = 16 => isr(v)[p] = <<"mov", "rdi">>
         /\ m = 17 => isr(v)[p] = <<"call", "interrupt_dispatch">>
         /\ m \in 18..32 => isr(v)[p] = <<"restore", POP_REGS[m - 17]>>
         /\ m = 33 => isr(v)[p] = <<"discard", 2>>
         /\ m = 34 => isr(v)[p] = <<"iretq", 0>>
<1>1. Entry(v) \in {1, 2} /\ (v \in ISR_ERR <=> Entry(v) = 1)
  BY DEF Entry
<1>2. CASE m <= 0
  <2>1. /\ Entry(v) = 1 => p = 1 /\ m = 0
        /\ Entry(v) = 2 => (m < 0 /\ p = 1) \/ (m = 0 /\ p = 2)
    BY <1>1, <1>2
  <2>2. /\ m < 0 => isr(v)[p] = <<"push", 0>>
        /\ m = 0 => isr(v)[p] = <<"push", v>>
    BY <1>1, <2>1, InstructionIs
  <2> QED
    BY <1>2, <2>2
<1>3. CASE m > 0
  <2>1. m \in 1..34
    BY <1>3
  <2>2. isr(v)[p] = isr_common[m]
    BY <2>1, InstructionIs
  <2>3. ASSUME m \in 18..32
        PROVE  isr_common[m] = <<"restore", POP_REGS[m - 17]>>
    <3>1. m - 17 \in 1..15 /\ m = 17 + (m - 17)
      BY <2>3
    <3> DEFINE q == m - 17
    <3>2. q \in 1..15 /\ m = 17 + q
      BY <3>1
    <3> HIDE DEF q
    <3>3. isr_common[17 + q] = <<"restore", POP_REGS[q]>>
      BY <3>2, CommonIs
    <3> QED
      BY <3>2, <3>3 DEF q
  <2>4. /\ m \in 1..15 => isr_common[m] = <<"save", PUSH_REGS[m]>>
        /\ m = 16 => isr_common[m] = <<"mov", "rdi">>
        /\ m = 17 => isr_common[m] = <<"call", "interrupt_dispatch">>
        /\ m = 33 => isr_common[m] = <<"discard", 2>>
        /\ m = 34 => isr_common[m] = <<"iretq", 0>>
    BY CommonIs
  <2> QED
    BY <1>3, <2>2, <2>3, <2>4
<1> QED
  BY <1>2, <1>3

\* The operation tells the place.
LEMMA Operation ==
  ASSUME NEW v \in Stubs, NEW p \in Nat, p > 0, NEW m \in Int, p = Entry(v) + m, m <= 34
  PROVE  /\ isr(v)[p][1] = "push" => m <= 0
         /\ isr(v)[p][1] = "save" => m \in 1..15
         /\ isr(v)[p][1] = "mov" => m = 16
         /\ isr(v)[p][1] = "call" => m = 17
         /\ isr(v)[p][1] = "restore" => m \in 18..32
         /\ isr(v)[p][1] = "discard" => m = 33
         /\ isr(v)[p][1] = "iretq" => m = 34
<1> DEFINE i == isr(v)[p]
<1>1. /\ m < 0 => i[1] = "push"
      /\ m = 0 => i[1] = "push"
      /\ m \in 1..15 => i[1] = "save"
      /\ m = 16 => i[1] = "mov"
      /\ m = 17 => i[1] = "call"
      /\ m \in 18..32 => i[1] = "restore"
      /\ m = 33 => i[1] = "discard"
      /\ m = 34 => i[1] = "iretq"
  <2>1. /\ m < 0 => i = <<"push", 0>>
        /\ m = 0 => i = <<"push", v>>
        /\ m \in 1..15 => i = <<"save", PUSH_REGS[m]>>
        /\ m = 16 => i = <<"mov", "rdi">>
        /\ m = 17 => i = <<"call", "interrupt_dispatch">>
        /\ m \in 18..32 => i = <<"restore", POP_REGS[m - 17]>>
        /\ m = 33 => i = <<"discard", 2>>
        /\ m = 34 => i = <<"iretq", 0>>
    BY Decode
  <2> HIDE DEF i
  <2> QED
    BY <2>1
<1>2. m < 0 \/ m = 0 \/ m \in 1..15 \/ m = 16 \/ m = 17 \/ m \in 18..32 \/ m = 33 \/ m = 34
  OBVIOUS
<1> HIDE DEF i
<1>3. /\ i[1] = "push" => m <= 0
      /\ i[1] = "save" => m \in 1..15
      /\ i[1] = "mov" => m = 16
      /\ i[1] = "call" => m = 17
      /\ i[1] = "restore" => m \in 18..32
      /\ i[1] = "discard" => m = 33
      /\ i[1] = "iretq" => m = 34
  BY <1>1, <1>2
<1> QED
  BY <1>3 DEF i

-----------------------------------------------------------------------------
(* The gates.                                                              *)

\* A quotient and a remainder that fit are the ones `/' and `%' compute.
LEMMA Quotient ==
  ASSUME NEW b \in Nat \ {0}, NEW q \in Nat, NEW r \in Nat, r < b
  PROVE  (q * b + r) \div b = q
<1> DEFINE a == q * b + r
           p == a \div b
           s == a % b
<1>1. q * b \in Nat /\ a \in Nat
  OBVIOUS
<1>2. p \in Nat /\ s \in Nat /\ s < b /\ a = b * p + s
  <2> HIDE DEF a
  <2> QED
    BY <1>1
<1>3. b * p = p * b
  BY <1>2
<1> HIDE DEF p, s
<1>4. ~(p < q)
  <2>1. SUFFICES ASSUME p + 1 <= q PROVE FALSE
    BY <1>2
  <2> DEFINE e == q - (p + 1)
  <2>2. e \in Nat /\ q = e + p + 1
    BY <1>2, <2>1
  <2> HIDE DEF e
  <2>3. q * b = e * b + p * b + b /\ e * b \in Nat /\ p * b \in Nat
    BY <1>2, <2>2
  <2> QED
    BY <1>1, <1>2, <1>3, <2>3
<1>5. ~(q < p)
  <2>1. SUFFICES ASSUME q + 1 <= p PROVE FALSE
    BY <1>2
  <2> DEFINE e == p - (q + 1)
  <2>2. e \in Nat /\ p = e + q + 1
    BY <1>2, <2>1
  <2> HIDE DEF e
  <2>3. p * b = e * b + q * b + b /\ e * b \in Nat /\ q * b \in Nat
    BY <1>2, <2>2
  <2> QED
    BY <1>1, <1>2, <1>3, <2>3
<1>6. p = q
  BY <1>2, <1>4, <1>5
<1> QED
  BY <1>6 DEF p

\* Every number has a quotient and a remainder.
LEMMA Split ==
  ASSUME NEW a \in Nat, NEW b \in Nat \ {0}
  PROVE  /\ a \div b \in Nat /\ a % b \in Nat /\ a % b < b
         /\ a = (a \div b) * b + (a % b)
<1>1. a \div b \in Nat /\ a % b \in Nat /\ a % b < b /\ a = b * (a \div b) + (a % b)
  OBVIOUS
<1>2. b * (a \div b) = (a \div b) * b
  BY <1>1
<1> QED
  BY <1>1, <1>2

\* Dividing twice is dividing by the product.
LEMMA DivideTwice ==
  ASSUME NEW a \in Nat, NEW b \in Nat \ {0}, NEW c \in Nat \ {0}
  PROVE  a \div (b * c) = (a \div b) \div c
<1> DEFINE p == a \div b
           r == a % b
           q == p \div c
           s == p % c
<1>1. p \in Nat /\ r \in Nat /\ r < b /\ a = p * b + r
  BY Split
<1> HIDE DEF p, r
<1>2. q \in Nat /\ s \in Nat /\ s + 1 <= c /\ p = q * c + s
  BY <1>1, Split
<1> HIDE DEF q, s
<1> DEFINE d == b * c
           t == s * b + r
<1>3. d \in Nat \ {0} /\ t \in Nat
  BY <1>1, <1>2
<1>4. a = q * d + t
  <2>1. p * b = (q * c) * b + s * b
    BY <1>1, <1>2
  <2>2. (q * c) * b = q * (b * c)
    BY <1>2
  <2>3. (q * c) * b \in Nat /\ s * b \in Nat
    BY <1>2
  <2> QED
    BY <1>1, <2>1, <2>2, <2>3
<1>5. t < d
  <2> DEFINE e == c - (s + 1)
  <2>1. e \in Nat /\ c = e + s + 1
    BY <1>2
  <2> HIDE DEF e
  <2>2. b * c = e * b + s * b + b /\ e * b \in Nat /\ s * b \in Nat
    BY <1>2, <2>1
  <2> QED
    BY <1>1, <2>2
<1> HIDE DEF d, t
<1>6. a \div d = q
  BY <1>2, <1>3, <1>4, <1>5, Quotient
<1> QED
  BY <1>6 DEF d, q, p

\* The three parts of an address make it up again.
LEMMA GateIs ==
  ASSUME NEW v \in Stubs
  PROVE  GateTarget(idt[v]) = LinkAddress[v] /\ idt[v].type_attr % 16 = 14
<1>1. HALF \in Nat \ {0} /\ LinkAddress[v] \in 0..HALF*HALF*HALF*HALF-1
  BY AddressAssumption
<1> DEFINE a == LinkAddress[v]
           w == HALF
           h == a \div w
           u == h \div w
           x == w * w
<1>2. idt[v] = [offset_low |-> a % w, selector |-> 8, type_attr |-> 142,
                offset_mid |-> h % w, offset_high |-> (a \div (w * w)) % (w * w)]
  BY DEF idt, idt_set_gate
<1>3. a \in Nat /\ w \in Nat \ {0} /\ a < w*w*w*w
  BY <1>1
<1> HIDE DEF a, w
<1>4. h \in Nat /\ a % w \in Nat /\ a = h * w + (a % w)
  BY <1>3, Split
<1>5. a \div (w * w) = u
  BY <1>3, DivideTwice
<1> HIDE DEF h
<1>6. u \in Nat /\ h % w \in Nat /\ h = u * w + (h % w)
  BY <1>3, <1>4, Split
<1>7. x \in Nat \ {0} /\ x = w * w
  BY <1>3
<1> HIDE DEF u, x
<1>8. u < x
  <2>1. SUFFICES ASSUME u >= x PROVE FALSE
    BY <1>6, <1>7
  <2>2. a >= u * x
    <3>1. u * x = (u * w) * w
      BY <1>3, <1>6, <1>7
    <3>2. h * w = (u * w) * w + (h % w) * w
      <4> DEFINE r == h % w
      <4>1. r \in Nat /\ h = u * w + r
        BY <1>6
      <4> HIDE DEF r
      <4>2. h * w = (u * w) * w + r * w
        BY <1>3, <1>6, <4>1
      <4> QED
        BY <4>2 DEF r
    <3>3. (h % w) * w \in Nat /\ u * x \in Nat
      BY <1>3, <1>6, <1>7
    <3> QED
      BY <1>3, <1>4, <3>1, <3>2, <3>3
  <2>3. u * x >= x * x
    <3> DEFINE e == u - x
    <3>1. e \in Nat /\ u = x + e
      BY <1>6, <1>7, <2>1
    <3> HIDE DEF e
    <3>2. u * x = x * x + e * x /\ e * x \in Nat /\ x * x \in Nat
      BY <1>7, <3>1
    <3> QED
      BY <3>2
  <2>4. w*w*w*w = x * x
    BY <1>3, <1>7
  <2>5. x * x \in Nat /\ u * x \in Nat
    BY <1>6, <1>7
  <2> QED
    BY <1>3, <2>2, <2>3, <2>4, <2>5
<1>9. u % x = u
  BY <1>6, <1>7, <1>8
<1>10. idt[v].offset_low = a % w /\ idt[v].offset_mid = h % w /\ idt[v].offset_high = u
  BY <1>2, <1>5, <1>7, <1>9
<1>11. GateTarget(idt[v]) = (a % w) + (h % w) * w + u * w * w
  BY <1>10 DEF GateTarget, w
<1>12. a = (a % w) + (h % w) * w + u * w * w
  <2> DEFINE r == a % w
             t == h % w
  <2>1. r \in Nat /\ t \in Nat /\ a = h * w + r /\ h = u * w + t
    BY <1>4, <1>6
  <2> HIDE DEF r, t
  <2>2. h * w = u * w * w + t * w
    BY <1>3, <1>6, <2>1
  <2>3. u * w * w \in Nat /\ t * w \in Nat
    BY <1>3, <1>6, <2>1
  <2> QED
    BY <2>1, <2>2, <2>3 DEF r, t
<1>13. idt[v].type_attr % 16 = 14
  BY <1>2
<1> QED
  BY <1>11, <1>12, <1>13 DEF a

\* The CPU finds the stub of the vector.
LEMMA VectorFindsStub ==
  ASSUME NEW v \in Stubs
  PROVE  (CHOOSE w \in Stubs : LinkAddress[w] = GateTarget(idt[v])) = v
<1>1. GateTarget(idt[v]) = LinkAddress[v]
  BY GateIs
<1>2. \A w \in Stubs : LinkAddress[w] = LinkAddress[v] => w = v
  BY AddressAssumption
<1> QED
  BY <1>1, <1>2

-----------------------------------------------------------------------------
(* The invariant.                                                          *)

Places == {ThreadIp} \cup (Stubs \X Nat)
Tags == Names \cup {"padding", "ss", "rsp", "rflags", "cs", "rip", "imm", "local", "ctx"}
Values == Int \cup BOOLEAN \cup Places
Words == Tags \X Values

\* A vector without an error code is recorded with 0.
Frames ==
  {f \in [vector : Stubs, errc : Nat, ip : Places, iflag : BOOLEAN,
          regs : [Registers -> Words], stack : Seq(Words)] :
     f.vector \in CpuErrorCode \/ f.errc = 0}

\* The aligned address from which the CPU pushed the frame f.
Base(f) == Len(f.stack) + (Len(f.stack) % 2)

\* w may be word n of the stack of the handler for f.
Content(f, n, w) ==
  /\ n <= Len(f.stack) => w = f.stack[n]
  /\ n = Base(f) + 2 => w = <<"rsp", Len(f.stack)>>
  /\ n = Base(f) + 3 => w = <<"rflags", f.iflag>>
  /\ n = Base(f) + 4 => w = <<"cs", 8>>
  /\ n = Base(f) + 5 => w = <<"rip", f.ip>>
  /\ n = Base(f) + 6 => w = <<"imm", f.errc>>
  /\ n = Base(f) + 7 => w = <<"imm", f.vector>>
  /\ \A k \in 1..15 : n = Base(f) + 7 + k => w = f.regs[PUSH_REGS[k]]

Framed(f, s) == Len(s) >= Base(f) + 5 /\ \A n \in 1..Len(s) : Content(f, n, s[n])

\* Inside interrupt_dispatch: its return address, and perhaps a word of its own.
InC(f, s) ==
  /\ Len(s) \in {Base(f) + 23, Base(f) + 24}
  /\ s[Base(f) + 23] = <<"rip", <<f.vector, Entry(f.vector) + 18>>>>
  /\ Len(s) = Base(f) + 24 => s[Base(f) + 24][1] = "local"

\* Before instruction m of the common part, counted back into the entry: how
\* high the stack is, and which registers are those of what was interrupted.
At(f, m, s, g) ==
  /\ m <= 16 => Len(s) = Base(f) + 6 + m /\ g = f.regs
  /\ m = 17 => Len(s) = Base(f) + 22 /\ g = [f.regs EXCEPT !["rdi"] = <<"ctx", Base(f) + 22>>]
  /\ m \in 18..33 => Len(s) = Base(f) + 40 - m
  /\ m = 34 => Len(s) = Base(f) + 5
  /\ \A q \in 1..15 : q < m - 17 => g[POP_REGS[q]] = f.regs[POP_REGS[q]]

\* The handler for f is at i, with the stack s and the registers g.
Runs(f, i, s, g) ==
  /\ i[1] = f.vector /\ i[2] \in 0..Entry(f.vector) + 34
  /\ Framed(f, s)
  /\ i[2] = 0 => InC(f, s)
  /\ i[2] > 0 => At(f, i[2] - Entry(f.vector), s, g)

TypeOK ==
  /\ stack \in Seq(Words) /\ regs \in [Registers -> Words]
  /\ ip \in Places /\ iflag \in BOOLEAN
  /\ frames \in Seq(Frames)

\* The handler that runs; those that were interrupted; and the thread below.
Running == Depth > 0 => Runs(frames[Depth], ip, stack, regs)

Suspended ==
  \A j \in 1..Depth-1 :
    Runs(frames[j], frames[j+1].ip, frames[j+1].stack, frames[j+1].regs)

Bottom ==
  /\ Depth = 0 => ip = ThreadIp
  /\ Depth > 0 => frames[1].ip = ThreadIp

IInv == TypeOK /\ Running /\ Suspended /\ Bottom

-----------------------------------------------------------------------------
(* Stacks.                                                                 *)

LEMMA FrameIs ==
  ASSUME NEW f \in Frames
  PROVE  /\ f.vector \in Stubs /\ f.errc \in Nat /\ f.ip \in Places /\ f.iflag \in BOOLEAN
         /\ f.regs \in [Registers -> Words] /\ f.stack \in Seq(Words)
         /\ f.vector \notin CpuErrorCode => f.errc = 0
BY DEF Frames

LEMMA BaseIs ==
  ASSUME NEW f, f.stack \in Seq(Words)
  PROVE  /\ Len(f.stack) \in Nat /\ Base(f) \in Nat
         /\ Len(f.stack) <= Base(f) /\ Base(f) % 2 = 0
         /\ Base(f) = Len(f.stack) + (Len(f.stack) % 2)
<1>1. Len(f.stack) \in Nat
  BY LenProperties
<1> DEFINE l == Len(f.stack)
<1>2. l \in Nat
  BY <1>1
<1>3. Base(f) = l + (l % 2)
  BY DEF Base
<1> HIDE DEF l
<1>4. l + (l % 2) \in Nat /\ l <= l + (l % 2) /\ (l + (l % 2)) % 2 = 0
  BY <1>2
<1> QED
  BY <1>2, <1>3, <1>4 DEF l

\* A word more on the stack.
LEMMA PushFramed ==
  ASSUME NEW f, NEW s \in Seq(Words), NEW w \in Words, NEW n \in Nat, Len(s) = n,
         Base(f) \in Nat, Framed(f, s), Content(f, n + 1, w)
  PROVE  /\ Append(s, w) \in Seq(Words) /\ Len(Append(s, w)) = n + 1
         /\ Framed(f, Append(s, w))
         /\ Append(s, w)[n + 1] = w
         /\ \A q \in 1..n : Append(s, w)[q] = s[q]
<1> DEFINE t == Append(s, w)
<1>1. /\ t \in Seq(Words) /\ Len(t) = Len(s) + 1
      /\ \A q \in 1..Len(s) : t[q] = s[q]
      /\ t[Len(s) + 1] = w
  BY AppendProperties
<1> HIDE DEF t
<1>2. /\ t \in Seq(Words) /\ Len(t) = n + 1
      /\ \A q \in 1..n : t[q] = s[q]
      /\ t[n + 1] = w
  BY <1>1
<1>3. n >= Base(f) + 5 /\ \A q \in 1..n : Content(f, q, s[q])
  BY DEF Framed
<1>4. Framed(f, t)
  <2>1. Len(t) >= Base(f) + 5
    BY <1>2, <1>3
  <2>2. ASSUME NEW q \in 1..n+1 PROVE Content(f, q, t[q])
    <3>1. CASE q \in 1..n
      BY <1>2, <1>3, <3>1
    <3>2. CASE q = n + 1
      BY <1>2, <3>2
    <3> QED
      BY <3>1, <3>2
  <2> QED
    BY <1>2, <2>1, <2>2 DEF Framed
<1> QED
  BY <1>2, <1>4 DEF t

\* The words above k taken off.
LEMMA CutFramed ==
  ASSUME NEW f, NEW s \in Seq(Words), NEW n \in Nat, Len(s) = n, NEW k \in 0..n
  PROVE  /\ SubSeq(s, 1, k) \in Seq(Words) /\ Len(SubSeq(s, 1, k)) = k
         /\ \A q \in 1..k : SubSeq(s, 1, k)[q] = s[q]
         /\ Base(f) \in Nat /\ k >= Base(f) + 5 /\ Framed(f, s) => Framed(f, SubSeq(s, 1, k))
<1> DEFINE t == SubSeq(s, 1, k)
<1>1. \A q \in 1..k : s[q] \in Words
  <2> TAKE q \in 1..k
  <2>1. q \in 1..Len(s)
    OBVIOUS
  <2> QED
    BY <2>1, ElementOfSeq
<1>2. /\ t \in Seq(Words) /\ Len(t) = IF 1 <= k THEN k - 1 + 1 ELSE 0
      /\ \A q \in 1..k-1+1 : t[q] = s[1 + q - 1]
  BY <1>1, SubSeqProperties
<1> HIDE DEF t
<1>3. t \in Seq(Words) /\ Len(t) = k
  BY <1>2
<1>4. ASSUME NEW q \in 1..k PROVE t[q] = s[q]
  <2>1. q \in 1..k-1+1 /\ 1 + q - 1 = q
    OBVIOUS
  <2> QED
    BY <1>2, <2>1
<1>5. ASSUME Base(f) \in Nat, k >= Base(f) + 5, Framed(f, s) PROVE Framed(f, t)
  <2>1. ASSUME NEW q \in 1..k PROVE Content(f, q, t[q])
    <3>1. q \in 1..n
      OBVIOUS
    <3> QED
      BY <1>4, <1>5, <3>1 DEF Framed
  <2> QED
    BY <1>3, <1>5, <2>1 DEF Framed
<1> QED
  BY <1>3, <1>4, <1>5 DEF t

-----------------------------------------------------------------------------
(* The instructions.                                                       *)

\* The handler for f is at p, instruction m of the common part.
Doing(f, p, m, s, g) ==
  /\ f \in Frames /\ s \in Seq(Words) /\ g \in [Registers -> Words]
  /\ p \in Nat /\ p > 0 /\ m \in Int /\ p = Entry(f.vector) + m /\ m <= 34
  /\ Framed(f, s) /\ At(f, m, s, g)

LEMMA DoingIs ==
  ASSUME NEW f, NEW p, NEW m, NEW s, NEW g, Doing(f, p, m, s, g)
  PROVE  /\ f \in Frames /\ s \in Seq(Words) /\ g \in [Registers -> Words]
         /\ Len(s) \in Nat /\ Base(f) \in Nat /\ Len(f.stack) \in Nat
         /\ Len(f.stack) <= Base(f) /\ Base(f) % 2 = 0
         /\ p \in Nat /\ p > 0 /\ m \in Int /\ p = Entry(f.vector) + m /\ m <= 34
         /\ f.vector \in Stubs /\ Entry(f.vector) \in {1, 2} /\ -1 <= m
         /\ Framed(f, s) /\ At(f, m, s, g)
<1>1. f \in Frames /\ s \in Seq(Words) /\ g \in [Registers -> Words]
  BY DEF Doing
<1>2. f.stack \in Seq(Words) /\ f.vector \in Stubs /\ Len(s) \in Nat
  BY <1>1, FrameIs, LenProperties
<1>3. /\ Len(f.stack) \in Nat /\ Base(f) \in Nat
      /\ Len(f.stack) <= Base(f) /\ Base(f) % 2 = 0
  BY <1>2, BaseIs
<1>4. Entry(f.vector) \in {1, 2}
  BY DEF Entry
<1>5. /\ p \in Nat /\ p > 0 /\ m \in Int /\ p = Entry(f.vector) + m /\ m <= 34
      /\ Framed(f, s) /\ At(f, m, s, g)
  BY DEF Doing
<1>6. -1 <= m
  BY <1>4, <1>5
<1> QED
  BY <1>1, <1>2, <1>3, <1>4, <1>5, <1>6

\* The entries that push one word are those of the vectors for which the CPU
\* has pushed an error code.
LEMMA SameErrorCodes == ISR_ERR = CpuErrorCode
BY DEF ISR_ERR, CpuErrorCode

LEMMA WordIs ==
  /\ \A t \in Tags, x \in Values : <<t, x>> \in Words
  /\ \A x \in Int : x \in Values
  /\ \A x \in BOOLEAN : x \in Values
  /\ \A x \in Places : x \in Values
  /\ \A r \in Names : r \in Tags
  /\ \A t \in {"padding", "ss", "rsp", "rflags", "cs", "rip", "imm", "local", "ctx"} : t \in Tags
BY DEF Words, Tags, Values

\* The word that belongs at each offset from the base.
LEMMA ContentIs ==
  ASSUME NEW f, NEW b \in Nat, Base(f) = b, NEW d \in Nat, Len(f.stack) = d, d <= b,
         NEW l \in Int, NEW w
  PROVE  /\ l = b + 6 /\ w = <<"imm", f.errc>> => Content(f, l, w)
         /\ l = b + 7 /\ w = <<"imm", f.vector>> => Content(f, l, w)
         /\ \A k \in 1..15 : l = b + 7 + k /\ w = f.regs[PUSH_REGS[k]] => Content(f, l, w)
         /\ l > b + 22 => Content(f, l, w)
<1>1. ASSUME l = b + 6, w = <<"imm", f.errc>> PROVE Content(f, l, w)
  BY <1>1 DEF Content
<1>2. ASSUME l = b + 7, w = <<"imm", f.vector>> PROVE Content(f, l, w)
  BY <1>2 DEF Content
<1>3. ASSUME NEW k \in 1..15, l = b + 7 + k, w = f.regs[PUSH_REGS[k]] PROVE Content(f, l, w)
  <2>1. /\ ~(l <= d) /\ l # b + 2 /\ l # b + 3 /\ l # b + 4 /\ l # b + 5 /\ l # b + 6 /\ l # b + 7
        /\ \A q \in 1..15 : l = b + 7 + q => q = k
    BY <1>3
  <2> QED
    BY <1>3, <2>1 DEF Content
<1>4. ASSUME l > b + 22 PROVE Content(f, l, w)
  <2>1. /\ ~(l <= d) /\ l # b + 2 /\ l # b + 3 /\ l # b + 4 /\ l # b + 5 /\ l # b + 6 /\ l # b + 7
        /\ \A q \in 1..15 : l # b + 7 + q
    BY <1>4
  <2> QED
    BY <2>1 DEF Content
<1> QED
  BY <1>1, <1>2, <1>3, <1>4

LEMMA PushStep ==
  ASSUME NEW f, NEW p, NEW m, NEW s, NEW g, Doing(f, p, m, s, g), m <= 0
  PROVE  LET t == Append(s, <<"imm", isr(f.vector)[p][2]>>)
         IN  t \in Seq(Words) /\ Framed(f, t) /\ At(f, m + 1, t, g)
<1>0. /\ s \in Seq(Words) /\ Framed(f, s)
      /\ Len(s) \in Nat /\ Base(f) \in Nat /\ Len(f.stack) \in Nat /\ Len(f.stack) <= Base(f)
      /\ f.vector \in Stubs /\ f.errc \in Nat /\ (f.vector \notin CpuErrorCode => f.errc = 0)
      /\ m \in Int /\ p = Entry(f.vector) + m /\ p \in Nat /\ p > 0
  BY DoingIs, FrameIs
<1>1. Len(s) = Base(f) + 6 + m /\ g = f.regs
  BY DoingIs DEF At
<1> DEFINE x == isr(f.vector)[p][2]
           n == Base(f) + 6 + m
           w == <<"imm", x>>
<1>2. /\ m < 0 => isr(f.vector)[p] = <<"push", 0>>
      /\ m = 0 => isr(f.vector)[p] = <<"push", f.vector>>
  BY <1>0, Decode
<1>3. (m < 0 => x = 0) /\ (m = 0 => x = f.vector)
  <2> DEFINE i == isr(f.vector)[p]
  <2>1. (m < 0 => i = <<"push", 0>>) /\ (m = 0 => i = <<"push", f.vector>>)
    BY <1>2
  <2> HIDE DEF i
  <2>2. (m < 0 => i[2] = 0) /\ (m = 0 => i[2] = f.vector)
    BY <2>1
  <2> QED
    BY <2>2 DEF i
<1> HIDE DEF x
<1>4. x \in Int
  BY <1>0, <1>3 DEF Stubs
<1>5. w \in Words
  BY <1>4, WordIs
<1>6. m < 0 => m = -1 /\ f.errc = 0
  <2>1. Entry(f.vector) = IF f.vector \in CpuErrorCode THEN 1 ELSE 2
    BY SameErrorCodes DEF Entry
  <2> QED
    BY <1>0, <2>1
<1>7. Content(f, n + 1, w)
  <2>1. CASE m < 0
    <3>1. n + 1 \in Int /\ n + 1 = Base(f) + 6 /\ w = <<"imm", f.errc>>
      BY <1>0, <1>3, <1>6, <2>1
    <3> HIDE DEF n, w
    <3> QED
      BY <1>0, <3>1, ContentIs
  <2>2. CASE m = 0
    <3>1. n + 1 \in Int /\ n + 1 = Base(f) + 7 /\ w = <<"imm", f.vector>>
      BY <1>0, <1>3, <2>2
    <3> HIDE DEF n, w
    <3> QED
      BY <1>0, <3>1, ContentIs
  <2> QED
    BY <1>0, <2>1, <2>2
<1>8. n \in Nat /\ Len(s) = n
  BY <1>0, <1>1
<1> HIDE DEF w, n
<1> DEFINE t == Append(s, w)
<1>9. t \in Seq(Words) /\ Len(t) = n + 1 /\ Framed(f, t)
  BY <1>0, <1>5, <1>7, <1>8, PushFramed
<1> HIDE DEF t
<1>10. At(f, m + 1, t, g)
  BY <1>0, <1>1, <1>9 DEF At, n
<1>11. t = Append(s, <<"imm", isr(f.vector)[p][2]>>)
  BY DEF t, w, x
<1> QED
  BY <1>9, <1>10, <1>11

LEMMA SaveStep ==
  ASSUME NEW f, NEW p, NEW m, NEW s, NEW g, Doing(f, p, m, s, g), m \in 1..15
  PROVE  LET t == Append(s, g[isr(f.vector)[p][2]])
         IN  t \in Seq(Words) /\ Framed(f, t) /\ At(f, m + 1, t, g)
<1>0. /\ s \in Seq(Words) /\ Framed(f, s) /\ g \in [Registers -> Words]
      /\ Len(s) \in Nat /\ Base(f) \in Nat /\ Len(f.stack) \in Nat /\ Len(f.stack) <= Base(f)
      /\ f.vector \in Stubs
      /\ m \in Int /\ p = Entry(f.vector) + m /\ p \in Nat /\ p > 0 /\ m <= 34
      /\ At(f, m, s, g)
  BY DoingIs
<1>1. Len(s) = Base(f) + 6 + m /\ g = f.regs
  <2>1. m <= 16
    OBVIOUS
  <2> QED
    BY <1>0, <2>1 DEF At
<1> DEFINE r == isr(f.vector)[p][2]
           n == Base(f) + 6 + m
           w == g[r]
<1>2. isr(f.vector)[p] = <<"save", PUSH_REGS[m]>>
  <2> DEFINE v == f.vector
  <2>1. v \in Stubs /\ p = Entry(v) + m
    BY <1>0
  <2> HIDE DEF v
  <2>2. isr(v)[p] = <<"save", PUSH_REGS[m]>>
    BY <1>0, <2>1, Decode
  <2> QED
    BY <2>2 DEF v
<1>3. r = PUSH_REGS[m]
  BY <1>2
<1> HIDE DEF r
<1>4. r \in Registers
  BY <1>3, RegisterNames
<1>5. w \in Words /\ w = f.regs[PUSH_REGS[m]]
  BY <1>0, <1>1, <1>3, <1>4
<1>7. Content(f, n + 1, w)
  <2>1. n + 1 \in Int /\ n + 1 = Base(f) + 7 + m
    BY <1>0
  <2> HIDE DEF n, w
  <2> QED
    BY <1>0, <1>5, <2>1, ContentIs
<1>8. n \in Nat /\ Len(s) = n
  BY <1>0, <1>1
<1> HIDE DEF w, n
<1> DEFINE t == Append(s, w)
<1>9. t \in Seq(Words) /\ Len(t) = n + 1 /\ Framed(f, t)
  BY <1>0, <1>5, <1>7, <1>8, PushFramed
<1> HIDE DEF t
<1>10. At(f, m + 1, t, g)
  <2>1. m + 1 \in 2..16 /\ Len(t) = Base(f) + 6 + (m + 1)
    BY <1>0, <1>9 DEF n
  <2> QED
    BY <1>0, <1>1, <2>1 DEF At
<1>11. t = Append(s, g[isr(f.vector)[p][2]])
  BY DEF t, w, r
<1> QED
  BY <1>9, <1>10, <1>11

LEMMA MovStep ==
  ASSUME NEW f, NEW p, NEW m, NEW s, NEW g, Doing(f, p, m, s, g), m = 16
  PROVE  LET h == [g EXCEPT !["rdi"] = <<"ctx", Len(s)>>]
         IN  h \in [Registers -> Words] /\ At(f, m + 1, s, h)
<1>1. /\ g \in [Registers -> Words] /\ Len(s) \in Nat /\ Base(f) \in Nat
      /\ Len(s) = Base(f) + 22 /\ g = f.regs
  BY DoingIs DEF At
<1> DEFINE w == <<"ctx", Len(s)>>
           h == [g EXCEPT !["rdi"] = w]
<1>2. w \in Words
  BY <1>1, WordIs
<1>3. w = <<"ctx", Base(f) + 22>>
  BY <1>1
<1> HIDE DEF w
<1>4. h \in [Registers -> Words]
  BY <1>1, <1>2
<1>5. h = [f.regs EXCEPT !["rdi"] = <<"ctx", Base(f) + 22>>]
  BY <1>1, <1>3
<1> HIDE DEF h
<1>6. At(f, 17, s, h)
  BY <1>1, <1>5 DEF At
<1>7. At(f, m + 1, s, h)
  BY <1>6
<1> QED
  BY <1>4, <1>7 DEF h, w

\* The call leaves the return address, and the function a word of its own or none.
LEMMA CallStep ==
  ASSUME NEW f, NEW p, NEW m, NEW s, NEW g, Doing(f, p, m, s, g), m = 17,
         NEW x \in Nat, NEW locals \in {<<>>, << <<"local", x>> >>}
  PROVE  LET t == Append(s, <<"rip", <<f.vector, p + 1>>>>) \o locals
         IN  t \in Seq(Words) /\ Framed(f, t) /\ InC(f, t)
<1>0. /\ s \in Seq(Words) /\ Framed(f, s) /\ f.vector \in Stubs
      /\ Base(f) \in Nat /\ Len(f.stack) \in Nat /\ Len(f.stack) <= Base(f)
      /\ p \in Nat /\ p + 1 = Entry(f.vector) + 18 /\ At(f, m, s, g)
  <2>1. Entry(f.vector) \in {1, 2} /\ p = Entry(f.vector) + m /\ p \in Nat
    BY DoingIs
  <2>2. p + 1 = Entry(f.vector) + 18
    BY <2>1
  <2> QED
    BY <2>1, <2>2, DoingIs
<1> DEFINE b == Base(f)
           n == b + 22
           w == <<"rip", <<f.vector, p + 1>>>>
<1>1. Len(s) = n
  BY <1>0 DEF At
<1>2. n \in Nat /\ b \in Nat /\ n + 1 \in Int /\ n + 2 \in Int /\ n + 1 > b + 22 /\ n + 2 > b + 22
      /\ n + 1 + 1 = n + 2
  BY <1>0
<1>3. w \in Words
  <2>1. <<f.vector, p + 1>> \in Places
    BY <1>0 DEF Places
  <2> QED
    BY <2>1, WordIs
<1>4. w = <<"rip", <<f.vector, Entry(f.vector) + 18>>>>
  BY <1>0
<1>5. Content(f, n + 1, w)
  <2> HIDE DEF n, w, b
  <2>1. Base(f) = b
    BY DEF b
  <2> QED
    BY <1>0, <1>2, <2>1, ContentIs
<1>6. ASSUME NEW q PROVE Content(f, n + 2, q)
  <2> HIDE DEF n, w, b
  <2>1. Base(f) = b
    BY DEF b
  <2> QED
    BY <1>0, <1>2, <2>1, ContentIs
<1> DEFINE u == Append(s, w)
<1> HIDE DEF n, w
<1>7. u \in Seq(Words) /\ Len(u) = n + 1 /\ Framed(f, u) /\ u[n + 1] = w
  BY <1>0, <1>1, <1>2, <1>3, <1>5, PushFramed
<1> HIDE DEF u
<1>8. CASE locals = <<>>
  <2>1. u \o locals = u
    BY <1>7, <1>8
  <2>2. InC(f, u)
    BY <1>2, <1>4, <1>7 DEF InC, n
  <2> QED
    BY <1>7, <2>1, <2>2 DEF u, w
<1>9. CASE locals = << <<"local", x>> >>
  <2> DEFINE y == <<"local", x>>
             t == Append(u, y)
  <2>1. y \in Words /\ y[1] = "local"
    BY WordIs
  <2>2. u \o locals = t
    BY <1>7, <1>9
  <2>3. Content(f, n + 1 + 1, y)
    BY <1>2, <1>6
  <2> HIDE DEF y
  <2>4. /\ t \in Seq(Words) /\ Len(t) = n + 1 + 1 /\ Framed(f, t) /\ t[n + 1 + 1] = y
        /\ \A q \in 1..n+1 : t[q] = u[q]
    <3>1. n + 1 \in Nat
      BY <1>2
    <3> QED
      BY <1>0, <1>7, <2>1, <2>3, <3>1, PushFramed
  <2> HIDE DEF t
  <2>5. t[n + 1] = w
    BY <1>2, <1>7, <2>4
  <2>6. InC(f, t)
    <3>1. n + 1 = Base(f) + 23 /\ n + 1 + 1 = Base(f) + 24
      BY <1>2 DEF n
    <3> QED
      BY <1>4, <2>1, <2>4, <2>5, <3>1 DEF InC
  <2> QED
    BY <2>2, <2>4, <2>6 DEF u, w
<1> QED
  BY <1>8, <1>9

\* The return.
LEMMA ReturnStep ==
  ASSUME NEW f \in Frames, NEW s \in Seq(Words), Framed(f, s), InC(f, s), NEW r,
         r = IF s[Len(s)][1] = "local" THEN Len(s) - 1 ELSE Len(s)
  PROVE  /\ r = Base(f) + 23
         /\ s[r] = <<"rip", <<f.vector, Entry(f.vector) + 18>>>>
         /\ SubSeq(s, 1, r - 1) \in Seq(Words)
         /\ Framed(f, SubSeq(s, 1, r - 1))
         /\ \A g : At(f, 18, SubSeq(s, 1, r - 1), g)
<1>0. Base(f) \in Nat /\ Len(s) \in Nat
  BY FrameIs, BaseIs, LenProperties
<1> DEFINE b == Base(f)
           n == Len(s)
<1>1. /\ n \in {b + 23, b + 24}
      /\ s[b + 23] = <<"rip", <<f.vector, Entry(f.vector) + 18>>>>
      /\ n = b + 24 => s[b + 24][1] = "local"
  BY DEF InC
<1>2. s[b + 23][1] = "rip"
  BY <1>1
<1> HIDE DEF b, n
<1>3. b \in Nat /\ n \in Nat /\ r = IF s[n][1] = "local" THEN n - 1 ELSE n
  BY <1>0 DEF b, n
<1>4. r = b + 23
  <2>1. CASE n = b + 24
    BY <1>1, <1>3, <2>1
  <2>2. CASE n = b + 23
    <3>1. s[n][1] = "rip"
      BY <1>2, <2>2
    <3> QED
      BY <1>3, <2>2, <3>1
  <2> QED
    BY <1>1, <2>1, <2>2
<1> DEFINE k == b + 22
           t == SubSeq(s, 1, k)
<1>5. k \in 0..n /\ k >= b + 5 /\ r - 1 = k
  BY <1>1, <1>3, <1>4
<1> HIDE DEF k
<1>6. t \in Seq(Words) /\ Len(t) = k /\ Framed(f, t)
  BY <1>0, <1>3, <1>5, CutFramed DEF b, n
<1> HIDE DEF t
<1>7. ASSUME NEW g PROVE At(f, 18, t, g)
  <2>1. Len(t) = Base(f) + 40 - 18
    BY <1>3, <1>6 DEF k, b
  <2> QED
    BY <2>1 DEF At
<1>8. t = SubSeq(s, 1, r - 1)
  BY <1>5 DEF t
<1> QED
  BY <1>1, <1>4, <1>6, <1>7, <1>8 DEF b

LEMMA RestoreStep ==
  ASSUME NEW f, NEW p, NEW m, NEW s, NEW g, Doing(f, p, m, s, g), m \in 18..32
  PROVE  LET h == [g EXCEPT ![isr(f.vector)[p][2]] = s[Len(s)]]
             t == SubSeq(s, 1, Len(s) - 1)
         IN  /\ t \in Seq(Words) /\ Framed(f, t)
             /\ h \in [Registers -> Words] /\ At(f, m + 1, t, h)
<1>0. /\ s \in Seq(Words) /\ Framed(f, s) /\ g \in [Registers -> Words]
      /\ Len(s) \in Nat /\ Base(f) \in Nat
      /\ f.vector \in Stubs
      /\ m \in Int /\ p = Entry(f.vector) + m /\ p \in Nat /\ p > 0 /\ m <= 34
      /\ At(f, m, s, g)
  BY DoingIs
<1> DEFINE b == Base(f)
           n == b + 40 - m
           r == isr(f.vector)[p][2]
           j == m - 17
           w == s[n]
<1>1. /\ Len(s) = n
      /\ \A q \in 1..15 : q < j => g[POP_REGS[q]] = f.regs[POP_REGS[q]]
  BY <1>0 DEF At
<1>2. /\ j \in 1..15 /\ 16 - j \in 1..15 /\ m = j + 17
      /\ n \in 1..n /\ n = b + 7 + (16 - j) /\ n - 1 \in 0..n /\ n - 1 >= b + 5
      /\ b \in Nat /\ n \in Nat
  <2>1. b \in Nat
    BY <1>0
  <2> HIDE DEF b
  <2>2. j \in 1..15 /\ 16 - j \in 1..15 /\ m = j + 17
    BY <1>0
  <2>3. n = b + 7 + (16 - j)
    BY <1>0, <2>1
  <2> HIDE DEF n, j
  <2>4. n \in Nat /\ n \in 1..n /\ n - 1 \in 0..n /\ n - 1 >= b + 5
    BY <2>1, <2>2, <2>3
  <2> QED
    BY <2>1, <2>2, <2>3, <2>4
<1>3. r = POP_REGS[j]
  <2>1. isr(f.vector)[p] = <<"restore", POP_REGS[m - 17]>>
    BY <1>0, Decode
  <2> QED
    BY <2>1
<1> HIDE DEF r
<1>4. r \in Registers /\ r = PUSH_REGS[16 - j]
  <2> HIDE DEF j
  <2> QED
    BY <1>2, <1>3, RegisterNames, RegisterLists
<1>5. w = f.regs[r] /\ w \in Words
  <2>1. Content(f, n, w)
    BY <1>0, <1>1, <1>2 DEF Framed
  <2>2. w \in Words
    <3>1. n \in 1..Len(s)
      BY <1>1, <1>2
    <3> QED
      BY <1>0, <3>1, ElementOfSeq
  <2>3. Base(f) = b
    OBVIOUS
  <2> HIDE DEF n, w, j, b
  <2>4. w = f.regs[PUSH_REGS[16 - j]]
    BY <1>2, <2>1, <2>3 DEF Content
  <2> QED
    BY <1>4, <2>2, <2>4
<1> DEFINE h == [g EXCEPT ![r] = w]
           t == SubSeq(s, 1, n - 1)
<1> HIDE DEF n, w, j
<1>6. h \in [Registers -> Words]
  BY <1>0, <1>4, <1>5
<1>7. t \in Seq(Words) /\ Len(t) = n - 1 /\ Framed(f, t)
  <2> DEFINE k == n - 1
  <2>1. k \in 0..n /\ k >= b + 5
    BY <1>2
  <2> HIDE DEF k
  <2>2. /\ SubSeq(s, 1, k) \in Seq(Words) /\ Len(SubSeq(s, 1, k)) = k
        /\ Framed(f, SubSeq(s, 1, k))
    BY <1>0, <1>1, <1>2, <2>1, CutFramed
  <2> QED
    BY <2>2 DEF k
<1>8. \A q \in 1..15 : q < j + 1 => h[POP_REGS[q]] = f.regs[POP_REGS[q]]
  <2> TAKE q \in 1..15
  <2>1. HAVE q < j + 1
  <2>2. POP_REGS[q] \in Registers
    BY RegisterNames
  <2>3. CASE POP_REGS[q] = r
    BY <1>0, <1>5, <2>2, <2>3
  <2>4. CASE POP_REGS[q] # r
    <3>1. q # j
      BY <1>3, <2>4
    <3>2. q < j
      BY <1>2, <2>1, <3>1
    <3>3. h[POP_REGS[q]] = g[POP_REGS[q]]
      BY <1>0, <2>2, <2>4
    <3> QED
      BY <1>1, <3>2, <3>3
  <2> QED
    BY <2>3, <2>4
<1> HIDE DEF h, t
<1>9. At(f, m + 1, t, h)
  <2>1. m + 1 \in 19..33 /\ Len(t) = Base(f) + 40 - (m + 1) /\ m + 1 - 17 = j + 1
    BY <1>0, <1>2, <1>7 DEF n
  <2>2. \A q \in 1..15 : q < m + 1 - 17 => h[POP_REGS[q]] = f.regs[POP_REGS[q]]
    BY <1>8, <2>1
  <2> QED
    BY <2>1, <2>2 DEF At
<1>10. /\ h = [g EXCEPT ![isr(f.vector)[p][2]] = s[Len(s)]]
       /\ t = SubSeq(s, 1, Len(s) - 1)
  BY <1>1 DEF h, t, r, w
<1> QED
  BY <1>6, <1>7, <1>9, <1>10

LEMMA DiscardStep ==
  ASSUME NEW f, NEW p, NEW m, NEW s, NEW g, Doing(f, p, m, s, g), m = 33
  PROVE  LET t == SubSeq(s, 1, Len(s) - isr(f.vector)[p][2])
         IN  t \in Seq(Words) /\ Framed(f, t) /\ At(f, m + 1, t, g)
<1>0. /\ s \in Seq(Words) /\ Framed(f, s)
      /\ Len(s) \in Nat /\ Base(f) \in Nat
      /\ f.vector \in Stubs
      /\ m \in Int /\ p = Entry(f.vector) + m /\ p \in Nat /\ p > 0 /\ m <= 34
      /\ At(f, m, s, g)
  BY DoingIs
<1>1. /\ Len(s) = Base(f) + 7
      /\ \A q \in 1..15 : q < 16 => g[POP_REGS[q]] = f.regs[POP_REGS[q]]
  BY <1>0 DEF At
<1>2. isr(f.vector)[p][2] = 2
  <2>1. isr(f.vector)[p] = <<"discard", 2>>
    BY <1>0, Decode
  <2> QED
    BY <2>1
<1> DEFINE n == Base(f) + 7
           k == Base(f) + 5
           t == SubSeq(s, 1, k)
<1>3. n \in Nat /\ k \in 0..n /\ k >= Base(f) + 5 /\ Len(s) = n /\ Len(s) - 2 = k
  <2>1. Len(s) = n
    BY <1>1
  <2> DEFINE b == Base(f)
  <2>2. b \in Nat
    BY <1>0
  <2> HIDE DEF b
  <2>3. b + 7 \in Nat /\ b + 5 \in 0..b+7 /\ b + 5 >= b + 5 /\ b + 7 - 2 = b + 5
    BY <2>2
  <2>4. n = b + 7 /\ k = b + 5 /\ Base(f) = b
    BY DEF b
  <2> HIDE DEF n, k
  <2>5. n \in Nat /\ k \in 0..n /\ k >= b + 5 /\ n - 2 = k
    BY <2>2, <2>4
  <2> QED
    BY <2>1, <2>4, <2>5
<1> HIDE DEF n, k
<1>4. t \in Seq(Words) /\ Len(t) = k /\ Framed(f, t)
  BY <1>0, <1>3, CutFramed
<1> HIDE DEF t
<1>5. At(f, 34, t, g)
  BY <1>1, <1>4 DEF At, k
<1>6. t = SubSeq(s, 1, Len(s) - isr(f.vector)[p][2])
  BY <1>2, <1>3 DEF t
<1>7. At(f, m + 1, t, g)
  BY <1>5
<1> QED
  BY <1>4, <1>6, <1>7

\* What the CPU finds on the stack is what it pushed.
LEMMA IretqStep ==
  ASSUME NEW f, NEW p, NEW m, NEW s, NEW g, Doing(f, p, m, s, g), m = 34, NEW n, n = Len(s)
  PROVE  /\ s[n][2] = f.ip /\ s[n - 2][2] = f.iflag
         /\ SubSeq(s, 1, s[n - 3][2]) = f.stack
         /\ g = f.regs
<1>0. /\ f \in Frames /\ s \in Seq(Words) /\ Framed(f, s) /\ g \in [Registers -> Words]
      /\ Base(f) \in Nat /\ Len(f.stack) \in Nat /\ Len(f.stack) <= Base(f)
      /\ f.regs \in [Registers -> Words] /\ f.stack \in Seq(Words)
      /\ At(f, m, s, g)
  BY DoingIs, FrameIs
<1>1. /\ n = Base(f) + 5
      /\ \A q \in 1..15 : q < 17 => g[POP_REGS[q]] = f.regs[POP_REGS[q]]
  BY <1>0 DEF At
<1> DEFINE b == Base(f)
           d == Len(f.stack)
<1>2. b \in Nat /\ d \in Nat /\ d <= b /\ n = b + 5 /\ Base(f) = b /\ Len(f.stack) = d
  BY <1>0, <1>1
<1>3. \A q \in 1..n : Content(f, q, s[q])
  BY <1>0 DEF Framed
<1> HIDE DEF b, d
<1>4. s[n] = <<"rip", f.ip>>
  <2>1. Content(f, b + 5, s[b + 5])
    BY <1>2, <1>3
  <2> QED
    BY <1>2, <2>1 DEF Content
<1>5. s[n - 2] = <<"rflags", f.iflag>>
  <2>1. Content(f, b + 3, s[b + 3]) /\ n - 2 = b + 3
    BY <1>2, <1>3
  <2> QED
    BY <1>2, <2>1 DEF Content
<1>6. s[n - 3] = <<"rsp", d>>
  <2>1. Content(f, b + 2, s[b + 2]) /\ n - 3 = b + 2
    BY <1>2, <1>3
  <2> QED
    BY <1>2, <2>1 DEF Content
<1>7. SubSeq(s, 1, d) = f.stack
  <2> DEFINE t == SubSeq(s, 1, d)
  <2>1. d \in 0..n /\ n \in Nat /\ Len(s) = n
    BY <1>2
  <2>2. t \in Seq(Words) /\ Len(t) = d /\ \A q \in 1..d : t[q] = s[q]
    BY <1>0, <2>1, CutFramed
  <2> HIDE DEF t
  <2>3. ASSUME NEW q \in 1..d PROVE t[q] = f.stack[q]
    <3>1. q \in 1..n /\ q <= Len(f.stack)
      BY <1>2
    <3>2. Content(f, q, s[q])
      BY <1>3, <3>1
    <3>3. s[q] = f.stack[q]
      BY <3>1, <3>2 DEF Content
    <3> QED
      BY <2>2, <3>3
  <2>4. t = f.stack
    BY <1>0, <1>2, <2>2, <2>3, SeqEqual
  <2> QED
    BY <2>4 DEF t
<1>8. g = f.regs
  <2>1. ASSUME NEW r \in Registers PROVE g[r] = f.regs[r]
    <3>1. PICK q \in 1..15 : r = POP_REGS[q]
      BY RegisterNames
    <3> QED
      BY <1>1, <3>1
  <2> QED
    BY <1>0, <2>1
<1>9. s[n][2] = f.ip /\ s[n - 2][2] = f.iflag /\ s[n - 3][2] = d
  BY <1>4, <1>5, <1>6
<1> QED
  BY <1>7, <1>8, <1>9

\* The five words that are always pushed, or six.
LEMMA LongShort ==
  ASSUME NEW S, NEW a \in S, NEW b \in S, NEW c \in S, NEW d \in S, NEW e \in S, NEW z \in S
  PROVE  Listing(S, <<a, b, c, d, e>>, 5) /\ Listing(S, <<z>>, 1) /\ Listing(S, <<>>, 0)
BY DEF Listing

\* The four pieces of the new stack make a frame.
LEMMA Layout ==
  ASSUME NEW f, NEW old, NEW padding, NEW cpu, NEW errc,
         NEW d \in Nat, NEW pad \in {0, 1}, NEW extra \in {0, 1}, NEW b \in Nat,
         b = d + pad, Base(f) = b, Len(f.stack) = d, old = f.stack,
         Listing(Words, old, d), Listing(Words, padding, pad),
         Listing(Words, cpu, 5), Listing(Words, errc, extra),
         cpu[2] = <<"rsp", d>>, cpu[3] = <<"rflags", f.iflag>>,
         cpu[4] = <<"cs", 8>>, cpu[5] = <<"rip", f.ip>>,
         extra = 1 => errc[1] = <<"imm", f.errc>>
  PROVE  /\ Listing(Words, old \o ((padding \o cpu) \o errc), b + 5 + extra)
         /\ Framed(f, old \o ((padding \o cpu) \o errc))
<1> DEFINE upper == padding \o cpu
           frame == upper \o errc
           s == old \o frame
           n == b + 5 + extra
<1>1. Listing(Words, upper, pad + 5) /\ Joined(upper, padding, pad, cpu, pad + 5)
  BY Behind
<1> HIDE DEF upper
<1>2. /\ Listing(Words, frame, pad + 5 + extra)
      /\ Joined(frame, upper, pad + 5, errc, pad + 5 + extra)
  BY <1>1, Behind
<1> HIDE DEF frame
<1>3. Listing(Words, s, d + (pad + 5 + extra)) /\ Joined(s, old, d, frame, d + (pad + 5 + extra))
  BY <1>2, Behind
<1> HIDE DEF s
<1>4. n \in Nat /\ d + (pad + 5 + extra) = n
  OBVIOUS
<1>5. Listing(Words, s, n) /\ Joined(s, old, d, frame, n)
  BY <1>3, <1>4
<1>6. \A q \in 1..d : s[q] = old[q]
  BY <1>4, <1>5 DEF Joined
<1>7. ASSUME NEW k \in 1..5 PROVE s[b + k] = cpu[k]
  <2>1. b + k \in 1..n /\ b + k > d /\ b + k - d = pad + k
    OBVIOUS
  <2>2. s[b + k] = frame[pad + k]
    BY <1>5, <2>1 DEF Joined
  <2> DEFINE l == pad + k
  <2>3. /\ l \in 1..pad+5+extra /\ l <= pad + 5
        /\ l \in 1..pad+5 /\ l > pad /\ l - pad = k
    OBVIOUS
  <2> HIDE DEF l
  <2>4. frame[l] = upper[l]
    BY <1>2, <2>3 DEF Joined
  <2>5. upper[l] = cpu[k]
    BY <1>1, <2>3 DEF Joined
  <2> QED
    BY <2>2, <2>4, <2>5 DEF l
<1>8. ASSUME extra = 1 PROVE s[b + 6] = <<"imm", f.errc>>
  <2>1. b + 6 \in 1..n /\ b + 6 > d /\ b + 6 - d = pad + 6
    BY <1>8
  <2>2. s[b + 6] = frame[pad + 6]
    BY <1>5, <2>1 DEF Joined
  <2>3. pad + 6 \in 1..pad+5+extra /\ pad + 6 > pad + 5 /\ pad + 6 - (pad + 5) = 1
    BY <1>8
  <2>4. frame[pad + 6] = errc[1]
    BY <1>2, <2>3 DEF Joined
  <2> QED
    BY <1>8, <2>2, <2>4
<1>9. /\ s[b + 2] = <<"rsp", d>> /\ s[b + 3] = <<"rflags", f.iflag>>
      /\ s[b + 4] = <<"cs", 8>> /\ s[b + 5] = <<"rip", f.ip>>
  BY <1>7
<1>10. ASSUME NEW q \in 1..n PROVE Content(f, q, s[q])
  <2>1. /\ q # b + 7
        /\ q = b + 6 => extra = 1
        /\ \A k \in 1..15 : q # b + 7 + k
        /\ q <= d => q \in 1..d
    OBVIOUS
  <2>2. q <= d => s[q] = f.stack[q]
    BY <1>6, <2>1
  <2>3. q = b + 6 => s[q] = <<"imm", f.errc>>
    BY <1>8, <2>1
  <2> QED
    BY <1>9, <2>1, <2>2, <2>3 DEF Content
<1>11. Framed(f, s)
  <2>1. Len(s) = n
    BY <1>5 DEF Listing
  <2>2. n >= Base(f) + 5
    OBVIOUS
  <2> QED
    BY <1>10, <2>1, <2>2 DEF Framed
<1> QED
  BY <1>5, <1>11 DEF s, frame, upper

\* The way in, whatever was interrupted.
LEMMA DeliverStep ==
  ASSUME NEW f \in Frames
  PROVE  LET padding == IF Len(f.stack) % 2 = 1 THEN << <<"padding", 0>> >> ELSE <<>>
             cpu == << <<"ss", 16>>, <<"rsp", Len(f.stack)>>, <<"rflags", f.iflag>>,
                       <<"cs", 8>>, <<"rip", f.ip>> >>
             errc == IF f.vector \in CpuErrorCode THEN << <<"imm", f.errc>> >> ELSE <<>>
             s == f.stack \o ((padding \o cpu) \o errc)
         IN  s \in Seq(Words) /\ Framed(f, s) /\ At(f, 1 - Entry(f.vector), s, f.regs)
<1>0. /\ f.stack \in Seq(Words) /\ f.iflag \in BOOLEAN /\ f.ip \in Places /\ f.errc \in Nat
      /\ Len(f.stack) \in Nat /\ Base(f) \in Nat /\ Len(f.stack) <= Base(f)
      /\ Base(f) = Len(f.stack) + (Len(f.stack) % 2)
  <2>1. f.stack \in Seq(Words) /\ f.iflag \in BOOLEAN /\ f.ip \in Places /\ f.errc \in Nat
    BY FrameIs
  <2> QED
    BY <2>1, BaseIs
<1> DEFINE padding == IF Len(f.stack) % 2 = 1 THEN << <<"padding", 0>> >> ELSE <<>>
           cpu == << <<"ss", 16>>, <<"rsp", Len(f.stack)>>, <<"rflags", f.iflag>>,
                     <<"cs", 8>>, <<"rip", f.ip>> >>
           errc == IF f.vector \in CpuErrorCode THEN << <<"imm", f.errc>> >> ELSE <<>>
           old == f.stack
           s == old \o ((padding \o cpu) \o errc)
<1> DEFINE d == Len(f.stack)
           pad == d % 2
           b == Base(f)
           extra == IF f.vector \in CpuErrorCode THEN 1 ELSE 0
<1>1. d \in Nat /\ b \in Nat /\ b = d + pad /\ d <= b /\ pad \in {0, 1}
  <2>1. d \in Nat /\ b \in Nat /\ b = d + (d % 2) /\ d <= b
    BY <1>0
  <2> HIDE DEF d, b
  <2> QED
    BY <2>1
<1>2. /\ <<"ss", 16>> \in Words /\ <<"rsp", d>> \in Words /\ <<"rflags", f.iflag>> \in Words
      /\ <<"cs", 8>> \in Words /\ <<"rip", f.ip>> \in Words /\ <<"padding", 0>> \in Words
      /\ <<"imm", f.errc>> \in Words
  <2>1. 16 \in Int /\ 8 \in Int /\ 0 \in Int /\ d \in Int /\ f.errc \in Int
    BY <1>0
  <2>2. /\ 16 \in Values /\ 8 \in Values /\ 0 \in Values /\ d \in Values /\ f.errc \in Values
        /\ f.iflag \in Values /\ f.ip \in Values
    BY <1>0, <2>1, WordIs
  <2> QED
    BY <2>2, WordIs
<1>3. Listing(Words, padding, pad) /\ (pad = 1 => padding[1] = <<"padding", 0>>)
  <2>1. Listing(Words, << <<"padding", 0>> >>, 1) /\ Listing(Words, <<>>, 0)
    BY <1>2, LongShort
  <2> QED
    BY <1>1, <2>1
<1>4. /\ Listing(Words, cpu, 5)
      /\ cpu[2] = <<"rsp", d>> /\ cpu[3] = <<"rflags", f.iflag>>
      /\ cpu[4] = <<"cs", 8>> /\ cpu[5] = <<"rip", f.ip>>
  <2>1. Listing(Words, << <<"ss", 16>>, <<"rsp", d>>, <<"rflags", f.iflag>>,
                          <<"cs", 8>>, <<"rip", f.ip>> >>, 5)
    BY <1>2, LongShort
  <2> QED
    BY <2>1
<1>5. Listing(Words, errc, extra) /\ (extra = 1 => errc[1] = <<"imm", f.errc>>)
  <2>1. Listing(Words, << <<"imm", f.errc>> >>, 1) /\ Listing(Words, <<>>, 0)
    BY <1>2, LongShort
  <2> QED
    BY <2>1
<1>6. extra \in {0, 1} /\ extra = 2 - Entry(f.vector) /\ Entry(f.vector) \in {1, 2}
  BY SameErrorCodes DEF Entry
<1>7. Listing(Words, old, d) /\ old = f.stack
  BY <1>0 DEF Listing
<1> HIDE DEF d, pad, b, extra, padding, cpu, errc
<1> HIDE DEF old
<1>8. Base(f) = b /\ Len(f.stack) = d
  BY DEF b, d
<1>9. /\ Listing(Words, s, b + 5 + extra)
      /\ Framed(f, s)
  BY <1>1, <1>3, <1>4, <1>5, <1>6, <1>7, <1>8, Layout
<1> HIDE DEF s
<1>10. s \in Seq(Words) /\ Len(s) = b + 5 + extra
  BY <1>9 DEF Listing
<1>11. At(f, 1 - Entry(f.vector), s, f.regs)
  <2> DEFINE m == 1 - Entry(f.vector)
  <2>1. m \in {0, -1} /\ Len(s) = b + 6 + m
    BY <1>1, <1>6, <1>10
  <2> HIDE DEF m
  <2>2. At(f, m, s, f.regs)
    BY <1>8, <2>1 DEF At
  <2> QED
    BY <2>2 DEF m
<1> QED
  BY <1>9, <1>10, <1>11 DEF s, old, padding, cpu, errc

-----------------------------------------------------------------------------
(* The invariant is kept.                                                  *)

LEMMA InitFrames == Init => IInv
<1> SUFFICES ASSUME Init PROVE IInv
  OBVIOUS
<1>1. frames = <<>> /\ Depth = 0
  BY DEF Init, Depth
<1>2. regs \in [Registers -> Words]
  <2>1. \A r \in Registers : r \in Names
    BY RegisterNames, RegisterLists
  <2>2. \A r \in Registers : <<r, 0>> \in Words
    BY <2>1, WordIs
  <2>3. regs = [r \in Registers |-> <<r, 0>>]
    BY DEF Init
  <2> QED
    BY <2>2, <2>3
<1>3. TypeOK
  BY <1>1, <1>2 DEF Init, TypeOK, Places
<1>4. Running /\ Suspended /\ Bottom
  BY <1>1 DEF Init, Running, Suspended, Bottom
<1> QED
  BY <1>3, <1>4 DEF IInv

\* Where the processor is.
LEMMA HandlerIs ==
  ASSUME IInv, Depth > 0
  PROVE  /\ Depth \in Nat /\ frames \in Seq(Frames) /\ Depth = Len(frames)
         /\ frames[Depth] \in Frames
         /\ Runs(frames[Depth], ip, stack, regs)
         /\ stack \in Seq(Words) /\ regs \in [Registers -> Words]
         /\ ip = <<frames[Depth].vector, ip[2]>> /\ ip[2] \in Nat
         /\ frames[Depth].vector \in Stubs
<1>1. /\ frames \in Seq(Frames) /\ ip \in Places
      /\ stack \in Seq(Words) /\ regs \in [Registers -> Words]
      /\ Runs(frames[Depth], ip, stack, regs)
  BY DEF IInv, TypeOK, Running
<1>2. Depth \in Nat /\ Depth = Len(frames) /\ Depth \in 1..Len(frames)
  <2>1. Len(frames) \in Nat
    BY <1>1, LenProperties
  <2> QED
    BY <2>1 DEF Depth
<1>3. frames[Depth] \in Frames
  BY <1>1, <1>2, ElementOfSeq
<1>4. frames[Depth].vector \in Stubs
  BY <1>3, FrameIs
<1>5. ip[1] = frames[Depth].vector
  BY <1>1 DEF Runs
<1>6. ip \in Stubs \X Nat
  <2>1. ip[1] # -1
    BY <1>4, <1>5 DEF Stubs
  <2>2. ThreadIp[1] = -1
    BY DEF ThreadIp
  <2> QED
    BY <1>1, <2>1, <2>2 DEF Places
<1>7. ip = <<ip[1], ip[2]>> /\ ip[2] \in Nat
  BY <1>6
<1> QED
  BY <1>1, <1>2, <1>3, <1>4, <1>5, <1>7

\* In the thread there is no handler.
LEMMA ThreadIs ==
  ASSUME IInv, ip = ThreadIp
  PROVE  Depth = 0 /\ frames = <<>>
<1>1. Depth \in Nat /\ frames \in Seq(Frames)
  <2>1. frames \in Seq(Frames)
    BY DEF IInv, TypeOK
  <2> QED
    BY <2>1, LenProperties DEF Depth
<1>2. ~(Depth > 0)
  <2> SUFFICES ASSUME Depth > 0 PROVE FALSE
    OBVIOUS
  <2>1. ip[1] = frames[Depth].vector /\ frames[Depth].vector \in Stubs
    BY HandlerIs
  <2>2. ip[1] = -1
    BY DEF ThreadIp
  <2> QED
    BY <2>1, <2>2 DEF Stubs
<1>3. Depth = 0
  BY <1>1, <1>2
<1>4. frames = <<>>
  BY <1>1, <1>3, EmptySeq DEF Depth
<1> QED
  BY <1>3, <1>4

LEMMA StubIs ==
  ASSUME IInv, InStub, NEW m, m = ip[2] - Entry(frames[Depth].vector)
  PROVE  /\ Depth > 0
         /\ Doing(frames[Depth], ip[2], m, stack, regs)
         /\ Instruction = isr(frames[Depth].vector)[ip[2]]
<1>1. Depth \in Nat
  <2>1. frames \in Seq(Frames)
    BY DEF IInv, TypeOK
  <2> QED
    BY <2>1, LenProperties DEF Depth
<1>2. Depth > 0
  <2> SUFFICES ASSUME Depth = 0 PROVE FALSE
    BY <1>1
  <2>1. ip = ThreadIp
    BY DEF IInv, Bottom
  <2> QED
    BY <2>1 DEF InStub, ThreadIp
<1> DEFINE f == frames[Depth]
           p == ip[2]
<1>3. /\ f \in Frames /\ Runs(f, ip, stack, regs)
      /\ stack \in Seq(Words) /\ regs \in [Registers -> Words]
      /\ ip[1] = f.vector /\ p \in Nat /\ f.vector \in Stubs
  BY <1>2, HandlerIs
<1>4. p > 0 /\ m = p - Entry(f.vector)
  BY DEF InStub
<1>5. /\ p \in 0..Entry(f.vector) + 34 /\ Framed(f, stack)
      /\ At(f, m, stack, regs)
  BY <1>3, <1>4 DEF Runs
<1>6. Entry(f.vector) \in {1, 2}
  BY DEF Entry
<1>7. m \in Int /\ p = Entry(f.vector) + m /\ m <= 34
  <2> HIDE DEF p
  <2> QED
    BY <1>3, <1>4, <1>5, <1>6
<1>8. Doing(f, p, m, stack, regs)
  <2> HIDE DEF f, p
  <2> QED
    BY <1>3, <1>4, <1>5, <1>7 DEF Doing
<1>9. Instruction = isr(f.vector)[p]
  BY <1>3 DEF Instruction
<1> QED
  BY <1>2, <1>8, <1>9

\* The same handler goes on.
LEMMA SameHandler ==
  ASSUME IInv, Depth > 0, frames' = frames,
         stack' \in Seq(Words), regs' \in [Registers -> Words],
         ip' \in Places, iflag' \in BOOLEAN,
         Runs(frames[Depth], ip', stack', regs')
  PROVE  IInv'
<1>1. TypeOK'
  BY DEF IInv, TypeOK
<1>2. Depth' = Depth
  BY DEF Depth
<1>3. Running'
  BY <1>2 DEF Running
<1>4. Suspended'
  BY <1>2 DEF IInv, Suspended
<1>5. Bottom'
  BY <1>2 DEF IInv, Bottom
<1> QED
  BY <1>1, <1>3, <1>4, <1>5 DEF IInv

\* It goes on with the next instruction.
LEMMA NextInstruction ==
  ASSUME IInv, InStub, frames' = frames, Advance, iflag' = iflag,
         NEW m, m = ip[2] - Entry(frames[Depth].vector), m < 34,
         stack' \in Seq(Words), regs' \in [Registers -> Words],
         Framed(frames[Depth], stack'), At(frames[Depth], m + 1, stack', regs')
  PROVE  IInv'
<1> DEFINE f == frames[Depth]
           p == ip[2]
           e == Entry(f.vector)
<1>1. /\ Depth > 0 /\ m \in Int /\ p \in Nat /\ p = e + m /\ e \in {1, 2} /\ f.vector \in Stubs
  BY StubIs, DoingIs
<1>2. ip[1] = f.vector
  BY <1>1, HandlerIs
<1>3. ip' = <<f.vector, p + 1>>
  BY <1>2 DEF Advance
<1> HIDE DEF p, e
<1>4. p + 1 \in Nat /\ p + 1 \in 0..e+34 /\ p + 1 # 0 /\ p + 1 - e = m + 1
  <2>1. \A j \in Int, k \in {1, 2} : k + j \in Nat /\ j < 34 =>
          /\ k + j + 1 \in Nat /\ k + j + 1 \in 0..k+34 /\ k + j + 1 # 0
          /\ k + j + 1 - k = j + 1
    OBVIOUS
  <2> QED
    BY <1>1, <2>1
<1>5. ip' \in Places
  BY <1>1, <1>3, <1>4 DEF Places
<1>6. Runs(f, ip', stack', regs')
  <2>1. ip'[1] = f.vector /\ ip'[2] = p + 1
    BY <1>3
  <2>2. At(f, ip'[2] - e, stack', regs')
    <3> DEFINE k == m + 1
               l == ip'[2] - e
    <3>1. At(f, k, stack', regs')
      OBVIOUS
    <3>2. l = k
      <4> DEFINE q == p + 1
      <4>1. q - e = k
        BY <1>1
      <4>2. ip'[2] = q
        BY <2>1
      <4> HIDE DEF q, k
      <4> QED
        BY <4>1, <4>2, Zenon
    <3> HIDE DEF k, l
    <3>3. At(f, l, stack', regs')
      BY <3>1, <3>2
    <3> QED
      BY <3>3 DEF l
  <2> QED
    BY <1>4, <2>1, <2>2 DEF Runs, e
<1>7. iflag' \in BOOLEAN
  BY DEF IInv, TypeOK
<1> QED
  BY <1>1, <1>5, <1>6, <1>7, SameHandler

\* A handler more.
LEMMA DeliverKeeps ==
  ASSUME IInv, NEW v \in Stubs, NEW errc \in Nat, Deliver(v, errc)
  PROVE  IInv'
<1>1. /\ stack \in Seq(Words) /\ regs \in [Registers -> Words] /\ ip \in Places
      /\ iflag \in BOOLEAN /\ frames \in Seq(Frames) /\ Depth = Len(frames) /\ Depth \in Nat
  <2>1. frames \in Seq(Frames)
    BY DEF IInv, TypeOK
  <2> QED
    BY <2>1, LenProperties DEF IInv, TypeOK, Depth
<1> DEFINE code == IF v \in CpuErrorCode THEN errc ELSE 0
           f == [vector |-> v, errc |-> code,
                 ip |-> ip, iflag |-> iflag, regs |-> regs, stack |-> stack]
<1>2. /\ frames' = Append(frames, f) /\ regs' = regs
      /\ ip' = <<CHOOSE w \in Stubs : LinkAddress[w] = GateTarget(idt[v]), 1>>
      /\ iflag' = (iflag /\ idt[v].type_attr % 16 # 14)
      /\ stack' = stack \o CpuFrame(v, errc)
  BY DEF Deliver
<1>3. f \in Frames /\ f.vector = v
  <2>1. code \in Nat /\ (v \in CpuErrorCode \/ code = 0)
    OBVIOUS
  <2> HIDE DEF code
  <2> QED
    BY <1>1, <2>1 DEF Frames
<1>4. ip' = <<v, 1>>
  BY <1>2, VectorFindsStub
<1>5. iflag' \in BOOLEAN
  BY <1>2
<1>6. f.stack = stack /\ f.iflag = iflag /\ f.ip = ip /\ f.regs = regs /\ f.errc = code
  OBVIOUS
<1>7. /\ stack' \in Seq(Words) /\ Framed(f, stack')
      /\ At(f, 1 - Entry(f.vector), stack', f.regs)
  <2> DEFINE padding == IF Len(f.stack) % 2 = 1 THEN << <<"padding", 0>> >> ELSE <<>>
             cpu == << <<"ss", 16>>, <<"rsp", Len(f.stack)>>, <<"rflags", f.iflag>>,
                       <<"cs", 8>>, <<"rip", f.ip>> >>
             tail == IF f.vector \in CpuErrorCode THEN << <<"imm", f.errc>> >> ELSE <<>>
             s == f.stack \o ((padding \o cpu) \o tail)
  <2>1. s \in Seq(Words) /\ Framed(f, s) /\ At(f, 1 - Entry(f.vector), s, f.regs)
    <3> HIDE DEF f
    <3> QED
      BY <1>3, DeliverStep
  <2>2. tail = IF v \in CpuErrorCode THEN << <<"imm", errc>> >> ELSE <<>>
    BY <1>3, <1>6
  <2>3. /\ padding = IF Len(stack) % 2 = 1 THEN << <<"padding", 0>> >> ELSE <<>>
        /\ cpu = << <<"ss", 16>>, <<"rsp", Len(stack)>>, <<"rflags", iflag>>,
                    <<"cs", 8>>, <<"rip", ip>> >>
    BY <1>6
  <2>4. CpuFrame(v, errc) = (padding \o cpu) \o tail
    <3> HIDE DEF padding, cpu, tail, f
    <3> QED
      BY <2>2, <2>3, Zenon DEF CpuFrame
  <2>5. stack' = s
    BY <1>2, <1>6, <2>4
  <2> HIDE DEF s, f
  <2> QED
    BY <2>1, <2>5
<1> HIDE DEF f, code
<1> DEFINE n == Depth
<1>8. /\ frames' \in Seq(Frames) /\ Depth' = n + 1 /\ frames'[n + 1] = f
      /\ \A j \in 1..n : frames'[j] = frames[j]
  <2> DEFINE g == Append(frames, f)
  <2>1. /\ g \in Seq(Frames) /\ Len(g) = Len(frames) + 1
        /\ \A j \in 1..Len(frames) : g[j] = frames[j]
        /\ g[Len(frames) + 1] = f
    BY <1>1, <1>3, AppendProperties
  <2>2. frames' = g /\ Depth' = Len(frames')
    BY <1>2 DEF Depth
  <2> HIDE DEF g
  <2> QED
    BY <1>1, <2>1, <2>2
<1>9. n \in Nat
  BY <1>1
<1>10. TypeOK'
  <2>1. <<v, 1>> \in Places
    BY DEF Places
  <2> QED
    BY <1>1, <1>2, <1>4, <1>5, <1>7, <1>8, <2>1 DEF TypeOK
<1>11. Running'
  <2>1. Entry(v) \in {1, 2}
    BY DEF Entry
  <2>2. ip'[1] = v /\ ip'[2] = 1 /\ 1 \in 0..Entry(v)+34 /\ 1 > 0
    BY <1>4, <2>1
  <2>3. At(f, ip'[2] - Entry(f.vector), stack', regs')
    BY <1>2, <1>6, <1>7, <2>2 DEF f
  <2>4. Runs(f, ip', stack', regs')
    BY <1>3, <1>7, <2>2, <2>3 DEF Runs
  <2> QED
    BY <1>8, <2>4 DEF Running
<1>12. Suspended'
  <2> SUFFICES ASSUME NEW j \in 1..n
               PROVE  Runs(frames'[j], frames'[j+1].ip, frames'[j+1].stack, frames'[j+1].regs)
    BY <1>8, <1>9 DEF Suspended
  <2>1. frames'[j] = frames[j]
    BY <1>8
  <2>2. CASE j = n
    <3>1. frames'[j + 1] = f
      BY <1>8, <2>2
    <3>2. Runs(frames[n], ip, stack, regs)
      BY <1>9, <2>2 DEF IInv, Running
    <3> QED
      BY <1>6, <2>1, <2>2, <3>1, <3>2 DEF f
  <2>3. CASE j # n
    <3>1. j + 1 \in 1..n /\ j \in 1..n-1
      BY <1>9, <2>3
    <3>2. frames'[j + 1] = frames[j + 1]
      BY <1>8, <3>1
    <3>3. Runs(frames[j], frames[j+1].ip, frames[j+1].stack, frames[j+1].regs)
      BY <3>1 DEF IInv, Suspended
    <3> QED
      BY <2>1, <3>2, <3>3
  <2> QED
    BY <2>2, <2>3
<1>13. Bottom'
  <2>1. Depth' > 0
    BY <1>8, <1>9
  <2>2. frames'[1].ip = ThreadIp
    <3>1. CASE n = 0
      <4>1. frames'[1] = f
        BY <1>8, <3>1
      <4> QED
        BY <1>6, <3>1, <4>1 DEF f, IInv, Bottom
    <3>2. CASE n > 0
      <4>1. 1 \in 1..n
        BY <1>9, <3>2
      <4> QED
        BY <1>8, <3>2, <4>1 DEF IInv, Bottom
    <3> QED
      BY <1>9, <3>1, <3>2
  <2> QED
    BY <2>1, <2>2 DEF Bottom
<1> QED
  BY <1>10, <1>11, <1>12, <1>13 DEF IInv

\* Which instruction it is.
LEMMA PlaceIs ==
  ASSUME IInv, InStub, NEW m, m = ip[2] - Entry(frames[Depth].vector)
  PROVE  /\ m \in Int
         /\ Instruction[1] = "push" => m <= 0
         /\ Instruction[1] = "save" => m \in 1..15
         /\ Instruction[1] = "mov" => m = 16
         /\ Instruction[1] = "call" => m = 17
         /\ Instruction[1] = "restore" => m \in 18..32
         /\ Instruction[1] = "discard" => m = 33
         /\ Instruction[1] = "iretq" => m = 34
<1> DEFINE v == frames[Depth].vector
           p == ip[2]
<1>1. /\ v \in Stubs /\ p \in Nat /\ p > 0 /\ m \in Int /\ p = Entry(v) + m /\ m <= 34
      /\ Instruction = isr(v)[p]
  BY StubIs, DoingIs
<1> HIDE DEF v, p
<1> QED
  BY <1>1, Operation

LEMMA PushKeeps == ASSUME IInv, Push PROVE IInv'
<1> DEFINE f == frames[Depth]
           m == ip[2] - Entry(f.vector)
<1>1. /\ InStub /\ Instruction[1] = "push" /\ iflag' = iflag /\ frames' = frames
      /\ stack' = Append(stack, <<"imm", Instruction[2]>>)
      /\ Advance /\ regs' = regs
  BY DEF Push, Step
<1>2. Doing(f, ip[2], m, stack, regs) /\ Instruction = isr(f.vector)[ip[2]]
  BY <1>1, StubIs
<1>3. m \in Int /\ m <= 0
  BY <1>1, PlaceIs
<1>4. regs' \in [Registers -> Words]
  BY <1>1 DEF IInv, TypeOK
<1> HIDE DEF m
<1>5. stack' \in Seq(Words) /\ Framed(f, stack') /\ At(f, m + 1, stack', regs')
  <2> HIDE DEF f
  <2> QED
    BY <1>1, <1>2, <1>3, PushStep
<1>6. m < 34
  BY <1>3
<1> QED
  BY <1>1, <1>4, <1>5, <1>6, NextInstruction DEF m

LEMMA SaveKeeps == ASSUME IInv, Save PROVE IInv'
<1> DEFINE f == frames[Depth]
           m == ip[2] - Entry(f.vector)
<1>1. /\ InStub /\ Instruction[1] = "save" /\ iflag' = iflag /\ frames' = frames
      /\ stack' = Append(stack, regs[Instruction[2]])
      /\ Advance /\ regs' = regs
  BY DEF Save, Step
<1>2. Doing(f, ip[2], m, stack, regs) /\ Instruction = isr(f.vector)[ip[2]]
  BY <1>1, StubIs
<1>3. m \in 1..15
  BY <1>1, PlaceIs
<1>4. regs' \in [Registers -> Words]
  BY <1>1 DEF IInv, TypeOK
<1> HIDE DEF m
<1>5. stack' \in Seq(Words) /\ Framed(f, stack') /\ At(f, m + 1, stack', regs')
  <2> HIDE DEF f
  <2> QED
    BY <1>1, <1>2, <1>3, SaveStep
<1>6. m < 34
  BY <1>3
<1> QED
  BY <1>1, <1>4, <1>5, <1>6, NextInstruction DEF m

LEMMA PassCtxKeeps == ASSUME IInv, PassCtx PROVE IInv'
<1> DEFINE f == frames[Depth]
           m == ip[2] - Entry(f.vector)
<1>1. /\ InStub /\ Instruction[1] = "mov" /\ iflag' = iflag /\ frames' = frames
      /\ regs' = [regs EXCEPT !["rdi"] = <<"ctx", Len(stack)>>]
      /\ Advance /\ stack' = stack
  BY DEF PassCtx, Step
<1>2. Doing(f, ip[2], m, stack, regs)
  BY <1>1, StubIs
<1>3. m = 16
  BY <1>1, PlaceIs
<1>4. stack' \in Seq(Words) /\ Framed(f, stack')
  BY <1>1, <1>2, DoingIs
<1> HIDE DEF m
<1>5. regs' \in [Registers -> Words] /\ At(f, m + 1, stack', regs')
  <2> HIDE DEF f
  <2> QED
    BY <1>1, <1>2, <1>3, MovStep
<1>6. m < 34
  BY <1>3
<1> QED
  BY <1>1, <1>4, <1>5, <1>6, NextInstruction DEF m

LEMMA RestoreKeeps == ASSUME IInv, Restore PROVE IInv'
<1> DEFINE f == frames[Depth]
           m == ip[2] - Entry(f.vector)
<1>1. /\ InStub /\ Instruction[1] = "restore" /\ iflag' = iflag /\ frames' = frames
      /\ regs' = [regs EXCEPT ![Instruction[2]] = stack[Len(stack)]]
      /\ stack' = SubSeq(stack, 1, Len(stack) - 1)
      /\ Advance
  BY DEF Restore, Step
<1>2. Doing(f, ip[2], m, stack, regs) /\ Instruction = isr(f.vector)[ip[2]]
  BY <1>1, StubIs
<1>3. m \in 18..32
  BY <1>1, PlaceIs
<1> HIDE DEF m
<1>5. /\ stack' \in Seq(Words) /\ Framed(f, stack')
      /\ regs' \in [Registers -> Words] /\ At(f, m + 1, stack', regs')
  <2> HIDE DEF f
  <2> QED
    BY <1>1, <1>2, <1>3, RestoreStep
<1>6. m < 34
  BY <1>3
<1> QED
  BY <1>1, <1>5, <1>6, NextInstruction DEF m

LEMMA DiscardKeeps == ASSUME IInv, Discard PROVE IInv'
<1> DEFINE f == frames[Depth]
           m == ip[2] - Entry(f.vector)
<1>1. /\ InStub /\ Instruction[1] = "discard" /\ iflag' = iflag /\ frames' = frames
      /\ stack' = SubSeq(stack, 1, Len(stack) - Instruction[2])
      /\ Advance /\ regs' = regs
  BY DEF Discard, Step
<1>2. Doing(f, ip[2], m, stack, regs) /\ Instruction = isr(f.vector)[ip[2]]
  BY <1>1, StubIs
<1>3. m = 33
  BY <1>1, PlaceIs
<1>4. regs' \in [Registers -> Words]
  BY <1>1 DEF IInv, TypeOK
<1> HIDE DEF m
<1>5. stack' \in Seq(Words) /\ Framed(f, stack') /\ At(f, m + 1, stack', regs')
  <2> HIDE DEF f
  <2> QED
    BY <1>1, <1>2, <1>3, DiscardStep
<1>6. m < 34
  BY <1>3
<1> QED
  BY <1>1, <1>4, <1>5, <1>6, NextInstruction DEF m

LEMMA CallKeeps == ASSUME IInv, CallDispatch PROVE IInv'
<1> DEFINE f == frames[Depth]
           p == ip[2]
           m == p - Entry(f.vector)
<1>1. /\ InStub /\ Instruction[1] = "call" /\ iflag' = iflag /\ frames' = frames
      /\ regs' = [r \in Registers |-> IF r \in CallerSaved THEN <<r, Depth>> ELSE regs[r]]
      /\ ip' = <<ip[1], 0>>
  BY DEF CallDispatch, Step
<1>2. PICK locals \in {<<>>, << <<"local", Depth>> >>} :
        stack' = Append(stack, <<"rip", <<ip[1], ip[2] + 1>>>>) \o locals
  BY DEF CallDispatch
<1>3. Depth > 0 /\ Doing(f, p, m, stack, regs)
  BY <1>1, StubIs
<1>4. m = 17
  BY <1>1, PlaceIs
<1>5. ip[1] = f.vector /\ f.vector \in Stubs /\ Depth \in Nat
  BY <1>3, HandlerIs
<1>6. stack' \in Seq(Words) /\ Framed(f, stack') /\ InC(f, stack')
  <2> DEFINE d == Depth
  <2>1. d \in Nat /\ locals \in {<<>>, << <<"local", d>> >>}
    BY <1>5
  <2>2. stack' = Append(stack, <<"rip", <<f.vector, p + 1>>>>) \o locals
    BY <1>2, <1>5
  <2> HIDE DEF f, p, m, d
  <2> QED
    BY <1>3, <1>4, <2>1, <2>2, CallStep
<1>7. regs' \in [Registers -> Words]
  <2>1. regs \in [Registers -> Words]
    BY DEF IInv, TypeOK
  <2>2. \A r \in Registers : r \in Names
    BY RegisterNames, RegisterLists
  <2>3. \A r \in Registers : <<r, Depth>> \in Words
    <3>1. Depth \in Values
      BY <1>5, WordIs
    <3> QED
      BY <2>2, <3>1, WordIs
  <2>4. \A r \in Registers : (IF r \in CallerSaved THEN <<r, Depth>> ELSE regs[r]) \in Words
    BY <2>1, <2>3
  <2> QED
    BY <1>1, <2>4
<1>8. ip' \in Places
  BY <1>1, <1>5 DEF Places
<1>9. Runs(f, ip', stack', regs')
  <2>1. ip'[1] = f.vector /\ ip'[2] = 0
    BY <1>1, <1>5
  <2>2. 0 \in 0..Entry(f.vector) + 34
    BY DEF Entry
  <2> QED
    BY <1>6, <2>1, <2>2 DEF Runs
<1>10. iflag' \in BOOLEAN
  BY <1>1 DEF IInv, TypeOK
<1> QED
  BY <1>1, <1>3, <1>6, <1>7, <1>8, <1>9, <1>10, SameHandler

LEMMA ReturnKeeps == ASSUME IInv, interrupt_dispatch PROVE IInv'
<1> DEFINE f == frames[Depth]
           r == ReturnAt
           s == stack
           i == ip'
<1>1. /\ ip[1] \in Stubs /\ ip[2] = 0
      /\ ip' = stack[r][2] /\ stack' = SubSeq(stack, 1, r - 1)
      /\ regs' = regs /\ iflag' = iflag /\ frames' = frames
  BY DEF interrupt_dispatch, InDispatch
<1>2. Depth > 0
  <2>1. ip # ThreadIp
    <3>1. ThreadIp[1] = -1 /\ -1 \notin Stubs
      BY DEF Stubs, ThreadIp
    <3> QED
      BY <1>1, <3>1
  <2>2. Depth \in Nat
    <3>1. frames \in Seq(Frames)
      BY DEF IInv, TypeOK
    <3> QED
      BY <3>1, LenProperties DEF Depth
  <2> QED
    BY <2>1, <2>2 DEF IInv, Bottom
<1>3. /\ f \in Frames /\ stack \in Seq(Words) /\ Runs(f, ip, stack, regs)
      /\ f.vector \in Stubs
  BY <1>2, HandlerIs
<1>4. Framed(f, stack) /\ InC(f, stack)
  BY <1>1, <1>3 DEF Runs
<1>5. r = IF s[Len(s)][1] = "local" THEN Len(s) - 1 ELSE Len(s)
  BY DEF ReturnAt
<1>6. /\ s[r] = <<"rip", <<f.vector, Entry(f.vector) + 18>>>>
      /\ stack' \in Seq(Words) /\ Framed(f, stack') /\ At(f, 18, stack', regs')
  <2> HIDE DEF f, r
  <2> QED
    BY <1>1, <1>3, <1>4, <1>5, ReturnStep
<1>7. i = <<f.vector, Entry(f.vector) + 18>>
  BY <1>1, <1>6
<1>8. i \in Places
  <2>1. Entry(f.vector) + 18 \in Nat
    BY DEF Entry
  <2> QED
    BY <1>3, <1>7, <2>1 DEF Places
<1>9. Runs(f, ip', stack', regs')
  <2> DEFINE e == Entry(f.vector)
             q == e + 18
  <2>1. i[1] = f.vector /\ i[2] = q
    BY <1>7
  <2>2. e \in {1, 2}
    BY DEF Entry
  <2> HIDE DEF e
  <2>3. q \in 0..e+34 /\ q # 0 /\ q - e = 18
    BY <2>2
  <2> HIDE DEF i, q
  <2>4. i[2] \in 0..e+34 /\ i[2] # 0 /\ i[2] - e = 18
    BY <2>1, <2>3
  <2>5. At(f, i[2] - e, stack', regs')
    BY <1>6, <2>4
  <2>6. Runs(f, i, stack', regs')
    BY <1>6, <2>1, <2>4, <2>5 DEF Runs, e
  <2> QED
    BY <2>6 DEF i
<1>10. regs' \in [Registers -> Words] /\ iflag' \in BOOLEAN
  BY <1>1 DEF IInv, TypeOK
<1> QED
  BY <1>1, <1>2, <1>6, <1>8, <1>9, <1>10, SameHandler

\* What an iretq restores is what was interrupted.
LEMMA IretqIs ==
  ASSUME IInv, Iretq
  PROVE  /\ Depth > 0
         /\ regs' = Interrupting.regs /\ stack' = Interrupting.stack
         /\ ip' = Interrupting.ip /\ iflag' = Interrupting.iflag
<1> DEFINE f == frames[Depth]
           p == ip[2]
           m == p - Entry(f.vector)
           n == Len(stack)
<1>1. /\ InStub /\ Instruction[1] = "iretq"
      /\ ip' = stack[n][2] /\ iflag' = stack[n - 2][2]
      /\ stack' = SubSeq(stack, 1, stack[n - 3][2])
      /\ regs' = regs
  BY DEF Iretq
<1>2. Depth > 0 /\ Doing(f, p, m, stack, regs)
  BY <1>1, StubIs
<1>3. m = 34
  BY <1>1, PlaceIs
<1>4. /\ stack[n][2] = f.ip /\ stack[n - 2][2] = f.iflag
      /\ SubSeq(stack, 1, stack[n - 3][2]) = f.stack
      /\ regs = f.regs
  <2> DEFINE k == n
  <2>1. k = Len(stack)
    OBVIOUS
  <2> HIDE DEF k, f, p, m
  <2>2. /\ stack[k][2] = f.ip /\ stack[k - 2][2] = f.iflag
        /\ SubSeq(stack, 1, stack[k - 3][2]) = f.stack
        /\ regs = f.regs
    BY <1>2, <1>3, <2>1, IretqStep
  <2> QED
    BY <2>2 DEF k
<1> QED
  BY <1>1, <1>2, <1>4 DEF Interrupting

LEMMA IretqKeeps == ASSUME IInv, Iretq PROVE IInv'
<1> DEFINE f == frames[Depth]
           n == Depth
<1>1. /\ n > 0 /\ n \in Nat /\ n = Len(frames) /\ frames \in Seq(Frames) /\ f \in Frames
  <2>1. n > 0
    BY IretqIs
  <2> QED
    BY <2>1, HandlerIs
<1>2. regs' = f.regs /\ stack' = f.stack /\ ip' = f.ip /\ iflag' = f.iflag
  BY IretqIs DEF Interrupting
<1>3. /\ frames' \in Seq(Frames) /\ Depth' = n - 1
      /\ \A j \in 1..n-1 : frames'[j] = frames[j]
  <2> DEFINE k == n - 1
             g == SubSeq(frames, 1, k)
  <2>1. k \in Nat /\ k <= n /\ k \in Int /\ 1 \in Int
    BY <1>1
  <2>2. \A j \in 1..k : frames[j] \in Frames
    <3> TAKE j \in 1..k
    <3>1. j \in 1..Len(frames)
      BY <1>1
    <3> QED
      BY <1>1, <3>1, ElementOfSeq
  <2>3. frames' = g
    BY DEF Iretq
  <2>4. Depth' = Len(frames')
    BY DEF Depth
  <2> HIDE DEF k
  <2>5. /\ g \in Seq(Frames) /\ Len(g) = IF 1 <= k THEN k - 1 + 1 ELSE 0
        /\ \A j \in 1..k-1+1 : g[j] = frames[1 + j - 1]
    BY <2>1, <2>2, SubSeqProperties
  <2> HIDE DEF g
  <2>6. Len(g) = k
    BY <2>1, <2>5
  <2>7. ASSUME NEW j \in 1..k PROVE g[j] = frames[j]
    <3>1. j \in 1..k-1+1 /\ 1 + j - 1 = j
      BY <2>1
    <3> QED
      BY <2>5, <3>1
  <2> QED
    BY <2>3, <2>4, <2>5, <2>6, <2>7 DEF k
<1>4. TypeOK'
  <2>1. /\ f.regs \in [Registers -> Words] /\ f.stack \in Seq(Words)
        /\ f.ip \in Places /\ f.iflag \in BOOLEAN
    BY <1>1, FrameIs
  <2> QED
    BY <1>2, <1>3, <2>1 DEF TypeOK
<1>5. Running'
  <2> SUFFICES ASSUME n - 1 > 0 PROVE Runs(frames'[n - 1], ip', stack', regs')
    BY <1>3 DEF Running
  <2> DEFINE k == n - 1
  <2>1. k \in 1..n-1 /\ k + 1 = n
    BY <1>1
  <2> HIDE DEF k
  <2>2. Runs(frames[k], frames[k+1].ip, frames[k+1].stack, frames[k+1].regs)
    BY <2>1 DEF IInv, Suspended
  <2>3. frames[k + 1] = f
    BY <2>1
  <2>4. frames'[k] = frames[k]
    BY <1>3, <2>1
  <2>5. Runs(frames'[k], ip', stack', regs')
    BY <1>2, <2>2, <2>3, <2>4
  <2> QED
    BY <2>5 DEF k
<1>6. Suspended'
  <2> SUFFICES ASSUME NEW j \in 1..(n - 1)-1
               PROVE  Runs(frames'[j], frames'[j+1].ip, frames'[j+1].stack, frames'[j+1].regs)
    BY <1>3 DEF Suspended
  <2>1. j \in 1..n-1 /\ j + 1 \in 1..n-1
    BY <1>1
  <2>2. frames'[j] = frames[j] /\ frames'[j + 1] = frames[j + 1]
    BY <1>3, <2>1
  <2>3. Runs(frames[j], frames[j+1].ip, frames[j+1].stack, frames[j+1].regs)
    BY <2>1 DEF IInv, Suspended
  <2> QED
    BY <2>2, <2>3
<1>7. Bottom'
  <2>1. frames[1].ip = ThreadIp
    BY <1>1 DEF IInv, Bottom
  <2>2. CASE n = 1
    <3>1. Depth' = 0 /\ ~(Depth' > 0)
      BY <1>3, <2>2
    <3>2. ip' = ThreadIp
      BY <1>2, <2>1, <2>2
    <3> QED
      BY <3>1, <3>2 DEF Bottom
  <2>3. CASE n > 1
    <3>1. Depth' # 0 /\ 1 \in 1..n-1
      BY <1>1, <1>3, <2>3
    <3>2. frames'[1] = frames[1]
      BY <1>3, <3>1
    <3> QED
      BY <2>1, <3>1, <3>2 DEF Bottom
  <2> QED
    BY <1>1, <2>2, <2>3
<1> QED
  BY <1>4, <1>5, <1>6, <1>7 DEF IInv

LEMMA ThreadKeeps == ASSUME IInv, ThreadStack PROVE IInv'
<1>1. /\ ip = ThreadIp /\ stack' = IF stack = <<>> THEN << <<"local", 0>> >> ELSE <<>>
      /\ regs' = regs /\ ip' = ip /\ iflag' = iflag /\ frames' = frames
  BY DEF ThreadStack, InThread
<1>2. Depth = 0 /\ frames = <<>>
  BY <1>1, ThreadIs
<1>3. stack' \in Seq(Words)
  <2>1. <<"local", 0>> \in Words
    BY WordIs
  <2> QED
    BY <1>1, <2>1
<1>4. TypeOK'
  BY <1>1, <1>3 DEF IInv, TypeOK
<1>5. Depth' = 0 /\ ~(Depth' > 0)
  BY <1>1, <1>2 DEF Depth
<1>6. Running' /\ Suspended' /\ Bottom'
  <2>1. \A j : j \notin 1..Depth'-1
    BY <1>5
  <2> QED
    BY <1>1, <1>5, <2>1 DEF Running, Suspended, Bottom
<1> QED
  BY <1>4, <1>6 DEF IInv

LEMMA EventsDeliver ==
  ASSUME Nmi \/ (\E v \in Vectors : Interrupt(v) \/ Exception(v))
  PROVE  \E v \in Stubs, errc \in Nat : Deliver(v, errc)
<1>1. CASE Nmi
  <2>1. NMI \in Stubs /\ 0 \in Nat
    BY DEF NMI, Stubs
  <2> QED
    BY <1>1, <2>1 DEF Nmi
<1>2. ASSUME NEW v \in Vectors, Interrupt(v) PROVE \E w \in Stubs, errc \in Nat : Deliver(w, errc)
  <2>1. v \in Stubs /\ 0 \in Nat
    BY VectorsAssumption
  <2> QED
    BY <1>2, <2>1 DEF Interrupt
<1>3. ASSUME NEW v \in Vectors, Exception(v) PROVE \E w \in Stubs, errc \in Nat : Deliver(w, errc)
  <2>1. PICK errc \in ErrorCodes : Deliver(v, errc)
    BY <1>3 DEF Exception
  <2>2. v \in Stubs /\ errc \in Nat
    BY VectorsAssumption
  <2> QED
    BY <2>1, <2>2
<1> QED
  BY <1>1, <1>2, <1>3

LEMMA NextFrames == IInv /\ [Next]_vars => IInv'
<1> SUFFICES ASSUME IInv, [Next]_vars PROVE IInv'
  OBVIOUS
<1>1. CASE Cpu
  BY <1>1, PushKeeps, SaveKeeps, PassCtxKeeps, CallKeeps, ReturnKeeps, RestoreKeeps,
     DiscardKeeps, IretqKeeps, ThreadKeeps DEF Cpu
<1>2. CASE Nmi \/ (\E v \in Vectors : Interrupt(v) \/ Exception(v))
  BY <1>2, EventsDeliver, DeliverKeeps
<1>3. CASE UNCHANGED vars
  BY <1>3 DEF vars, IInv, TypeOK, Running, Suspended, Bottom, Depth
<1> QED
  BY <1>1, <1>2, <1>3 DEF Next

LEMMA AlwaysFrames == Spec => []IInv
BY InitFrames, NextFrames, PTL DEF Spec

-----------------------------------------------------------------------------
(* The theorems.                                                           *)

LEMMA CallIs ==
  ASSUME IInv, AtCall, NEW f, f = Interrupting
  PROVE  /\ f \in Frames /\ Framed(f, stack) /\ Base(f) \in Nat /\ Base(f) % 2 = 0
         /\ Len(stack) = Base(f) + 22
         /\ regs["rdi"] = <<"ctx", Base(f) + 22>>
<1> DEFINE p == ip[2]
           m == p - Entry(f.vector)
<1>1. InStub /\ Instruction[1] = "call" /\ f = frames[Depth]
  BY DEF AtCall, Interrupting
<1>2. Doing(f, p, m, stack, regs)
  BY <1>1, StubIs
<1>3. m = 17
  BY <1>1, PlaceIs
<1> HIDE DEF m, p
<1>4. /\ f \in Frames /\ Framed(f, stack) /\ Base(f) \in Nat /\ Base(f) % 2 = 0
      /\ At(f, m, stack, regs)
  BY <1>2, DoingIs
<1>5. Len(stack) = Base(f) + 22 /\ regs = [f.regs EXCEPT !["rdi"] = <<"ctx", Base(f) + 22>>]
  BY <1>3, <1>4 DEF At
<1>6. f.regs \in [Registers -> Words] /\ "rdi" \in Registers
  BY <1>4, FrameIs, RegisterNames
<1>7. regs["rdi"] = <<"ctx", Base(f) + 22>>
  BY <1>5, <1>6
<1> QED
  BY <1>4, <1>5, <1>7

\* The fields of struct idt_ctx, each where the stub pushed it.
LEMMA FieldsAre ==
  ASSUME IInv, AtCall, NEW f, f = Interrupting, NEW name, NEW k \in 1..20,
         k = CHOOSE q \in 1..Len(idt_ctx) : idt_ctx[q] = name
  PROVE  /\ Ctx(regs["rdi"][2], name) = stack[Base(f) + 23 - k]
         /\ Content(f, Base(f) + 23 - k, stack[Base(f) + 23 - k])
<1>1. /\ f \in Frames /\ Framed(f, stack) /\ Base(f) \in Nat
      /\ Len(stack) = Base(f) + 22 /\ regs["rdi"] = <<"ctx", Base(f) + 22>>
  BY CallIs
<1> DEFINE b == Base(f)
           l == b + 23 - k
<1>2. regs["rdi"][2] = b + 22
  BY <1>1
<1>3. b \in Nat /\ Len(stack) = b + 22
  BY <1>1
<1> HIDE DEF b
<1>4. Ctx(b + 22, name) = stack[(b + 22) - (k - 1)]
  <2> DEFINE c == CHOOSE q \in 1..Len(idt_ctx) : idt_ctx[q] = name
  <2>1. Ctx(b + 22, name) = stack[(b + 22) - (c - 1)]
    BY Zenon DEF Ctx
  <2>2. k = c
    OBVIOUS
  <2> HIDE DEF c
  <2> QED
    BY <2>1, <2>2
<1>5. (b + 22) - (k - 1) = l /\ l \in 1..b+22
  <2>1. \A j \in 1..20 : (b + 22) - (j - 1) = b + 23 - j /\ b + 23 - j \in 1..b+22
    BY <1>3
  <2> QED
    BY <2>1, Zenon
<1>6. Content(f, l, stack[l])
  <2> HIDE DEF l
  <2> QED
    BY <1>1, <1>3, <1>5 DEF Framed
<1>7. Ctx(regs["rdi"][2], name) = stack[l]
  BY <1>2, <1>4, <1>5
<1> QED
  BY <1>6, <1>7 DEF b

\* The fields above the registers have their names once.
LEMMA FieldPlaces ==
  /\ (CHOOSE q \in 1..Len(idt_ctx) : idt_ctx[q] = "vector") = 16
  /\ (CHOOSE q \in 1..Len(idt_ctx) : idt_ctx[q] = "errc") = 17
  /\ (CHOOSE q \in 1..Len(idt_ctx) : idt_ctx[q] = "rip") = 18
  /\ (CHOOSE q \in 1..Len(idt_ctx) : idt_ctx[q] = "cs") = 19
  /\ (CHOOSE q \in 1..Len(idt_ctx) : idt_ctx[q] = "rflags") = 20
<1>1. Len(idt_ctx) = 20
  BY RegisterLists
<1>2. /\ idt_ctx[16] = "vector" /\ idt_ctx[17] = "errc" /\ idt_ctx[18] = "rip"
      /\ idt_ctx[19] = "cs" /\ idt_ctx[20] = "rflags"
  BY DEF idt_ctx
<1>3. \A q \in 1..15 : idt_ctx[q] \notin {"vector", "errc", "rip", "cs", "rflags"}
  <2>1. \A q \in 1..15 : 16 - q \in 1..15
    OBVIOUS
  <2>2. \A q \in 1..15 : idt_ctx[q] \in Names
    BY <2>1, RegisterLists
  <2>3. \A r \in Names : r \notin {"vector", "errc", "rip", "cs", "rflags"}
    BY DEF Names
  <2> QED
    BY <2>2, <2>3
<1>4. \A q \in 1..20 : q \in 1..15 \/ q = 16 \/ q = 17 \/ q = 18 \/ q = 19 \/ q = 20
  OBVIOUS
<1>5. /\ 16 \in 1..20 /\ 17 \in 1..20 /\ 18 \in 1..20 /\ 19 \in 1..20 /\ 20 \in 1..20
  OBVIOUS
<1>6. \A q \in 1..20 :
        /\ idt_ctx[q] = "vector" <=> q = 16
        /\ idt_ctx[q] = "errc" <=> q = 17
        /\ idt_ctx[q] = "rip" <=> q = 18
        /\ idt_ctx[q] = "cs" <=> q = 19
        /\ idt_ctx[q] = "rflags" <=> q = 20
  BY <1>2, <1>3, <1>4
<1>7. (CHOOSE q \in 1..20 : idt_ctx[q] = "vector") = 16
  BY <1>5, <1>6
<1>8. (CHOOSE q \in 1..20 : idt_ctx[q] = "errc") = 17
  BY <1>5, <1>6
<1>9. (CHOOSE q \in 1..20 : idt_ctx[q] = "rip") = 18
  BY <1>5, <1>6
<1>10. (CHOOSE q \in 1..20 : idt_ctx[q] = "cs") = 19
  BY <1>5, <1>6
<1>11. (CHOOSE q \in 1..20 : idt_ctx[q] = "rflags") = 20
  BY <1>5, <1>6
<1> QED
  BY <1>1, <1>7, <1>8, <1>9, <1>10, <1>11

\* The C code is entered with an aligned stack, whatever the interrupted code
\* had on it and whether or not the vector has an error code.
THEOREM CallIsAligned == Spec => []CallAligned
<1>1. IInv => CallAligned
  <2> SUFFICES ASSUME IInv, AtCall PROVE Len(stack) % 2 = 0
    BY DEF CallAligned
  <2> DEFINE b == Base(Interrupting)
  <2>1. b \in Nat /\ b % 2 = 0 /\ Len(stack) = b + 22
    BY CallIs
  <2> HIDE DEF b
  <2>2. (b + 22) % 2 = 0
    BY <2>1
  <2> QED
    BY <2>1, <2>2
<1> QED
  BY <1>1, AlwaysFrames, PTL

\* interrupt_dispatch reads, through the pointer the stub passes, the vector,
\* the error code and the state of the very event it handles, however many
\* handlers are on the stack below.
THEOREM DispatchReadsFrame == Spec => []DispatchSeesFrame
<1>1. IInv => DispatchSeesFrame
  <2> SUFFICES ASSUME IInv, AtCall
               PROVE  /\ Ctx(regs["rdi"][2], "vector") = <<"imm", Interrupting.vector>>
                      /\ Ctx(regs["rdi"][2], "errc")   = <<"imm", Interrupting.errc>>
                      /\ Ctx(regs["rdi"][2], "rip")    = <<"rip", Interrupting.ip>>
                      /\ Ctx(regs["rdi"][2], "cs")     = <<"cs", 8>>
                      /\ Ctx(regs["rdi"][2], "rflags") = <<"rflags", Interrupting.iflag>>
                      /\ \A r \in Registers : Ctx(regs["rdi"][2], r) = Interrupting.regs[r]
    BY DEF DispatchSeesFrame
  <2> DEFINE f == Interrupting
             b == Base(f)
             field(name) == Ctx(regs["rdi"][2], name)
             place(name) == CHOOSE q \in 1..Len(idt_ctx) : idt_ctx[q] = name
  <2>1. b \in Nat /\ Base(f) = b
    BY CallIs
  <2>2. \A name, k : k \in 1..20 /\ k = place(name)
          => field(name) = stack[b + 23 - k] /\ Content(f, b + 23 - k, stack[b + 23 - k])
    <3> TAKE name, k
    <3>1. HAVE k \in 1..20 /\ k = place(name)
    <3> QED
      BY <3>1, FieldsAre
  <2>3. /\ place("vector") = 16 /\ place("errc") = 17 /\ place("rip") = 18
        /\ place("cs") = 19 /\ place("rflags") = 20
    BY FieldPlaces
  <2> HIDE DEF place, field, f, b
  <2>4. /\ 16 \in 1..20 /\ 17 \in 1..20 /\ 18 \in 1..20 /\ 19 \in 1..20 /\ 20 \in 1..20
        /\ b + 23 - 16 = b + 7 /\ b + 23 - 17 = b + 6 /\ b + 23 - 18 = b + 5
        /\ b + 23 - 19 = b + 4 /\ b + 23 - 20 = b + 3
    BY <2>1
  <2>5. field("vector") = <<"imm", f.vector>>
    <3>1. field("vector") = stack[b + 7] /\ Content(f, b + 7, stack[b + 7])
      BY <2>2, <2>3, <2>4
    <3> QED
      BY <2>1, <3>1 DEF Content
  <2>6. field("errc") = <<"imm", f.errc>>
    <3>1. field("errc") = stack[b + 6] /\ Content(f, b + 6, stack[b + 6])
      BY <2>2, <2>3, <2>4
    <3> QED
      BY <2>1, <3>1 DEF Content
  <2>7. field("rip") = <<"rip", f.ip>>
    <3>1. field("rip") = stack[b + 5] /\ Content(f, b + 5, stack[b + 5])
      BY <2>2, <2>3, <2>4
    <3> QED
      BY <2>1, <3>1 DEF Content
  <2>8. field("cs") = <<"cs", 8>>
    <3>1. field("cs") = stack[b + 4] /\ Content(f, b + 4, stack[b + 4])
      BY <2>2, <2>3, <2>4
    <3> QED
      BY <2>1, <3>1 DEF Content
  <2>9. field("rflags") = <<"rflags", f.iflag>>
    <3>1. field("rflags") = stack[b + 3] /\ Content(f, b + 3, stack[b + 3])
      BY <2>2, <2>3, <2>4
    <3> QED
      BY <2>1, <3>1 DEF Content
  <2>10. ASSUME NEW r \in Registers PROVE field(r) = f.regs[r]
    <3>1. PICK k : k = place(r)
      OBVIOUS
    <3>2. k \in 1..20 /\ idt_ctx[k] = r
      <4>1. PICK q \in 1..15 : PUSH_REGS[q] = r
        BY RegisterNames
      <4>2. 16 - q \in 1..15 /\ 16 - (16 - q) = q /\ 16 - q \in 1..20
        OBVIOUS
      <4>3. idt_ctx[16 - q] = r
        BY <4>1, <4>2, RegisterLists
      <4>4. Len(idt_ctx) = 20
        BY RegisterLists
      <4> QED
        BY <3>1, <4>2, <4>3, <4>4 DEF place
    <3>3. k \in 1..15
      <4>1. r \in Names
        BY RegisterNames, RegisterLists
      <4>2. r \notin {"vector", "errc", "rip", "cs", "rflags"}
        BY <4>1 DEF Names
      <4>3. /\ idt_ctx[16] = "vector" /\ idt_ctx[17] = "errc" /\ idt_ctx[18] = "rip"
            /\ idt_ctx[19] = "cs" /\ idt_ctx[20] = "rflags"
        BY DEF idt_ctx
      <4>4. k # 16 /\ k # 17 /\ k # 18 /\ k # 19 /\ k # 20
        BY <3>2, <4>2, <4>3
      <4> QED
        BY <3>2, <4>4
    <3> DEFINE j == 16 - k
               l == b + 23 - k
    <3>4. j \in 1..15 /\ l = b + 7 + j
      BY <2>1, <3>3
    <3>5. r = PUSH_REGS[j]
      BY <3>2, <3>3, RegisterLists
    <3>6. field(r) = stack[l] /\ Content(f, l, stack[l])
      BY <2>2, <3>1, <3>2
    <3> HIDE DEF j, l
    <3>7. stack[l] = f.regs[PUSH_REGS[j]]
      BY <2>1, <3>4, <3>6 DEF Content
    <3> QED
      BY <3>5, <3>6, <3>7
  <2> QED
    BY <2>5, <2>6, <2>7, <2>8, <2>9, <2>10 DEF field, f
<1> QED
  BY <1>1, AlwaysFrames, PTL

\* A handler that returns gives the registers, the stack, the place and the
\* flag back to what it interrupted, in the thread, in C code or between any
\* two instructions of another stub.
THEOREM HandlersLeaveNoTrace == Spec => Resumed
<1>1. IInv /\ [Next]_vars
        => [Depth' < Depth =>
              /\ regs'  = Interrupting.regs
              /\ stack' = Interrupting.stack
              /\ ip'    = Interrupting.ip
              /\ iflag' = Interrupting.iflag]_vars
  <2> SUFFICES ASSUME IInv, Next, Depth' < Depth
               PROVE  /\ regs'  = Interrupting.regs
                      /\ stack' = Interrupting.stack
                      /\ ip'    = Interrupting.ip
                      /\ iflag' = Interrupting.iflag
    BY DEF vars
  <2>1. Depth \in Nat /\ Depth = Len(frames) /\ frames \in Seq(Frames)
    <3>1. frames \in Seq(Frames)
      BY DEF IInv, TypeOK
    <3> QED
      BY <3>1, LenProperties DEF Depth
  <2>2. frames' # frames
    <3> SUFFICES ASSUME frames' = frames PROVE FALSE
      OBVIOUS
    <3>1. Depth' = Depth
      BY DEF Depth
    <3> QED
      BY <2>1, <3>1
  <2>3. CASE Cpu
    <3>1. Iretq
      BY <2>2, <2>3 DEF Cpu, Push, Save, PassCtx, CallDispatch, interrupt_dispatch,
                        Restore, Discard, ThreadStack, Step
    <3> QED
      BY <3>1, IretqIs
  <2>4. CASE Nmi \/ (\E v \in Vectors : Interrupt(v) \/ Exception(v))
    <3>1. PICK v \in Stubs, errc \in Nat : Deliver(v, errc)
      BY <2>4, EventsDeliver
    <3>2. IInv'
      BY <3>1, DeliverKeeps
    <3> DEFINE f == [vector |-> v, errc |-> IF v \in CpuErrorCode THEN errc ELSE 0,
                     ip |-> ip, iflag |-> iflag, regs |-> regs, stack |-> stack]
    <3>3. frames' = Append(frames, f)
      BY <3>1 DEF Deliver
    <3> HIDE DEF f
    <3>4. Len(Append(frames, f)) = Len(frames) + 1
      BY <2>1
    <3>5. Depth' = Depth + 1
      BY <2>1, <3>3, <3>4 DEF Depth
    <3> QED
      BY <2>1, <3>5
  <2> QED
    BY <2>3, <2>4 DEF Next
<1> QED
  BY <1>1, AlwaysFrames, PTL DEF Spec, Resumed

=============================================================================
