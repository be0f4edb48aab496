-------------------------------- MODULE Boot --------------------------------
(***************************************************************************)
(* _start of arch/x86_64/boot.c: the boot loader's answers are checked, the *)
(* serial port is programmed, the text buffer is mapped, and kernel_main   *)
(* runs.  kernel_main may map further pages: map_page is in paging.h.      *)
(***************************************************************************)
EXTENDS Paging, Serial

CONSTANTS
  HHDM,       \* the page at which the boot loader maps all memory
  TEXT,       \* the frame of the VGA text buffer: 0xB8
  BootUarts,  \* the registers a firmware may leave in the UART, the data and
              \* interrupt registers selected: serial_init relies on that
  Requests,   \* the calls of map_page kernel_main may make
  MaxCalls    \* bound: calls of map_page

ASSUME BootAssumption ==
  /\ HHDM \in Nat /\ TEXT \in Frames /\ HHDM + TEXT \in Pages
  /\ BootUarts \subseteq Uarts /\ (\A u \in BootUarts : ~u.sent /\ u.lcr < 128)
  /\ Requests \subseteq Pages \X Frames
  /\ MaxCalls \in Nat /\ MaxCalls >= 1

VARIABLES
  at,             \* where _start is
  answers,        \* what Limine answered; FALSE is a NULL response
  g_framebuffer,  \* the number of the framebuffer taken, or None
  hhdm_offset,
  uart,
  calls           \* calls of map_page so far

bvars == <<at, answers, g_framebuffer, hhdm_offset, uart, calls>>
vars  == <<pvars, bvars>>

None == -1

\* revision: our base revision is supported.
Answers == [revision : BOOLEAN, hhdm : BOOLEAN, kaddr : BOOLEAN,
            framebuffer : BOOLEAN, framebuffer_count : 0..2]

Init ==
  /\ PagingInit
  /\ at = "checks"
  /\ answers \in Answers
  /\ g_framebuffer = None /\ hhdm_offset = 0
  /\ uart \in BootUarts
  /\ calls = 0

-----------------------------------------------------------------------------

\* Mutant: an answer without a framebuffer is not noticed.
Unusable_no_count ==
  ~answers.revision \/ ~answers.hhdm \/ ~answers.kaddr \/ ~answers.framebuffer

\* The conditions under which _start gives up.
Unusable ==
  \/ ~answers.revision
  \/ ~answers.hhdm \/ ~answers.kaddr
  \/ ~answers.framebuffer \/ answers.framebuffer_count < 1

hcf ==
  /\ at = "checks" /\ Unusable
  /\ at' = "hcf"
  /\ UNCHANGED <<pvars, answers, g_framebuffer, hhdm_offset, uart, calls>>

Checks ==
  /\ at = "checks" /\ ~Unusable
  /\ g_framebuffer' = IF answers.framebuffer_count > 0 THEN 0 ELSE None
  /\ uart' = serial_init(uart)
  /\ at' = "bases"
  /\ UNCHANGED <<pvars, answers, hhdm_offset, calls>>

\* Mutant: the two bases exchanged.
SetBases_swapped ==
  /\ at = "bases"
  /\ hhdm_offset' = HHDM
  /\ kernel_phys_base' = VIRT_BASE /\ kernel_virt_base' = PHYS_BASE
  /\ at' = "map"
  /\ UNCHANGED <<tables, mapping, tlb, answers, g_framebuffer, uart, calls>>

SetBases ==
  /\ at = "bases"
  /\ hhdm_offset' = HHDM
  /\ kernel_phys_base' = PHYS_BASE /\ kernel_virt_base' = VIRT_BASE
  /\ at' = "map"
  /\ UNCHANGED <<tables, mapping, tlb, answers, g_framebuffer, uart, calls>>

MapText ==
  /\ at = "map"
  /\ MapPageCall(hhdm_offset + TEXT, TEXT)
  /\ at' = "mapping" /\ calls' = calls + 1
  /\ UNCHANGED <<answers, g_framebuffer, hhdm_offset, uart>>

KernelMain ==
  /\ at = "mapping" /\ level = Returned
  /\ at' = "kernel_main"
  /\ UNCHANGED <<pvars, answers, g_framebuffer, hhdm_offset, uart, calls>>

KernelMaps(virt, phys) ==
  /\ at = "kernel_main" /\ calls < MaxCalls
  /\ MapPageCall(virt, phys)
  /\ calls' = calls + 1
  /\ UNCHANGED <<at, answers, g_framebuffer, hhdm_offset, uart>>

Mapping == MapPageStep /\ UNCHANGED bvars

Tlb == (\E virt \in Pages : TlbFill(virt)) /\ UNCHANGED bvars

Next ==
  \/ hcf \/ Checks \/ SetBases \/ MapText \/ KernelMain
  \/ \E r \in Requests : KernelMaps(r[1], r[2])
  \/ Mapping \/ Tlb

Spec == Init /\ [][Next]_vars

-----------------------------------------------------------------------------
(* Properties.                                                             *)

TypeOK ==
  /\ PagingTypeOK
  /\ at \in {"checks", "hcf", "bases", "map", "mapping", "kernel_main"}
  /\ answers \in Answers
  /\ g_framebuffer \in {None, 0}
  /\ hhdm_offset \in {0, HHDM}
  /\ uart \in Uarts
  /\ calls \in 0..MaxCalls

\* On the way to a page the CPU meets a large page, which leads to no table, or
\* an entry with a bit above its address.
Impassable(virt) ==
  /\ Pml4e(virt).present
  /\ \/ Pml4e(virt).high
     \/ /\ Pdpte(virt).present
        /\ \/ Pdpte(virt).large \/ Pdpte(virt).high
           \/ Pde(virt).present /\ (Pde(virt).large \/ Pde(virt).high)

\* kernel_main starts only with a framebuffer to draw on, the serial port
\* programmed and the text buffer mapped.
KernelReady ==
  at = "kernel_main" =>
    /\ g_framebuffer \in 0..answers.framebuffer_count-1
    /\ SerialReady(uart)
    /\ calls = 1 => Walk(HHDM + TEXT) = TEXT

\* The four scratch tables suffice for the one mapping _start makes, however
\* little the boot loader mapped, and every store of it goes into a table unless
\* the way to the page is impassable.
FirstMappingSafe == calls = 1 /\ wild => Impassable(call.virt)
=============================================================================
