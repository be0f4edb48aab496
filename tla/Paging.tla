------------------------------- MODULE Paging -------------------------------
(***************************************************************************)
(* map_page of arch/x86_64/paging.c, store by store, over the page tables  *)
(* the boot loader left, while the CPU may walk the tables and fill its    *)
(* TLB between any two stores.                                             *)
(*                                                                         *)
(* Addresses are page and frame numbers: the low 12 bits, which the code   *)
(* masks away, are left out, and so is what an entry permits.  Tables have *)
(* FAN entries.  They are reached through the direct map (HHDM); a frame   *)
(* that holds no table, but is followed as if it did, is a wild access: it *)
(* is recorded and the model goes no further.                              *)
(*                                                                         *)
(* The code masks the low bits of entries and addresses, but not those of  *)
(* cr3: they are assumed to be 0, that is, PCID off, no caching attributes *)
(* for the PML4, which is what the boot protocol leaves.                   *)
(***************************************************************************)
EXTENDS Integers, FiniteSets

CONSTANTS
  FAN,           \* entries of a table: 512
  Frames,        \* the physical frames
  Cr3,           \* the frame of the PML4
  BootTables,    \* the tables a boot loader may leave: frame -> entries
  SCRATCH,       \* tables in pt_scratch: 4
  SCRATCH_VIRT,  \* the page of pt_scratch[0], a link-time address
  VIRT_BASE,     \* the page the kernel was linked to
  PHYS_BASE,     \* the frame it was loaded to
  TlbSize        \* bound: translations the CPU remembers

LEVELS == 4
Pages == 0..FAN*FAN*FAN*FAN-1
Index == 0..FAN-1

\* high: a bit above the address is set, no-execute say, which the code takes
\* for a part of the address.
Entry == [present : BOOLEAN, large : BOOLEAN, high : BOOLEAN, frame : Frames]
NotPresent == [present |-> FALSE, large |-> FALSE, high |-> FALSE, frame |-> 0]
TableEntry(frame) == [present |-> TRUE, large |-> FALSE, high |-> FALSE, frame |-> frame]
EmptyTable == [k \in Index |-> NotPresent]

\* The frame a page of the kernel's own memory really lies in.
KernelFrame(vaddr) == vaddr - VIRT_BASE + PHYS_BASE

ScratchFrames == {KernelFrame(SCRATCH_VIRT + k) : k \in 0..SCRATCH-1}

ASSUME PagingAssumption ==
  /\ FAN \in Nat /\ FAN >= 2 /\ SCRATCH \in Nat /\ SCRATCH >= 3 /\ TlbSize \in Nat
  /\ Frames \subseteq Nat /\ 0 \in Frames
  /\ {SCRATCH_VIRT, VIRT_BASE, PHYS_BASE} \subseteq Nat
  /\ ScratchFrames \subseteq Frames

\* The pages below an entry of a table of level l.
Span(l) ==
  CASE l = 4 -> FAN * FAN * FAN [] l = 3 -> FAN * FAN [] l = 2 -> FAN [] OTHER -> 1

\* A shift by the nine bits of one level.
Shr9(virt) == virt \div FAN

Leads(e) == e.present /\ ~e.large

\* Tables t are a tree, `rank` their levels, 0 for a table that is not in use:
\* an entry above the last level leads to a table of the next, which no other
\* entry leads to, or is a large page of memory there is.
IsTree(t, rank) ==
  /\ rank \in [DOMAIN t -> 0..LEVELS] /\ rank[Cr3] = LEVELS
  /\ \A f \in DOMAIN t, k \in Index :
       /\ rank[f] \in 2..LEVELS /\ Leads(t[f][k]) =>
            /\ t[f][k].frame \in DOMAIN t
            /\ rank[t[f][k].frame] = rank[f] - 1
       /\ t[f][k].present /\ t[f][k].large =>
            /\ rank[f] # LEVELS
            /\ rank[f] \in 2..3 =>
                 \A offset \in 0..Span(rank[f])-1 : t[f][k].frame + offset \in Frames
  /\ \A f, g \in DOMAIN t : \A k, m \in Index :
       /\ rank[f] \in 2..LEVELS /\ Leads(t[f][k])
       /\ rank[g] \in 2..LEVELS /\ Leads(t[g][m])
       /\ t[f][k].frame = t[g][m].frame
       => f = g /\ k = m

\* The boot loader builds a tree, in memory distinct from the kernel's.
ASSUME BootTablesAssumption ==
  \A t \in BootTables :
    /\ Cr3 \in DOMAIN t /\ DOMAIN t \subseteq Frames \ ScratchFrames
    /\ \A f \in DOMAIN t : t[f] \in [Index -> Entry]
    /\ \E rank \in [DOMAIN t -> 1..LEVELS] : IsTree(t, rank)

VARIABLES
  tables,            \* physical memory that holds tables
  kernel_phys_base,  \* set by _start, read by v2p
  kernel_virt_base,
  pt_scratch_used,
  call,              \* [virt, phys] of the call in progress or of the last one
  level,             \* the level it is at: 4..1, 0 before invlpg; Returned
  table,             \* the frame of the table of that level
  wild,              \* an access through a frame that holds no table
  tlb                \* pages with the frame the CPU remembers for them

Returned == LEVELS + 1

mapping == <<pt_scratch_used, call, level, table, wild>>
bases   == <<kernel_phys_base, kernel_virt_base>>
pvars   == <<tables, bases, mapping, tlb>>

PagingInit ==
  /\ \E t \in BootTables :
       tables = [f \in DOMAIN t \cup ScratchFrames |->
                   IF f \in DOMAIN t THEN t[f] ELSE EmptyTable]
  /\ kernel_phys_base = 0 /\ kernel_virt_base = 0
  /\ pt_scratch_used = 0
  /\ call = [virt |-> 0, phys |-> 0]
  /\ level = Returned /\ table = 0
  /\ wild = FALSE
  /\ tlb = {}

\* Mutant: two levels share their nine bits.
TableIndex_shared(virt, l) ==
  CASE l = 4 -> Shr9(Shr9(Shr9(virt))) % FAN
    [] l = 3 -> Shr9(Shr9(Shr9(virt))) % FAN
    [] l = 2 -> Shr9(virt) % FAN
    [] OTHER -> virt % FAN

\* (virt >> 39) & 0x1FF and so on, on page numbers.
TableIndex(virt, l) ==
  CASE l = 4 -> Shr9(Shr9(Shr9(virt))) % FAN
    [] l = 3 -> Shr9(Shr9(virt)) % FAN
    [] l = 2 -> Shr9(virt) % FAN
    [] OTHER -> virt % FAN

\* Mutant: the address the kernel was linked to, taken for the physical one.
v2p_identity(vaddr) == vaddr

v2p(vaddr) == vaddr - kernel_virt_base + kernel_phys_base

-----------------------------------------------------------------------------
(* The CPU (external).                                                     *)

Unmapped == -1

\* The digits of a page number, one for each level.
Digits(virt) ==
  << virt % FAN, Shr9(virt) % FAN, Shr9(Shr9(virt)) % FAN,
     Shr9(Shr9(Shr9(virt))) % FAN >>

\* The entry for a page in a table of level l, as the CPU finds it.
EntryAt(f, virt, l) ==
  IF f \in DOMAIN tables THEN tables[f][Digits(virt)[l]] ELSE NotPresent

\* The entries on the way to a page.
Pml4e(virt) == EntryAt(Cr3, virt, 4)
Pdpte(virt) == EntryAt(Pml4e(virt).frame, virt, 3)
Pde(virt)   == EntryAt(Pdpte(virt).frame, virt, 2)
Pte(virt)   == EntryAt(Pde(virt).frame, virt, 1)

\* The frame the tables give a page.  A large page at level 2 or 3 maps all
\* pages below its entry to consecutive frames.
Walk(virt) ==
  IF ~Pml4e(virt).present \/ ~Pdpte(virt).present THEN Unmapped
  ELSE IF Pdpte(virt).large THEN Pdpte(virt).frame + (virt % Span(3))
  ELSE IF ~Pde(virt).present THEN Unmapped
  ELSE IF Pde(virt).large THEN Pde(virt).frame + (virt % Span(2))
  ELSE IF Pte(virt).present THEN Pte(virt).frame ELSE Unmapped

\* The CPU remembers a translation, whenever it likes; it does not remember
\* that there is none.
TlbFill(virt) ==
  /\ Cardinality(tlb) < TlbSize
  /\ Walk(virt) # Unmapped
  /\ ~\E t \in tlb : t[1] = virt
  /\ tlb' = tlb \cup {<<virt, Walk(virt)>>}
  /\ UNCHANGED <<tables, bases, mapping>>

-----------------------------------------------------------------------------
(* map_page.                                                               *)

MapPageCall(virt, phys) ==
  /\ level = Returned
  /\ call' = [virt |-> virt, phys |-> phys]
  /\ level' = LEVELS /\ table' = Cr3
  /\ UNCHANGED <<tables, bases, pt_scratch_used, wild, tlb>>

\* The next table is there: the address of the entry is followed.
FollowTable ==
  LET e == tables[table][TableIndex(call.virt, level)]
  IN  /\ level \in 2..LEVELS /\ ~wild
      /\ e.present
      /\ table' = e.frame
      /\ wild' = (e.large \/ e.high \/ e.frame \notin DOMAIN tables)
      /\ level' = level - 1
      /\ UNCHANGED <<tables, bases, pt_scratch_used, call, tlb>>

\* Mutant: the present bit is not looked at.
AllocTable_always ==
  LET k == TableIndex(call.virt, level)
      new == SCRATCH_VIRT + pt_scratch_used
  IN  /\ level \in 2..LEVELS /\ ~wild
      /\ pt_scratch_used' = pt_scratch_used + 1
      /\ level' = level - 1
      /\ IF pt_scratch_used < SCRATCH
         THEN /\ tables' = [tables EXCEPT ![KernelFrame(new)] = EmptyTable,
                                          ![table][k] = TableEntry(v2p(new))]
              /\ table' = v2p(new)
              /\ wild' = (v2p(new) \notin DOMAIN tables)
         ELSE wild' = TRUE /\ UNCHANGED <<tables, table>>
      /\ UNCHANGED <<bases, call, tlb>>

\* It is not: alloc_table clears the next of the scratch tables, without asking
\* whether there is one, and the entry gets its physical address.
AllocTable ==
  LET k == TableIndex(call.virt, level)
      new == SCRATCH_VIRT + pt_scratch_used
  IN  /\ level \in 2..LEVELS /\ ~wild
      /\ ~tables[table][k].present
      /\ pt_scratch_used' = pt_scratch_used + 1
      /\ level' = level - 1
      /\ IF pt_scratch_used < SCRATCH
         THEN /\ tables' = [tables EXCEPT ![KernelFrame(new)] = EmptyTable,
                                          ![table][k] = TableEntry(v2p(new))]
              /\ table' = v2p(new)
              /\ wild' = (v2p(new) \notin DOMAIN tables)
         ELSE wild' = TRUE /\ UNCHANGED <<tables, table>>
      /\ UNCHANGED <<bases, call, tlb>>

StoreEntry ==
  /\ level = 1 /\ ~wild
  /\ tables' = [tables EXCEPT
                  ![table][TableIndex(call.virt, 1)] = TableEntry(call.phys)]
  /\ level' = 0
  /\ UNCHANGED <<bases, pt_scratch_used, call, table, wild, tlb>>

\* Mutant: no invlpg.
Invlpg_missing ==
  /\ level = 0
  /\ level' = Returned
  /\ UNCHANGED <<tables, bases, pt_scratch_used, call, table, wild, tlb>>

Invlpg ==
  /\ level = 0
  /\ tlb' = {t \in tlb : t[1] # call.virt}
  /\ level' = Returned
  /\ UNCHANGED <<tables, bases, pt_scratch_used, call, table, wild>>

MapPageStep == FollowTable \/ AllocTable \/ StoreEntry \/ Invlpg

-----------------------------------------------------------------------------
(* Properties.                                                             *)

PagingTypeOK ==
  /\ ScratchFrames \cup {Cr3} \subseteq DOMAIN tables
  /\ \A f \in DOMAIN tables : tables[f] \in [Index -> Entry]
  /\ pt_scratch_used \in Nat
  /\ call \in [virt : Pages, phys : Frames]
  /\ level \in 0..Returned /\ wild \in BOOLEAN
  /\ ~wild => table \in Frames
  /\ tlb \subseteq Pages \X Frames

\* Outside of map_page the CPU remembers nothing the tables do not say.
TlbCoherent ==
  level = Returned => \A t \in tlb : Walk(t[1]) = t[2]

NoRequest == [virt |-> Unmapped, phys |-> Unmapped, done |-> TRUE]

\* map_page maps the page it was asked to map, in one store, and no other,
\* over whatever tables it finds and however many it has to add.
AM == INSTANCE AddressMap WITH
        map <- [virt \in Pages |-> Walk(virt)],
        request <- IF level = Returned THEN NoRequest
                   ELSE [virt |-> call.virt, phys |-> call.phys, done |-> level = 0],
        Idle <- NoRequest

ImplementsAddressMap == AM!Spec
=============================================================================
