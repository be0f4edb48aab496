----------------------------- MODULE BootProofs -----------------------------
(***************************************************************************)
(* Theorems about Boot, for tables of every size, every tree a boot loader *)
(* may leave, every position of the kernel in memory and every sequence of *)
(* calls of map_page.  What carries them is that the tables stay a tree:   *)
(* then a store into one of them is on the way to one page only.           *)
(***************************************************************************)
EXTENDS Boot, TLAPS

Scratch(k) == KernelFrame(SCRATCH_VIRT + k)

\* The tables are a tree of which the scratch tables not handed out are no part,
\* and map_page holds a table of the level it is at.
Ranked(rank) ==
  /\ IsTree(tables, rank)
  /\ \A k \in 0..SCRATCH-1 : k >= pt_scratch_used => rank[Scratch(k)] = 0
  /\ ~wild /\ level \in 1..LEVELS => table \in DOMAIN tables /\ rank[table] = level

TreeInv == \E rank \in [DOMAIN tables -> 0..LEVELS] : Ranked(rank)

\* That table is the one the CPU finds on its way to the page.
PathInv ==
  ~wild =>
    /\ level = 4 => table = Cr3
    /\ level \in 1..3 => Leads(Pml4e(call.virt))
    /\ level \in 1..2 => Leads(Pdpte(call.virt))
    /\ level = 1 => Leads(Pde(call.virt))
    /\ level = 3 => table = Pml4e(call.virt).frame
    /\ level = 2 => table = Pdpte(call.virt).frame
    /\ level = 1 => table = Pde(call.virt).frame

WildInv == wild => level \in 1..3

\* From the store on the tables map the page.
MappedInv == calls >= 1 /\ level \in {0, Returned} => Walk(call.virt) = call.phys

\* A translation of before the store may last until invlpg.
TlbInv == \A t \in tlb : Walk(t[1]) = t[2] \/ (level = 0 /\ t[1] = call.virt)

\* Where _start is, and what it has done by then.
OrderInv ==
  /\ at \in {"checks", "hcf", "bases", "map"} =>
       calls = 0 /\ level = Returned /\ pt_scratch_used = 0
  /\ at \in {"mapping", "kernel_main"} => calls >= 1
  /\ at = "mapping" => calls = 1
  /\ at = "kernel_main" /\ calls = 1 => level = Returned
  /\ at \in {"map", "mapping", "kernel_main"} =>
       kernel_phys_base = PHYS_BASE /\ kernel_virt_base = VIRT_BASE /\ hhdm_offset = HHDM
  /\ at = "checks" => uart \in BootUarts
  /\ at \in {"bases", "map", "mapping", "kernel_main"} =>
       /\ g_framebuffer = 0 /\ answers.framebuffer_count >= 1
       /\ SerialReady(uart)

\* The first call takes at most one scratch table for a level it went down, and
\* fails only where no one could pass.
FirstInv ==
  calls = 1 =>
    /\ call = [virt |-> HHDM + TEXT, phys |-> TEXT]
    /\ level \in 1..LEVELS /\ ~wild => pt_scratch_used <= LEVELS - level
    /\ wild => Impassable(call.virt)

Memory == DOMAIN tables \subseteq Frames

IInv ==
  /\ TypeOK /\ Memory /\ TreeInv /\ PathInv /\ WildInv
  /\ MappedInv /\ TlbInv /\ OrderInv /\ FirstInv

-----------------------------------------------------------------------------
(* Page numbers.                                                           *)

LEMMA Sizes ==
  /\ FAN \in Nat \ {0} /\ FAN >= 2 /\ SCRATCH \in Nat /\ SCRATCH >= 3
  /\ Frames \subseteq Nat /\ 0 \in Frames /\ ScratchFrames \subseteq Frames
  /\ SCRATCH_VIRT \in Nat /\ VIRT_BASE \in Nat /\ PHYS_BASE \in Nat
BY PagingAssumption

\* A shift leaves a smaller number, and its last digit is one.
LEMMA ShiftDown ==
  ASSUME NEW v \in Nat
  PROVE  /\ Shr9(v) \in Nat /\ v % FAN \in Index
         /\ v = FAN * Shr9(v) + (v % FAN)
         /\ \A b \in Nat : v < FAN * b => Shr9(v) < b
<1> DEFINE q == v \div FAN
           r == v % FAN
<1>1. FAN \in Nat \ {0} /\ q \in Nat /\ r \in Nat /\ r < FAN /\ v = FAN * q + r
  BY Sizes
<1> HIDE DEF q, r
<1>2. ASSUME NEW b \in Nat, v < FAN * b PROVE q < b
  <2>1. SUFFICES ASSUME b <= q PROVE FALSE
    BY <1>1
  <2> DEFINE e == q - b
  <2>2. e \in Nat /\ q = e + b
    BY <1>1, <2>1
  <2> HIDE DEF e
  <2>3. FAN * q = FAN * e + FAN * b /\ FAN * e \in Nat /\ FAN * b \in Nat
    BY <1>1, <2>2
  <2> QED
    BY <1>1, <1>2, <2>3
<1>3. r \in 0..FAN-1
  BY <1>1
<1> QED
  BY <1>1, <1>2, <1>3 DEF q, r, Shr9, Index

\* The code and the CPU cut an address into the same digits.
LEMMA DigitOf ==
  ASSUME NEW v \in Pages, NEW l \in 1..LEVELS
  PROVE  Digits(v)[l] \in Index /\ TableIndex(v, l) = Digits(v)[l]
<1>1. v \in Nat
  BY DEF Pages
<1>2. Shr9(v) \in Nat /\ Shr9(Shr9(v)) \in Nat /\ Shr9(Shr9(Shr9(v))) \in Nat
  BY <1>1, ShiftDown
<1>3. /\ v % FAN \in Index /\ Shr9(v) % FAN \in Index
      /\ Shr9(Shr9(v)) % FAN \in Index /\ Shr9(Shr9(Shr9(v))) % FAN \in Index
  BY <1>1, <1>2, ShiftDown
<1>4. l \in {1, 2, 3, 4}
  BY DEF LEVELS
<1> QED
  BY <1>3, <1>4 DEF Digits, TableIndex

\* Two pages with the same digits are the same.
LEMMA SamePage ==
  ASSUME NEW v \in Pages, NEW w \in Pages,
         \A l \in 1..LEVELS : Digits(v)[l] = Digits(w)[l]
  PROVE  v = w
<1> DEFINE Top(x) == Shr9(Shr9(Shr9(x)))
<1>1. v \in Nat /\ w \in Nat
  BY DEF Pages
<1>2. /\ v % FAN = w % FAN /\ Shr9(v) % FAN = Shr9(w) % FAN
      /\ Shr9(Shr9(v)) % FAN = Shr9(Shr9(w)) % FAN /\ Top(v) % FAN = Top(w) % FAN
  BY DEF Digits, LEVELS
<1>3. ASSUME NEW x \in Pages PROVE Top(x) \in Nat /\ Top(x) % FAN = Top(x)
  <2> DEFINE F2 == FAN * FAN
             F3 == FAN * F2
             F4 == FAN * F3
  <2>1. FAN \in Nat /\ F2 \in Nat /\ F3 \in Nat /\ F4 \in Nat
    BY Sizes
  <2>2. F4 = FAN*FAN*FAN*FAN /\ x \in Nat /\ x < F4
    <3>1. F4 = FAN*FAN*FAN*FAN
      BY Sizes
    <3>2. x \in 0..F4-1
      BY <3>1 DEF Pages
    <3> QED
      BY <2>1, <3>1, <3>2
  <2>3. Shr9(x) \in Nat /\ Shr9(x) < F3
    BY <2>1, <2>2, ShiftDown
  <2>4. Shr9(Shr9(x)) \in Nat /\ Shr9(Shr9(x)) < F2
    BY <2>1, <2>3, ShiftDown
  <2>5. Top(x) \in Nat /\ Top(x) < FAN
    BY <2>1, <2>4, ShiftDown
  <2> HIDE DEF Top
  <2> QED
    BY <2>5, Sizes
<1>4. Top(v) = Top(w)
  BY <1>2, <1>3
<1>5. Shr9(Shr9(v)) = Shr9(Shr9(w))
  BY <1>1, <1>2, <1>4, ShiftDown
<1>6. Shr9(v) = Shr9(w)
  BY <1>1, <1>2, <1>5, ShiftDown
<1> QED
  BY <1>1, <1>2, <1>6, ShiftDown

-----------------------------------------------------------------------------
(* The way to a page.                                                      *)

TypedTables == Cr3 \in DOMAIN tables /\ \A f \in DOMAIN tables : tables[f] \in [Index -> Entry]

\* What the CPU finds is an entry.
LEMMA EntryTyped ==
  ASSUME TypedTables, NEW f, NEW v \in Pages, NEW l \in 1..LEVELS
  PROVE  EntryAt(f, v, l) \in Entry
<1>1. NotPresent \in Entry
  BY Sizes DEF NotPresent, Entry
<1>2. Digits(v)[l] \in Index
  BY DigitOf
<1> QED
  BY <1>1, <1>2 DEF EntryAt, TypedTables

LEMMA EntryIs ==
  ASSUME TypedTables, NEW v \in Pages
  PROVE  /\ Pml4e(v) \in Entry /\ Pdpte(v) \in Entry /\ Pde(v) \in Entry
         /\ Pte(v) \in Entry
BY EntryTyped DEF Pml4e, Pdpte, Pde, Pte, LEVELS

\* An entry that leads from one level leads to a table of the next.
LEMMA Down ==
  ASSUME TypedTables, NEW rank, IsTree(tables, rank),
         NEW f \in DOMAIN tables, NEW v \in Pages, NEW l \in 2..LEVELS,
         rank[f] = l, Leads(EntryAt(f, v, l))
  PROVE  /\ EntryAt(f, v, l).frame \in DOMAIN tables
         /\ rank[EntryAt(f, v, l).frame] = l - 1
<1>1. Digits(v)[l] \in Index
  BY DigitOf DEF LEVELS
<1>2. EntryAt(f, v, l) = tables[f][Digits(v)[l]]
  BY DEF EntryAt
<1> QED
  BY <1>1, <1>2 DEF IsTree

\* On the way to a page the CPU comes through tables of every level in turn.
LEMMA PathRanks ==
  ASSUME TypedTables, NEW rank, IsTree(tables, rank), NEW v \in Pages
  PROVE  /\ Pml4e(v).present =>
              /\ Leads(Pml4e(v)) /\ Pml4e(v).frame \in DOMAIN tables
              /\ rank[Pml4e(v).frame] = 3
         /\ Pml4e(v).present /\ Leads(Pdpte(v)) =>
              Pdpte(v).frame \in DOMAIN tables /\ rank[Pdpte(v).frame] = 2
         /\ Pml4e(v).present /\ Leads(Pdpte(v)) /\ Leads(Pde(v)) =>
              Pde(v).frame \in DOMAIN tables /\ rank[Pde(v).frame] = 1
<1>0. Cr3 \in DOMAIN tables /\ rank[Cr3] = 4
  BY DEF TypedTables, IsTree, LEVELS
<1>1. ASSUME Pml4e(v).present
      PROVE  /\ Leads(Pml4e(v)) /\ Pml4e(v).frame \in DOMAIN tables
             /\ rank[Pml4e(v).frame] = 3
  <2>1. Pml4e(v) = tables[Cr3][Digits(v)[4]] /\ Digits(v)[4] \in Index
    BY <1>0, DigitOf DEF Pml4e, EntryAt, LEVELS
  <2>2. Leads(Pml4e(v))
    BY <1>0, <1>1, <2>1 DEF IsTree, Leads, LEVELS
  <2> QED
    BY <1>0, <2>2, Down DEF Pml4e, LEVELS
<1>2. ASSUME Pml4e(v).present, Leads(Pdpte(v))
      PROVE  Pdpte(v).frame \in DOMAIN tables /\ rank[Pdpte(v).frame] = 2
  BY <1>1, <1>2, Down DEF Pdpte, LEVELS
<1>3. ASSUME Pml4e(v).present, Leads(Pdpte(v)), Leads(Pde(v))
      PROVE  Pde(v).frame \in DOMAIN tables /\ rank[Pde(v).frame] = 1
  BY <1>2, <1>3, Down DEF Pde, LEVELS
<1> QED
  BY <1>1, <1>2, <1>3

LEMMA Offsets ==
  ASSUME NEW v \in Pages, NEW l \in 2..3
  PROVE  v % Span(l) \in 0..Span(l)-1
<1>1. v \in Nat
  BY DEF Pages
<1>2. FAN * FAN \in Nat \ {0}
  BY Sizes
<1>3. Span(l) \in Nat \ {0}
  BY <1>2, Sizes DEF Span
<1> QED
  BY <1>1, <1>3

\* The tables give a page a frame there is, or none.
LEMMA WalkTyped ==
  ASSUME TypedTables, NEW rank, IsTree(tables, rank), NEW v \in Pages
  PROVE  Walk(v) \in Frames \cup {Unmapped}
<1>1. /\ Pml4e(v) \in Entry /\ Pdpte(v) \in Entry /\ Pde(v) \in Entry
      /\ Pte(v) \in Entry
  BY EntryIs
<1>2. CASE Pml4e(v).present /\ Pdpte(v).present /\ Pdpte(v).large
  <2> DEFINE f == Pml4e(v).frame
  <2>1. f \in DOMAIN tables /\ rank[f] = 3
    BY <1>2, PathRanks
  <2>2. Pdpte(v) = tables[f][Digits(v)[3]] /\ Digits(v)[3] \in Index
    BY <2>1, DigitOf DEF Pdpte, EntryAt, LEVELS
  <2>3. Pdpte(v).frame + (v % Span(3)) \in Frames
    BY <1>2, <2>1, <2>2, Offsets DEF IsTree
  <2> QED
    BY <1>2, <2>3 DEF Walk
<1>3. CASE /\ Pml4e(v).present /\ Leads(Pdpte(v))
           /\ Pde(v).present /\ Pde(v).large
  <2> DEFINE f == Pdpte(v).frame
  <2>1. f \in DOMAIN tables /\ rank[f] = 2
    BY <1>3, PathRanks
  <2>2. Pde(v) = tables[f][Digits(v)[2]] /\ Digits(v)[2] \in Index
    BY <2>1, DigitOf DEF Pde, EntryAt, LEVELS
  <2>3. Pde(v).frame + (v % Span(2)) \in Frames
    BY <1>3, <2>1, <2>2, Offsets DEF IsTree
  <2> QED
    BY <1>3, <2>3 DEF Walk, Leads
<1>4. Pte(v).frame \in Frames
  BY <1>1 DEF Entry
<1> QED
  BY <1>2, <1>3, <1>4 DEF Walk, Leads

-----------------------------------------------------------------------------
(* What a store does to the ways.                                          *)

\* After a step the CPU walks the tables there are then.
LEMMA NextEntries ==
  ASSUME NEW v \in Pages
  PROVE  /\ Pml4e(v)' = IF Cr3 \in DOMAIN tables' THEN tables'[Cr3][Digits(v)[4]]
                                                  ELSE NotPresent
         /\ Pdpte(v)' = IF Pml4e(v)'.frame \in DOMAIN tables'
                        THEN tables'[Pml4e(v)'.frame][Digits(v)[3]] ELSE NotPresent
         /\ Pde(v)' = IF Pdpte(v)'.frame \in DOMAIN tables'
                      THEN tables'[Pdpte(v)'.frame][Digits(v)[2]] ELSE NotPresent
         /\ Pte(v)' = IF Pde(v)'.frame \in DOMAIN tables'
                      THEN tables'[Pde(v)'.frame][Digits(v)[1]] ELSE NotPresent
<1>1. Pml4e(v)' = IF Cr3 \in DOMAIN tables' THEN tables'[Cr3][Digits(v)[4]]
                                            ELSE NotPresent
  BY DEF Pml4e, EntryAt
<1>2. Pdpte(v)' = IF Pml4e(v)'.frame \in DOMAIN tables'
                  THEN tables'[Pml4e(v)'.frame][Digits(v)[3]] ELSE NotPresent
  BY DEF Pdpte, EntryAt
<1>3. Pde(v)' = IF Pdpte(v)'.frame \in DOMAIN tables'
                THEN tables'[Pdpte(v)'.frame][Digits(v)[2]] ELSE NotPresent
  BY DEF Pde, EntryAt
<1>4. Pte(v)' = IF Pde(v)'.frame \in DOMAIN tables'
                THEN tables'[Pde(v)'.frame][Digits(v)[1]] ELSE NotPresent
  BY DEF Pte, EntryAt
<1> QED
  BY <1>1, <1>2, <1>3, <1>4

LEMMA NextWalk ==
  ASSUME NEW v \in Pages
  PROVE  Walk(v)' =
           IF ~Pml4e(v)'.present \/ ~Pdpte(v)'.present THEN Unmapped
           ELSE IF Pdpte(v)'.large THEN Pdpte(v)'.frame + (v % Span(3))
           ELSE IF ~Pde(v)'.present THEN Unmapped
           ELSE IF Pde(v)'.large THEN Pde(v)'.frame + (v % Span(2))
           ELSE IF Pte(v)'.present THEN Pte(v)'.frame ELSE Unmapped
BY DEF Walk, Unmapped, Span

\* A step that stores nothing leaves every way as it was.
LEMMA SameTables ==
  ASSUME tables' = tables, NEW v \in Pages
  PROVE  /\ Pml4e(v)' = Pml4e(v) /\ Pdpte(v)' = Pdpte(v) /\ Pde(v)' = Pde(v)
         /\ Walk(v)' = Walk(v)
<1>1. Pml4e(v)' = Pml4e(v) /\ Pdpte(v)' = Pdpte(v) /\ Pde(v)' = Pde(v) /\ Pte(v)' = Pte(v)
  BY NextEntries DEF Pml4e, Pdpte, Pde, Pte, EntryAt
<1> QED
  BY <1>1, NextWalk DEF Walk

\* No table has two entries that lead to it.
LEMMA OneParent ==
  ASSUME NEW rank, IsTree(tables, rank),
         NEW f \in DOMAIN tables, NEW g \in DOMAIN tables,
         NEW k \in Index, NEW m \in Index,
         rank[f] \in 2..LEVELS, Leads(tables[f][k]),
         rank[g] \in 2..LEVELS, Leads(tables[g][m]),
         tables[f][k].frame = tables[g][m].frame
  PROVE  f = g /\ k = m
BY DEF IsTree

\* Whichever way a page table is reached, it is the same way.
LEMMA OneWay ==
  ASSUME TypedTables, NEW rank, IsTree(tables, rank), NEW v \in Pages, NEW w \in Pages,
         Pml4e(v).present, Leads(Pdpte(v)), Leads(Pde(v)),
         Pml4e(w).present, Leads(Pdpte(w)), Leads(Pde(w)),
         Pde(v).frame = Pde(w).frame, Digits(v)[1] = Digits(w)[1]
  PROVE  v = w
<1> DEFINE Way(x) ==
      /\ Pml4e(x) = tables[Cr3][Digits(x)[4]] /\ Leads(Pml4e(x))
      /\ Pml4e(x).frame \in DOMAIN tables /\ rank[Pml4e(x).frame] = 3
      /\ Pdpte(x) = tables[Pml4e(x).frame][Digits(x)[3]]
      /\ Pdpte(x).frame \in DOMAIN tables /\ rank[Pdpte(x).frame] = 2
      /\ Pde(x) = tables[Pdpte(x).frame][Digits(x)[2]]
<1>1. Way(v) /\ Way(w)
  <2>1. ASSUME NEW x \in Pages, Pml4e(x).present, Leads(Pdpte(x)), Leads(Pde(x))
        PROVE  Way(x)
    BY <2>1, PathRanks DEF Pml4e, Pdpte, Pde, EntryAt, TypedTables
  <2> QED
    BY <2>1
<1>2. ASSUME NEW l \in 1..LEVELS PROVE Digits(v)[l] \in Index /\ Digits(w)[l] \in Index
  BY DigitOf
<1>3. Cr3 \in DOMAIN tables /\ rank[Cr3] = 4 /\ LEVELS = 4
  BY DEF IsTree, TypedTables, LEVELS
<1>5. Pdpte(v).frame = Pdpte(w).frame /\ Digits(v)[2] = Digits(w)[2]
  <2>1. Digits(v)[2] \in Index /\ Digits(w)[2] \in Index
    BY <1>2 DEF LEVELS
  <2>2. /\ Leads(tables[Pdpte(v).frame][Digits(v)[2]])
        /\ Leads(tables[Pdpte(w).frame][Digits(w)[2]])
        /\ tables[Pdpte(v).frame][Digits(v)[2]].frame = tables[Pdpte(w).frame][Digits(w)[2]].frame
    BY <1>1
  <2>3. /\ Pdpte(v).frame \in DOMAIN tables /\ rank[Pdpte(v).frame] = 2
        /\ Pdpte(w).frame \in DOMAIN tables /\ rank[Pdpte(w).frame] = 2
    BY <1>1
  <2> DEFINE f == Pdpte(v).frame
             g == Pdpte(w).frame
             k == Digits(v)[2]
             m == Digits(w)[2]
  <2>4. /\ f \in DOMAIN tables /\ g \in DOMAIN tables /\ k \in Index /\ m \in Index
        /\ rank[f] \in 2..LEVELS /\ rank[g] \in 2..LEVELS
        /\ Leads(tables[f][k]) /\ Leads(tables[g][m])
        /\ tables[f][k].frame = tables[g][m].frame
    BY <2>1, <2>2, <2>3 DEF LEVELS
  <2> HIDE DEF f, g, k, m
  <2>5. f = g /\ k = m
    BY <2>4, OneParent
  <2> QED
    BY <2>5 DEF f, g, k, m
<1>6. Pml4e(v).frame = Pml4e(w).frame /\ Digits(v)[3] = Digits(w)[3]
  <2>1. Digits(v)[3] \in Index /\ Digits(w)[3] \in Index
    BY <1>2 DEF LEVELS
  <2>2. /\ Leads(tables[Pml4e(v).frame][Digits(v)[3]])
        /\ Leads(tables[Pml4e(w).frame][Digits(w)[3]])
        /\ tables[Pml4e(v).frame][Digits(v)[3]].frame = tables[Pml4e(w).frame][Digits(w)[3]].frame
    BY <1>1, <1>5
  <2>3. /\ Pml4e(v).frame \in DOMAIN tables /\ rank[Pml4e(v).frame] = 3
        /\ Pml4e(w).frame \in DOMAIN tables /\ rank[Pml4e(w).frame] = 3
    BY <1>1
  <2> DEFINE f == Pml4e(v).frame
             g == Pml4e(w).frame
             k == Digits(v)[3]
             m == Digits(w)[3]
  <2>4. /\ f \in DOMAIN tables /\ g \in DOMAIN tables /\ k \in Index /\ m \in Index
        /\ rank[f] \in 2..LEVELS /\ rank[g] \in 2..LEVELS
        /\ Leads(tables[f][k]) /\ Leads(tables[g][m])
        /\ tables[f][k].frame = tables[g][m].frame
    BY <2>1, <2>2, <2>3 DEF LEVELS
  <2> HIDE DEF f, g, k, m
  <2>5. f = g /\ k = m
    BY <2>4, OneParent
  <2> QED
    BY <2>5 DEF f, g, k, m
<1>7. Digits(v)[4] = Digits(w)[4]
  <2>1. Digits(v)[4] \in Index /\ Digits(w)[4] \in Index
    BY <1>2 DEF LEVELS
  <2>2. /\ Leads(tables[Cr3][Digits(v)[4]]) /\ Leads(tables[Cr3][Digits(w)[4]])
        /\ tables[Cr3][Digits(v)[4]].frame = tables[Cr3][Digits(w)[4]].frame
    BY <1>1, <1>6
  <2> QED
    BY <1>3, <2>1, <2>2, OneParent
<1>8. \A l \in 1..LEVELS : Digits(v)[l] = Digits(w)[l]
  BY <1>5, <1>6, <1>7 DEF LEVELS
<1> QED
  BY <1>8, SamePage

\* One entry of one table is stored to.
Stored(f, k, e) ==
  /\ DOMAIN tables' = DOMAIN tables
  /\ \A g \in DOMAIN tables : tables'[g] \in [Index -> Entry]
  /\ \A g \in DOMAIN tables, m \in Index :
       tables'[g][m] = IF g = f /\ m = k THEN e ELSE tables[g][m]

LEMMA OneStore ==
  ASSUME TypedTables, NEW f \in DOMAIN tables, NEW k \in Index, NEW e \in Entry,
         tables' = [tables EXCEPT ![f][k] = e]
  PROVE  Stored(f, k, e)
<1>1. DOMAIN tables' = DOMAIN tables
  OBVIOUS
<1>2. ASSUME NEW g \in DOMAIN tables
      PROVE  /\ tables'[g] \in [Index -> Entry]
             /\ \A m \in Index : tables'[g][m] = IF g = f /\ m = k THEN e ELSE tables[g][m]
  <2>1. tables[g] \in [Index -> Entry]
    BY DEF TypedTables
  <2>2. tables'[g] = IF g = f THEN [tables[f] EXCEPT ![k] = e] ELSE tables[g]
    OBVIOUS
  <2> QED
    BY <2>1, <2>2
<1> QED
  BY <1>1, <1>2 DEF Stored

\* A store into the page table of a page maps that page, and no other, and
\* leaves the tables a tree.
LEMMA StoreMapsOne ==
  ASSUME TypedTables, NEW rank, IsTree(tables, rank), NEW w \in Pages,
         Pml4e(w).present, Leads(Pdpte(w)), Leads(Pde(w)), NEW x \in Frames,
         Stored(Pde(w).frame, Digits(w)[1], TableEntry(x))
  PROVE  /\ IsTree(tables', rank)
         /\ \A v \in Pages : Walk(v)' = IF v = w THEN x ELSE Walk(v)
<1> DEFINE f == Pde(w).frame
           k == Digits(w)[1]
           e == TableEntry(x)
<1>1. f \in DOMAIN tables /\ rank[f] = 1 /\ k \in Index
  BY PathRanks, DigitOf DEF LEVELS
<1>2. /\ DOMAIN tables' = DOMAIN tables
      /\ \A g \in DOMAIN tables, m \in Index :
           tables'[g][m] = IF g = f /\ m = k THEN e ELSE tables[g][m]
  BY DEF Stored
<1>3. e.present /\ ~e.large /\ e.frame = x
  BY DEF TableEntry
<1> HIDE DEF f, k, e
<1>4. IsTree(tables', rank)
  <2>1. \A g \in DOMAIN tables, m \in Index : rank[g] # 1 => tables'[g][m] = tables[g][m]
    BY <1>1, <1>2
  <2>2. \A g \in DOMAIN tables, m \in Index :
          tables'[g][m].present /\ tables'[g][m].large => tables'[g][m] = tables[g][m]
    BY <1>2, <1>3
  <2>3. rank \in [DOMAIN tables' -> 0..LEVELS] /\ rank[Cr3] = LEVELS
    BY <1>2 DEF IsTree
  <2>4. \A g \in DOMAIN tables, m \in Index :
          /\ rank[g] \in 2..LEVELS /\ Leads(tables'[g][m]) =>
               /\ tables'[g][m].frame \in DOMAIN tables
               /\ rank[tables'[g][m].frame] = rank[g] - 1
          /\ tables'[g][m].present /\ tables'[g][m].large =>
               /\ rank[g] # LEVELS
               /\ rank[g] \in 2..3 =>
                    \A offset \in 0..Span(rank[g])-1 : tables'[g][m].frame + offset \in Frames
    <3>1. TAKE g \in DOMAIN tables, m \in Index
    <3>2. rank[g] \in 2..LEVELS => tables'[g][m] = tables[g][m]
      BY <2>1
    <3> QED
      BY <2>2, <3>2 DEF IsTree
  <2>5. \A g, h \in DOMAIN tables : \A m, n \in Index :
          /\ rank[g] \in 2..LEVELS /\ Leads(tables'[g][m])
          /\ rank[h] \in 2..LEVELS /\ Leads(tables'[h][n])
          /\ tables'[g][m].frame = tables'[h][n].frame
          => g = h /\ m = n
    <3>1. TAKE g, h \in DOMAIN tables
    <3>2. TAKE m, n \in Index
    <3>3. /\ rank[g] \in 2..LEVELS => tables'[g][m] = tables[g][m]
          /\ rank[h] \in 2..LEVELS => tables'[h][n] = tables[h][n]
      BY <2>1
    <3> QED
      BY <3>3 DEF IsTree
  <2> QED
    BY <1>2, <2>3, <2>4, <2>5 DEF IsTree
<1>5. ASSUME NEW v \in Pages PROVE Walk(v)' = IF v = w THEN x ELSE Walk(v)
  <2>0. ASSUME NEW l \in 1..4 PROVE Digits(v)[l] \in Index
    BY DigitOf DEF LEVELS
  <2>1. Pml4e(v)' = Pml4e(v)
    <3>1. Cr3 \in DOMAIN tables /\ Cr3 # f
      BY <1>1 DEF IsTree, TypedTables, LEVELS
    <3> QED
      BY <1>2, <2>0, <3>1, NextEntries DEF Pml4e, EntryAt
  <2>2. Pml4e(v).present => Pdpte(v)' = Pdpte(v)
    <3>1. Pml4e(v).present => Pml4e(v).frame \in DOMAIN tables /\ Pml4e(v).frame # f
      BY <1>1, PathRanks
    <3> QED
      BY <1>2, <2>0, <2>1, <3>1, NextEntries DEF Pdpte, EntryAt
  <2>3. Pml4e(v).present /\ Leads(Pdpte(v)) => Pde(v)' = Pde(v)
    <3>1. Pml4e(v).present /\ Leads(Pdpte(v)) =>
            Pdpte(v).frame \in DOMAIN tables /\ Pdpte(v).frame # f
      BY <1>1, PathRanks
    <3> QED
      BY <1>2, <2>0, <2>2, <3>1, NextEntries DEF Pde, EntryAt
  <2>4. CASE Pml4e(v).present /\ Leads(Pdpte(v)) /\ Leads(Pde(v))
    <3>1. Pde(v).frame \in DOMAIN tables
      BY <2>4, PathRanks
    <3>2. Pte(v)' = IF Pde(v).frame = f /\ Digits(v)[1] = k THEN e ELSE Pte(v)
      BY <1>2, <2>0, <2>3, <2>4, <3>1, NextEntries DEF Pte, EntryAt
    <3>3. Pde(v).frame = f /\ Digits(v)[1] = k <=> v = w
      BY <2>4, OneWay DEF f, k
    <3>4. /\ Walk(v)' = IF Pte(v)'.present THEN Pte(v)'.frame ELSE Unmapped
          /\ Walk(v) = IF Pte(v).present THEN Pte(v).frame ELSE Unmapped
      BY <2>1, <2>2, <2>3, <2>4, NextWalk DEF Walk, Leads
    <3> QED
      BY <1>3, <3>2, <3>3, <3>4
  <2>5. CASE ~(Pml4e(v).present /\ Leads(Pdpte(v)) /\ Leads(Pde(v)))
    <3>1. v # w
      BY <2>5
    <3>2. Walk(v)' = Walk(v)
      BY <2>1, <2>2, <2>3, <2>5, NextWalk DEF Walk, Leads
    <3> QED
      BY <3>1, <3>2
  <2> QED
    BY <2>4, <2>5
<1> QED
  BY <1>4, <1>5

\* A table is cleared and an entry of another one is made to lead to it.
Added(f, k, new) ==
  /\ DOMAIN tables' = DOMAIN tables
  /\ \A g \in DOMAIN tables : tables'[g] \in [Index -> Entry]
  /\ \A g \in DOMAIN tables, m \in Index :
       tables'[g][m] = IF g = new THEN NotPresent
                       ELSE IF g = f /\ m = k THEN TableEntry(new) ELSE tables[g][m]

LEMMA OneAdded ==
  ASSUME TypedTables, NEW f \in DOMAIN tables, NEW k \in Index,
         NEW new \in DOMAIN tables, new \in Frames, new # f,
         tables' = [tables EXCEPT ![new] = EmptyTable, ![f][k] = TableEntry(new)]
  PROVE  Added(f, k, new)
<1>1. DOMAIN tables' = DOMAIN tables
  OBVIOUS
<1>2. ASSUME NEW g \in DOMAIN tables
      PROVE  /\ tables'[g] \in [Index -> Entry]
             /\ \A m \in Index :
                  tables'[g][m] = IF g = new THEN NotPresent
                                  ELSE IF g = f /\ m = k THEN TableEntry(new) ELSE tables[g][m]
  <2>1. tables[g] \in [Index -> Entry] /\ tables[f] \in [Index -> Entry]
    BY DEF TypedTables
  <2>2. tables'[g] = IF g = f THEN [tables[f] EXCEPT ![k] = TableEntry(new)]
                     ELSE IF g = new THEN EmptyTable ELSE tables[g]
    OBVIOUS
  <2>3. TableEntry(new) \in Entry /\ NotPresent \in Entry
    BY Sizes DEF TableEntry, NotPresent, Entry
  <2>4. EmptyTable \in [Index -> Entry] /\ \A m \in Index : EmptyTable[m] = NotPresent
    BY <2>3 DEF EmptyTable
  <2>5. CASE g = f
    BY <2>1, <2>2, <2>3, <2>5
  <2>6. CASE g # f /\ g = new
    BY <2>2, <2>4, <2>6
  <2>7. CASE g # f /\ g # new
    BY <2>1, <2>2, <2>7
  <2> QED
    BY <2>5, <2>6, <2>7
<1> QED
  BY <1>1, <1>2 DEF Added

\* The entry of no page, and what is left of the tree is a tree with a new leaf.
LEMMA AddKeepsTree ==
  ASSUME TypedTables, NEW rank, IsTree(tables, rank),
         NEW f \in DOMAIN tables, NEW l \in 2..LEVELS, rank[f] = l,
         NEW k \in Index, NEW new \in DOMAIN tables, rank[new] = 0, Added(f, k, new)
  PROVE  IsTree(tables', [rank EXCEPT ![new] = l - 1])
<1> DEFINE after == [rank EXCEPT ![new] = l - 1]
<1>1. /\ DOMAIN tables' = DOMAIN tables
      /\ \A g \in DOMAIN tables, m \in Index :
           tables'[g][m] = IF g = new THEN NotPresent
                           ELSE IF g = f /\ m = k THEN TableEntry(new) ELSE tables[g][m]
  BY DEF Added
<1>2. rank \in [DOMAIN tables -> 0..4] /\ rank[Cr3] = 4 /\ LEVELS = 4 /\ l \in 2..4
  BY DEF IsTree, LEVELS
<1>3. Cr3 # new /\ f # new /\ Cr3 \in DOMAIN tables
  BY <1>2 DEF TypedTables
<1>4. /\ after \in [DOMAIN tables -> 0..4] /\ after[Cr3] = 4
      /\ \A g \in DOMAIN tables : g # new => after[g] = rank[g]
      /\ after[new] = l - 1
  BY <1>2, <1>3
<1>5. ~Leads(NotPresent) /\ ~NotPresent.present
  BY DEF NotPresent, Leads
<1>6. Leads(TableEntry(new)) /\ TableEntry(new).frame = new /\ ~TableEntry(new).large
  BY DEF TableEntry, Leads
<1> HIDE DEF after
<1>7. ASSUME NEW g \in DOMAIN tables, NEW m \in Index,
             after[g] \in 2..4, Leads(tables'[g][m])
      PROVE  /\ g # new /\ rank[g] = after[g]
             /\ \/ g = f /\ m = k /\ tables'[g][m] = TableEntry(new)
                \/ /\ ~(g = f /\ m = k) /\ tables'[g][m] = tables[g][m]
                   /\ rank[g] \in 2..4 /\ Leads(tables[g][m])
  BY <1>1, <1>4, <1>5, <1>7
<1>8. ASSUME NEW g \in DOMAIN tables, NEW m \in Index, rank[g] \in 2..4, Leads(tables[g][m])
      PROVE  /\ tables[g][m].frame \in DOMAIN tables /\ tables[g][m].frame # new
             /\ rank[tables[g][m].frame] = rank[g] - 1
  <2>1. tables[g][m].frame \in DOMAIN tables /\ rank[tables[g][m].frame] = rank[g] - 1
    BY <1>2, <1>8 DEF IsTree
  <2>2. rank[g] - 1 # 0
    BY <1>2, <1>8
  <2> QED
    BY <2>1, <2>2
<1>9. \A g \in DOMAIN tables, m \in Index :
        after[g] \in 2..4 /\ Leads(tables'[g][m]) =>
          /\ tables'[g][m].frame \in DOMAIN tables
          /\ after[tables'[g][m].frame] = after[g] - 1
  <2>1. SUFFICES ASSUME NEW g \in DOMAIN tables, NEW m \in Index,
                        after[g] \in 2..4, Leads(tables'[g][m])
                 PROVE  /\ tables'[g][m].frame \in DOMAIN tables
                        /\ after[tables'[g][m].frame] = after[g] - 1
    OBVIOUS
  <2>2. CASE g = f /\ m = k
    BY <1>3, <1>4, <1>6, <1>7, <2>1, <2>2
  <2>3. CASE ~(g = f /\ m = k)
    <3>1. rank[g] = after[g] /\ tables'[g][m] = tables[g][m]
      BY <1>7, <2>1, <2>3
    <3>2. rank[g] \in 2..4 /\ Leads(tables[g][m])
      BY <1>7, <2>1, <2>3
    <3> QED
      BY <1>4, <1>8, <3>1, <3>2
  <2> QED
    BY <2>2, <2>3
<1>10. \A g \in DOMAIN tables, m \in Index :
         tables'[g][m].present /\ tables'[g][m].large =>
           /\ after[g] # 4
           /\ after[g] \in 2..3 =>
                \A offset \in 0..Span(after[g])-1 : tables'[g][m].frame + offset \in Frames
  <2>1. SUFFICES ASSUME NEW g \in DOMAIN tables, NEW m \in Index,
                        tables'[g][m].present, tables'[g][m].large
                 PROVE  /\ after[g] # 4
                        /\ after[g] \in 2..3 =>
                             \A offset \in 0..Span(after[g])-1 :
                               tables'[g][m].frame + offset \in Frames
    OBVIOUS
  <2>2. g # new /\ tables'[g][m] = tables[g][m]
    BY <1>1, <1>5, <1>6, <2>1
  <2>3. after[g] = rank[g]
    BY <1>4, <2>2
  <2> QED
    BY <1>2, <2>1, <2>2, <2>3 DEF IsTree
<1>11. \A g, h \in DOMAIN tables : \A m, n \in Index :
         /\ after[g] \in 2..4 /\ Leads(tables'[g][m])
         /\ after[h] \in 2..4 /\ Leads(tables'[h][n])
         /\ tables'[g][m].frame = tables'[h][n].frame
         => g = h /\ m = n
  <2>1. SUFFICES ASSUME NEW g \in DOMAIN tables, NEW h \in DOMAIN tables,
                        NEW m \in Index, NEW n \in Index,
                        after[g] \in 2..4, Leads(tables'[g][m]),
                        after[h] \in 2..4, Leads(tables'[h][n]),
                        tables'[g][m].frame = tables'[h][n].frame
                 PROVE  g = h /\ m = n
    OBVIOUS
  <2>2. \/ g = f /\ m = k /\ tables'[g][m].frame = new
        \/ /\ tables'[g][m] = tables[g][m] /\ rank[g] \in 2..4 /\ Leads(tables[g][m])
           /\ tables[g][m].frame # new
    BY <1>6, <1>7, <1>8, <2>1
  <2>3. \/ h = f /\ n = k /\ tables'[h][n].frame = new
        \/ /\ tables'[h][n] = tables[h][n] /\ rank[h] \in 2..4 /\ Leads(tables[h][n])
           /\ tables[h][n].frame # new
    BY <1>6, <1>7, <1>8, <2>1
  <2>4. CASE g = f /\ m = k /\ h = f /\ n = k
    BY <2>4
  <2>5. CASE /\ tables'[g][m] = tables[g][m] /\ rank[g] \in 2..4 /\ Leads(tables[g][m])
             /\ tables'[h][n] = tables[h][n] /\ rank[h] \in 2..4 /\ Leads(tables[h][n])
    BY <1>2, <2>1, <2>5, OneParent
  <2> QED
    BY <2>1, <2>2, <2>3, <2>4, <2>5
<1>12. IsTree(tables', after)
  BY <1>1, <1>2, <1>4, <1>9, <1>10, <1>11 DEF IsTree
<1> QED
  BY <1>12 DEF after

\* Where an entry led before it still leads, and the page that now has one more
\* table on its way has no frame yet: no page is mapped or unmapped.
LEMMA AddMapsNone ==
  ASSUME TypedTables, NEW rank, IsTree(tables, rank),
         NEW f \in DOMAIN tables, NEW l \in 2..LEVELS, rank[f] = l,
         NEW k \in Index, ~tables[f][k].present,
         NEW new \in DOMAIN tables, rank[new] = 0, Added(f, k, new), NEW v \in Pages
  PROVE  /\ Pml4e(v).present => Pml4e(v)' = Pml4e(v)
         /\ Pml4e(v).present /\ Leads(Pdpte(v)) => Pdpte(v)' = Pdpte(v)
         /\ Pml4e(v).present /\ Leads(Pdpte(v)) /\ Leads(Pde(v)) => Pde(v)' = Pde(v)
         /\ Walk(v)' = Walk(v)
<1>0. ASSUME NEW i \in 1..4 PROVE Digits(v)[i] \in Index
  BY DigitOf DEF LEVELS
<1>1. /\ DOMAIN tables' = DOMAIN tables
      /\ \A g \in DOMAIN tables, m \in Index :
           tables'[g][m] = IF g = new THEN NotPresent
                           ELSE IF g = f /\ m = k THEN TableEntry(new) ELSE tables[g][m]
  BY DEF Added
<1>2. ~NotPresent.present /\ TableEntry(new).present /\ TableEntry(new).frame = new
      /\ ~TableEntry(new).large
  BY DEF NotPresent, TableEntry
<1>3. ASSUME NEW g \in DOMAIN tables, rank[g] # 0, NEW i \in 1..4
      PROVE  \/ tables'[g][Digits(v)[i]] = tables[g][Digits(v)[i]]
             \/ /\ ~tables[g][Digits(v)[i]].present
                /\ tables'[g][Digits(v)[i]] = TableEntry(new)
  BY <1>0, <1>1, <1>3
<1>4. ASSUME NEW i \in 1..4 PROVE tables'[new][Digits(v)[i]] = NotPresent
  BY <1>0, <1>1
<1>5. Cr3 \in DOMAIN tables /\ rank[Cr3] # 0
  BY DEF TypedTables, IsTree, LEVELS
<1>6. \/ Pml4e(v)' = Pml4e(v)
      \/ ~Pml4e(v).present /\ Pml4e(v)' = TableEntry(new) /\ Pdpte(v)' = NotPresent
  <2>1. Pml4e(v)' = tables'[Cr3][Digits(v)[4]] /\ Pml4e(v) = tables[Cr3][Digits(v)[4]]
    BY <1>1, <1>5, NextEntries DEF Pml4e, EntryAt
  <2>2. Pml4e(v)' = TableEntry(new) => Pdpte(v)' = NotPresent
    BY <1>1, <1>2, <1>4, NextEntries
  <2> QED
    BY <1>3, <1>5, <2>1, <2>2
<1>7. Pml4e(v).present =>
        \/ Pdpte(v)' = Pdpte(v)
        \/ ~Pdpte(v).present /\ Pdpte(v)' = TableEntry(new) /\ Pde(v)' = NotPresent
  <2> SUFFICES ASSUME Pml4e(v).present
               PROVE  \/ Pdpte(v)' = Pdpte(v)
                      \/ ~Pdpte(v).present /\ Pdpte(v)' = TableEntry(new) /\ Pde(v)' = NotPresent
    OBVIOUS
  <2> DEFINE g == Pml4e(v).frame
  <2>1. g \in DOMAIN tables /\ rank[g] # 0 /\ Pml4e(v)' = Pml4e(v)
    BY <1>6, PathRanks
  <2>2. Pdpte(v)' = tables'[g][Digits(v)[3]] /\ Pdpte(v) = tables[g][Digits(v)[3]]
    BY <1>1, <2>1, NextEntries DEF Pdpte, EntryAt
  <2>3. Pdpte(v)' = TableEntry(new) => Pde(v)' = NotPresent
    BY <1>1, <1>2, <1>4, NextEntries
  <2> QED
    BY <1>3, <2>1, <2>2, <2>3
<1>8. Pml4e(v).present /\ Leads(Pdpte(v)) =>
        \/ Pde(v)' = Pde(v)
        \/ ~Pde(v).present /\ Pde(v)' = TableEntry(new) /\ Pte(v)' = NotPresent
  <2> SUFFICES ASSUME Pml4e(v).present, Leads(Pdpte(v))
               PROVE  \/ Pde(v)' = Pde(v)
                      \/ ~Pde(v).present /\ Pde(v)' = TableEntry(new) /\ Pte(v)' = NotPresent
    OBVIOUS
  <2> DEFINE g == Pdpte(v).frame
  <2>1. g \in DOMAIN tables /\ rank[g] # 0 /\ Pdpte(v)' = Pdpte(v)
    BY <1>7, PathRanks DEF Leads
  <2>2. Pde(v)' = tables'[g][Digits(v)[2]] /\ Pde(v) = tables[g][Digits(v)[2]]
    BY <1>1, <2>1, NextEntries DEF Pde, EntryAt
  <2>3. Pde(v)' = TableEntry(new) => Pte(v)' = NotPresent
    BY <1>1, <1>2, <1>4, NextEntries
  <2> QED
    BY <1>3, <2>1, <2>2, <2>3
<1>9. ASSUME Pml4e(v).present, Leads(Pdpte(v)), Leads(Pde(v)) PROVE Pte(v)' = Pte(v)
  <2> DEFINE g == Pde(v).frame
  <2>1. g \in DOMAIN tables /\ rank[g] = 1 /\ Pde(v)' = Pde(v)
    BY <1>8, <1>9, PathRanks DEF Leads
  <2>2. g # f /\ g # new
    BY <2>1
  <2> QED
    BY <1>0, <1>1, <2>1, <2>2, NextEntries DEF Pte, EntryAt
<1>10. Walk(v)' = Walk(v)
  <2>1. CASE ~Pml4e(v).present
    BY <1>2, <1>6, <2>1, NextWalk DEF Walk
  <2>2. CASE Pml4e(v).present /\ ~Leads(Pdpte(v))
    BY <1>2, <1>6, <1>7, <2>2, NextWalk DEF Walk, Leads
  <2>3. CASE Pml4e(v).present /\ Leads(Pdpte(v)) /\ ~Leads(Pde(v))
    BY <1>2, <1>6, <1>7, <1>8, <2>3, NextWalk DEF Walk, Leads
  <2>4. CASE Pml4e(v).present /\ Leads(Pdpte(v)) /\ Leads(Pde(v))
    BY <1>6, <1>7, <1>8, <1>9, <2>4, NextWalk DEF Walk, Leads
  <2> QED
    BY <2>1, <2>2, <2>3, <2>4
<1> QED
  BY <1>6, <1>7, <1>8, <1>10 DEF Leads

-----------------------------------------------------------------------------
(* The serial port.                                                        *)

\* The seven writes program a UART whose divisor is hidden when they begin.
LEMMA SerialInit ==
  ASSUME NEW u \in Uarts, u.sent = FALSE, u.lcr < 128
  PROVE  serial_init(u) \in Uarts /\ SerialReady(serial_init(u))
<1> DEFINE u1 == Write(1, u)
           u2 == Write(2, u1)
           u3 == Write(3, u2)
           u4 == Write(4, u3)
           u5 == Write(5, u4)
           u6 == Write(6, u5)
           u7 == Write(7, u6)
<1>0. ~(u.lcr >= 128)
  BY DEF Uarts
<1>1. /\ u1 \in Uarts /\ u1.sent = FALSE
      /\ u1.ier = 0
  <2>1. u1 = outb(u, 1, 0)
    BY DEF Write, InitWrites
  <2> HIDE DEF u1
  <2>2. u1 = [u EXCEPT !.ier = 0]
    BY <1>0, <2>1 DEF outb
  <2>3. u1 \in Uarts
    BY <1>0, <2>2, SMTT(30) DEF Uarts
  <2>4. u \in Uarts
    BY <1>0, Zenon
  <2>5. u1.sent = u.sent /\ u1.ier = 0
    BY <2>2, <2>4, Zenon DEF Uarts
  <2> QED
    BY <1>0, <2>3, <2>5, Zenon
<1> HIDE DEF u1
<1>2. /\ u2 \in Uarts /\ u2.sent = FALSE
      /\ u2.ier = 0 /\ u2.lcr = 128
  <2>1. u2 = outb(u1, 3, 128)
    BY DEF Write, InitWrites
  <2> HIDE DEF u2
  <2>2. u2 = [u1 EXCEPT !.lcr = 128]
    BY <2>1 DEF outb
  <2>3. u2 \in Uarts
    BY <1>1, <2>2, SMTT(30) DEF Uarts
  <2>4. u1 \in Uarts
    BY <1>1, Zenon
  <2>5. u2.sent = u1.sent /\ u2.lcr = 128
    BY <2>2, <2>4, Zenon DEF Uarts
  <2>6. u2.ier = u1.ier
    BY <2>2, <2>4, Zenon DEF Uarts
  <2> QED
    BY <1>1, <2>3, <2>5, <2>6, Zenon
<1> HIDE DEF u2
<1>3. /\ u3 \in Uarts /\ u3.sent = FALSE
      /\ u3.ier = 0 /\ u3.lcr = 128 /\ u3.divisor_low = 3
  <2>1. u3 = outb(u2, 0, 3)
    BY DEF Write, InitWrites
  <2> HIDE DEF u3
  <2>0. u2.lcr >= 128
    BY <1>2
  <2>2. u3 = [u2 EXCEPT !.divisor_low = 3]
    BY <2>0, <2>1 DEF outb
  <2>3. u3 \in Uarts
    BY <1>2, <2>2, SMTT(30) DEF Uarts
  <2>4. u2 \in Uarts
    BY <1>2, Zenon
  <2>5. u3.sent = u2.sent /\ u3.divisor_low = 3
    BY <2>2, <2>4, Zenon DEF Uarts
  <2>6. u3.ier = u2.ier /\ u3.lcr = u2.lcr
    BY <2>2, <2>4, Zenon DEF Uarts
  <2> QED
    BY <1>2, <2>3, <2>5, <2>6, Zenon
<1> HIDE DEF u3
<1>4. /\ u4 \in Uarts /\ u4.sent = FALSE
      /\ u4.ier = 0 /\ u4.lcr = 128 /\ u4.divisor_low = 3 /\ u4.divisor_high = 0
  <2>1. u4 = outb(u3, 1, 0)
    BY DEF Write, InitWrites
  <2> HIDE DEF u4
  <2>0. u3.lcr >= 128
    BY <1>3
  <2>2. u4 = [u3 EXCEPT !.divisor_high = 0]
    BY <2>0, <2>1 DEF outb
  <2>3. u4 \in Uarts
    BY <1>3, <2>2, SMTT(30) DEF Uarts
  <2>4. u3 \in Uarts
    BY <1>3, Zenon
  <2>5. u4.sent = u3.sent /\ u4.divisor_high = 0
    BY <2>2, <2>4, Zenon DEF Uarts
  <2>6. u4.ier = u3.ier /\ u4.lcr = u3.lcr
    BY <2>2, <2>4, Zenon DEF Uarts
  <2>7. u4.divisor_low = u3.divisor_low
    BY <2>2, <2>4, Zenon DEF Uarts
  <2> QED
    BY <1>3, <2>3, <2>5, <2>6, <2>7, Zenon
<1> HIDE DEF u4
<1>5. /\ u5 \in Uarts /\ u5.sent = FALSE
      /\ u5.ier = 0 /\ u5.lcr = 3 /\ u5.divisor_low = 3 /\ u5.divisor_high = 0
  <2>1. u5 = outb(u4, 3, 3)
    BY DEF Write, InitWrites
  <2> HIDE DEF u5
  <2>2. u5 = [u4 EXCEPT !.lcr = 3]
    BY <2>1 DEF outb
  <2>3. u5 \in Uarts
    BY <1>4, <2>2, SMTT(30) DEF Uarts
  <2>4. u4 \in Uarts
    BY <1>4, Zenon
  <2>5. u5.sent = u4.sent /\ u5.lcr = 3
    BY <2>2, <2>4, Zenon DEF Uarts
  <2>6. u5.ier = u4.ier /\ u5.divisor_low = u4.divisor_low
    BY <2>2, <2>4, Zenon DEF Uarts
  <2>7. u5.divisor_high = u4.divisor_high
    BY <2>2, <2>4, Zenon DEF Uarts
  <2> QED
    BY <1>4, <2>3, <2>5, <2>6, <2>7, Zenon
<1> HIDE DEF u5
<1>6. /\ u6 \in Uarts /\ u6.sent = FALSE
      /\ u6.ier = 0 /\ u6.lcr = 3 /\ u6.divisor_low = 3 /\ u6.divisor_high = 0
  <2>1. u6 = outb(u5, 2, 199)
    BY DEF Write, InitWrites
  <2> HIDE DEF u6
  <2>2. u6 = [u5 EXCEPT !.fcr = 199]
    BY <2>1 DEF outb
  <2>3. u6 \in Uarts
    BY <1>5, <2>2, SMTT(30) DEF Uarts
  <2>4. u5 \in Uarts
    BY <1>5, Zenon
  <2>5. u6.sent = u5.sent /\ u6.fcr = 199
    BY <2>2, <2>4, Zenon DEF Uarts
  <2>6. u6.ier = u5.ier /\ u6.lcr = u5.lcr
    BY <2>2, <2>4, Zenon DEF Uarts
  <2>7. u6.divisor_low = u5.divisor_low /\ u6.divisor_high = u5.divisor_high
    BY <2>2, <2>4, Zenon DEF Uarts
  <2> QED
    BY <1>5, <2>3, <2>5, <2>6, <2>7, Zenon
<1> HIDE DEF u6
<1>7. /\ u7 \in Uarts /\ u7.sent = FALSE
      /\ u7.ier = 0 /\ u7.lcr = 3 /\ u7.divisor_low = 3 /\ u7.divisor_high = 0
  <2>1. u7 = outb(u6, 4, 11)
    BY DEF Write, InitWrites
  <2> HIDE DEF u7
  <2>2. u7 = [u6 EXCEPT !.mcr = 11]
    BY <2>1 DEF outb
  <2>3. u7 \in Uarts
    BY <1>6, <2>2, SMTT(30) DEF Uarts
  <2>4. u6 \in Uarts
    BY <1>6, Zenon
  <2>5. u7.sent = u6.sent /\ u7.mcr = 11
    BY <2>2, <2>4, Zenon DEF Uarts
  <2>6. u7.ier = u6.ier /\ u7.lcr = u6.lcr
    BY <2>2, <2>4, Zenon DEF Uarts
  <2>7. u7.divisor_low = u6.divisor_low /\ u7.divisor_high = u6.divisor_high
    BY <2>2, <2>4, Zenon DEF Uarts
  <2> QED
    BY <1>6, <2>3, <2>5, <2>6, <2>7, Zenon
<1> HIDE DEF u7
<1>8. serial_init(u) = u7
  BY DEF serial_init, u1, u2, u3, u4, u5, u6, u7
<1> QED
  BY <1>7, <1>8, Zenon DEF SerialReady

-----------------------------------------------------------------------------
(* The invariant at the start.                                             *)

LEMMA InitTree ==
  ASSUME PagingInit
  PROVE  /\ ScratchFrames \cup {Cr3} \subseteq DOMAIN tables /\ Memory
         /\ \A f \in DOMAIN tables : tables[f] \in [Index -> Entry]
         /\ TreeInv
<1>1. PICK t \in BootTables :
        tables = [f \in DOMAIN t \cup ScratchFrames |->
                    IF f \in DOMAIN t THEN t[f] ELSE EmptyTable]
  BY DEF PagingInit
<1>2. /\ Cr3 \in DOMAIN t /\ DOMAIN t \subseteq Frames \ ScratchFrames
      /\ \A f \in DOMAIN t : t[f] \in [Index -> Entry]
      /\ \E rank \in [DOMAIN t -> 1..LEVELS] : IsTree(t, rank)
  BY BootTablesAssumption
<1>3. PICK r \in [DOMAIN t -> 1..LEVELS] : IsTree(t, r)
  BY <1>2
<1>4. /\ DOMAIN tables = DOMAIN t \cup ScratchFrames
      /\ \A f \in DOMAIN t : tables[f] = t[f]
      /\ \A f \in DOMAIN tables : f \notin DOMAIN t => tables[f] = EmptyTable
  BY <1>1
<1>5. NotPresent \in Entry
  BY Sizes DEF NotPresent, Entry
<1>6. EmptyTable \in [Index -> Entry] /\ \A k \in Index : EmptyTable[k] = NotPresent
  BY <1>5 DEF EmptyTable
<1>7. \A f \in DOMAIN tables : tables[f] \in [Index -> Entry]
  BY <1>2, <1>4, <1>6
<1>8. ScratchFrames \cup {Cr3} \subseteq DOMAIN tables /\ Memory
  BY <1>2, <1>4, Sizes DEF Memory
<1> DEFINE rank == [f \in DOMAIN tables |-> IF f \in DOMAIN t THEN r[f] ELSE 0]
<1>9. /\ rank \in [DOMAIN tables -> 0..LEVELS]
      /\ \A f \in DOMAIN t : rank[f] = r[f]
      /\ \A f \in DOMAIN tables : f \notin DOMAIN t => rank[f] = 0
  <2>1. 0 \in 0..LEVELS /\ 1..LEVELS \subseteq 0..LEVELS
    BY DEF LEVELS
  <2>2. \A f \in DOMAIN tables : (IF f \in DOMAIN t THEN r[f] ELSE 0) \in 0..LEVELS
    BY <1>4, <2>1
  <2> QED
    BY <1>4, <2>2
<1> HIDE DEF rank
<1>10. \A f \in DOMAIN tables, k \in Index : f \notin DOMAIN t => ~tables[f][k].present
  BY <1>4, <1>6 DEF NotPresent
<1>11. IsTree(tables, rank)
  <2>1. rank \in [DOMAIN tables -> 0..LEVELS] /\ rank[Cr3] = LEVELS
    BY <1>2, <1>3, <1>9 DEF IsTree
  <2>2. ASSUME NEW f \in DOMAIN tables, NEW k \in Index
        PROVE  /\ rank[f] \in 2..LEVELS /\ Leads(tables[f][k]) =>
                    /\ tables[f][k].frame \in DOMAIN tables
                    /\ rank[tables[f][k].frame] = rank[f] - 1
               /\ tables[f][k].present /\ tables[f][k].large =>
                    /\ rank[f] # LEVELS
                    /\ rank[f] \in 2..3 =>
                         \A offset \in 0..Span(rank[f])-1 : tables[f][k].frame + offset \in Frames
    <3>1. CASE f \in DOMAIN t
      <4>1. tables[f] = t[f] /\ rank[f] = r[f]
        BY <1>4, <1>9, <3>1
      <4>2. /\ r[f] \in 2..LEVELS /\ Leads(t[f][k]) =>
                 t[f][k].frame \in DOMAIN t /\ r[t[f][k].frame] = r[f] - 1
            /\ t[f][k].present /\ t[f][k].large =>
                 /\ r[f] # LEVELS
                 /\ r[f] \in 2..3 =>
                      \A offset \in 0..Span(r[f])-1 : t[f][k].frame + offset \in Frames
        BY <1>3, <3>1 DEF IsTree
      <4> QED
        BY <1>4, <1>9, <4>1, <4>2
    <3>2. CASE f \notin DOMAIN t
      BY <1>10, <3>2 DEF Leads
    <3> QED
      BY <3>1, <3>2
  <2>3. ASSUME NEW f \in DOMAIN tables, NEW g \in DOMAIN tables,
               NEW k \in Index, NEW m \in Index,
               rank[f] \in 2..LEVELS, Leads(tables[f][k]),
               rank[g] \in 2..LEVELS, Leads(tables[g][m]),
               tables[f][k].frame = tables[g][m].frame
        PROVE  f = g /\ k = m
    <3>1. f \in DOMAIN t /\ g \in DOMAIN t
      BY <1>10, <2>3 DEF Leads
    <3>2. /\ tables[f] = t[f] /\ rank[f] = r[f]
          /\ tables[g] = t[g] /\ rank[g] = r[g]
      BY <1>4, <1>9, <3>1
    <3> QED
      BY <1>3, <2>3, <3>1, <3>2 DEF IsTree
  <2> QED
    BY <2>1, <2>2, <2>3 DEF IsTree
<1>12. Ranked(rank)
  <2>1. ASSUME NEW k \in 0..SCRATCH-1 PROVE rank[Scratch(k)] = 0
    <3>1. Scratch(k) \in ScratchFrames
      BY DEF Scratch, ScratchFrames
    <3> QED
      BY <1>2, <1>4, <1>9, <3>1
  <2>2. level \notin 1..LEVELS
    BY DEF PagingInit, Returned, LEVELS
  <2> QED
    BY <1>11, <2>1, <2>2 DEF Ranked
<1> QED
  BY <1>7, <1>8, <1>9, <1>12 DEF TreeInv

LEMMA FirstPage == 0 \in Pages
<1> DEFINE n == FAN * FAN * FAN * FAN
<1>1. n \in Nat \ {0}
  BY Sizes
<1> HIDE DEF n
<1>2. 0 \in 0..n-1
  BY <1>1
<1> QED
  BY <1>2 DEF n, Pages

LEMMA InitInv == Init => IInv
<1> SUFFICES ASSUME Init PROVE IInv
  OBVIOUS
<1>1. PagingInit
  BY DEF Init
<1>2. /\ kernel_phys_base = 0 /\ kernel_virt_base = 0 /\ pt_scratch_used = 0
      /\ call = [virt |-> 0, phys |-> 0] /\ level = Returned /\ table = 0
      /\ wild = FALSE /\ tlb = {}
  BY <1>1 DEF PagingInit
<1>3. /\ at = "checks" /\ answers \in Answers /\ g_framebuffer = None
      /\ hhdm_offset = 0 /\ uart \in BootUarts /\ calls = 0
  BY DEF Init
<1>4. PagingTypeOK
  <2>1. /\ ScratchFrames \cup {Cr3} \subseteq DOMAIN tables
        /\ \A f \in DOMAIN tables : tables[f] \in [Index -> Entry]
    BY <1>1, InitTree
  <2>2. call \in [virt : Pages, phys : Frames]
    BY <1>2, FirstPage, Sizes, Zenon
  <2>3. pt_scratch_used \in Nat /\ level \in 0..Returned
    BY <1>2 DEF Returned, LEVELS
  <2>4. wild \in BOOLEAN /\ table \in Frames /\ tlb \subseteq Pages \X Frames
    BY <1>2, Sizes, Zenon
  <2> QED
    BY <2>1, <2>2, <2>3, <2>4 DEF PagingTypeOK
<1>5. TypeOK
  BY <1>3, <1>4, BootAssumption DEF TypeOK
<1>6. Memory /\ TreeInv
  BY <1>1, InitTree
<1>7. PathInv /\ WildInv /\ MappedInv /\ TlbInv
  BY <1>2, <1>3 DEF PathInv, WildInv, MappedInv, TlbInv, Returned, LEVELS
<1>8. OrderInv /\ FirstInv
  BY <1>2, <1>3 DEF OrderInv, FirstInv
<1> QED
  BY <1>5, <1>6, <1>7, <1>8 DEF IInv

-----------------------------------------------------------------------------
(* Steps that leave the tables alone.                                      *)

\* The page of the call in the next state, by name.
LEMMA CallEntries ==
  ASSUME NEW w, call.virt' = w
  PROVE  /\ Pml4e(call.virt)' = Pml4e(w)' /\ Pdpte(call.virt)' = Pdpte(w)'
         /\ Pde(call.virt)' = Pde(w)' /\ Walk(call.virt)' = Walk(w)'
         /\ Impassable(call.virt)' = Impassable(w)'
<1>1. Pml4e(call.virt)' = Pml4e(w)'
  BY DEF Pml4e, EntryAt
<1>2. Pdpte(call.virt)' = Pdpte(w)'
  BY <1>1 DEF Pdpte, EntryAt
<1>3. Pde(call.virt)' = Pde(w)'
  BY <1>2 DEF Pde, EntryAt
<1>4. Pte(call.virt)' = Pte(w)'
  BY <1>3 DEF Pte, EntryAt
<1>5. Walk(call.virt)' = Walk(w)'
  BY <1>1, <1>2, <1>3, <1>4 DEF Walk
<1>6. Impassable(call.virt)' = Impassable(w)'
  BY <1>1, <1>2, <1>3 DEF Impassable
<1> QED
  BY <1>1, <1>2, <1>3, <1>5, <1>6

LEMMA Typed ==
  ASSUME IInv
  PROVE  /\ TypedTables /\ call.virt \in Pages /\ call.phys \in Frames
         /\ level \in 0..5 /\ pt_scratch_used \in Nat /\ calls \in Nat
BY BootAssumption DEF IInv, TypeOK, PagingTypeOK, TypedTables, Returned, LEVELS

LEMMA TreeStays ==
  ASSUME TreeInv, UNCHANGED <<tables, pt_scratch_used, level, table, wild>>
  PROVE  TreeInv'
BY DEF TreeInv, Ranked

\* What is said of the tables and the call does not change when they do not.
LEMMA Still ==
  ASSUME IInv, UNCHANGED <<tables, mapping>>
  PROVE  /\ Memory' /\ TreeInv' /\ PathInv' /\ WildInv'
         /\ UNCHANGED calls => MappedInv' /\ FirstInv'
         /\ UNCHANGED tlb => TlbInv'
<1> DEFINE w == call.virt
<1>1. /\ tables' = tables /\ pt_scratch_used' = pt_scratch_used /\ call' = call
      /\ level' = level /\ table' = table /\ wild' = wild
  BY DEF mapping
<1>2. PICK v \in Pages : v = call.virt /\ v = call.virt'
  BY <1>1, Typed
<1>3. /\ Pml4e(call.virt)' = Pml4e(call.virt) /\ Pdpte(call.virt)' = Pdpte(call.virt)
      /\ Pde(call.virt)' = Pde(call.virt) /\ Walk(call.virt)' = Walk(call.virt)
  BY <1>1, <1>2, CallEntries, SameTables
<1>4. Impassable(call.virt)' = Impassable(call.virt)
  BY <1>3 DEF Impassable
<1>5. Memory' /\ TreeInv'
  BY <1>1, TreeStays DEF IInv, Memory
<1>6. PathInv' /\ WildInv'
  BY <1>1, <1>3 DEF IInv, PathInv, WildInv
<1>7. UNCHANGED calls => MappedInv'
  BY <1>1, <1>3 DEF IInv, MappedInv, Returned
<1>8. UNCHANGED calls => FirstInv'
  BY <1>1, <1>4 DEF IInv, FirstInv
<1>9. UNCHANGED tlb => TlbInv'
  <2> SUFFICES ASSUME tlb' = tlb, NEW t \in tlb
               PROVE  Walk(t[1])' = t[2] \/ (level' = 0 /\ t[1] = call'.virt)
    BY DEF TlbInv
  <2>1. t[1] \in Pages
    BY DEF IInv, TypeOK, PagingTypeOK
  <2>2. Walk(t[1])' = Walk(t[1])
    BY <1>1, <2>1, SameTables
  <2> QED
    BY <1>1, <2>2 DEF IInv, TlbInv
<1> QED
  BY <1>5, <1>6, <1>7, <1>8, <1>9

LEMMA NextChecks ==
  ASSUME IInv, hcf \/ Checks
  PROVE  IInv'
<1>1. at = "checks" /\ uart \in BootUarts /\ answers \in Answers
  BY DEF hcf, Checks, IInv, OrderInv, TypeOK
<1>2. UNCHANGED <<tables, mapping>> /\ UNCHANGED <<calls, tlb, bases, hhdm_offset, answers>>
  BY DEF hcf, Checks, pvars
<1>3. PagingTypeOK'
  BY <1>2 DEF IInv, TypeOK, PagingTypeOK, mapping
<1>4. /\ TypeOK' /\ OrderInv'
  <2>1. CASE hcf
    BY <1>2, <1>3, <2>1 DEF hcf, IInv, TypeOK, OrderInv, bases, mapping
  <2>2. CASE Checks
    <3>1. uart \in Uarts /\ uart.sent = FALSE /\ uart.lcr < 128
      <4>1. uart \in Uarts /\ ~uart.sent /\ uart.lcr < 128
        BY <1>1, BootAssumption
      <4>2. uart.sent \in BOOLEAN
        BY <4>1, Zenon DEF Uarts
      <4> QED
        BY <4>1, <4>2, Zenon
    <3>2. uart' \in Uarts /\ SerialReady(uart')
      BY <2>2, <3>1, SerialInit DEF Checks
    <3>3. answers.framebuffer_count >= 1 /\ answers.framebuffer_count > 0
      BY <1>1, <2>2 DEF Checks, Unusable, Answers
    <3>4. g_framebuffer' = 0 /\ at' = "bases"
      BY <2>2, <3>3 DEF Checks
    <3>5. TypeOK'
      BY <1>2, <1>3, <3>2, <3>4 DEF IInv, TypeOK
    <3>6. calls' = 0 /\ level' = Returned /\ pt_scratch_used' = 0
      BY <1>1, <1>2 DEF IInv, OrderInv, mapping, Returned
    <3>7. SerialReady(uart)'
      BY <3>2 DEF SerialReady
    <3> QED
      BY <1>2, <3>3, <3>4, <3>5, <3>6, <3>7 DEF OrderInv
  <2> QED
    BY <2>1, <2>2
<1> QED
  BY <1>2, <1>4, Still DEF IInv

LEMMA NextSetBases ==
  ASSUME IInv, SetBases
  PROVE  IInv'
<1>1. UNCHANGED <<tables, mapping>> /\ UNCHANGED <<calls, tlb, answers, g_framebuffer, uart>>
  BY DEF SetBases
<1>2. TypeOK'
  BY <1>1 DEF IInv, TypeOK, PagingTypeOK, mapping, SetBases
<1>3. OrderInv'
  BY <1>1 DEF IInv, OrderInv, SetBases, mapping, SerialReady, Returned
<1> QED
  BY <1>1, <1>2, <1>3, Still DEF IInv

LEMMA NextKernelMain ==
  ASSUME IInv, KernelMain
  PROVE  IInv'
<1>1. /\ UNCHANGED <<tables, mapping>>
      /\ UNCHANGED <<calls, tlb, bases, answers, g_framebuffer, hhdm_offset, uart>>
  BY DEF KernelMain, pvars
<1>2. TypeOK'
  BY <1>1 DEF IInv, TypeOK, PagingTypeOK, mapping, KernelMain
<1>3. OrderInv'
  BY <1>1 DEF IInv, OrderInv, KernelMain, bases, mapping, SerialReady, Returned
<1> QED
  BY <1>1, <1>2, <1>3, Still DEF IInv

LEMMA WalkOf ==
  ASSUME IInv, NEW v \in Pages
  PROVE  Walk(v) \in Frames \cup {Unmapped}
BY WalkTyped, Typed DEF IInv, TreeInv, Ranked

LEMMA NextTlb ==
  ASSUME IInv, NEW virt \in Pages, TlbFill(virt), UNCHANGED bvars
  PROVE  IInv'
<1>1. UNCHANGED <<tables, mapping>> /\ UNCHANGED <<bases, bvars>>
  BY DEF TlbFill
<1>2. /\ UNCHANGED <<calls, at, answers, g_framebuffer, hhdm_offset, uart>>
      /\ UNCHANGED <<tables, pt_scratch_used, call, level, table, wild>>
      /\ UNCHANGED <<kernel_phys_base, kernel_virt_base>>
  BY <1>1 DEF bvars, mapping, bases
<1>3. Walk(virt) \in Frames /\ tlb' = tlb \cup {<<virt, Walk(virt)>>}
  BY WalkOf DEF TlbFill
<1>4. TypeOK'
  BY <1>2, <1>3 DEF IInv, TypeOK, PagingTypeOK
<1>5. OrderInv'
  BY <1>2 DEF IInv, OrderInv, SerialReady, Returned
<1>6. TlbInv'
  <2> SUFFICES ASSUME NEW t \in tlb'
               PROVE  Walk(t[1])' = t[2] \/ (level' = 0 /\ t[1] = call'.virt)
    BY DEF TlbInv
  <2>1. t[1] \in Pages
    BY <1>3 DEF IInv, TypeOK, PagingTypeOK
  <2>2. Walk(t[1])' = Walk(t[1])
    BY <1>2, <2>1, SameTables
  <2>3. t \in tlb \/ t = <<virt, Walk(virt)>>
    BY <1>3
  <2> QED
    BY <1>2, <2>2, <2>3 DEF IInv, TlbInv
<1> QED
  BY <1>1, <1>2, <1>4, <1>5, <1>6, Still DEF IInv

-----------------------------------------------------------------------------
(* The steps of map_page.                                                  *)

\* A call begins: no translation the CPU remembers is out of date by then.
LEMMA NextCall ==
  ASSUME IInv, NEW virt \in Pages, NEW phys \in Frames, MapPageCall(virt, phys)
  PROVE  /\ PagingTypeOK' /\ Memory' /\ TreeInv' /\ PathInv' /\ WildInv' /\ TlbInv'
         /\ level' = 4 /\ level = Returned /\ ~wild'
<1>1. /\ level = Returned /\ call' = [virt |-> virt, phys |-> phys]
      /\ level' = 4 /\ table' = Cr3 /\ tables' = tables
      /\ pt_scratch_used' = pt_scratch_used /\ wild' = wild /\ tlb' = tlb
  BY DEF MapPageCall, LEVELS
<1>2. ~wild
  BY <1>1 DEF IInv, WildInv, Returned, LEVELS
<1>3. Cr3 \in DOMAIN tables /\ Cr3 \in Frames
  BY Typed DEF IInv, Memory, TypedTables
<1>4. PagingTypeOK'
  <2>1. call' \in [virt : Pages, phys : Frames]
    BY <1>1
  <2> QED
    BY <1>1, <1>3, <2>1 DEF IInv, TypeOK, PagingTypeOK, Returned, LEVELS
<1>5. TreeInv'
  <2>1. PICK rank \in [DOMAIN tables -> 0..LEVELS] : Ranked(rank)
    BY DEF IInv, TreeInv
  <2>2. rank[Cr3] = LEVELS
    BY <2>1 DEF Ranked, IsTree
  <2>3. Ranked(rank)'
    BY <1>1, <1>3, <2>1, <2>2 DEF Ranked, LEVELS
  <2> QED
    BY <1>1, <2>1, <2>3 DEF TreeInv
<1>6. Memory' /\ PathInv' /\ WildInv'
  BY <1>1, <1>2 DEF IInv, Memory, PathInv, WildInv
<1>7. TlbInv'
  <2> SUFFICES ASSUME NEW t \in tlb PROVE Walk(t[1])' = t[2]
    BY <1>1 DEF TlbInv
  <2>1. t[1] \in Pages
    BY DEF IInv, TypeOK, PagingTypeOK
  <2>2. Walk(t[1])' = Walk(t[1])
    BY <1>1, <2>1, SameTables
  <2>3. level # 0
    BY <1>1 DEF Returned, LEVELS
  <2> QED
    BY <2>2, <2>3 DEF IInv, TlbInv
<1> QED
  BY <1>1, <1>2, <1>4, <1>5, <1>6, <1>7

LEMMA NextMapText ==
  ASSUME IInv, MapText
  PROVE  IInv'
<1>1. /\ at = "map" /\ at' = "mapping" /\ calls' = calls + 1
      /\ MapPageCall(hhdm_offset + TEXT, TEXT)
      /\ UNCHANGED <<answers, g_framebuffer, hhdm_offset, uart>>
  BY DEF MapText
<1>2. /\ calls = 0 /\ pt_scratch_used = 0 /\ hhdm_offset = HHDM
      /\ kernel_phys_base = PHYS_BASE /\ kernel_virt_base = VIRT_BASE
      /\ g_framebuffer = 0 /\ answers.framebuffer_count >= 1 /\ SerialReady(uart)
  BY <1>1 DEF IInv, OrderInv
<1>3. HHDM + TEXT \in Pages /\ TEXT \in Frames /\ MapPageCall(HHDM + TEXT, TEXT)
  BY <1>1, <1>2, BootAssumption
<1>4. /\ PagingTypeOK' /\ Memory' /\ TreeInv' /\ PathInv' /\ WildInv' /\ TlbInv'
      /\ level' = 4 /\ ~wild'
  BY <1>3, NextCall
<1>5. /\ pt_scratch_used' = 0 /\ call' = [virt |-> HHDM + TEXT, phys |-> TEXT]
      /\ kernel_phys_base' = PHYS_BASE /\ kernel_virt_base' = VIRT_BASE
  BY <1>2, <1>3 DEF MapPageCall, bases
<1>6. calls' = 1
  BY <1>1, <1>2
<1>7. TypeOK'
  BY <1>1, <1>4, <1>6, BootAssumption DEF IInv, TypeOK
<1>8. OrderInv'
  BY <1>1, <1>2, <1>5, <1>6 DEF OrderInv, SerialReady
<1>9. MappedInv' /\ FirstInv'
  BY <1>4, <1>5, <1>6 DEF MappedInv, FirstInv, Returned, LEVELS
<1> QED
  BY <1>4, <1>7, <1>8, <1>9 DEF IInv

LEMMA NextKernelMaps ==
  ASSUME IInv, NEW virt \in Pages, NEW phys \in Frames, KernelMaps(virt, phys)
  PROVE  IInv'
<1>1. /\ at = "kernel_main" /\ calls < MaxCalls /\ calls' = calls + 1
      /\ MapPageCall(virt, phys)
      /\ UNCHANGED <<at, answers, g_framebuffer, hhdm_offset, uart>>
  BY DEF KernelMaps
<1>2. /\ PagingTypeOK' /\ Memory' /\ TreeInv' /\ PathInv' /\ WildInv' /\ TlbInv'
      /\ level' = 4 /\ ~wild'
  BY <1>1, NextCall
<1>3. calls \in Nat /\ calls >= 1 /\ calls' >= 2 /\ calls' \in 0..MaxCalls
  BY <1>1, Typed, BootAssumption DEF IInv, OrderInv
<1>4. kernel_phys_base' = kernel_phys_base /\ kernel_virt_base' = kernel_virt_base
  BY <1>1 DEF MapPageCall, bases
<1>5. TypeOK'
  BY <1>1, <1>2, <1>3 DEF IInv, TypeOK
<1>6. OrderInv'
  BY <1>1, <1>3, <1>4 DEF IInv, OrderInv, SerialReady
<1>7. MappedInv' /\ FirstInv'
  BY <1>2, <1>3 DEF MappedInv, FirstInv, Returned, LEVELS
<1> QED
  BY <1>2, <1>5, <1>6, <1>7 DEF IInv

\* The entry map_page looks at is the one the CPU finds.
LEMMA AtEntry ==
  ASSUME IInv, ~wild, level \in 1..LEVELS
  PROVE  /\ TableIndex(call.virt, level) = Digits(call.virt)[level]
         /\ TableIndex(call.virt, level) \in Index
         /\ table \in DOMAIN tables
         /\ level = 4 => tables[table][TableIndex(call.virt, level)] = Pml4e(call.virt)
         /\ level = 3 => tables[table][TableIndex(call.virt, level)] = Pdpte(call.virt)
         /\ level = 2 => tables[table][TableIndex(call.virt, level)] = Pde(call.virt)
<1>1. /\ TableIndex(call.virt, level) = Digits(call.virt)[level]
      /\ TableIndex(call.virt, level) \in Index
  BY Typed, DigitOf
<1>2. table \in DOMAIN tables
  BY DEF IInv, TreeInv, Ranked
<1>3. /\ level = 4 => table = Cr3
      /\ level = 3 => table = Pml4e(call.virt).frame
      /\ level = 2 => table = Pdpte(call.virt).frame
  BY DEF IInv, PathInv
<1>4. /\ level = 4 => tables[table][Digits(call.virt)[level]] = Pml4e(call.virt)
      /\ level = 3 => tables[table][Digits(call.virt)[level]] = Pdpte(call.virt)
      /\ level = 2 => tables[table][Digits(call.virt)[level]] = Pde(call.virt)
  BY <1>2, <1>3 DEF Pml4e, Pdpte, Pde, EntryAt
<1> QED
  BY <1>1, <1>2, <1>4

\* map_page runs only after the bases were set.
LEMMA Running ==
  ASSUME IInv, level \in 0..LEVELS
  PROVE  /\ at \in {"mapping", "kernel_main"}
         /\ kernel_phys_base = PHYS_BASE /\ kernel_virt_base = VIRT_BASE
         /\ calls = 1 => at = "mapping"
<1>1. level # Returned
  BY DEF Returned, LEVELS
<1> QED
  BY <1>1 DEF IInv, OrderInv, TypeOK

\* A step of map_page is none of _start.
LEMMA StartWaits ==
  ASSUME IInv, level \in 0..LEVELS, UNCHANGED <<bases, bvars>>
  PROVE  /\ OrderInv'
         /\ PagingTypeOK' => TypeOK'
<1>1. /\ UNCHANGED <<calls, at, answers, g_framebuffer, hhdm_offset, uart>>
      /\ UNCHANGED <<kernel_phys_base, kernel_virt_base>>
  BY DEF bvars, bases
<1>2. /\ at \in {"mapping", "kernel_main"} /\ (calls = 1 => at = "mapping")
  BY Running
<1>3. OrderInv'
  BY <1>1, <1>2 DEF IInv, OrderInv, SerialReady
<1>4. PagingTypeOK' => TypeOK'
  BY <1>1 DEF IInv, TypeOK
<1> QED
  BY <1>3, <1>4

\* A table that is followed is the next on the CPU's way, or the way is one that
\* map_page cannot pass.
LEMMA NextFollow ==
  ASSUME IInv, FollowTable, UNCHANGED bvars
  PROVE  IInv'
<1> DEFINE e == tables[table][TableIndex(call.virt, level)]
<1>1. /\ level \in 2..4 /\ ~wild /\ e.present
      /\ table' = e.frame /\ level' = level - 1
      /\ wild' = (e.large \/ e.high \/ e.frame \notin DOMAIN tables)
      /\ UNCHANGED <<tables, bases, pt_scratch_used, call, tlb>>
  BY DEF FollowTable, LEVELS
<1>2. /\ table \in DOMAIN tables /\ TableIndex(call.virt, level) \in Index
      /\ level = 4 => e = Pml4e(call.virt)
      /\ level = 3 => e = Pdpte(call.virt)
      /\ level = 2 => e = Pde(call.virt)
  BY <1>1, AtEntry DEF LEVELS
<1>3. e \in Entry
  BY <1>2, Typed DEF TypedTables
<1>4. PICK rank \in [DOMAIN tables -> 0..LEVELS] : Ranked(rank)
  BY DEF IInv, TreeInv
<1>5. rank[table] = level
  BY <1>1, <1>4 DEF Ranked, LEVELS
<1>6. /\ Leads(e) => e.frame \in DOMAIN tables /\ rank[e.frame] = level - 1
      /\ e.large => level # 4
  <2>1. IsTree(tables, rank)
    BY <1>4 DEF Ranked
  <2> QED
    BY <1>1, <1>2, <1>5, <2>1 DEF IsTree, LEVELS
<1>7. ~wild' => Leads(e) /\ ~e.high
  BY <1>1 DEF Leads
<1>8. wild' => e.large \/ e.high
  BY <1>1, <1>6 DEF Leads
<1> HIDE DEF e
<1>9. PICK v \in Pages : v = call.virt /\ v = call.virt'
  BY <1>1, Typed
<1>10. /\ Pml4e(call.virt)' = Pml4e(call.virt) /\ Pdpte(call.virt)' = Pdpte(call.virt)
       /\ Pde(call.virt)' = Pde(call.virt)
  BY <1>1, <1>9, CallEntries, SameTables
<1>11. Impassable(call.virt)' = Impassable(call.virt)
  BY <1>10 DEF Impassable
<1>12. PagingTypeOK'
  <2>1. e.frame \in Frames
    BY <1>3 DEF Entry
  <2>2. wild' \in BOOLEAN
    BY <1>1
  <2>3. level' \in 0..Returned
    BY <1>1 DEF Returned, LEVELS
  <2> QED
    BY <1>1, <2>1, <2>2, <2>3 DEF IInv, TypeOK, PagingTypeOK
<1>13. Memory'
  BY <1>1 DEF IInv, Memory
<1>14. TreeInv'
  <2>1. ~wild' => table' \in DOMAIN tables /\ rank[table'] = level'
    BY <1>1, <1>6, <1>7
  <2>2. Ranked(rank)'
    BY <1>1, <1>4, <2>1 DEF Ranked
  <2> QED
    BY <1>1, <1>4, <2>2 DEF TreeInv
<1>15. PathInv'
  <2> SUFFICES ASSUME ~wild' PROVE PathInv'
    BY DEF PathInv
  <2>1. Leads(e) /\ ~wild
    BY <1>1, <1>7
  <2>2. CASE level = 4
    BY <1>1, <1>2, <1>10, <2>1, <2>2 DEF PathInv
  <2>3. CASE level = 3
    BY <1>1, <1>2, <1>10, <2>1, <2>3 DEF PathInv, IInv
  <2>4. CASE level = 2
    BY <1>1, <1>2, <1>10, <2>1, <2>4 DEF PathInv, IInv
  <2> QED
    BY <1>1, <2>2, <2>3, <2>4
<1>16. WildInv' /\ MappedInv'
  BY <1>1 DEF WildInv, MappedInv, Returned, LEVELS
<1>17. TlbInv'
  <2> SUFFICES ASSUME NEW t \in tlb PROVE Walk(t[1])' = t[2]
    BY <1>1 DEF TlbInv
  <2>1. t[1] \in Pages
    BY DEF IInv, TypeOK, PagingTypeOK
  <2>2. Walk(t[1])' = Walk(t[1])
    BY <1>1, <2>1, SameTables
  <2> QED
    BY <1>1, <2>2 DEF IInv, TlbInv
<1>18. FirstInv'
  <2> SUFFICES ASSUME calls = 1 PROVE FirstInv'
    BY DEF FirstInv, bvars
  <2>1. calls' = 1 /\ call' = [virt |-> HHDM + TEXT, phys |-> TEXT]
    BY <1>1 DEF IInv, FirstInv, bvars
  <2>2. pt_scratch_used' <= LEVELS - level'
    BY <1>1, Typed DEF IInv, FirstInv, LEVELS
  <2>3. wild' => Impassable(call.virt)
    <3>1. /\ level \in 1..3 => Leads(Pml4e(call.virt))
          /\ level \in 1..2 => Leads(Pdpte(call.virt))
      BY <1>1 DEF IInv, PathInv
    <3>2. CASE level = 4
      BY <1>1, <1>2, <1>6, <1>8, <3>2 DEF Impassable
    <3>3. CASE level = 3
      BY <1>1, <1>2, <1>8, <3>1, <3>3 DEF Impassable, Leads
    <3>4. CASE level = 2
      BY <1>1, <1>2, <1>8, <3>1, <3>4 DEF Impassable, Leads
    <3> QED
      BY <1>1, <3>2, <3>3, <3>4
  <2> QED
    BY <1>11, <2>1, <2>2, <2>3 DEF FirstInv
<1>19. level \in 0..LEVELS /\ UNCHANGED <<bases, bvars>>
  BY <1>1 DEF LEVELS
<1> QED
  BY <1>12, <1>13, <1>14, <1>15, <1>16, <1>17, <1>18, <1>19, StartWaits DEF IInv

\* The scratch table the code takes next lies where v2p says.
LEMMA NextScratch ==
  ASSUME IInv, level \in 1..LEVELS, pt_scratch_used < SCRATCH
  PROVE  /\ v2p(SCRATCH_VIRT + pt_scratch_used) = Scratch(pt_scratch_used)
         /\ Scratch(pt_scratch_used) \in DOMAIN tables
         /\ Scratch(pt_scratch_used) \in Frames
         /\ \A k \in 0..SCRATCH-1 : k > pt_scratch_used => Scratch(k) # Scratch(pt_scratch_used)
         /\ pt_scratch_used \in 0..SCRATCH-1
<1>1. kernel_phys_base = PHYS_BASE /\ kernel_virt_base = VIRT_BASE
  BY Running DEF LEVELS
<1>2. pt_scratch_used \in 0..SCRATCH-1
  BY Typed, Sizes
<1>3. Scratch(pt_scratch_used) \in ScratchFrames
  BY <1>2 DEF Scratch, ScratchFrames
<1>4. v2p(SCRATCH_VIRT + pt_scratch_used) = Scratch(pt_scratch_used)
  BY <1>1 DEF v2p, Scratch, KernelFrame
<1>5. \A k \in 0..SCRATCH-1 : k > pt_scratch_used => Scratch(k) # Scratch(pt_scratch_used)
  BY <1>2, Sizes DEF Scratch, KernelFrame
<1>6. ScratchFrames \subseteq DOMAIN tables
  BY DEF IInv, TypeOK, PagingTypeOK
<1> QED
  BY <1>2, <1>3, <1>4, <1>5, <1>6, Sizes

\* What alloc_table does while scratch tables are left.
LEMMA AllocAdds ==
  ASSUME IInv, AllocTable, pt_scratch_used < SCRATCH, NEW rank, Ranked(rank)
  PROVE  /\ Added(table, TableIndex(call.virt, level), Scratch(pt_scratch_used))
         /\ table' = Scratch(pt_scratch_used) /\ wild' = FALSE
         /\ rank[table] = level /\ rank[Scratch(pt_scratch_used)] = 0
<1> DEFINE new == Scratch(pt_scratch_used)
           k == TableIndex(call.virt, level)
<1>1. /\ level \in 1..LEVELS /\ level \in 2..4 /\ ~wild
  BY DEF AllocTable, LEVELS
<1>2. /\ new \in DOMAIN tables /\ new \in Frames /\ pt_scratch_used \in 0..SCRATCH-1
      /\ v2p(SCRATCH_VIRT + pt_scratch_used) = new
  BY <1>1, NextScratch
<1>3. KernelFrame(SCRATCH_VIRT + pt_scratch_used) = new
  BY DEF Scratch
<1>4. /\ tables' = [tables EXCEPT ![new] = EmptyTable, ![table][k] = TableEntry(new)]
      /\ table' = new /\ wild' = FALSE
  BY <1>2, <1>3 DEF AllocTable
<1>5. rank[table] = level /\ table \in DOMAIN tables
  BY <1>1 DEF Ranked
<1>6. rank[new] = 0
  BY <1>2, Typed DEF Ranked
<1>7. new # table
  BY <1>1, <1>5, <1>6
<1>8. k \in Index
  BY <1>1, AtEntry
<1> HIDE DEF new, k
<1>9. Added(table, k, new)
  BY <1>2, <1>4, <1>5, <1>7, <1>8, Typed, OneAdded
<1> QED
  BY <1>4, <1>5, <1>6, <1>9 DEF new, k

\* A table is added to the way, and no page is mapped or unmapped by that.
LEMMA AllocKeeps ==
  ASSUME IInv, AllocTable
  PROVE  /\ \A v \in Pages : Walk(v)' = Walk(v)
         /\ TypedTables' /\ DOMAIN tables' = DOMAIN tables /\ TreeInv' /\ PathInv'
         /\ table' \in Frames
<1> DEFINE new == Scratch(pt_scratch_used)
           k == TableIndex(call.virt, level)
<1>1. /\ level \in 2..LEVELS /\ level \in 2..4 /\ level \in 1..LEVELS /\ ~wild
      /\ level' = level - 1 /\ pt_scratch_used' = pt_scratch_used + 1
      /\ ~tables[table][k].present /\ UNCHANGED <<call, bases, tlb>>
  BY DEF AllocTable, LEVELS
<1>2. PICK rank \in [DOMAIN tables -> 0..LEVELS] : Ranked(rank)
  BY DEF IInv, TreeInv
<1>3. /\ k \in Index /\ k = Digits(call.virt)[level] /\ table \in DOMAIN tables
  BY <1>1, AtEntry
<1>4. CASE pt_scratch_used < SCRATCH
  <2>1. /\ Added(table, k, new) /\ table' = new /\ wild' = FALSE
        /\ rank[table] = level /\ rank[new] = 0
    BY <1>2, <1>4, AllocAdds
  <2>2. /\ new \in DOMAIN tables /\ new \in Frames /\ pt_scratch_used \in 0..SCRATCH-1
        /\ \A j \in 0..SCRATCH-1 : j > pt_scratch_used => Scratch(j) # new
    BY <1>1, <1>4, NextScratch
  <2>3. TypedTables /\ IsTree(tables, rank)
    BY <1>2, Typed DEF Ranked
  <2>4. \E l \in 2..LEVELS : l = level
    BY <1>1
  <2>5. PICK l \in 2..LEVELS : l = level
    BY <2>4
  <2>6. PICK f \in DOMAIN tables, n \in DOMAIN tables, d \in Index :
           f = table /\ n = new /\ d = k
    BY <1>3, <2>2
  <2>7. Added(f, d, n) /\ rank[f] = l /\ rank[n] = 0 /\ ~tables[f][d].present
    BY <1>1, <2>1, <2>5, <2>6
  <2>8. /\ DOMAIN tables' = DOMAIN tables /\ tables'[table][k] = TableEntry(new)
        /\ \A g \in DOMAIN tables : tables'[g] \in [Index -> Entry]
    <3>1. table # new
      BY <1>1, <2>1
    <3> QED
      BY <1>3, <2>1, <2>2, <3>1 DEF Added
  <2>9. TypedTables'
    BY <2>3, <2>8 DEF TypedTables
  <2>10. TreeInv'
    <3> DEFINE after == [rank EXCEPT ![n] = l - 1]
    <3>1. IsTree(tables', after)
      BY <2>3, <2>7, AddKeepsTree
    <3>2. after[n] = l - 1 /\ \A g \in DOMAIN tables : g # n => after[g] = rank[g]
      BY <1>2
    <3>3. after \in [DOMAIN tables' -> 0..LEVELS]
      BY <3>1 DEF IsTree
    <3> HIDE DEF after
    <3>4. ASSUME NEW j \in 0..SCRATCH-1, j >= pt_scratch_used' PROVE after[Scratch(j)] = 0
      <4>1. j >= pt_scratch_used /\ j > pt_scratch_used
        BY <1>1, <2>2, <3>4
      <4>2. Scratch(j) # n /\ rank[Scratch(j)] = 0
        BY <1>2, <2>2, <2>6, <4>1 DEF Ranked
      <4>3. Scratch(j) \in DOMAIN tables
        BY DEF IInv, TypeOK, PagingTypeOK, Scratch, ScratchFrames
      <4> QED
        BY <3>2, <4>2, <4>3
    <3>5. table' \in DOMAIN tables' /\ after[table'] = level'
      BY <1>1, <2>1, <2>2, <2>5, <2>6, <2>8, <3>2
    <3>6. Ranked(after)'
      BY <3>1, <3>4, <3>5 DEF Ranked
    <3> QED
      BY <3>3, <3>6 DEF TreeInv
  <2>11. \A v \in Pages :
           /\ Pml4e(v).present => Pml4e(v)' = Pml4e(v)
           /\ Pml4e(v).present /\ Leads(Pdpte(v)) => Pdpte(v)' = Pdpte(v)
           /\ Pml4e(v).present /\ Leads(Pdpte(v)) /\ Leads(Pde(v)) => Pde(v)' = Pde(v)
           /\ Walk(v)' = Walk(v)
    BY <2>3, <2>7, AddMapsNone
  <2>12. PathInv'
    <3>1. PICK v \in Pages : v = call.virt /\ v = call.virt'
      BY <1>1, Typed
    <3>2. /\ Pml4e(call.virt)' = Pml4e(v)' /\ Pdpte(call.virt)' = Pdpte(v)'
          /\ Pde(call.virt)' = Pde(v)'
      BY <3>1, CallEntries
    <3>3. Leads(TableEntry(new)) /\ TableEntry(new).frame = new
      BY DEF TableEntry, Leads
    <3> HIDE DEF new, k
    <3>4. CASE level = 4
      <4>1. table = Cr3
        BY <1>1, <3>4 DEF IInv, PathInv
      <4>2. Pml4e(v)' = TableEntry(new)
        BY <1>3, <2>8, <3>1, <3>4, <4>1, NextEntries
      <4> QED
        BY <1>1, <2>1, <3>2, <3>3, <3>4, <4>2 DEF PathInv
    <3>5. CASE level = 3
      <4>1. table = Pml4e(v).frame /\ Leads(Pml4e(v))
        BY <1>1, <3>1, <3>5 DEF IInv, PathInv
      <4>2. Pml4e(v)' = Pml4e(v)
        BY <2>11, <4>1 DEF Leads
      <4>3. Pdpte(v)' = TableEntry(new)
        BY <1>3, <2>8, <3>1, <3>5, <4>1, <4>2, NextEntries
      <4> QED
        BY <1>1, <2>1, <3>2, <3>3, <3>5, <4>1, <4>2, <4>3 DEF PathInv
    <3>6. CASE level = 2
      <4>1. table = Pdpte(v).frame /\ Leads(Pml4e(v)) /\ Leads(Pdpte(v))
        BY <1>1, <3>1, <3>6 DEF IInv, PathInv
      <4>2. Pml4e(v)' = Pml4e(v) /\ Pdpte(v)' = Pdpte(v)
        BY <2>11, <4>1 DEF Leads
      <4>3. Pde(v)' = TableEntry(new)
        BY <1>3, <2>8, <3>1, <3>6, <4>1, <4>2, NextEntries
      <4> QED
        BY <1>1, <2>1, <3>2, <3>3, <3>6, <4>1, <4>2, <4>3 DEF PathInv
    <3> QED
      BY <1>1, <3>4, <3>5, <3>6
  <2> QED
    BY <2>1, <2>2, <2>8, <2>9, <2>10, <2>11, <2>12
<1>5. CASE ~(pt_scratch_used < SCRATCH)
  <2>1. tables' = tables /\ table' = table /\ wild' = TRUE
    BY <1>5 DEF AllocTable
  <2>2. \A v \in Pages : Walk(v)' = Walk(v)
    BY <2>1, SameTables
  <2>3. Ranked(rank)'
    <3>1. ASSUME NEW j \in 0..SCRATCH-1 PROVE ~(j >= pt_scratch_used')
      BY <1>1, <1>5, Typed, Sizes
    <3> QED
      BY <1>2, <2>1, <3>1 DEF Ranked
  <2>4. TreeInv'
    BY <1>2, <2>1, <2>3 DEF TreeInv
  <2>5. PathInv' /\ TypedTables'
    BY <2>1, Typed DEF PathInv, TypedTables
  <2>6. table' \in Frames
    BY <1>3, <2>1 DEF IInv, Memory
  <2> QED
    BY <2>1, <2>2, <2>4, <2>5, <2>6
<1> QED
  BY <1>4, <1>5

LEMMA NextAlloc ==
  ASSUME IInv, AllocTable, UNCHANGED bvars
  PROVE  IInv'
<1>1. /\ level \in 2..4 /\ ~wild /\ level \in 0..LEVELS
      /\ level' = level - 1 /\ pt_scratch_used' = pt_scratch_used + 1
      /\ UNCHANGED <<call, bases, tlb>>
  BY DEF AllocTable, LEVELS
<1>7. wild' \in BOOLEAN
  <2>1. pt_scratch_used < SCRATCH => wild' \in BOOLEAN
    BY DEF AllocTable
  <2>2. ~(pt_scratch_used < SCRATCH) => wild' = TRUE
    BY DEF AllocTable
  <2> QED
    BY <2>1, <2>2
<1>2. /\ \A v \in Pages : Walk(v)' = Walk(v)
      /\ TypedTables' /\ DOMAIN tables' = DOMAIN tables /\ TreeInv' /\ PathInv'
      /\ table' \in Frames
  BY AllocKeeps
<1>3. PagingTypeOK'
  <2>1. level' \in 0..Returned /\ pt_scratch_used' \in Nat
    BY <1>1, Typed DEF Returned, LEVELS
  <2>2. /\ ScratchFrames \cup {Cr3} \subseteq DOMAIN tables'
        /\ \A f \in DOMAIN tables' : tables'[f] \in [Index -> Entry]
    BY <1>2 DEF TypedTables, IInv, TypeOK, PagingTypeOK
  <2> QED
    BY <1>1, <1>2, <1>7, <2>1, <2>2 DEF IInv, TypeOK, PagingTypeOK
<1>4. Memory' /\ WildInv' /\ MappedInv'
  BY <1>1, <1>2 DEF IInv, Memory, WildInv, MappedInv, Returned, LEVELS
<1>5. TlbInv'
  <2> SUFFICES ASSUME NEW t \in tlb PROVE Walk(t[1])' = t[2]
    BY <1>1 DEF TlbInv
  <2>1. t[1] \in Pages
    BY DEF IInv, TypeOK, PagingTypeOK
  <2> QED
    BY <1>1, <1>2, <2>1 DEF IInv, TlbInv
<1>6. FirstInv'
  <2> SUFFICES ASSUME calls = 1 PROVE FirstInv'
    BY DEF FirstInv, bvars
  <2>1. /\ calls' = 1 /\ call' = [virt |-> HHDM + TEXT, phys |-> TEXT]
        /\ pt_scratch_used <= LEVELS - level
    BY <1>1 DEF IInv, FirstInv, bvars, LEVELS
  <2>2. pt_scratch_used < SCRATCH /\ pt_scratch_used' <= LEVELS - level'
    BY <1>1, <2>1, Typed, Sizes DEF LEVELS
  <2>3. ~wild'
    <3>1. PICK rank \in [DOMAIN tables -> 0..LEVELS] : Ranked(rank)
      BY DEF IInv, TreeInv
    <3> QED
      BY <2>2, <3>1, AllocAdds
  <2> QED
    BY <2>1, <2>2, <2>3 DEF FirstInv
<1> QED
  BY <1>1, <1>2, <1>3, <1>4, <1>5, <1>6, StartWaits DEF IInv

\* The store of the entry maps the page of the call, and no other.
LEMMA StoreMaps ==
  ASSUME IInv, StoreEntry
  PROVE  /\ \A v \in Pages : Walk(v)' = IF v = call.virt THEN call.phys ELSE Walk(v)
         /\ TypedTables' /\ DOMAIN tables' = DOMAIN tables /\ TreeInv'
<1>1. /\ level = 1 /\ ~wild /\ level \in 1..LEVELS
      /\ tables' = [tables EXCEPT
                      ![table][TableIndex(call.virt, 1)] = TableEntry(call.phys)]
      /\ level' = 0 /\ UNCHANGED <<pt_scratch_used, call, table, wild>>
  BY DEF StoreEntry, LEVELS
<1>2. PICK rank \in [DOMAIN tables -> 0..LEVELS] : Ranked(rank)
  BY DEF IInv, TreeInv
<1>3. PICK w \in Pages, x \in Frames : w = call.virt /\ x = call.phys
  BY Typed
<1>4. /\ Leads(Pml4e(w)) /\ Leads(Pdpte(w)) /\ Leads(Pde(w))
      /\ table = Pde(w).frame
  BY <1>1, <1>3 DEF IInv, PathInv
<1>5. /\ table \in DOMAIN tables /\ TableIndex(w, 1) = Digits(w)[1] /\ Digits(w)[1] \in Index
  BY <1>1, <1>3, AtEntry
<1>6. TypedTables /\ IsTree(tables, rank)
  BY <1>2, Typed DEF Ranked
<1>7. TableEntry(x) \in Entry
  BY DEF TableEntry, Entry
<1>8. Stored(Pde(w).frame, Digits(w)[1], TableEntry(x))
  <2> DEFINE f == Pde(w).frame
             k == Digits(w)[1]
  <2>1. f \in DOMAIN tables /\ k \in Index
        /\ tables' = [tables EXCEPT ![f][k] = TableEntry(x)]
    BY <1>1, <1>3, <1>4, <1>5
  <2> HIDE DEF f, k
  <2>2. Stored(f, k, TableEntry(x))
    BY <1>6, <1>7, <2>1, OneStore
  <2> QED
    BY <2>2 DEF f, k
<1>9. /\ IsTree(tables', rank)
      /\ \A v \in Pages : Walk(v)' = IF v = w THEN x ELSE Walk(v)
  BY <1>4, <1>6, <1>8, StoreMapsOne DEF Leads
<1>10. DOMAIN tables' = DOMAIN tables /\ TypedTables'
  BY <1>6, <1>8 DEF Stored, TypedTables
<1>11. TreeInv'
  <2>1. Ranked(rank)'
    BY <1>1, <1>2, <1>9 DEF Ranked
  <2> QED
    BY <1>2, <1>10, <2>1 DEF TreeInv
<1> QED
  BY <1>3, <1>9, <1>10, <1>11

LEMMA NextStore ==
  ASSUME IInv, StoreEntry, UNCHANGED bvars
  PROVE  IInv'
<1>1. /\ level = 1 /\ ~wild /\ level \in 0..LEVELS /\ level' = 0
      /\ UNCHANGED <<bases, pt_scratch_used, call, table, wild, tlb>>
  BY DEF StoreEntry, LEVELS
<1>2. /\ \A v \in Pages : Walk(v)' = IF v = call.virt THEN call.phys ELSE Walk(v)
      /\ TypedTables' /\ DOMAIN tables' = DOMAIN tables /\ TreeInv'
  BY StoreMaps
<1>3. PagingTypeOK'
  <2>1. /\ ScratchFrames \cup {Cr3} \subseteq DOMAIN tables'
        /\ \A f \in DOMAIN tables' : tables'[f] \in [Index -> Entry]
    BY <1>2 DEF TypedTables, IInv, TypeOK, PagingTypeOK
  <2>2. level' \in 0..Returned
    BY <1>1 DEF Returned, LEVELS
  <2> QED
    BY <1>1, <2>1, <2>2 DEF IInv, TypeOK, PagingTypeOK
<1>4. Memory' /\ WildInv' /\ PathInv'
  BY <1>1, <1>2 DEF IInv, Memory, WildInv, PathInv
<1>5. MappedInv'
  <2>1. PICK w \in Pages : w = call.virt /\ w = call.virt'
    BY <1>1, Typed
  <2>2. Walk(call.virt)' = call.phys
    BY <1>2, <2>1, CallEntries
  <2> QED
    BY <1>1, <2>2 DEF MappedInv
<1>6. TlbInv'
  <2> SUFFICES ASSUME NEW t \in tlb
               PROVE  Walk(t[1])' = t[2] \/ t[1] = call.virt
    BY <1>1 DEF TlbInv
  <2>1. t[1] \in Pages
    BY DEF IInv, TypeOK, PagingTypeOK
  <2>2. Walk(t[1]) = t[2]
    BY <1>1 DEF IInv, TlbInv
  <2> QED
    BY <1>2, <2>1, <2>2
<1>7. FirstInv'
  BY <1>1 DEF IInv, FirstInv, bvars, LEVELS
<1> QED
  BY <1>1, <1>2, <1>3, <1>4, <1>5, <1>6, <1>7, StartWaits DEF IInv

LEMMA NextInvlpg ==
  ASSUME IInv, Invlpg, UNCHANGED bvars
  PROVE  IInv'
<1>1. /\ level = 0 /\ level' = Returned /\ level \in 0..LEVELS
      /\ tlb' = {t \in tlb : t[1] # call.virt}
      /\ UNCHANGED <<tables, bases, pt_scratch_used, call, table, wild>>
  BY DEF Invlpg, LEVELS
<1>2. ~wild
  BY <1>1 DEF IInv, WildInv
<1>3. PagingTypeOK'
  BY <1>1 DEF IInv, TypeOK, PagingTypeOK, Returned, LEVELS
<1>4. Memory' /\ WildInv' /\ PathInv' /\ FirstInv'
  BY <1>1, <1>2 DEF IInv, Memory, WildInv, PathInv, FirstInv, bvars, Returned, LEVELS
<1>5. TreeInv'
  BY <1>1 DEF IInv, TreeInv, Ranked, Returned, LEVELS
<1>6. MappedInv'
  <2>1. PICK w \in Pages : w = call.virt /\ w = call.virt'
    BY <1>1, Typed
  <2>2. Walk(call.virt)' = Walk(call.virt)
    BY <1>1, <2>1, CallEntries, SameTables
  <2> QED
    BY <1>1, <2>2 DEF IInv, MappedInv, bvars
<1>7. TlbInv'
  <2> SUFFICES ASSUME NEW t \in tlb, t[1] # call.virt PROVE Walk(t[1])' = t[2]
    BY <1>1 DEF TlbInv
  <2>1. t[1] \in Pages
    BY DEF IInv, TypeOK, PagingTypeOK
  <2>2. Walk(t[1])' = Walk(t[1])
    BY <1>1, <2>1, SameTables
  <2> QED
    BY <2>2 DEF IInv, TlbInv
<1> QED
  BY <1>1, <1>3, <1>4, <1>5, <1>6, <1>7, StartWaits DEF IInv

LEMMA NextInv == IInv /\ [Next]_vars => IInv'
<1> SUFFICES ASSUME IInv, [Next]_vars PROVE IInv'
  OBVIOUS
<1>1. CASE hcf \/ Checks
  BY <1>1, NextChecks
<1>2. CASE SetBases
  BY <1>2, NextSetBases
<1>3. CASE MapText
  BY <1>3, NextMapText
<1>4. CASE KernelMain
  BY <1>4, NextKernelMain
<1>5. CASE \E r \in Requests : KernelMaps(r[1], r[2])
  <2>1. PICK r \in Requests : KernelMaps(r[1], r[2])
    BY <1>5
  <2>2. r[1] \in Pages /\ r[2] \in Frames
    BY BootAssumption
  <2> QED
    BY <2>1, <2>2, NextKernelMaps
<1>6. CASE Mapping
  BY <1>6, NextFollow, NextAlloc, NextStore, NextInvlpg DEF Mapping, MapPageStep
<1>7. CASE Tlb
  BY <1>7, NextTlb DEF Tlb
<1>8. CASE UNCHANGED vars
  <2>1. UNCHANGED <<tables, mapping>> /\ UNCHANGED <<calls, tlb>>
    BY <1>8 DEF vars, pvars, bvars
  <2>2. TypeOK' /\ OrderInv'
    BY <1>8 DEF IInv, TypeOK, PagingTypeOK, OrderInv, SerialReady, Returned,
                vars, pvars, bvars, bases, mapping
  <2> QED
    BY <2>1, <2>2, Still DEF IInv
<1> QED
  BY <1>1, <1>2, <1>3, <1>4, <1>5, <1>6, <1>7, <1>8 DEF Next

LEMMA AlwaysInv == Spec => []IInv
BY InitInv, NextInv, PTL DEF Spec

-----------------------------------------------------------------------------
(* The theorems.                                                           *)

\* The tables, the call in progress, what the CPU remembers and the registers
\* of the serial port stay in range, whatever map_page is asked for.
THEOREM TypeCorrect == Spec => []TypeOK
<1>1. IInv => TypeOK
  BY DEF IInv
<1> QED
  BY <1>1, AlwaysInv, PTL

\* Outside of map_page the CPU remembers no translation the tables do not give:
\* one invlpg is enough, because no other page was mapped anew.
THEOREM TlbStaysCoherent == Spec => []TlbCoherent
<1>1. IInv => TlbCoherent
  BY DEF IInv, TlbInv, TlbCoherent, Returned, LEVELS
<1> QED
  BY <1>1, AlwaysInv, PTL

\* kernel_main starts with a framebuffer, the serial port programmed and the text
\* buffer mapped.
THEOREM KernelStartsReady == Spec => []KernelReady
<1>1. IInv => KernelReady
  <2> SUFFICES ASSUME IInv, at = "kernel_main" PROVE KernelReady
    BY DEF KernelReady
  <2>1. /\ g_framebuffer = 0 /\ answers.framebuffer_count >= 1 /\ SerialReady(uart)
        /\ (calls = 1 => level = Returned)
    BY DEF IInv, OrderInv
  <2>2. answers.framebuffer_count \in 0..2
    BY DEF IInv, TypeOK, Answers
  <2>3. g_framebuffer \in 0..answers.framebuffer_count-1
    BY <2>1, <2>2
  <2>4. calls = 1 => Walk(HHDM + TEXT) = TEXT
    BY <2>1 DEF IInv, MappedInv, FirstInv
  <2> QED
    BY <2>1, <2>3, <2>4 DEF KernelReady
<1> QED
  BY <1>1, AlwaysInv, PTL

\* The mapping _start makes never runs out of scratch tables, and stores only into
\* tables, unless no way leads to the page.
THEOREM FirstMappingIsSafe == Spec => []FirstMappingSafe
<1>1. IInv => FirstMappingSafe
  BY DEF IInv, FirstInv, FirstMappingSafe
<1> QED
  BY <1>1, AlwaysInv, PTL

-----------------------------------------------------------------------------
(* map_page implements an address map.                                     *)

LEMMA InitMaps == Init => AM!Init
<1> SUFFICES ASSUME Init PROVE AM!Init
  OBVIOUS
<1>1. level = Returned
  BY DEF Init, PagingInit
<1>2. \A v \in Pages : Walk(v) \in Frames \cup {Unmapped}
  BY InitInv, WalkOf
<1> QED
  BY <1>1, <1>2 DEF AM!Init

\* A step that moves no page and is inside of the call, or outside, stutters.
LEMMA MapsStutter ==
  ASSUME \A v \in Pages : Walk(v)' = Walk(v), UNCHANGED call,
         level' = level \/ (level \in 1..4 /\ level' \in 1..4)
  PROVE  UNCHANGED AM!amvars
<1>1. UNCHANGED [virt \in Pages |-> Walk(virt)]
  OBVIOUS
<1>2. UNCHANGED (IF level = Returned THEN NoRequest
                 ELSE [virt |-> call.virt, phys |-> call.phys, done |-> level = 0])
  BY DEF Returned, LEVELS
<1> QED
  BY <1>1, <1>2 DEF AM!amvars

LEMMA DoneOf ==
  ASSUME NEW a, NEW b, NEW c, NEW d
  PROVE  [[virt |-> a, phys |-> b, done |-> c] EXCEPT !.done = d] =
           [virt |-> a, phys |-> b, done |-> d]
OBVIOUS

LEMMA NextMaps == IInv /\ [Next]_vars => [AM!Next]_(AM!amvars)
<1> SUFFICES ASSUME IInv, [Next]_vars PROVE [AM!Next]_(AM!amvars)
  OBVIOUS
<1> DEFINE request == IF level = Returned THEN NoRequest
                      ELSE [virt |-> call.virt, phys |-> call.phys, done |-> level = 0]
           map == [virt \in Pages |-> Walk(virt)]
<1>1. ASSUME UNCHANGED tables, UNCHANGED call, UNCHANGED level PROVE UNCHANGED AM!amvars
  <2>1. \A v \in Pages : Walk(v)' = Walk(v)
    BY <1>1, SameTables
  <2> QED
    BY <1>1, <2>1, MapsStutter
<1>2. CASE hcf \/ Checks \/ SetBases \/ KernelMain \/ Tlb \/ UNCHANGED vars
  <2>1. UNCHANGED tables /\ UNCHANGED call /\ UNCHANGED level
    BY <1>2 DEF hcf, Checks, SetBases, KernelMain, Tlb, TlbFill, vars, pvars, mapping
  <2> QED
    BY <1>1, <2>1
<1>3. ASSUME NEW virt \in Pages, NEW phys \in Frames, MapPageCall(virt, phys)
      PROVE  AM!Request(virt, phys)
  <2>1. /\ level = Returned /\ level' = 4 /\ call' = [virt |-> virt, phys |-> phys]
        /\ tables' = tables
    BY <1>3 DEF MapPageCall, LEVELS
  <2>2. UNCHANGED map
    BY <2>1, SameTables
  <2>3. level' # Returned' /\ (level' = 0) = FALSE /\ call'.virt = virt /\ call'.phys = phys
    BY <2>1 DEF Returned, LEVELS
  <2>4. request = NoRequest /\ request' = [virt |-> virt, phys |-> phys, done |-> FALSE]
    BY <2>1, <2>3, Zenon
  <2> QED
    BY <2>2, <2>4 DEF AM!Request
<1>4. CASE MapText
  <2>1. MapPageCall(HHDM + TEXT, TEXT)
    BY <1>4 DEF MapText, IInv, OrderInv
  <2>2. HHDM + TEXT \in Pages /\ TEXT \in Frames
    BY BootAssumption
  <2> QED
    BY <1>3, <2>1, <2>2 DEF AM!Next
<1>5. CASE \E r \in Requests : KernelMaps(r[1], r[2])
  <2>1. PICK r \in Requests : MapPageCall(r[1], r[2])
    BY <1>5 DEF KernelMaps
  <2>2. r[1] \in Pages /\ r[2] \in Frames
    BY BootAssumption
  <2> QED
    BY <1>3, <2>1, <2>2 DEF AM!Next
<1>6. CASE FollowTable
  <2>1. /\ \A v \in Pages : Walk(v)' = Walk(v)
        /\ UNCHANGED call /\ level \in 1..4 /\ level' \in 1..4
    BY <1>6, SameTables DEF FollowTable, LEVELS
  <2> QED
    BY <2>1, MapsStutter
<1>7. CASE AllocTable
  <2>1. UNCHANGED call /\ level \in 1..4 /\ level' \in 1..4
    BY <1>7 DEF AllocTable, LEVELS
  <2>2. \A v \in Pages : Walk(v)' = Walk(v)
    BY <1>7, AllocKeeps
  <2> QED
    BY <2>1, <2>2, MapsStutter
<1>8. CASE StoreEntry
  <2>1. level = 1 /\ level' = 0 /\ UNCHANGED call
    BY <1>8 DEF StoreEntry
  <2>2. \A v \in Pages : Walk(v)' = IF v = call.virt THEN call.phys ELSE Walk(v)
    BY <1>8, StoreMaps
  <2>3. /\ level # Returned /\ (level = 0) = FALSE
        /\ level' # Returned' /\ (level' = 0) = TRUE
    BY <2>1 DEF Returned, LEVELS
  <2>4. /\ request = [virt |-> call.virt, phys |-> call.phys, done |-> FALSE]
        /\ request' = [virt |-> call.virt, phys |-> call.phys, done |-> TRUE]
    BY <2>1, <2>3, Zenon
  <2>6. request # NoRequest
    <3>1. call.virt # Unmapped
      BY Typed DEF Unmapped, Pages
    <3> QED
      BY <2>4, <3>1 DEF NoRequest
  <2>5. map' = [map EXCEPT ![call.virt] = call.phys]
    BY <2>2
  <2>7. AM!Perform
    <3> DEFINE r == [virt |-> call.virt, phys |-> call.phys, done |-> FALSE]
    <3>1. r.virt = call.virt /\ r.phys = call.phys /\ ~r.done
      BY Zenon
    <3>4. [r EXCEPT !.done = TRUE] = [virt |-> call.virt, phys |-> call.phys, done |-> TRUE]
      BY DoneOf, Zenon
    <3> HIDE DEF r, request, map
    <3>2. /\ request.virt = call.virt /\ request.phys = call.phys /\ ~request.done
          /\ request' = [request EXCEPT !.done = TRUE]
      BY <2>4, <3>1, <3>4 DEF r
    <3>3. map' = [map EXCEPT ![request.virt] = request.phys]
      BY <2>5, <3>2
    <3> QED
      BY <2>6, <3>2, <3>3 DEF AM!Perform, map, request
  <2> QED
    BY <2>7 DEF AM!Next
<1>9. CASE Invlpg
  <2>1. level = 0 /\ level' = Returned /\ UNCHANGED tables
    BY <1>9 DEF Invlpg
  <2>2. UNCHANGED map
    BY <2>1, SameTables
  <2>3. level # Returned /\ (level = 0) = TRUE /\ level' = Returned'
    BY <2>1 DEF Returned, LEVELS
  <2>4. /\ request = [virt |-> call.virt, phys |-> call.phys, done |-> TRUE]
        /\ request' = NoRequest
    BY <2>3, Zenon DEF NoRequest, Unmapped
  <2>5. request # NoRequest /\ request.done
    <3>1. call.virt # Unmapped
      BY Typed DEF Unmapped, Pages
    <3> QED
      BY <2>4, <3>1 DEF NoRequest
  <2> QED
    BY <2>2, <2>4, <2>5 DEF AM!Next, AM!Return
<1> QED
  BY <1>2, <1>4, <1>5, <1>6, <1>7, <1>8, <1>9 DEF Next, Mapping, MapPageStep

\* map_page maps the page it was asked to map in one store, and no other page,
\* over whatever tables it finds and however many it has to add.
THEOREM MapPageMapsOnePage == Spec => ImplementsAddressMap
BY InitMaps, NextMaps, AlwaysInv, PTL DEF Spec, ImplementsAddressMap, AM!Spec
=============================================================================
