------------------------------ MODULE KernelMmu ------------------------------
(***************************************************************************)
(* 03_ARM_Architecture/03_MMU: main() fills four translation tables for    *)
(* one region (kernel_mmu.c, kernel_mmu.h) and turns the MMU on.           *)
(*                                                                         *)
(* There is one table for each level, so a region has to lie under one     *)
(* entry of level 2.  kernel_mmu.h fixes one region; the model takes every *)
(* region of whole pages for which the tables suffice.                     *)
(*                                                                         *)
(* A descriptor is a record with the bits that the walk looks at; or-ing   *)
(* bits into an address is putting fields together, as addresses of tables *)
(* and pages have none of the low bits.  The walk is the MMU's, modelled   *)
(* from the index macros and the registers.  Left out: caches, barriers,   *)
(* addresses that TTBR1 would translate, copies for the debugger.          *)
(***************************************************************************)
EXTENDS Integers

CONSTANTS
  PAGE_SIZE,
  PAGE_TABLE_ENTRIES,
  PhysicalBases        \* bound: where a region may be in physical memory, besides identity

ASSUME TableAssumption == PAGE_SIZE \in Nat \ {0} /\ PAGE_TABLE_ENTRIES \in Nat \ {0, 1}
ASSUME BasesAssumption == \A pa \in PhysicalBases : pa \in Nat /\ pa % PAGE_SIZE = 0

VARIABLES
  region,      \* VIRTUAL_ADDRESS, PHYSICAL_ADDRESS, KERNEL_SIZE of kernel_mmu.h
  at,          \* va_start, pa_start and size of map_region
  l0_table, l1_table, l2_table, l3_table,
  mair, tcr, ttbr0,
  mmu_on,      \* SCTLR_EL1.M
  pc           \* what main() does next

tables == <<l0_table, l1_table, l2_table, l3_table>>
regs   == <<mair, tcr, ttbr0, mmu_on>>
vars == <<region, at, tables, regs, pc>>

Entries == 0 .. PAGE_TABLE_ENTRIES - 1

\* What one entry of a table of each level spans.
L3Span == PAGE_SIZE
L2Span == L3Span * PAGE_TABLE_ENTRIES
L1Span == L2Span * PAGE_TABLE_ENTRIES
L0Span == L1Span * PAGE_TABLE_ENTRIES
Space  == L0Span * PAGE_TABLE_ENTRIES   \* 48 bits of address

L0_INDEX(va) == (va \div L0Span) % PAGE_TABLE_ENTRIES
L1_INDEX(va) == (va \div L1Span) % PAGE_TABLE_ENTRIES
L2_INDEX(va) == (va \div L2Span) % PAGE_TABLE_ENTRIES
L3_INDEX(va) == (va \div L3Span) % PAGE_TABLE_ENTRIES

\* size is a uint64_t; any modulus well above every size will do.
USize(n) == n % (2 * Space)

\* Descriptors
Zero == [valid |-> FALSE]
make_table_desc(table) == [valid |-> TRUE, table |-> table]
NORMAL_MEMORY == [af |-> TRUE, attrindx |-> 0]
make_page_desc(pa, attr) == [valid |-> TRUE, pa |-> pa, attr |-> attr]

Pages == {PAGE_SIZE * n : n \in 0 .. Space \div PAGE_SIZE - 1}

\* Regions of whole pages under one entry of level 2.
Regions ==
  {r \in [va : Pages, pa : PhysicalBases \cup Pages, size : {PAGE_SIZE * n : n \in 1 .. PAGE_TABLE_ENTRIES}] :
     /\ r.pa \in PhysicalBases \cup {r.va}
     /\ r.va \div L2Span = (r.va + r.size - 1) \div L2Span}

Tables(D) == [Entries -> {Zero} \cup D]
TypeOK ==
  /\ at.va \in Nat /\ at.pa \in Nat /\ at.size \in 0 .. L2Span
  /\ l0_table \in Tables({make_table_desc("l1_table")})
  /\ l1_table \in Tables({make_table_desc("l2_table")})
  /\ l2_table \in Tables({make_table_desc("l3_table")})
  /\ \A i \in Entries : l3_table[i].valid =>
       l3_table[i].pa \in Nat /\ l3_table[i].attr = NORMAL_MEMORY
  /\ mair \in {"reset", "MAIR_VALUE"} /\ tcr \in {"reset", "TCR_VALUE"}
  /\ ttbr0 \in {"reset", "l0_table"}
  /\ mmu_on \in BOOLEAN
  /\ pc \in {"map", "mair", "tcr", "ttbr0", "sctlr", "loop"}

\* main() has called build_translation_tables, which calls map_region.
Init ==
  /\ region \in Regions
  /\ at = region
  /\ l0_table = [i \in Entries |-> Zero] /\ l1_table = [i \in Entries |-> Zero]
  /\ l2_table = [i \in Entries |-> Zero] /\ l3_table = [i \in Entries |-> Zero]
  /\ mair = "reset" /\ tcr = "reset" /\ ttbr0 = "reset" /\ mmu_on = FALSE
  /\ pc = "map"

-----------------------------------------------------------------------------
(* kernel_mmu.c *)

\* The entry i of a table is made to point to the next table, unless it is valid.
Ensured(table, i, next) ==
  IF table[i].valid THEN table ELSE [table EXCEPT ![i] = make_table_desc(next)]

ensure_page_tables(va) ==
  /\ l0_table' = Ensured(l0_table, L0_INDEX(va), "l1_table")
  /\ l1_table' = Ensured(l1_table, L1_INDEX(va), "l2_table")
  /\ l2_table' = Ensured(l2_table, L2_INDEX(va), "l3_table")

install_pte(va, pa, attr) ==
  l3_table' = [l3_table EXCEPT ![L3_INDEX(va)] = make_page_desc(pa, attr)]

map_page(va, pa, attr) == ensure_page_tables(va) /\ install_pte(va, pa, attr)

Advance == at' = [va |-> at.va + PAGE_SIZE, pa |-> at.pa + PAGE_SIZE,
                  size |-> USize(at.size - PAGE_SIZE)]

\* Mutant: the size is not tested before a page is mapped.
MapOnceMore ==
  /\ pc = "map"
  /\ map_page(at.va, at.pa, NORMAL_MEMORY)
  /\ Advance
  /\ UNCHANGED <<region, regs, pc>>

\* One round of the loop in map_region.
MapPage ==
  /\ pc = "map" /\ at.size > 0
  /\ map_page(at.va, at.pa, NORMAL_MEMORY)
  /\ Advance
  /\ UNCHANGED <<region, regs, pc>>

MapDone ==
  /\ pc = "map" /\ at.size = 0
  /\ pc' = "mair"
  /\ UNCHANGED <<region, at, tables, regs>>

write_mair_el1 ==
  /\ pc = "mair"
  /\ mair' = "MAIR_VALUE"
  /\ pc' = "tcr"
  /\ UNCHANGED <<region, at, tables, tcr, ttbr0, mmu_on>>

write_tcr_el1 ==
  /\ pc = "tcr"
  /\ tcr' = "TCR_VALUE"
  /\ pc' = "ttbr0"
  /\ UNCHANGED <<region, at, tables, mair, ttbr0, mmu_on>>

\* Mutant: the root table is not installed.
write_ttbr0_el1_Not ==
  /\ pc = "ttbr0"
  /\ pc' = "sctlr"
  /\ UNCHANGED <<region, at, tables, regs>>

write_ttbr0_el1 ==
  /\ pc = "ttbr0"
  /\ ttbr0' = "l0_table"
  /\ pc' = "sctlr"
  /\ UNCHANGED <<region, at, tables, mair, tcr, mmu_on>>

\* Mutant: another bit than M is set.
write_sctlr_el1_OtherBit ==
  /\ pc = "sctlr"
  /\ pc' = "loop"
  /\ UNCHANGED <<region, at, tables, regs>>

write_sctlr_el1 ==
  /\ pc = "sctlr"
  /\ mmu_on' = TRUE
  /\ pc' = "loop"
  /\ UNCHANGED <<region, at, tables, mair, tcr, ttbr0>>

\* while (1) of main()
Loop == pc = "loop" /\ UNCHANGED vars

Next == \/ MapPage \/ MapDone
        \/ write_mair_el1 \/ write_tcr_el1 \/ write_ttbr0_el1 \/ write_sctlr_el1
        \/ Loop

\* One CPU executes main(), and nothing interrupts it.
Spec == Init /\ [][Next]_vars /\ WF_vars(Next)

-----------------------------------------------------------------------------
(* The MMU's walk of the tables *)

Fault == [fault |-> TRUE]

\* Four levels from l0_table, the last of which holds the page.
Walk(va) ==
  IF /\ l0_table[L0_INDEX(va)] = make_table_desc("l1_table")
     /\ l1_table[L1_INDEX(va)] = make_table_desc("l2_table")
     /\ l2_table[L2_INDEX(va)] = make_table_desc("l3_table")
     /\ l3_table[L3_INDEX(va)].valid
  THEN LET pte == l3_table[L3_INDEX(va)]
       IN  [pa |-> pte.pa + (va % PAGE_SIZE), attr |-> pte.attr]
  ELSE Fault

\* What an access to va gets, given the registers: they must describe the tables
\* before SCTLR_EL1.M is set.
Access(va) ==
  IF mair = "MAIR_VALUE" /\ tcr = "TCR_VALUE" /\ ttbr0 = "l0_table" THEN Walk(va) ELSE Fault

-----------------------------------------------------------------------------
(* Properties *)

\* When the MMU goes on, tables and registers are complete, although all pages
\* share one table of each level: every address of the region translates to its
\* place, so that the instruction after the write to SCTLR_EL1 can be fetched,
\* and no address outside translates at all.
OnWhenComplete ==
  mmu_on => \A va \in 0 .. Space - 1 :
              Access(va) = IF va \in region.va .. region.va + region.size - 1
                             THEN [pa |-> region.pa + (va - region.va), attr |-> NORMAL_MEMORY]
                             ELSE Fault

\* map_region ends, although its counter is unsigned, and main() gets to its loop.
StartsUp == <>(pc = "loop" /\ mmu_on)
=============================================================================
