----------------------------- MODULE KernelMmuProofs -----------------------------
(***************************************************************************)
(* Theorems about KernelMmu, for every size of a page and of a table and   *)
(* every region of whole pages that the tables can describe.               *)
(*                                                                         *)
(* The index macros take an address apart into the digits of its page      *)
(* number, base PAGE_TABLE_ENTRIES.  The lemmas about \div and % say that  *)
(* the digits give the number back, so that two pages with the same        *)
(* indices are one page: what map_page writes for one page of the region   *)
(* is what the walk finds for that page, and for no other address.         *)
(***************************************************************************)
EXTENDS KernelMmu, TLAPS

-----------------------------------------------------------------------------
(* Quotients and remainders *)

LEMMA Division ==
  ASSUME NEW a \in Nat, NEW b \in Nat \ {0}
  PROVE  /\ a \div b \in Nat /\ a % b \in 0 .. b - 1
         /\ a = b * (a \div b) + (a % b)
  OBVIOUS

LEMMA ProductPositive ==
  ASSUME NEW a \in Nat \ {0}, NEW b \in Nat \ {0}
  PROVE  a * b \in Nat \ {0}
  OBVIOUS

\* A bigger multiple of a number is bigger by at least that number.
LEMMA MultiplesApart ==
  ASSUME NEW b \in Nat, NEW p \in Nat, NEW q \in Nat, p > q
  PROVE  b * p >= b * q + b
<1>1. PICK d \in Nat : p = q + 1 + d
  <2>1. p - q - 1 \in Nat /\ p = q + 1 + (p - q - 1)
    OBVIOUS
  <2> QED
    BY <2>1
<1>2. b * p = b * q + b + b * d /\ b * d \in Nat /\ b * q \in Nat
  BY <1>1
<1> QED
  BY <1>2

\* Quotient and remainder are the only ones.
LEMMA DivisionUnique ==
  ASSUME NEW b \in Nat \ {0}, NEW q \in Nat, NEW s \in 0 .. b - 1
  PROVE  (b * q + s) \div b = q /\ (b * q + s) % b = s
<1> DEFINE a == b * q + s
           p == a \div b
           r == a % b
<1>1. a \in Nat
  <2>1. b * q \in Nat
    OBVIOUS
  <2> QED
    BY <2>1
<1> HIDE DEF a
<1>2. p \in Nat /\ r \in 0 .. b - 1 /\ a = b * p + r
  BY <1>1, Division
<1> HIDE DEF p, r
<1>3. b * q + s = b * p + r /\ b * p \in Nat /\ b * q \in Nat
  BY <1>2 DEF a
<1>4. ~ (p > q) /\ ~ (q > p)
  BY <1>2, <1>3, MultiplesApart
<1>5. p = q /\ r = s
  BY <1>2, <1>3, <1>4
<1> QED
  BY <1>5 DEF p, r, a

\* Dividing twice is dividing by the product.
LEMMA DivideTwice ==
  ASSUME NEW a \in Nat, NEW b \in Nat \ {0}, NEW c \in Nat \ {0}
  PROVE  a \div (b * c) = (a \div b) \div c
<1> DEFINE q == a \div b
           r == a % b
           p == q \div c
           t == q % c
<1>1. q \in Nat /\ r \in 0 .. b - 1 /\ a = b * q + r
  BY Division
<1> HIDE DEF q, r
<1>2. p \in Nat /\ t \in 0 .. c - 1 /\ q = c * p + t
  BY <1>1, Division
<1> HIDE DEF p, t
<1>3. a = (b * c) * p + (b * t + r)
  BY <1>1, <1>2
<1>4. b * t + r \in 0 .. b * c - 1
  <2>1. b * c >= b * t + b
    BY <1>2, MultiplesApart
  <2>2. b * t \in Nat /\ b * c \in Nat
    BY <1>2
  <2> QED
    BY <1>1, <2>1, <2>2
<1>5. b * c \in Nat \ {0}
  BY ProductPositive
<1>6. ((b * c) * p + (b * t + r)) \div (b * c) = p
  BY <1>2, <1>4, <1>5, DivisionUnique
<1> QED
  BY <1>3, <1>6 DEF p, q

\* Below a product, the quotient is below the other factor, and its own remainder.
LEMMA QuotientBound ==
  ASSUME NEW b \in Nat \ {0}, NEW c \in Nat \ {0}, NEW a \in Nat, a < b * c
  PROVE  a \div b < c /\ (a \div b) % c = a \div b
<1> DEFINE q == a \div b
           r == a % b
<1>1. q \in Nat /\ r \in 0 .. b - 1 /\ a = b * q + r
  BY Division
<1> HIDE DEF q, r
<1>2. q < c
  <2> SUFFICES ASSUME q >= c PROVE FALSE
    BY <1>1
  <2>1. b * q >= b * c
    BY <1>1, MultiplesApart
  <2>2. b * q \in Nat /\ b * c \in Nat
    BY <1>1
  <2> QED
    BY <1>1, <2>1, <2>2
<1>3. c * 0 + q = q /\ q \in 0 .. c - 1
  BY <1>1, <1>2
<1>4. (c * 0 + q) % c = q
  BY <1>3, DivisionUnique
<1> QED
  BY <1>2, <1>3, <1>4 DEF q

-----------------------------------------------------------------------------
(* Indices and pages *)

LEMMA Spans ==
  /\ PAGE_SIZE \in Nat \ {0} /\ PAGE_TABLE_ENTRIES \in Nat \ {0}
  /\ L2Span \in Nat \ {0} /\ L1Span \in Nat \ {0} /\ L0Span \in Nat \ {0} /\ Space \in Nat \ {0}
  /\ L2Span <= Space
<1>1. PAGE_SIZE \in Nat \ {0} /\ PAGE_TABLE_ENTRIES \in Nat \ {0}
  BY TableAssumption
<1>2. ASSUME NEW a \in Nat \ {0} PROVE a <= a * PAGE_TABLE_ENTRIES
  <2>1. PICK n \in Nat : PAGE_TABLE_ENTRIES = n + 1
    <3>1. PAGE_TABLE_ENTRIES - 1 \in Nat /\ PAGE_TABLE_ENTRIES = (PAGE_TABLE_ENTRIES - 1) + 1
      BY <1>1
    <3> QED
      BY <3>1
  <2>2. a * PAGE_TABLE_ENTRIES = a + a * n /\ a * n \in Nat
    BY <2>1
  <2> QED
    BY <2>2
<1>3. L2Span \in Nat \ {0}
  BY <1>1, ProductPositive DEF L2Span, L3Span
<1>4. L1Span \in Nat \ {0} /\ L2Span <= L1Span
  BY <1>1, <1>2, <1>3, ProductPositive DEF L1Span
<1>5. L0Span \in Nat \ {0} /\ L1Span <= L0Span
  BY <1>1, <1>2, <1>4, ProductPositive DEF L0Span
<1>6. Space \in Nat \ {0} /\ L0Span <= Space
  BY <1>1, <1>2, <1>5, ProductPositive DEF Space
<1>7. L2Span <= Space
  BY <1>3, <1>4, <1>5, <1>6
<1> QED
  BY <1>1, <1>3, <1>4, <1>5, <1>6, <1>7

\* The span of a level is that of the next, PAGE_TABLE_ENTRIES times.
LEMMA Levels ==
  ASSUME NEW va \in Nat
  PROVE  /\ va \div L2Span = (va \div PAGE_SIZE) \div PAGE_TABLE_ENTRIES
         /\ va \div L1Span = (va \div L2Span) \div PAGE_TABLE_ENTRIES
         /\ va \div L0Span = (va \div L1Span) \div PAGE_TABLE_ENTRIES
BY Spans, DivideTwice DEF L0Span, L1Span, L2Span, L3Span

\* Addresses under one entry of level 2 have the same indices above level 3.
LEMMA SameTables ==
  ASSUME NEW va \in Nat, NEW wa \in Nat, va \div L2Span = wa \div L2Span
  PROVE  L0_INDEX(va) = L0_INDEX(wa) /\ L1_INDEX(va) = L1_INDEX(wa) /\ L2_INDEX(va) = L2_INDEX(wa)
<1>1. va \div L1Span = wa \div L1Span
  BY Levels
<1>2. va \div L0Span = wa \div L0Span
  BY <1>1, Levels
<1> QED
  BY <1>1, <1>2 DEF L0_INDEX, L1_INDEX, L2_INDEX

\* Of addresses that the MMU translates, only these have.
LEMMA TablesSame ==
  ASSUME NEW va \in 0 .. Space - 1, NEW wa \in 0 .. Space - 1,
         L0_INDEX(va) = L0_INDEX(wa), L1_INDEX(va) = L1_INDEX(wa), L2_INDEX(va) = L2_INDEX(wa)
  PROVE  va \div L2Span = wa \div L2Span
<1>1. /\ va \in Nat /\ va < L0Span * PAGE_TABLE_ENTRIES
      /\ wa \in Nat /\ wa < L0Span * PAGE_TABLE_ENTRIES
  BY Spans DEF Space
<1>2. ASSUME NEW a \in Nat, NEW b \in Nat,
             a \div PAGE_TABLE_ENTRIES = b \div PAGE_TABLE_ENTRIES,
             a % PAGE_TABLE_ENTRIES = b % PAGE_TABLE_ENTRIES
      PROVE  a = b
  <2>1. a = PAGE_TABLE_ENTRIES * (a \div PAGE_TABLE_ENTRIES) + (a % PAGE_TABLE_ENTRIES)
    BY Spans, Division
  <2>2. b = PAGE_TABLE_ENTRIES * (b \div PAGE_TABLE_ENTRIES) + (b % PAGE_TABLE_ENTRIES)
    BY Spans, Division
  <2> QED
    BY <1>2, <2>1, <2>2
<1>3. /\ va \div L1Span \in Nat /\ wa \div L1Span \in Nat
      /\ va \div L2Span \in Nat /\ wa \div L2Span \in Nat
  BY <1>1, Spans, Division
<1>4. va \div L0Span = wa \div L0Span
  <2>1. L0_INDEX(va) = va \div L0Span
    BY <1>1, Spans, QuotientBound DEF L0_INDEX
  <2>2. L0_INDEX(wa) = wa \div L0Span
    BY <1>1, Spans, QuotientBound DEF L0_INDEX
  <2> QED
    BY <2>1, <2>2
<1>5. va \div L1Span = wa \div L1Span
  <2>1. (va \div L1Span) \div PAGE_TABLE_ENTRIES = (wa \div L1Span) \div PAGE_TABLE_ENTRIES
    BY <1>1, <1>4, Levels
  <2>2. (va \div L1Span) % PAGE_TABLE_ENTRIES = (wa \div L1Span) % PAGE_TABLE_ENTRIES
    BY DEF L1_INDEX
  <2> QED
    BY <1>2, <1>3, <2>1, <2>2, Zenon
<1>6. (va \div L2Span) \div PAGE_TABLE_ENTRIES = (wa \div L2Span) \div PAGE_TABLE_ENTRIES
  BY <1>1, <1>5, Levels
<1>7. (va \div L2Span) % PAGE_TABLE_ENTRIES = (wa \div L2Span) % PAGE_TABLE_ENTRIES
  BY DEF L2_INDEX
<1> QED
  BY <1>2, <1>3, <1>6, <1>7, Zenon

\* The region in pages: the first, how many, and the entry of level 3 of the first.
First == region.va \div PAGE_SIZE
Count == region.size \div PAGE_SIZE
Entry == First % PAGE_TABLE_ENTRIES
Table == First \div PAGE_TABLE_ENTRIES

LEMMA RegionPages ==
  ASSUME region \in Regions
  PROVE  /\ First \in Nat /\ Count \in 1 .. PAGE_TABLE_ENTRIES /\ region.pa \in Nat
         /\ region.va = PAGE_SIZE * First /\ region.size = PAGE_SIZE * Count
         /\ region.va \in 0 .. Space - 1
         /\ Table \in Nat /\ Entry \in Nat /\ Entry + Count <= PAGE_TABLE_ENTRIES
         /\ First = PAGE_TABLE_ENTRIES * Table + Entry
         /\ region.va \div L2Span = Table
<1>1. PICK f \in 0 .. Space \div PAGE_SIZE - 1 : region.va = PAGE_SIZE * f
  BY DEF Regions, Pages
<1>2. PICK n \in 1 .. PAGE_TABLE_ENTRIES : region.size = PAGE_SIZE * n
  BY DEF Regions
<1>3. PAGE_SIZE * f + 0 = PAGE_SIZE * f /\ PAGE_SIZE * n + 0 = PAGE_SIZE * n /\ 0 \in 0 .. PAGE_SIZE - 1
  BY Spans
<1>4. f \in Nat /\ n \in Nat
  BY Spans, Division
<1>5. First = f
  <2>1. (PAGE_SIZE * f + 0) \div PAGE_SIZE = f
    BY <1>3, <1>4, Spans, DivisionUnique
  <2> QED
    BY <1>1, <1>3, <2>1 DEF First
<1>6. Count = n
  <2>1. (PAGE_SIZE * n + 0) \div PAGE_SIZE = n
    BY <1>3, <1>4, Spans, DivisionUnique
  <2> QED
    BY <1>2, <1>3, <2>1 DEF Count
<1>7. region.va \in 0 .. Space - 1
  <2> DEFINE q == Space \div PAGE_SIZE
  <2>1. q \in Nat /\ Space >= PAGE_SIZE * q
    <3>1. Space = PAGE_SIZE * q + (Space % PAGE_SIZE) /\ Space % PAGE_SIZE \in Nat /\ q \in Nat
      BY Spans, Division
    <3>2. PAGE_SIZE * q \in Nat
      BY <3>1, Spans
    <3> QED
      BY <3>1, <3>2
  <2>2. f \in 0 .. q - 1
    OBVIOUS
  <2> HIDE DEF q
  <2>3. PAGE_SIZE * q >= PAGE_SIZE * f + PAGE_SIZE
    BY <1>4, <2>1, <2>2, Spans, MultiplesApart
  <2>4. PAGE_SIZE * q \in Nat /\ PAGE_SIZE * f \in Nat
    BY <1>4, <2>1, Spans
  <2> QED
    BY <1>1, <2>1, <2>3, <2>4, Spans
<1>8. Table \in Nat /\ Entry \in 0 .. PAGE_TABLE_ENTRIES - 1 /\ First = PAGE_TABLE_ENTRIES * Table + Entry
  BY <1>4, <1>5, Spans, Division DEF Table, Entry
<1>9. region.va \div L2Span = Table
  BY <1>7, Levels DEF Table, First
\* The last page lies under the same entry of level 2 as the first.
<1>10. Entry + Count <= PAGE_TABLE_ENTRIES
  <2> DEFINE end == region.va + region.size - 1
             last == f + n - 1
             e == last % PAGE_TABLE_ENTRIES
  <2>1. last \in Nat
    BY <1>4
  <2>2. end = PAGE_SIZE * last + (PAGE_SIZE - 1) /\ end \in Nat /\ PAGE_SIZE - 1 \in 0 .. PAGE_SIZE - 1
    <3>1. PAGE_SIZE * last = PAGE_SIZE * f + PAGE_SIZE * n - PAGE_SIZE /\ PAGE_SIZE * last \in Nat
      BY <1>4, <2>1, Spans
    <3>2. PAGE_SIZE * f \in Nat /\ PAGE_SIZE * n \in Nat
      BY <1>4, Spans
    <3> QED
      BY <1>1, <1>2, <3>1, <3>2, Spans
  <2>3. end \div L2Span = Table
    BY <1>9 DEF Regions
  <2> HIDE DEF end, last
  <2>4. end \div PAGE_SIZE = last
    BY <2>1, <2>2, Spans, DivisionUnique
  <2>5. last \div PAGE_TABLE_ENTRIES = Table
    BY <2>2, <2>3, <2>4, Levels
  <2>6. last = PAGE_TABLE_ENTRIES * Table + e /\ e \in 0 .. PAGE_TABLE_ENTRIES - 1
    BY <2>1, <2>5, Spans, Division
  <2> HIDE DEF e
  <2>7. PAGE_TABLE_ENTRIES * Table \in Nat
    BY <1>8, Spans
  <2> QED
    BY <1>4, <1>5, <1>6, <1>8, <2>6, <2>7, Spans DEF last
<1>11. region.pa \in Nat
  <2>1. region.pa \in PhysicalBases \/ region.pa = region.va
    BY DEF Regions
  <2> QED
    BY <1>7, <2>1, BasesAssumption, Spans
<1>12. /\ First \in Nat /\ Count \in 1 .. PAGE_TABLE_ENTRIES
       /\ region.va = PAGE_SIZE * First /\ region.size = PAGE_SIZE * Count
  BY <1>1, <1>2, <1>4, <1>5, <1>6
<1> QED
  BY <1>7, <1>8, <1>9, <1>10, <1>11, <1>12

\* The entry of level 3 of each page of the region, and the page of each entry.
LEMMA PageEntries ==
  ASSUME region \in Regions, NEW n \in Nat
  PROVE  /\ n \in First .. First + Count - 1 =>
              /\ n \div PAGE_TABLE_ENTRIES = Table
              /\ n % PAGE_TABLE_ENTRIES = Entry + (n - First)
         /\ (n \div PAGE_TABLE_ENTRIES = Table /\ n % PAGE_TABLE_ENTRIES \in Entry .. Entry + Count - 1) =>
              /\ n \in First .. First + Count - 1
              /\ n - First = (n % PAGE_TABLE_ENTRIES) - Entry
<1>1. /\ First \in Nat /\ Count \in 1 .. PAGE_TABLE_ENTRIES
      /\ Table \in Nat /\ Entry \in Nat /\ Entry + Count <= PAGE_TABLE_ENTRIES
      /\ First = PAGE_TABLE_ENTRIES * Table + Entry
      /\ PAGE_TABLE_ENTRIES \in Nat \ {0}
  BY RegionPages, Spans
<1> HIDE DEF First, Count, Table, Entry
<1>2. PAGE_TABLE_ENTRIES * Table \in Nat
  BY <1>1
<1>3. ASSUME n \in First .. First + Count - 1
      PROVE  n \div PAGE_TABLE_ENTRIES = Table /\ n % PAGE_TABLE_ENTRIES = Entry + (n - First)
  <2>1. n = PAGE_TABLE_ENTRIES * Table + (Entry + (n - First))
    BY <1>1, <1>2
  <2>2. Entry + (n - First) \in 0 .. PAGE_TABLE_ENTRIES - 1
    BY <1>1, <1>3
  <2>3. /\ (PAGE_TABLE_ENTRIES * Table + (Entry + (n - First))) \div PAGE_TABLE_ENTRIES = Table
        /\ (PAGE_TABLE_ENTRIES * Table + (Entry + (n - First))) % PAGE_TABLE_ENTRIES = Entry + (n - First)
    BY <1>1, <2>2, DivisionUnique
  <2> QED
    BY <2>1, <2>3
<1>4. ASSUME n \div PAGE_TABLE_ENTRIES = Table, n % PAGE_TABLE_ENTRIES \in Entry .. Entry + Count - 1
      PROVE  n \in First .. First + Count - 1 /\ n - First = (n % PAGE_TABLE_ENTRIES) - Entry
  <2> DEFINE e == n % PAGE_TABLE_ENTRIES
  <2>1. n = PAGE_TABLE_ENTRIES * Table + e /\ e \in Entry .. Entry + Count - 1
    BY <1>1, <1>4, Division
  <2> HIDE DEF e
  <2>2. n \in First .. First + Count - 1 /\ n - First = e - Entry
    BY <1>1, <1>2, <2>1
  <2> QED
    BY <2>2 DEF e
<1> QED
  BY <1>3, <1>4

\* An address is in the region when its page is.
LEMMA AddressPages ==
  ASSUME region \in Regions, NEW va \in Nat
  PROVE  /\ va \in region.va .. region.va + region.size - 1
              <=> va \div PAGE_SIZE \in First .. First + Count - 1
         /\ va - region.va = PAGE_SIZE * (va \div PAGE_SIZE - First) + (va % PAGE_SIZE)
<1> DEFINE n == va \div PAGE_SIZE
           o == va % PAGE_SIZE
<1>1. va = PAGE_SIZE * n + o /\ n \in Nat /\ o \in 0 .. PAGE_SIZE - 1
  BY Spans, Division
<1>2. /\ First \in Nat /\ Count \in Nat /\ PAGE_SIZE \in Nat \ {0}
      /\ region.va = PAGE_SIZE * First /\ region.size = PAGE_SIZE * Count
  BY RegionPages, Spans
<1> HIDE DEF n, o, First, Count
<1>3. /\ PAGE_SIZE * (First + Count) = region.va + region.size
      /\ PAGE_SIZE * n \in Nat /\ region.va \in Nat /\ region.size \in Nat
  BY <1>1, <1>2
<1>4. ASSUME n \in First .. First + Count - 1 PROVE va \in region.va .. region.va + region.size - 1
  <2>1. PAGE_SIZE * n >= region.va
    <3>1. n = First \/ n > First
      BY <1>1, <1>2, <1>4
    <3> QED
      BY <1>1, <1>2, <1>3, <3>1, MultiplesApart
  <2>2. region.va + region.size >= PAGE_SIZE * n + PAGE_SIZE
    <3>1. First + Count > n /\ First + Count \in Nat
      BY <1>1, <1>2, <1>4
    <3>2. PAGE_SIZE * (First + Count) >= PAGE_SIZE * n + PAGE_SIZE
      BY <1>1, <1>2, <3>1, MultiplesApart
    <3> QED
      BY <1>3, <3>2
  <2> QED
    BY <1>1, <1>2, <1>3, <2>1, <2>2
<1>5. ASSUME va \in region.va .. region.va + region.size - 1 PROVE n \in First .. First + Count - 1
  <2>1. ~ (First > n)
    <3> SUFFICES ASSUME First > n PROVE FALSE
      OBVIOUS
    <3>1. region.va >= PAGE_SIZE * n + PAGE_SIZE
      BY <1>1, <1>2, MultiplesApart
    <3> QED
      BY <1>1, <1>2, <1>3, <1>5, <3>1
  <2>2. ~ (n >= First + Count)
    <3> SUFFICES ASSUME n >= First + Count PROVE FALSE
      OBVIOUS
    <3>1. PAGE_SIZE * n >= region.va + region.size
      <4>1. n = First + Count \/ n > First + Count
        BY <1>1, <1>2
      <4>2. n > First + Count => PAGE_SIZE * n >= PAGE_SIZE * (First + Count) + PAGE_SIZE
        BY <1>1, <1>2, MultiplesApart
      <4> QED
        BY <1>2, <1>3, <4>1, <4>2
    <3> QED
      BY <1>1, <1>2, <1>3, <1>5, <3>1
  <2> QED
    BY <1>1, <1>2, <2>1, <2>2
<1>6. va - region.va = PAGE_SIZE * (n - First) + o
  <2>1. PAGE_SIZE * (n - First) = PAGE_SIZE * n - PAGE_SIZE * First
    BY <1>1, <1>2
  <2> QED
    BY <1>1, <1>2, <1>3, <2>1
<1> QED
  BY <1>4, <1>5, <1>6 DEF n, o

-----------------------------------------------------------------------------
(* The invariant *)

\* A table above level 3 after j rounds: one entry, which points to the next table.
Pointing(e, next, j) ==
  [d \in Entries |-> IF j > 0 /\ d = e THEN make_table_desc(next) ELSE Zero]

\* After j rounds of the loop of map_region: what is left to do, and the tables.
Mapped(j) ==
  /\ at = [va |-> region.va + PAGE_SIZE * j, pa |-> region.pa + PAGE_SIZE * j,
           size |-> PAGE_SIZE * (Count - j)]
  /\ l0_table = Pointing(L0_INDEX(region.va), "l1_table", j)
  /\ l1_table = Pointing(L1_INDEX(region.va), "l2_table", j)
  /\ l2_table = Pointing(L2_INDEX(region.va), "l3_table", j)
  /\ l3_table = [d \in Entries |-> IF d \in Entry .. Entry + j - 1
                                     THEN make_page_desc(region.pa + PAGE_SIZE * (d - Entry), NORMAL_MEMORY)
                                     ELSE Zero]

\* The registers are written in the order of main(), the switch last.
Written ==
  /\ pc \in {"map", "mair", "tcr", "ttbr0", "sctlr", "loop"}
  /\ mair = IF pc \in {"map", "mair"} THEN "reset" ELSE "MAIR_VALUE"
  /\ tcr = IF pc \in {"map", "mair", "tcr"} THEN "reset" ELSE "TCR_VALUE"
  /\ ttbr0 = IF pc \in {"map", "mair", "tcr", "ttbr0"} THEN "reset" ELSE "l0_table"
  /\ mmu_on = (pc = "loop")

Inv ==
  /\ region \in Regions
  /\ \E j \in 0 .. Count : Mapped(j) /\ (pc # "map" => j = Count)
  /\ Written

LEMMA IndexTypes ==
  ASSUME NEW va \in Nat
  PROVE  /\ L0_INDEX(va) \in Entries /\ L1_INDEX(va) \in Entries
         /\ L2_INDEX(va) \in Entries /\ L3_INDEX(va) \in Entries
<1>1. /\ va \div L0Span \in Nat /\ va \div L1Span \in Nat /\ va \div L2Span \in Nat
  BY Spans, Division
<1>2. va \div L3Span \in Nat
  BY Spans, Division DEF L3Span
<1> QED
  BY <1>1, <1>2, Spans, Division DEF L0_INDEX, L1_INDEX, L2_INDEX, L3_INDEX, Entries

LEMMA InitInv == Init => Inv
<1> SUFFICES ASSUME Init PROVE Inv
  OBVIOUS
<1>1. region \in Regions
  BY DEF Init
<1>2. /\ First \in Nat /\ Count \in 1 .. PAGE_TABLE_ENTRIES /\ region.pa \in Nat /\ region.va \in Nat
      /\ Entry \in Nat /\ region.size = PAGE_SIZE * Count /\ PAGE_SIZE \in Nat
  BY <1>1, RegionPages, Spans
<1>3. Mapped(0)
  <2>1. region = [va |-> region.va, pa |-> region.pa, size |-> region.size]
    BY <1>1 DEF Regions
  <2>2. PAGE_SIZE * 0 = 0 /\ Count - 0 = Count
    BY <1>2
  <2>3. at = [va |-> region.va + PAGE_SIZE * 0, pa |-> region.pa + PAGE_SIZE * 0,
              size |-> PAGE_SIZE * (Count - 0)]
    BY <1>2, <2>1, <2>2 DEF Init
  <2>4. \A d \in Entries : d \notin Entry .. Entry + 0 - 1
    BY <1>2 DEF Entries
  <2> QED
    BY <2>3, <2>4 DEF Init, Mapped, Pointing
<1>4. 0 \in 0 .. Count
  BY <1>2
<1>5. Written
  BY DEF Init, Written
<1> QED
  BY <1>1, <1>3, <1>4, <1>5 DEF Init, Inv

\* A table that has its entry keeps it, and one that has none gets it.
LEMMA EnsuredPointing ==
  ASSUME NEW e \in Entries, NEW next, NEW j \in Nat
  PROVE  Ensured(Pointing(e, next, j), e, next) = Pointing(e, next, j + 1)
<1> DEFINE table == Pointing(e, next, j)
           entry == make_table_desc(next)
<1>1. table[e] = IF j > 0 THEN entry ELSE Zero
  BY DEF Pointing
<1>2. entry.valid = TRUE /\ Zero.valid = FALSE
  BY DEF make_table_desc, Zero
<1> HIDE DEF entry
<1>3. Pointing(e, next, j + 1) = [d \in Entries |-> IF d = e THEN entry ELSE Zero]
  <2>1. j + 1 > 0
    OBVIOUS
  <2> QED
    BY <2>1 DEF Pointing, entry
<1>4. CASE j > 0
  <2>1. table[e].valid
    BY <1>1, <1>2, <1>4
  <2>2. table = Pointing(e, next, j + 1)
    BY <1>3, <1>4 DEF Pointing, entry
  <2> QED
    BY <2>1, <2>2 DEF Ensured
<1>5. CASE ~ (j > 0)
  <2>1. ~ table[e].valid
    BY <1>1, <1>2, <1>5
  <2>2. table = [d \in Entries |-> Zero]
    BY <1>5 DEF Pointing
  <2>3. [table EXCEPT ![e] = entry] = Pointing(e, next, j + 1)
    BY <1>3, <2>2
  <2> QED
    BY <2>1, <2>3 DEF Ensured, entry
<1> QED
  BY <1>4, <1>5

\* A round maps the next page: its entry of level 3 is the one behind those that are
\* in use, and its indices above are those of the first page.
LEMMA MapPageStep == Inv /\ MapPage => Inv'
<1> SUFFICES ASSUME Inv, MapPage PROVE Inv'
  OBVIOUS
<1>1. region \in Regions /\ pc = "map" /\ UNCHANGED <<region, regs, pc>>
  BY DEF Inv, MapPage
<1>2. /\ First \in Nat /\ Count \in 1 .. PAGE_TABLE_ENTRIES /\ region.pa \in Nat
      /\ region.va = PAGE_SIZE * First /\ region.size = PAGE_SIZE * Count
      /\ region.va \in Nat /\ region.va \div L2Span = Table
      /\ Entry \in Nat /\ Entry + Count <= PAGE_TABLE_ENTRIES
  BY <1>1, RegionPages, Spans
<1>3. PAGE_SIZE \in Nat \ {0} /\ PAGE_TABLE_ENTRIES \in Nat \ {0} /\ L2Span <= Space /\ Space \in Nat
  BY Spans
<1>4. PICK j \in 0 .. Count : Mapped(j)
  BY DEF Inv
<1>5. First' = First /\ Count' = Count /\ Entry' = Entry
  BY <1>1 DEF First, Count, Entry
<1>6. at.size = PAGE_SIZE * (Count - j) /\ at.va = region.va + PAGE_SIZE * j /\ at.pa = region.pa + PAGE_SIZE * j
  BY <1>4 DEF Mapped
<1>7. j < Count /\ j + 1 \in 0 .. Count /\ j \in Nat
  <2>1. at.size > 0
    BY DEF MapPage
  <2>2. PAGE_SIZE * 0 = 0
    BY <1>3
  <2>3. Count - j # 0
    BY <1>3, <1>6, <2>1, <2>2
  <2> QED
    BY <1>2, <2>3
<1>8. at.va = PAGE_SIZE * (First + j) /\ at.va \in Nat /\ at.pa \in Nat
  <2>1. PAGE_SIZE * (First + j) = PAGE_SIZE * First + PAGE_SIZE * j /\ PAGE_SIZE * j \in Nat
    BY <1>2, <1>3, <1>7
  <2> QED
    BY <1>2, <1>6, <2>1
<1>9. at.va \div PAGE_SIZE = First + j
  <2>1. First + j \in Nat /\ 0 \in 0 .. PAGE_SIZE - 1
    BY <1>2, <1>3, <1>7
  <2>2. (PAGE_SIZE * (First + j) + 0) \div PAGE_SIZE = First + j
    BY <1>3, <2>1, DivisionUnique
  <2> QED
    BY <1>8, <2>2
<1>10. at.va \div L2Span = Table /\ L3_INDEX(at.va) = Entry + j
  <2>1. First + j \in Nat /\ First + j \in First .. First + Count - 1
    BY <1>2, <1>7
  <2>2. (First + j) \div PAGE_TABLE_ENTRIES = Table
    BY <1>1, <2>1, PageEntries
  <2>3. (First + j) % PAGE_TABLE_ENTRIES = Entry + ((First + j) - First)
    BY <1>1, <2>1, PageEntries
  <2>4. (First + j) - First = j
    BY <1>2, <1>7
  <2> QED
    BY <1>8, <1>9, <2>2, <2>3, <2>4, Levels DEF L3_INDEX, L3Span
<1>11. /\ L0_INDEX(at.va) = L0_INDEX(region.va) /\ L1_INDEX(at.va) = L1_INDEX(region.va)
       /\ L2_INDEX(at.va) = L2_INDEX(region.va)
  BY <1>2, <1>8, <1>10, SameTables
<1>12. at' = [va |-> region.va + PAGE_SIZE * (j + 1), pa |-> region.pa + PAGE_SIZE * (j + 1),
              size |-> PAGE_SIZE * (Count - (j + 1))]
  <2>1. PAGE_SIZE * (j + 1) = PAGE_SIZE * j + PAGE_SIZE /\ PAGE_SIZE * j \in Nat
    BY <1>3, <1>7
  <2>2. at.va + PAGE_SIZE = region.va + PAGE_SIZE * (j + 1) /\ at.pa + PAGE_SIZE = region.pa + PAGE_SIZE * (j + 1)
    BY <1>2, <1>3, <1>6, <2>1
  <2>3. USize(at.size - PAGE_SIZE) = PAGE_SIZE * (Count - (j + 1))
    <3> DEFINE left == PAGE_SIZE * (Count - (j + 1))
    <3>1. at.size - PAGE_SIZE = left /\ left \in Nat
      BY <1>2, <1>3, <1>6, <1>7
    <3>2. left < L2Span
      <4>1. PAGE_TABLE_ENTRIES > Count - (j + 1) /\ Count - (j + 1) \in Nat
        BY <1>2, <1>3, <1>7
      <4>2. PAGE_SIZE * PAGE_TABLE_ENTRIES >= left + PAGE_SIZE
        BY <1>3, <4>1, MultiplesApart
      <4>3. PAGE_SIZE * PAGE_TABLE_ENTRIES \in Nat
        BY <1>3
      <4> QED
        BY <1>3, <3>1, <4>2, <4>3 DEF L2Span, L3Span
    <3> HIDE DEF left
    <3>3. left \in 0 .. 2 * Space - 1 /\ 2 * Space \in Nat \ {0}
      BY <1>3, <3>1, <3>2, Spans
    <3>4. ((2 * Space) * 0 + left) % (2 * Space) = left
      BY <3>3, DivisionUnique
    <3>5. (2 * Space) * 0 + left = left
      BY <1>3, <3>1
    <3> QED
      BY <3>1, <3>4, <3>5 DEF USize, left
  <2> QED
    BY <2>2, <2>3 DEF MapPage, Advance
<1>13. /\ l0_table' = Pointing(L0_INDEX(region.va), "l1_table", j + 1)
       /\ l1_table' = Pointing(L1_INDEX(region.va), "l2_table", j + 1)
       /\ l2_table' = Pointing(L2_INDEX(region.va), "l3_table", j + 1)
  <2>1. /\ l0_table' = Ensured(l0_table, L0_INDEX(region.va), "l1_table")
        /\ l1_table' = Ensured(l1_table, L1_INDEX(region.va), "l2_table")
        /\ l2_table' = Ensured(l2_table, L2_INDEX(region.va), "l3_table")
    BY <1>11 DEF MapPage, map_page, ensure_page_tables
  <2>2. /\ L0_INDEX(region.va) \in Entries /\ L1_INDEX(region.va) \in Entries
        /\ L2_INDEX(region.va) \in Entries
    BY <1>2, IndexTypes
  <2> QED
    BY <1>4, <1>7, <2>1, <2>2, EnsuredPointing DEF Mapped
<1>14. l3_table' = [d \in Entries |-> IF d \in Entry .. Entry + (j + 1) - 1
                                        THEN make_page_desc(region.pa + PAGE_SIZE * (d - Entry), NORMAL_MEMORY)
                                        ELSE Zero]
  <2>1. l3_table' = [l3_table EXCEPT ![Entry + j] = make_page_desc(region.pa + PAGE_SIZE * j, NORMAL_MEMORY)]
    BY <1>6, <1>10 DEF MapPage, map_page, install_pte
  <2>2. l3_table = [d \in Entries |-> IF d \in Entry .. Entry + j - 1
                                        THEN make_page_desc(region.pa + PAGE_SIZE * (d - Entry), NORMAL_MEMORY)
                                        ELSE Zero]
    BY <1>4 DEF Mapped
  <2>3. \A d \in Entries : d \in Entry .. Entry + (j + 1) - 1 <=> d = Entry + j \/ d \in Entry .. Entry + j - 1
    BY <1>2, <1>7 DEF Entries
  <2>4. (Entry + j) - Entry = j
    BY <1>2, <1>7
  <2> QED
    BY <2>1, <2>2, <2>3, <2>4
<1>15. Mapped(j + 1)'
  BY <1>1, <1>5, <1>12, <1>13, <1>14 DEF Mapped, Pointing, L0_INDEX, L1_INDEX, L2_INDEX
<1>16. Written'
  BY <1>1 DEF Inv, Written, regs
<1> QED
  BY <1>1, <1>5, <1>7, <1>15, <1>16 DEF Inv

\* The loop ends when all pages are mapped; the registers follow one by one.
LEMMA OtherSteps ==
  ASSUME Inv, MapDone \/ write_mair_el1 \/ write_tcr_el1 \/ write_ttbr0_el1 \/ write_sctlr_el1
              \/ UNCHANGED vars
  PROVE  Inv'
<1>1. UNCHANGED <<region, at, tables>>
  BY DEF MapDone, write_mair_el1, write_tcr_el1, write_ttbr0_el1, write_sctlr_el1, vars
<1>2. Count' = Count /\ \A j : Mapped(j)' = Mapped(j)
  BY <1>1 DEF First, Count, Entry, Mapped, Pointing, tables, L0_INDEX, L1_INDEX, L2_INDEX
<1>3. PICK j \in 0 .. Count : Mapped(j) /\ (pc # "map" => j = Count)
  BY DEF Inv
<1>4. pc' # "map" => j = Count
  <2>1. CASE MapDone
    <3>1. at.size = 0 /\ at.size = PAGE_SIZE * (Count - j)
      BY <1>3, <2>1 DEF MapDone, Mapped
    <3>2. Count - j \in Nat /\ PAGE_SIZE \in Nat \ {0}
      BY RegionPages, Spans DEF Inv
    <3>3. Count - j = 0
      BY <3>1, <3>2
    <3> QED
      BY <3>2, <3>3, RegionPages DEF Inv
  <2>2. CASE ~ MapDone
    BY <1>3, <2>2 DEF write_mair_el1, write_tcr_el1, write_ttbr0_el1, write_sctlr_el1, vars
  <2> QED
    BY <2>1, <2>2
<1>5. Written'
  BY DEF Inv, Written, MapDone, write_mair_el1, write_tcr_el1, write_ttbr0_el1, write_sctlr_el1,
     vars, regs
<1> QED
  BY <1>1, <1>2, <1>3, <1>4, <1>5 DEF Inv

\* The invariant: after each round exactly the pages so far are in the tables, and
\* the registers are written after the last.
THEOREM Invariance == Spec => []Inv
<1>1. Inv /\ [Next]_vars => Inv'
  BY MapPageStep, OtherSteps DEF Next, Loop
<1> QED
  BY <1>1, InitInv, PTL DEF Spec

\* Every variable of main() and of its tables keeps its type; in particular size,
\* which is unsigned, does not wrap, and no entry points to a table of another level.
THEOREM TypeCorrect == Spec => []TypeOK
<1>1. ASSUME Inv PROVE TypeOK
  <2>1. /\ Count \in 1 .. PAGE_TABLE_ENTRIES /\ region.pa \in Nat /\ region.va \in Nat /\ Entry \in Nat
        /\ PAGE_SIZE \in Nat \ {0} /\ PAGE_TABLE_ENTRIES \in Nat \ {0}
    BY <1>1, RegionPages, Spans DEF Inv
  <2>2. PICK j \in 0 .. Count : Mapped(j)
    BY <1>1 DEF Inv
  <2>3. at.va \in Nat /\ at.pa \in Nat /\ at.size \in 0 .. L2Span
    <3>1. /\ at.va = region.va + PAGE_SIZE * j /\ at.pa = region.pa + PAGE_SIZE * j
          /\ at.size = PAGE_SIZE * (Count - j)
      BY <2>2 DEF Mapped
    <3>2. PAGE_SIZE * j \in Nat /\ PAGE_SIZE * (Count - j) \in Nat /\ Count - j \in Nat
      BY <2>1
    <3>3. PAGE_SIZE * PAGE_TABLE_ENTRIES >= PAGE_SIZE * (Count - j)
      <4>1. Count - j = PAGE_TABLE_ENTRIES \/ PAGE_TABLE_ENTRIES > Count - j
        BY <2>1
      <4>2. PAGE_TABLE_ENTRIES > Count - j =>
              PAGE_SIZE * PAGE_TABLE_ENTRIES >= PAGE_SIZE * (Count - j) + PAGE_SIZE
        BY <2>1, <3>2, MultiplesApart
      <4>3. PAGE_SIZE * PAGE_TABLE_ENTRIES \in Nat
        BY <2>1
      <4> QED
        BY <2>1, <3>2, <4>1, <4>2, <4>3
    <3>4. PAGE_SIZE * PAGE_TABLE_ENTRIES \in Nat
      BY <2>1
    <3> QED
      BY <2>1, <3>1, <3>2, <3>3, <3>4 DEF L2Span, L3Span
  <2>4. ASSUME NEW next, NEW e
        PROVE  Pointing(e, next, j) \in Tables({make_table_desc(next)})
    BY DEF Pointing, Tables
  <2>5. \A d \in Entries : l3_table[d].valid =>
          l3_table[d].pa \in Nat /\ l3_table[d].attr = NORMAL_MEMORY
    <3> TAKE d \in Entries
    <3>1. CASE d \in Entry .. Entry + j - 1
      <4>1. l3_table[d] = make_page_desc(region.pa + PAGE_SIZE * (d - Entry), NORMAL_MEMORY)
        BY <2>2, <3>1 DEF Mapped
      <4>2. d - Entry \in Nat
        BY <2>1, <3>1
      <4>3. PAGE_SIZE * (d - Entry) \in Nat
        BY <2>1, <4>2
      <4>4. region.pa + PAGE_SIZE * (d - Entry) \in Nat
        BY <2>1, <4>3
      <4> QED
        BY <4>1, <4>4 DEF make_page_desc
    <3>2. CASE d \notin Entry .. Entry + j - 1
      <4>1. l3_table[d] = Zero
        BY <2>2, <3>2 DEF Mapped
      <4>2. Zero.valid = FALSE
        BY DEF Zero
      <4> QED
        BY <4>1, <4>2
    <3> QED
      BY <3>1, <3>2
  <2>6. /\ mair \in {"reset", "MAIR_VALUE"} /\ tcr \in {"reset", "TCR_VALUE"}
        /\ ttbr0 \in {"reset", "l0_table"}
        /\ pc \in {"map", "mair", "tcr", "ttbr0", "sctlr", "loop"}
    BY <1>1 DEF Inv, Written
  <2>7. mmu_on \in BOOLEAN
    BY <1>1 DEF Inv, Written
  <2>8. /\ l0_table \in Tables({make_table_desc("l1_table")})
        /\ l1_table \in Tables({make_table_desc("l2_table")})
        /\ l2_table \in Tables({make_table_desc("l3_table")})
    BY <2>2, <2>4 DEF Mapped
  <2> QED
    BY <2>3, <2>5, <2>6, <2>7, <2>8 DEF TypeOK
<1> QED
  BY <1>1, Invariance, PTL

\* When the MMU is on, every address of the region translates to its place, and no
\* other address translates: the walk ends at an entry of level 3 that is in use
\* only for an address whose page is one of the region's.
THEOREM CompleteWhenOn == Spec => []OnWhenComplete
<1>1. ASSUME Inv PROVE OnWhenComplete
  <2> SUFFICES ASSUME mmu_on, NEW va \in 0 .. Space - 1
               PROVE  Access(va) = IF va \in region.va .. region.va + region.size - 1
                                     THEN [pa |-> region.pa + (va - region.va), attr |-> NORMAL_MEMORY]
                                     ELSE Fault
    BY DEF OnWhenComplete
  <2>1. region \in Regions
    BY <1>1 DEF Inv
  <2>2. /\ First \in Nat /\ Count \in 1 .. PAGE_TABLE_ENTRIES /\ region.pa \in Nat
        /\ region.va \in 0 .. Space - 1 /\ region.va \div L2Span = Table
        /\ Entry \in Nat /\ Entry + Count <= PAGE_TABLE_ENTRIES
        /\ PAGE_SIZE \in Nat \ {0} /\ PAGE_TABLE_ENTRIES \in Nat \ {0} /\ Space \in Nat
    BY <2>1, RegionPages, Spans
  <2>3. pc = "loop" /\ Mapped(Count)
    BY <1>1 DEF Inv, Written
  <2>4. Access(va) = Walk(va)
    BY <1>1, <2>3 DEF Inv, Written, Access
  <2> DEFINE n == va \div PAGE_SIZE
             e == n % PAGE_TABLE_ENTRIES
             inside == va \in region.va .. region.va + region.size - 1
             Used == Entry .. Entry + Count - 1
  <2>5. va \in Nat /\ n \in Nat /\ va % PAGE_SIZE \in Nat /\ L3_INDEX(va) = e /\ e \in Entries
    <3>1. va \in Nat
      BY <2>2
    <3>2. n \in Nat /\ va % PAGE_SIZE \in Nat
      <4>1. n \in Nat /\ va % PAGE_SIZE \in 0 .. PAGE_SIZE - 1
        BY <2>2, <3>1, Division
      <4> HIDE DEF n
      <4> QED
        BY <2>2, <4>1
    <3>3. L3_INDEX(va) = e
      BY DEF L3_INDEX, L3Span
    <3> QED
      BY <3>1, <3>2, <3>3, IndexTypes
  <2>6. va \div L2Span = n \div PAGE_TABLE_ENTRIES
    BY <2>5, Levels
  <2>7. /\ inside <=> n \in First .. First + Count - 1
        /\ va - region.va = PAGE_SIZE * (n - First) + (va % PAGE_SIZE)
    BY <2>1, <2>5, AddressPages
  <2>8. /\ n \in First .. First + Count - 1 =>
             n \div PAGE_TABLE_ENTRIES = Table /\ e = Entry + (n - First)
        /\ n \div PAGE_TABLE_ENTRIES = Table /\ e \in Used =>
             n \in First .. First + Count - 1 /\ n - First = e - Entry
    BY <2>1, <2>5, PageEntries
  <2> HIDE DEF n, e
  \* The walk gets to level 3 for the addresses that share the tables of the region.
  <2>9. ( /\ l0_table[L0_INDEX(va)] = make_table_desc("l1_table")
          /\ l1_table[L1_INDEX(va)] = make_table_desc("l2_table")
          /\ l2_table[L2_INDEX(va)] = make_table_desc("l3_table") )
          <=> va \div L2Span = Table
    <3>1. Count > 0
      BY <2>2
    <3>2. ASSUME NEW d \in Entries, NEW x, NEW next
          PROVE  Pointing(x, next, Count)[d] = make_table_desc(next) <=> d = x
      <4>1. Pointing(x, next, Count)[d] = IF d = x THEN make_table_desc(next) ELSE Zero
        BY <3>1 DEF Pointing
      <4>2. make_table_desc(next).valid = TRUE /\ Zero.valid = FALSE
        BY DEF make_table_desc, Zero
      <4>3. make_table_desc(next) # Zero
        BY <4>2
      <4> QED
        BY <4>1, <4>3
    <3>3. L0_INDEX(va) \in Entries /\ L1_INDEX(va) \in Entries /\ L2_INDEX(va) \in Entries
      BY <2>5, IndexTypes
    <3>4. /\ l0_table[L0_INDEX(va)] = make_table_desc("l1_table") <=> L0_INDEX(va) = L0_INDEX(region.va)
          /\ l1_table[L1_INDEX(va)] = make_table_desc("l2_table") <=> L1_INDEX(va) = L1_INDEX(region.va)
          /\ l2_table[L2_INDEX(va)] = make_table_desc("l3_table") <=> L2_INDEX(va) = L2_INDEX(region.va)
      BY <2>3, <3>2, <3>3 DEF Mapped
    <3>5. region.va \in Nat
      BY <2>2
    <3>6. va \div L2Span = region.va \div L2Span =>
            /\ L0_INDEX(va) = L0_INDEX(region.va) /\ L1_INDEX(va) = L1_INDEX(region.va)
            /\ L2_INDEX(va) = L2_INDEX(region.va)
      BY <2>5, <3>5, SameTables
    <3>7. ( /\ L0_INDEX(va) = L0_INDEX(region.va) /\ L1_INDEX(va) = L1_INDEX(region.va)
            /\ L2_INDEX(va) = L2_INDEX(region.va) ) => va \div L2Span = region.va \div L2Span
      BY <2>2, TablesSame
    <3> QED
      BY <2>2, <3>4, <3>6, <3>7
  <2>10. /\ e \in Used => l3_table[e] = make_page_desc(region.pa + PAGE_SIZE * (e - Entry), NORMAL_MEMORY)
         /\ e \notin Used => l3_table[e] = Zero
    BY <2>3, <2>5 DEF Mapped
  <2>11. l3_table[e].valid <=> e \in Used
    BY <2>10 DEF make_page_desc, Zero
  <2>12. CASE inside
    <3>1. va \div L2Span = Table /\ e = Entry + (n - First)
      BY <2>6, <2>7, <2>8, <2>12
    <3>2. e \in Used /\ e - Entry = n - First
      BY <2>2, <2>5, <2>7, <2>12, <3>1
    <3>3. l3_table[e].pa = region.pa + PAGE_SIZE * (n - First) /\ l3_table[e].attr = NORMAL_MEMORY
      BY <2>10, <3>2 DEF make_page_desc
    <3>4. Walk(va) = [pa |-> l3_table[e].pa + (va % PAGE_SIZE), attr |-> l3_table[e].attr]
      BY <2>5, <2>9, <2>11, <3>1, <3>2 DEF Walk
    <3>5. (region.pa + PAGE_SIZE * (n - First)) + (va % PAGE_SIZE) = region.pa + (va - region.va)
      <4>1. n - First \in Nat
        BY <2>2, <2>5, <2>7, <2>12
      <4>2. PAGE_SIZE * (n - First) \in Nat
        BY <2>2, <4>1
      <4> QED
        BY <2>2, <2>5, <2>7, <4>2
    <3> QED
      BY <2>4, <2>12, <3>3, <3>4, <3>5
  <2>13. CASE ~ inside
    <3>1. ~ (va \div L2Span = Table /\ e \in Used)
      BY <2>6, <2>7, <2>8, <2>13
    <3>2. Walk(va) = Fault
      BY <2>5, <2>9, <2>11, <3>1 DEF Walk
    <3> QED
      BY <2>4, <2>13, <3>2
  <2> QED
    BY <2>12, <2>13
<1> QED
  BY <1>1, Invariance, PTL
=============================================================================
