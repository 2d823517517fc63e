------------------------------ MODULE VmallocCheck ------------------------------
(***************************************************************************)
(* 05_Kernel_Memory_Management/02_Vmalloc_Basic/main.c: insmod allocates   *)
(* with kmalloc and vmalloc, counts where the frames behind the vmalloc    *)
(* buffer are not contiguous, and undoes the first allocation when the     *)
(* second fails; rmmod frees both.                                         *)
(*                                                                         *)
(* A page is a frame number, or NoFrame where vmalloc_to_page gives NULL.  *)
(* Left out: check_kmalloc_contiguity, which only logs; the width of a     *)
(* frame number (page addresses end long before it).                       *)
(***************************************************************************)
EXTENDS Integers, FiniteSets

CONSTANTS
  VMALLOC_TEST_PAGES,
  Frames               \* bound: the frames there are

ASSUME PageAssumption == VMALLOC_TEST_PAGES \in Nat /\ Frames \subseteq Nat

NoFrame == -1

VARIABLES
  lab,              \* where module_driver_init or module_driver_clean is
  kbuffer, vbuffer, \* allocated
  page,             \* what vmalloc_to_page says of each page
  offset,           \* pages the loop has been through
  prev_pfn, page_num, discontig_count

scan == <<offset, prev_pfn, page_num, discontig_count>>
vmalloc_vars == <<lab, kbuffer, vbuffer, page, scan>>

Pages == 1 .. VMALLOC_TEST_PAGES

\* vmalloc takes frames wherever they are free, none of them twice.
Layouts ==
  {f \in [Pages -> Frames \cup {NoFrame}] :
     \A m, n \in Pages : m # n /\ f[m] = f[n] => f[m] = NoFrame}

VmallocTypeOK ==
  /\ lab \in {"kmalloc", "vmalloc", "check", "free_kbuffer", "loaded", "vfree", "failed", "unloaded"}
  /\ kbuffer \in BOOLEAN /\ vbuffer \in BOOLEAN
  /\ page \in Layouts \cup {<< >>}
  /\ offset \in 0 .. VMALLOC_TEST_PAGES /\ page_num \in 0 .. offset
  /\ discontig_count \in 0 .. VMALLOC_TEST_PAGES
  /\ prev_pfn \in Frames \cup {0}

VmallocInit ==
  /\ lab = "kmalloc" /\ kbuffer = FALSE /\ vbuffer = FALSE /\ page = << >>
  /\ offset = 0 /\ prev_pfn = 0 /\ page_num = 0 /\ discontig_count = 0

-----------------------------------------------------------------------------

AllocateK ==
  /\ lab = "kmalloc"
  /\ \/ kbuffer' = TRUE /\ lab' = "vmalloc"
     \/ UNCHANGED kbuffer /\ lab' = "failed"
  /\ UNCHANGED <<vbuffer, page, scan>>

AllocateV ==
  /\ lab = "vmalloc"
  /\ \/ vbuffer' = TRUE /\ lab' = "check" /\ page' \in Layouts
     \/ UNCHANGED <<vbuffer, page>> /\ lab' = "free_kbuffer"
  /\ UNCHANGED <<kbuffer, scan>>

\* Mutant: prev_pfn follows only contiguous frames.
CheckPageKeepsPrev ==
  /\ lab = "check" /\ offset < VMALLOC_TEST_PAGES
  /\ offset' = offset + 1
  /\ LET pfn == page[offset + 1] IN
     IF pfn = NoFrame THEN UNCHANGED <<prev_pfn, page_num, discontig_count>>
     ELSE LET contig == page_num = 0 \/ pfn = prev_pfn + 1 IN
          /\ discontig_count' = IF contig THEN discontig_count ELSE discontig_count + 1
          /\ prev_pfn' = IF contig THEN pfn ELSE prev_pfn
          /\ page_num' = page_num + 1
  /\ UNCHANGED <<lab, kbuffer, vbuffer, page>>

\* One round of the loop in check_vmalloc_contiguity.
CheckPage ==
  /\ lab = "check" /\ offset < VMALLOC_TEST_PAGES
  /\ offset' = offset + 1
  /\ LET pfn == page[offset + 1] IN
     IF pfn = NoFrame THEN UNCHANGED <<prev_pfn, page_num, discontig_count>>
     ELSE LET contig == page_num = 0 \/ pfn = prev_pfn + 1 IN
          /\ discontig_count' = IF contig THEN discontig_count ELSE discontig_count + 1
          /\ prev_pfn' = pfn
          /\ page_num' = page_num + 1
  /\ UNCHANGED <<lab, kbuffer, vbuffer, page>>

CheckDone ==
  /\ lab = "check" /\ offset = VMALLOC_TEST_PAGES
  /\ lab' = "loaded"
  /\ UNCHANGED <<kbuffer, vbuffer, page, scan>>

FreeKbuffer ==
  /\ lab = "free_kbuffer"
  /\ kbuffer' = FALSE /\ lab' = "failed"
  /\ UNCHANGED <<vbuffer, page, scan>>

\* module_driver_clean: both buffers are there, as insmod has succeeded.
CleanK ==
  /\ lab = "loaded"
  /\ kbuffer' = FALSE /\ lab' = "vfree"
  /\ UNCHANGED <<vbuffer, page, scan>>

CleanV ==
  /\ lab = "vfree"
  /\ vbuffer' = FALSE /\ lab' = "unloaded"
  /\ UNCHANGED <<kbuffer, page, scan>>

VmallocNext ==
  AllocateK \/ AllocateV \/ CheckPage \/ CheckDone \/ FreeKbuffer \/ CleanK \/ CleanV

-----------------------------------------------------------------------------
(* Properties *)

\* The pages whose frame is known, and those whose frame is not the one after the
\* frame of the page found before.
Found == {n \in Pages : page[n] # NoFrame}
FoundNext(m, n) == m \in Found /\ n \in Found /\ m < n /\ \A k \in Found : ~ (m < k /\ k < n)
Breaks == {n \in Found : \E m \in Found : FoundNext(m, n) /\ page[n] # page[m] + 1}

\* What is logged at the end is the number of pages found and the number of places
\* at which their frames are not contiguous, wherever pages are missing between.
DiscontigExact ==
  lab = "loaded" => page_num = Cardinality(Found) /\ discontig_count = Cardinality(Breaks)

\* A failed insmod and rmmod leave no buffer allocated.
VmallocLeftBehind == lab \in {"failed", "unloaded"} => ~kbuffer /\ ~vbuffer
=============================================================================
