------------------------------- MODULE Memory --------------------------------
(***************************************************************************)
(* Page frames and what is built on them (pmm.c, vmm.c): kmmap() and       *)
(* kmunmap() of a length, and the break of ksbrk().  A page has PAGE_SIZE   *)
(* units, so that a length need not fill its last page.                    *)
(* Holders give back what they took, as it was given to them.              *)
(***************************************************************************)
EXTENDS Integers, FiniteSetsExt

CONSTANTS
  PMM_POOL_PAGES, BRK_REGION_PAGES, PAGE_SIZE,
  Lengths,     \* lengths that are asked for
  MaxMappings  \* bound: mappings held

VARIABLES
  pmm_bitmap, \* the frames in use
  pmm_used,   \* how many there are
  mappings,   \* what is held: [base frame, length]
  brk         \* break: base frame (-1 before the first call), and current

ASSUME MemoryAssumption ==
  /\ PMM_POOL_PAGES \in Nat /\ BRK_REGION_PAGES \in Nat /\ PAGE_SIZE \in Nat \ {0}
  /\ Lengths \subseteq Int

memVars == <<pmm_bitmap, pmm_used, mappings, brk>>

Frames == 0..PMM_POOL_PAGES - 1
MMAP_FAILED == -1
Run(start, n) == start..start + n - 1

\* vm_init
MemInit ==
  pmm_bitmap = {} /\ pmm_used = 0 /\ mappings = {} /\ brk = [base |-> -1, cur |-> 0]

pages_for(length) == (length + PAGE_SIZE - 1) \div PAGE_SIZE

\* pmm_alloc_page and pmm_alloc_pages: the first run of n free frames.  The
\* search goes on behind the used frame that ended a run, and so finds it.
Used(start, n) == Run(start, n) \cap pmm_bitmap
ScanFrom(n) ==
  LET scan[start \in 0..PMM_POOL_PAGES] ==
        IF start + n > PMM_POOL_PAGES THEN MMAP_FAILED
        ELSE IF Used(start, n) = {} THEN start
        ELSE scan[Min(Used(start, n)) + 1]
  IN  scan

\* Seeded fault: the search goes on two behind the used frame.
SkipsAFrame(n) ==
  LET scan[start \in 0..PMM_POOL_PAGES + 1] ==
        IF start + n > PMM_POOL_PAGES THEN MMAP_FAILED
        ELSE IF Used(start, n) = {} THEN start
        ELSE scan[Min(Used(start, n)) + 2]
  IN  scan[0]

pmm_alloc_pages(n) == IF n = 0 THEN MMAP_FAILED ELSE ScanFrom(n)[0]

Takes(start, n) ==
  pmm_bitmap' = pmm_bitmap \cup Run(start, n) /\ pmm_used' = pmm_used + n

\* pmm_free_pages: frames that are free, or behind the pool, are passed over.
pmm_free_pages(start, n) ==
  LET freed == Used(start, n)
  IN  pmm_bitmap' = pmm_bitmap \ freed /\ pmm_used' = pmm_used - Cardinality(freed)

kmmap(length) ==
  /\ length > 0 /\ Cardinality(mappings) < MaxMappings
  /\ LET n == pages_for(length)
         start == pmm_alloc_pages(n)
     IN  /\ start # MMAP_FAILED
         /\ Takes(start, n)
         /\ mappings' = mappings \cup {[base |-> start, length |-> length]}
  /\ UNCHANGED brk

kmunmap(m) ==
  /\ pmm_free_pages(m.base, pages_for(m.length))
  /\ mappings' = mappings \ {m}
  /\ UNCHANGED brk

\* The first call takes the region; the break stays inside it.
ksbrk(increment) ==
  LET start == IF brk.base < 0 THEN pmm_alloc_pages(BRK_REGION_PAGES) ELSE brk.base
      next == (IF brk.base < 0 THEN 0 ELSE brk.cur) + increment
  IN  /\ start # MMAP_FAILED
      /\ IF brk.base < 0 THEN Takes(start, BRK_REGION_PAGES) ELSE UNCHANGED <<pmm_bitmap, pmm_used>>
      /\ brk' = [base |-> start,
                 cur |-> IF next \in 0..BRK_REGION_PAGES * PAGE_SIZE THEN next
                         ELSE next - increment]
      /\ UNCHANGED mappings

MemNext ==
  \/ \E length \in Lengths : kmmap(length) \/ ksbrk(length) \/ ksbrk(-length)
  \/ \E m \in mappings : kmunmap(m)

MemSpec == MemInit /\ [][MemNext]_memVars

-----------------------------------------------------------------------------
(* Properties. *)

\* The frames a holder may touch: those its length reaches into.
Touched(m) == {f \in Frames : f * PAGE_SIZE < m.base * PAGE_SIZE + m.length /\ f >= m.base}
TouchedFrames == UNION {Touched(m) : m \in mappings}
BrkFrames == IF brk.base < 0 THEN {} ELSE Run(brk.base, BRK_REGION_PAGES)

OneHolderEach ==
  /\ \A m1, m2 \in mappings : m1 # m2 => Touched(m1) \cap Touched(m2) = {}
  /\ \A m \in mappings : Touched(m) \cap BrkFrames = {}
  /\ pmm_bitmap = TouchedFrames \cup BrkFrames
  /\ pmm_used = Cardinality(pmm_bitmap)

FailsOnlyWhenFull ==
  \A n \in 1..PMM_POOL_PAGES :
    pmm_alloc_pages(n) = MMAP_FAILED =>
      \A start \in 0..PMM_POOL_PAGES - n : Run(start, n) \cap pmm_bitmap # {}

\* No two holders share a frame, none touches a free one, every frame in use
\* has a holder, and the counter tells how many there are; and an allocation
\* fails only if there is no run of free frames of its length, though the
\* search leaves out those that begin in a run it has rejected.
FramesAreAccountedFor == OneHolderEach /\ FailsOnlyWhenFull
=============================================================================
