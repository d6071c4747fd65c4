-------------------------------- MODULE Pmm --------------------------------
(***************************************************************************)
(* The bitmap physical memory manager, kernel/src/x86_64/pmm.c.            *)
(*                                                                         *)
(* The bitmap is the set of frames whose bit is 1 (allocated).  Frames     *)
(* above pmm_total_pages have bits in the last byte which no loop reads;   *)
(* they are left out.  The static variables start at 0, so the calls are   *)
(* defined before aurelion_pmm_init too: they find no frame.               *)
(* Addresses are below 2^52 on this architecture, so base + length does    *)
(* not wrap and is modelled in Nat.                                        *)
(***************************************************************************)
EXTENDS Naturals, Sequences, FiniteSets

CONSTANTS PageSize,     \* PMM_PAGE_SIZE, bytes of a frame
          BitsPerByte,  \* frames one byte of the bitmap describes
          BitmapPage,   \* frame at which the bitmap is placed (3 MiB)
          MemoryMaps    \* the memory maps a boot loader may hand over

VARIABLES booted,          \* aurelion_pmm_init has been called
          pmm_total_pages,
          pmm_bitmap,
          pmm_free_pages,
          ret,             \* result of the latest aurelion_pmm_alloc_page
          regions,         \* history: the memory map init was given
          held,            \* history: frames handed out, not yet returned
          reserved,        \* history: frames init left allocated
          released         \* history: those of them a caller has returned

vars == <<booted, pmm_total_pages, pmm_bitmap, pmm_free_pages, ret,
          regions, held, reserved, released>>

NULL == 0

Region == [base : Nat, length : Nat, type : {"usable", "reserved"}]

ASSUME PmmAssumption ==
  /\ PageSize \in Nat \ {0}
  /\ BitsPerByte \in Nat \ {0}
  /\ BitmapPage \in Nat
  /\ MemoryMaps \subseteq Seq(Region)

End(r) == r.base + r.length
CeilDiv(a, b) == (a + b - 1) \div b
\* Frames 0 .. total-1, what every loop over the bitmap ranges over.
Frames(total) == {f \in 0..total : f < total}
\* The frames a search of the bitmap would find.
FreeFrames == Frames(pmm_total_pages) \ pmm_bitmap

\* A plausible bug: the frame a region ends in counted as part of it.
MarkRegionRoundedUp(r, total) ==
  {f \in Frames(total) : r.base \div PageSize <= f
                          /\ f < CeilDiv(End(r), PageSize)}

\* pmm_mark_region: from the frame the base lies in to the one before the
\* frame the end lies in, cut at pmm_total_pages.
MarkRegion(r, total) ==
  {f \in Frames(total) : r.base \div PageSize <= f /\ f < End(r) \div PageSize}

\* The frames the first pass over the map clears.
MarkedFree(m, total) ==
  UNION {MarkRegion(m[i], total) : i \in {j \in DOMAIN m : m[j].type = "usable"}}

\* The frames the bitmap occupies.
BitmapFrames(total) ==
  LET bytes == CeilDiv(total, BitsPerByte)
  IN  {f \in Frames(total) : BitmapPage <= f /\ f < BitmapPage + CeilDiv(bytes, PageSize)}

\* A plausible bug: frame 0 left clear.
InitialBitsSansNull(usable, total) ==
  (Frames(total) \ usable) \cup BitmapFrames(total)

\* The bits init leaves set: what is not usable, the bitmap itself, frame 0.
InitialBits(usable, total) ==
  (Frames(total) \ usable) \cup BitmapFrames(total) \cup {0}

\* The count is taken before the bitmap's frames and frame 0 are marked.
CountFree(usable) == Cardinality(usable)
-----------------------------------------------------------------------------
Init == /\ booted = FALSE
        /\ pmm_total_pages = 0
        /\ pmm_bitmap = {}
        /\ pmm_free_pages = 0
        /\ ret = NULL
        /\ regions = <<>>
        /\ held = {}
        /\ reserved = {} /\ released = {}

\* aurelion_pmm_init given no memory map returns at once.
PmmInitNoMap ==
  /\ ~booted
  /\ <<>> \in MemoryMaps
  /\ booted' = TRUE
  /\ UNCHANGED <<pmm_total_pages, pmm_bitmap, pmm_free_pages, ret, regions,
                 held, reserved, released>>

\* aurelion_pmm_init: size the bitmap by the highest end of ANY region, mark
\* everything allocated, clear the usable regions, count, and only then mark
\* the bitmap's own frames and frame 0.
PmmInit(m) ==
  /\ ~booted
  /\ m # <<>>
  /\ \E max_phys \in {End(m[i]) : i \in DOMAIN m} :
       LET total == max_phys \div PageSize
           usable == MarkedFree(m, total)
           bits == InitialBits(usable, total)
       IN  /\ \A i \in DOMAIN m : End(m[i]) <= max_phys
           /\ pmm_total_pages' = total
           /\ pmm_free_pages' = CountFree(usable)
           /\ pmm_bitmap' = bits
           /\ reserved' = bits
  /\ booted' = TRUE
  /\ regions' = m
  /\ UNCHANGED <<ret, held, released>>

\* A plausible bug: the bit of the page handed out never set.
AllocPageUnmarked ==
  \E i \in FreeFrames :
    /\ \A j \in FreeFrames : i <= j
    /\ pmm_free_pages' = pmm_free_pages - 1
    /\ ret' = i * PageSize
    /\ held' = held \cup {i}
    /\ UNCHANGED <<booted, pmm_total_pages, pmm_bitmap, regions, reserved, released>>

\* aurelion_pmm_alloc_page finding the lowest clear bit ...
AllocPage ==
  \E i \in FreeFrames :
    /\ \A j \in FreeFrames : i <= j
    /\ pmm_bitmap' = pmm_bitmap \cup {i}
    /\ pmm_free_pages' = pmm_free_pages - 1
    /\ ret' = i * PageSize
    /\ held' = held \cup {i}
    /\ UNCHANGED <<booted, pmm_total_pages, regions, reserved, released>>

\* ... and finding none.
AllocFails ==
  /\ FreeFrames = {}
  /\ ret' = NULL
  /\ UNCHANGED <<booted, pmm_total_pages, pmm_bitmap, pmm_free_pages,
                 regions, held, reserved, released>>

\* A plausible bug: a free that trusts its caller not to free twice.
FreePageUntested(page) ==
  LET frame == page \div PageSize
  IN  /\ frame < pmm_total_pages
      /\ pmm_bitmap' = pmm_bitmap \ {frame}
      /\ pmm_free_pages' = pmm_free_pages + 1
      /\ held' = held \ {frame}
      /\ UNCHANGED <<booted, pmm_total_pages, ret, regions, reserved, released>>

\* aurelion_pmm_free_page of an address, which need not be a frame's first.
\* Only the bit is looked at: not who the frame belongs to, so that frame 0 or
\* one of the bitmap's own can be freed as well.
FreePage(page) ==
  LET frame == page \div PageSize
  IN  \/ /\ frame < pmm_total_pages /\ frame \in pmm_bitmap
         /\ pmm_bitmap' = pmm_bitmap \ {frame}
         /\ pmm_free_pages' = pmm_free_pages + 1
         /\ held' = held \ {frame}
         /\ reserved' = reserved \ {frame}
         /\ released' = released \cup ({frame} \cap reserved)
         /\ UNCHANGED <<booted, pmm_total_pages, ret, regions>>
      \/ /\ ~ (frame < pmm_total_pages /\ frame \in pmm_bitmap)
         /\ UNCHANGED vars

\* The addresses a caller may pass: anywhere in the memory the bitmap describes
\* and in the frame above it, whether the caller owns the frame or not.
Freeable == 0 .. (pmm_total_pages + 1) * PageSize

Next == \/ PmmInitNoMap
        \/ \E m \in MemoryMaps : PmmInit(m)
        \/ AllocPage
        \/ AllocFails
        \/ \E page \in Freeable : FreePage(page)

Spec == Init /\ [][Next]_vars
-----------------------------------------------------------------------------
TypeOK ==
  /\ booted \in BOOLEAN
  /\ pmm_total_pages \in Nat
  /\ pmm_bitmap \subseteq 0..pmm_total_pages
  /\ pmm_free_pages \in Nat
  /\ ret \in Nat
  /\ held \subseteq 0..pmm_total_pages
  /\ reserved \subseteq 0..pmm_total_pages
  /\ released \subseteq 0..pmm_total_pages

\* A set bit has exactly one owner: a caller that was handed the frame, or
\* nobody since init, until somebody frees it all the same.  No frame is handed
\* out twice and none is lost (the bitmap updates of alloc_page and free_page).
OneOwner ==
  /\ pmm_bitmap = held \cup reserved
  /\ held \cap reserved = {}

\* The bitmap's own frames and frame 0 become free or held only if a caller
\* frees one of them, which free_page does not refuse: no order of requests and
\* of other frees, twice or out of range, makes the allocator hand out the
\* memory its bitmap lies in, or an address like its refusal.
GuardsKept ==
  booted /\ pmm_total_pages > 0 =>
    (BitmapFrames(pmm_total_pages) \cup {0}) \cap (FreeFrames \cup held) \subseteq released

\* The counter never claims fewer pages than a search would find, so the
\* unsigned pmm_free_pages-- of alloc_page can never wrap below zero.
CountNeverShort == pmm_free_pages >= Cardinality(FreeFrames)

\* The allocator's state is sound between any two calls: owners, guards and the
\* counter, whatever callers have allocated and whatever address they freed.
Inv == TypeOK /\ OneOwner /\ GuardsKept /\ CountNeverShort

\* Nobody is handed a frame that is not entirely usable memory, unless somebody
\* has freed it without having been given it.
OnlyUsable ==
  \A f \in (FreeFrames \cup held) \ released :
    \A b \in f * PageSize .. (f + 1) * PageSize - 1 :
      \E i \in DOMAIN regions : /\ regions[i].type = "usable"
                                /\ b \in regions[i].base .. End(regions[i]) - 1

\* After init the error of the counter never changes: each call moves the
\* counter by exactly what it does to the bitmap.
DriftConstant ==
  [][booted => pmm_free_pages' + Cardinality(FreeFrames)
                 = pmm_free_pages + Cardinality(FreeFrames')]_vars

\* The manager implements the abstract page allocator: every call is one of
\* its steps or changes nothing it shows (double frees, frees out of range).
Abstract == INSTANCE PageAllocator
              WITH ready <- booted, free <- FreeFrames, out <- ret, gifts <- released
Implements == Abstract!Spec

\* pmm.c:83 and docs/building.md:93 call pmm_free_pages the free pages.
FreeCountExact == pmm_free_pages = Cardinality(FreeFrames)

\* pmm.c:13 and pmm.c:45: the bitmap ends at the highest USABLE address.
HighestUsable ==
  pmm_total_pages > 0 =>
    \E i \in DOMAIN regions : /\ regions[i].type = "usable"
                              /\ pmm_total_pages * PageSize <= End(regions[i])

\* pmm.c:98: page 0 is kept allocated, so no grant looks like a refusal.
\* (A caller that frees the NULL of a refused request ends this.)
NullNeverGranted ==
  [][\A f \in held' \ held : ret' # NULL]_vars
============================================================================
