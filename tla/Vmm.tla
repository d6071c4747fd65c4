-------------------------------- MODULE Vmm --------------------------------
(***************************************************************************)
(* The virtual memory manager, kernel/src/x86_64/vmm.c, and the MMU that   *)
(* reads the tables it writes.                                             *)
(*                                                                         *)
(* Physical memory is a function from frames to arrays of Fan entries, so  *)
(* that a data frame followed as if it were a table reads as one.  A       *)
(* virtual page is the sequence of its four indices.  Page tables come     *)
(* from the physical memory manager: the lowest free frame, or none        *)
(* (module Pmm).  Access rights are left out: every mapping is writable    *)
(* and for the kernel.                                                     *)
(*                                                                         *)
(* The manager reads and writes tables at their physical addresses.  Under *)
(* the loader's mapping it reaches every frame; under its own only the     *)
(* Early ones, and a table beyond them is a page fault, after which the    *)
(* handler of idt.c halts the processor.                                   *)
(***************************************************************************)
EXTENDS Integers, Sequences, FiniteSets

CONSTANTS Fan,                   \* entries of a table (512)
          EarlyLarge,            \* EARLY_IDENTITY_LARGE_PAGES
          Pml4, Pdpt, Pd, PtLow, \* frames of the static tables
          Pools,                 \* the sets of frames, wherever they lie, that the
                                 \* physical memory manager may have free for init
          SlotAlias,             \* the index init points at Pdpt as well (510)
          SlotHigh,              \* the index of VMM_HIGHER_HALF (511)
          SlotFb,                \* the index of VMM_FRAMEBUFFER_BASE (288)
          Virts,                 \* pages callers map and unmap
          Targets,               \* frames callers map them to
          PageBytes,             \* VMM_PAGE_SIZE
          Top,                   \* UINT64_MAX
          Framebuffers           \* what the loader may hand over, or NoDisplay

VARIABLES mem,                   \* physical memory that may hold tables
          pool,                  \* frames it had free when init was called
          free,                  \* frames the physical memory manager has free
          cr3,                   \* the tables in force: "loader" or "kernel"
          tlb,                   \* translations the processor has cached
          display,               \* the display given to vmm_init
          mapping,               \* what vmm_init returned
          faulted                \* the manager ran into a page fault

vars == <<mem, pool, free, cr3, tlb, display, mapping, faulted>>

Index == 0 .. Fan - 1
Early == 0 .. EarlyLarge * Fan - 1
Pool == UNION Pools
Frames == Early \cup Pool
NULL == 0
\* struct aurelion_framebuffer; NoDisplay is the pointer NULL.
Descriptions == [address : Nat, width : Nat, height : Nat, pitch : Nat, bpp : Nat]
NoDisplay == [address |-> 0, width |-> 0, height |-> 0, pitch |-> 0, bpp |-> 0]
Entry == [present : BOOLEAN, large : BOOLEAN, frame : Nat]
Empty == [present |-> FALSE, large |-> FALSE, frame |-> 0]
To(f) == [present |-> TRUE, large |-> FALSE, frame |-> f]
LargeTo(f) == [present |-> TRUE, large |-> TRUE, frame |-> f]
ZeroTable == [k \in Index |-> Empty]

ASSUME VmmAssumption ==
  /\ Fan \in Nat \ {0, 1} /\ EarlyLarge \in 2 .. Fan
  /\ {SlotAlias, SlotHigh, SlotFb} \subseteq Index \ {0} /\ SlotFb # SlotAlias
  /\ {Pml4, Pdpt, Pd, PtLow} \subseteq Early \ {0} /\ Pool \subseteq Nat \ {0}
  /\ {Pml4, Pdpt, Pd, PtLow} \cap Pool = {}
  /\ Pml4 \notin {Pdpt, Pd, PtLow} /\ Pdpt \notin {Pd, PtLow} /\ Pd # PtLow
  /\ Virts \subseteq [1..4 -> Index] /\ Targets \subseteq Nat
  /\ \A v \in Virts : v[1] \notin {0, SlotAlias}
  /\ PageBytes \in Nat \ {0} /\ Top \in Nat
  /\ Framebuffers \subseteq Descriptions
-----------------------------------------------------------------------------
(* The processor.                                                          *)

\* What the MMU translates a page to, or -1: a page fault.
Translate(m, v) ==
  LET e4 == m[Pml4][v[1]]
      e3 == m[e4.frame][v[2]]
      e2 == m[e3.frame][v[3]]
      e1 == m[e2.frame][v[4]]
  IN  CASE ~e4.present -> -1
        [] e4.present /\ ~e3.present -> -1
        [] e4.present /\ e3.present /\ ~e2.present -> -1
        [] e4.present /\ e3.present /\ e2.present /\ e2.large -> e2.frame + v[4]
        [] e4.present /\ e3.present /\ e2.present /\ ~e2.large ->
             IF e1.present THEN e1.frame ELSE -1

-----------------------------------------------------------------------------
(* vmm_get_next_level and the calls made of it, as functions of the state  *)
(* s = [mem, free, table] that they read and write.  Table NULL is failure *)
(* and a table that is not within reach a page fault, when it is read or   *)
(* cleared: neither is gone on from.                                       *)

Near == Early \ {NULL}
Anywhere == Frames \ {NULL}
Faults(s, within) == s.table \notin within \cup {NULL}

\* Plausible bugs: the new table not cleared, or linked to the slot beside.
LinkUncleared(s, k, f) ==
  [mem |-> [s.mem EXCEPT ![s.table][k] = To(f)], free |-> s.free \ {f}, table |-> f]
LinkToFirst(s, k, f) ==
  [mem |-> [s.mem EXCEPT ![f] = ZeroTable, ![s.table][0] = To(f)],
   free |-> s.free \ {f}, table |-> f]

\* A new table is cleared, then linked.
Link(s, k, f) ==
  [mem |-> [s.mem EXCEPT ![f] = ZeroTable, ![s.table][k] = To(f)],
   free |-> s.free \ {f}, table |-> f]

Lowest(fr) == CHOOSE f \in fr : \A g \in fr : f <= g

\* A present entry is followed whether or not it maps a large page.
NextLevel(s, k, within, allocate) ==
  LET New(f) == IF f \in within THEN Link(s, k, f)
                ELSE [mem |-> s.mem, free |-> s.free \ {f}, table |-> f]
  IN  IF s.table \notin within THEN s
      ELSE IF s.mem[s.table][k].present THEN [s EXCEPT !.table = s.mem[s.table][k].frame]
      ELSE IF allocate /\ s.free # {} THEN New(Lowest(s.free))
      ELSE [s EXCEPT !.table = NULL]

At(m, fr) == [mem |-> m, free |-> fr, table |-> Pml4]

\* Down to the page table of virtual page v, with leave to allocate or not.
Creating(m, fr, within, v) ==
  NextLevel(NextLevel(NextLevel(At(m, fr), v[1], within, TRUE),
                      v[2], within, TRUE), v[3], within, TRUE)
Finding(m, v) ==
  NextLevel(NextLevel(NextLevel(At(m, {}), v[1], Near, FALSE),
                      v[2], Near, FALSE), v[3], Near, FALSE)

\* A plausible bug: the entry of the page table chosen by the directory's index.
MapPageByDirectory(m, fr, within, v, f) ==
  LET s == Creating(m, fr, within, v)
  IN  IF s.table \notin within THEN s ELSE [s EXCEPT !.mem[s.table][v[3]] = To(f)]

\* aurelion_vmm_map_page: without a word if a table cannot be allocated.
MapPage(m, fr, within, v, f) ==
  LET s == Creating(m, fr, within, v)
  IN  IF s.table \notin within THEN s ELSE [s EXCEPT !.mem[s.table][v[4]] = To(f)]

\* aurelion_vmm_get_physical, or -1 if it faults.
GetPhysical(m, v) ==
  LET s == Finding(m, v)
  IN  IF s.table = NULL THEN 0
      ELSE IF s.table \notin Near THEN -1
      ELSE IF m[s.table][v[4]].present THEN m[s.table][v[4]].frame ELSE 0

\* The static tables as init writes them: the first Fan pages one by one, the
\* next ones large, and the same PDPT once more at SlotAlias.
InitialTables(m) ==
  [m EXCEPT
     ![Pml4] = [k \in Index |-> IF k \in {0, SlotAlias} THEN To(Pdpt) ELSE Empty],
     ![Pdpt] = [k \in Index |-> IF k = 0 THEN To(Pd) ELSE Empty],
     ![Pd] = [k \in Index |-> CASE k = 0 -> To(PtLow)
                                [] k \in 1 .. EarlyLarge - 1 -> LargeTo(k * Fan)
                                [] OTHER -> Empty],
     ![PtLow] = [k \in Index |-> To(k)]]

FbPage(k) == <<SlotFb, 0, k \div Fan, k % Fan>>
Bytes(d) == d.pitch * d.height
Offset(d) == d.address % PageBytes
DisplayPages(d) == (Offset(d) + Bytes(d) + PageBytes - 1) \div PageBytes

\* Whether vmm_map_framebuffer maps a display at all: a description with a
\* field left 0, or too large to count, is refused.  (The last never happens:
\* pitch and height have half the bits of the count.)
Mappable(d) ==
  /\ 0 \notin {d.address, d.width, d.height, d.pitch, d.bpp}
  /\ Bytes(d) <= Top - Offset(d)

\* No display takes more than one table of page directories' worth of pages.
ASSUME DisplayAssumption ==
  \A d \in Framebuffers : Mappable(d) => DisplayPages(d) <= Fan * Fan

\* Its pages one after the other, n of them.
MapPages(m, fr, d, n) ==
  LET after[k \in 0 .. n] ==
        IF k = 0 THEN At(m, fr)
        ELSE MapPage(after[k-1].mem, after[k-1].free, Anywhere, FbPage(k-1),
                     (d.address \div PageBytes) + k - 1)
  IN  after[n]

\* A plausible bug: the offset of the display within its first page forgotten.
MapFramebufferSansOffset(m, fr, d) ==
  IF ~Mappable(d) THEN At(m, fr)
  ELSE MapPages(m, fr, d, (Bytes(d) + PageBytes - 1) \div PageBytes)

\* aurelion_vmm_map_framebuffer.
MapFramebuffer(m, fr, d) ==
  IF ~Mappable(d) THEN At(m, fr) ELSE MapPages(m, fr, d, DisplayPages(d))
-----------------------------------------------------------------------------
Init ==
  /\ mem \in {[f \in Frames |-> ZeroTable],          \* whatever memory held before
              [f \in Frames |-> [k \in Index |-> To(1)]]}
  /\ pool \in Pools /\ free = pool
  /\ cr3 = "loader"
  /\ tlb = [v \in {} |-> 0]
  /\ display = NoDisplay /\ mapping = NULL /\ faulted = FALSE

\* aurelion_vmm_init, which loads CR3 and so empties the TLB.  It returns
\* NULL for a display that it does not map, and its address otherwise.
VmmInit(d) ==
  LET s == MapFramebuffer(InitialTables(mem), free, d)
  IN  /\ cr3 = "loader"
      /\ cr3' = "kernel"
      /\ mem' = s.mem /\ free' = s.free
      /\ tlb' = [v \in {} |-> 0]
      /\ display' = d
      /\ mapping' = IF Mappable(d) THEN 1 ELSE NULL
      /\ UNCHANGED <<pool, faulted>>

Running == cr3 = "kernel" /\ ~faulted

CallMapPage(v, f) ==
  LET s == MapPage(mem, free, Near, v, f)
  IN  /\ Running
      /\ mem' = s.mem /\ free' = s.free
      /\ faulted' = Faults(s, Near)
      /\ UNCHANGED <<pool, cr3, tlb, display, mapping>>

\* A plausible bug: the cached translation left behind.
CallUnmapPageUnflushed(v) ==
  LET s == Finding(mem, v)
  IN  /\ Running
      /\ s.table # NULL
      /\ faulted' = Faults(s, Near)
      /\ mem' = IF Faults(s, Near) THEN mem ELSE [mem EXCEPT ![s.table][v[4]] = Empty]
      /\ UNCHANGED <<pool, free, cr3, tlb, display, mapping>>

\* aurelion_vmm_unmap_page clears the entry and invalidates the page.
CallUnmapPage(v) ==
  LET s == Finding(mem, v)
  IN  /\ Running
      /\ s.table # NULL
      /\ faulted' = Faults(s, Near)
      /\ mem' = IF Faults(s, Near) THEN mem ELSE [mem EXCEPT ![s.table][v[4]] = Empty]
      /\ tlb' = IF Faults(s, Near) THEN tlb ELSE [w \in DOMAIN tlb \ {v} |-> tlb[w]]
      /\ UNCHANGED <<pool, free, cr3, display, mapping>>

\* The processor reads memory through page v and caches the translation.
Access(v) ==
  /\ Running
  /\ v \notin DOMAIN tlb /\ Translate(mem, v) # -1
  /\ tlb' = [w \in DOMAIN tlb \cup {v} |-> IF w = v THEN Translate(mem, v) ELSE tlb[w]]
  /\ UNCHANGED <<mem, pool, free, cr3, display, mapping, faulted>>

\* ... or drops a translation it had cached.
Evict(v) ==
  /\ v \in DOMAIN tlb
  /\ tlb' = [w \in DOMAIN tlb \ {v} |-> tlb[w]]
  /\ UNCHANGED <<mem, pool, free, cr3, display, mapping, faulted>>

Next ==
  \/ \E d \in Framebuffers : VmmInit(d)
  \/ \E v \in Virts : \/ \E f \in Targets : CallMapPage(v, f)
                      \/ CallUnmapPage(v)
                      \/ Access(v)
                      \/ Evict(v)

Spec == Init /\ [][Next]_vars
-----------------------------------------------------------------------------
\* The first slot of the address space, and the part of it that init maps.
FirstSlot == {<<0, j, k, l>> : j \in Index, k \in Index, l \in Index}
Identity == {<<0, 0, k, l>> : k \in 0 .. EarlyLarge - 1, l \in Index}

TypeOK ==
  /\ mem \in [Frames -> [Index -> Entry]]
  /\ pool \in Pools /\ free \subseteq pool
  /\ cr3 \in {"loader", "kernel"}
  /\ DOMAIN tlb \subseteq Virts
  /\ display \in Framebuffers \cup {NoDisplay} /\ mapping \in {NULL, 1}
  /\ faulted \in BOOLEAN

\* The early identity map, under which the kernel itself runs and reaches the
\* Early frames and no others, survives every map and unmap of other pages.
IdentityKept ==
  cr3 = "kernel" =>
    \A v \in FirstSlot :
      Translate(mem, v) = IF v \in Identity THEN v[3] * Fan + v[4] ELSE -1

\* The tables are well formed, and the kernel stays mapped under itself.
Inv == TypeOK /\ IdentityKept

\* Until a fault ends everything, every frame taken from the physical memory
\* manager is linked into the tables exactly once, and no frame that is still
\* free is: tables are never shared or lost.
TablesOwned ==
  Running =>
    LET tables == {Pml4, Pdpt, Pd} \cup (pool \ free)
        links(f) == {l \in tables \X Index : mem[l[1]][l[2]] = To(f)}
    IN  \A f \in Pool : Cardinality(links(f)) = IF f \in pool \ free THEN 1 ELSE 0

\* A request to map page v to frame f is done; or it is refused without a word,
\* because no frame is left; or it is the kernel's last, because the only
\* frames left for its tables lie beyond those that the kernel reaches.
Done(v, f) == ~faulted' /\ Translate(mem', v) = f
RefusedDry(v) == ~faulted' /\ free' = {} /\ Translate(mem', v) = Translate(mem, v)
OutOfReach(v) == /\ faulted' /\ free' \cap Near = {} /\ free \ Near # {}
                 /\ Translate(mem', v) = Translate(mem, v)

\* Whatever becomes of a request, no other page is disturbed.
MapExact ==
  [][\A v \in Virts, f \in Targets :
       CallMapPage(v, f) =>
         /\ Done(v, f) \/ RefusedDry(v) \/ OutOfReach(v)
         /\ \A w \in (Virts \cup Identity) \ {v} : Translate(mem', w) = Translate(mem, w)]_vars

\* What the processor reaches through a page: by the TLB if it is cached there.
Reached(v) == IF v \in DOMAIN tlb THEN tlb[v] ELSE Translate(mem, v)

Asked == IF cr3 = "loader" THEN {} ELSE {v \in Virts : GetPhysical(mem, v) # 0}
Seen == IF cr3 = "loader" THEN {} ELSE {v \in Virts : Reached(v) # -1}

Space == INSTANCE AddressSpace WITH
           Pages <- Virts,
           state <- IF faulted THEN "stopped" ELSE IF cr3 = "kernel" THEN "up" ELSE "down",
           map <- [v \in Asked |-> GetPhysical(mem, v)],
           seen <- [v \in Seen |-> Reached(v)]

\* Vmm implements an address space: get_physical answers with the frame last
\* asked for, the processor reaches that frame or, for a page mapped over
\* another mapping, still the former one; and unmapping flushes what it must.
Implements == Space!Spec

\* vmm.h:25 has init map the display: all of it, if it says it did.
DisplayMapped ==
  mapping # NULL =>
    \A k \in 0 .. DisplayPages(display) - 1 :
      Translate(mem, FbPage(k)) = (display.address \div PageBytes) + k

\* vmm.c:71: Virtual 0xFFFFFFFF80000000 maps to physical 0.
HigherHalfMapped == cr3 = "kernel" => Translate(mem, <<SlotHigh, 0, 0, 0>>) = 0
============================================================================
