------------------------------- MODULE Stage1 -------------------------------
(***************************************************************************)
(* The Multiboot stage-1 loader: multiboot_main of boot/stage1/multiboot.c *)
(* and the mode switch of boot/stage1/start32.S.                           *)
(*                                                                         *)
(* Memory is a function from cells to what they hold; a segment is a run   *)
(* of cells, and so are the loader itself and the module with the kernel's *)
(* file, whose first cell holds all headers.  Sizes in the Multiboot       *)
(* memory map are in bytes, as its walk depends on them.  Interrupts are   *)
(* off throughout.  Serial output is left out.                             *)
(***************************************************************************)
EXTENDS Integers, Sequences, FiniteSets

CONSTANTS Cells,        \* memory
          Image,        \* cells of stage 1: code, tables, regions, boot_info
          MaxRegions,   \* MAX_MEMORY_REGIONS
          Boots         \* what the Multiboot loader may leave behind

VARIABLES phase, boot, mem,
          mmap_addr,    \* offset of the entry the walk is at
          mem_regions,
          i,            \* the program header the loop is at
          phys_base,
          rdi, rsi, rax \* what the registers hold at the mode switch

vars == <<phase, boot, mem, mmap_addr, mem_regions, i, phys_base, rdi, rsi, rax>>
regs == <<rdi, rsi, rax>>

AllOnes == -1             \* 0xFFFFFFFFFFFFFFFF
EntryBytes == 24          \* sizeof(struct multiboot_mmap_entry)
Ends == {"halted", "fault", "wild", "jumped"}

LoadSegments(b) == {k \in DOMAIN b.phdrs : b.phdrs[k].load /\ b.phdrs[k].memsz > 0}
Targets(ph) == ph.paddr .. ph.paddr + ph.memsz - 1

Phdrs == [load : BOOLEAN, paddr : Nat, offset : Nat, filesz : Nat, memsz : Nat]
MmapEntries == [size : Nat, base : Nat, length : Nat, type : Nat]

(* entry: where the loader jumps to.  magic: eax, or what the stack holds    *)
(* where multiboot_main expects it, is the Multiboot magic.  map: which of   *)
(* the two flags describe memory.  at: first cell of the module.  An entry   *)
(* has its 20 bytes, as Multiboot says, and a segment that is loaded has its *)
(* part of the file and its place in memory, as ELF says: neither is checked *)
(* by the code.                                                              *)
ASSUME Stage1Assumption ==
  /\ Cells \subseteq Nat /\ Image \subseteq Cells
  /\ MaxRegions \in Nat /\ MaxRegions >= 2
  /\ \A b \in Boots :
       /\ b.entry \in {"_start", "multiboot_main"}
       /\ b.magic \in BOOLEAN /\ b.module \in BOOLEAN /\ b.elf \in BOOLEAN
       /\ b.map \in {"mmap", "memory", "none"}
       /\ {b.at, b.lower, b.upper} \subseteq Nat /\ b.filecells \in Nat \ {0}
       /\ b.at .. b.at + b.filecells - 1 \subseteq Cells \ Image
       /\ b.entries \in Seq(MmapEntries) /\ \A k \in DOMAIN b.entries : b.entries[k].size >= 20
       /\ b.phdrs \in Seq(Phdrs)
       /\ \A k \in LoadSegments(b) :
            /\ Targets(b.phdrs[k]) \subseteq Cells
            /\ b.phdrs[k].filesz <= b.phdrs[k].memsz
            /\ b.phdrs[k].offset + b.phdrs[k].filesz <= b.filecells
Module(b) == b.at .. b.at + b.filecells - 1
Held(what) == <<what, 0>>
File(k) == <<"file", k>>
-----------------------------------------------------------------------------
(* The memory map the loader hands over.                                   *)

\* Bytes of the first entries: an entry's size field does not count itself.
Bytes(b) ==
  LET sum[k \in 0 .. Len(b.entries)] ==
        IF k = 0 THEN 0 ELSE sum[k-1] + (b.entries[k].size + 4)
  IN  sum
Offset(b, k) == Bytes(b)[k - 1]
MmapLength(b) == Bytes(b)[Len(b.entries)]

Kind(type) == CASE type = 1 -> "usable" [] type = 3 -> "reclaimable"
                [] type = 4 -> "nvs" [] OTHER -> "reserved"
Converted(e) == [base |-> e.base, length |-> e.length, type |-> Kind(e.type)]

\* An offset at which no entry starts reads as some other memory.
EntryAt(b, off) ==
  IF \E k \in DOMAIN b.entries : Offset(b, k) = off
  THEN b.entries[CHOOSE k \in DOMAIN b.entries : Offset(b, k) = off]
  ELSE [size |-> 20, base |-> AllOnes, length |-> 1, type |-> 1]

\* A plausible bug: entries taken to have the size of the structure.
AdvancePacked(e) == EntryBytes
Advance(e) == e.size + 4

\* The fallback: memory below and above 1 MiB.
Fallback(b) ==
  (IF b.lower > 0 THEN <<[base |-> 0, length |-> b.lower, type |-> "usable"]>> ELSE <<>>)
  \o (IF b.upper > 0 THEN <<[base |-> 1024, length |-> b.upper, type |-> "usable"]>> ELSE <<>>)
-----------------------------------------------------------------------------
(* memset and memcpy, the latter cell by cell upwards.                     *)

Memset(m, a, n) == [c \in Cells |-> IF c \in a .. a + n - 1 THEN Held("zero") ELSE m[c]]

Memcpy(m, dest, src, n) ==
  LET after[k \in 0 .. n] ==
        IF k = 0 THEN m
        ELSE [after[k-1] EXCEPT ![dest + k - 1] = after[k-1][src + k - 1]]
  IN  after[n]

\* A plausible bug: the segment cleared after it was copied.
LoadClearedLate(m, b, ph) ==
  Memset(Memcpy(m, ph.paddr, b.at + ph.offset, ph.filesz), ph.paddr, ph.memsz)

\* One segment: all of it cleared, then the part in the file copied.
Load(m, b, ph) ==
  Memcpy(Memset(m, ph.paddr, ph.memsz), ph.paddr, b.at + ph.offset, ph.filesz)
-----------------------------------------------------------------------------
Init ==
  /\ boot \in Boots
  /\ phase = boot.entry
  /\ mem = [c \in Cells |-> CASE c \in Image -> Held("stage1")
                              [] c \in Module(boot) -> File(c - boot.at)
                              [] OTHER -> Held("other")]
  /\ mmap_addr = 0 /\ mem_regions = <<>>
  /\ i = 1 /\ phys_base = AllOnes
  /\ rdi = "none" /\ rsi = "none" /\ rax = "none"

\* The loader's own code still stands, and so do the headers it rereads.
Sane == /\ \A c \in Image : mem[c] = Held("stage1")
        /\ phase = "segments" => mem[boot.at] = File(0)
At(p) == phase = p /\ Sane

\* _start loads SS with selector 8, which the flat GDT makes a code segment.
Start ==
  /\ At("_start")
  /\ phase' = "fault"
  /\ UNCHANGED <<boot, mem, mmap_addr, mem_regions, i, phys_base, regs>>

CheckMagic ==
  /\ At("multiboot_main")
  /\ phase' = IF boot.magic THEN "mmap" ELSE "halted"
  /\ UNCHANGED <<boot, mem, mmap_addr, mem_regions, i, phys_base, regs>>

MoreEntries ==
  /\ boot.map = "mmap" /\ MmapLength(boot) > 0
  /\ mmap_addr + EntryBytes <= MmapLength(boot)
  /\ Len(mem_regions) < MaxRegions

\* A plausible bug: an empty entry skipped without stepping over it.
WalkEntryStuck ==
  /\ At("mmap") /\ MoreEntries
  /\ LET e == EntryAt(boot, mmap_addr)
     IN  /\ e.length > 0
         /\ mem_regions' = Append(mem_regions, Converted(e))
         /\ mmap_addr' = mmap_addr + Advance(e)
  /\ UNCHANGED <<phase, boot, mem, i, phys_base, regs>>

\* One entry of the memory map; empty ones are passed over.
WalkEntry ==
  /\ At("mmap") /\ MoreEntries
  /\ LET e == EntryAt(boot, mmap_addr)
     IN  /\ mem_regions' = IF e.length > 0 THEN Append(mem_regions, Converted(e))
                           ELSE mem_regions
         /\ mmap_addr' = mmap_addr + Advance(e)
  /\ UNCHANGED <<phase, boot, mem, i, phys_base, regs>>

\* The walk ends, or there is no map to walk and the two sizes are taken.
WalkDone ==
  /\ At("mmap") /\ ~MoreEntries
  /\ phase' = "module"
  /\ mem_regions' = IF boot.map = "memory" THEN Fallback(boot) ELSE mem_regions
  /\ UNCHANGED <<boot, mem, mmap_addr, i, phys_base, regs>>

\* A plausible bug: the file's magic never looked at.
CheckModuleUnread ==
  /\ At("module")
  /\ phase' = IF boot.module THEN "segments" ELSE "halted"
  /\ UNCHANGED <<boot, mem, mmap_addr, mem_regions, i, phys_base, regs>>

\* No module, or one that is not ELF, stops the loader.
CheckModule ==
  /\ At("module")
  /\ phase' = IF boot.module /\ boot.elf THEN "segments" ELSE "halted"
  /\ UNCHANGED <<boot, mem, mmap_addr, mem_regions, i, phys_base, regs>>

\* A plausible bug: segments of any type loaded.
SkippedEmpty(ph) == ph.memsz = 0
Skipped(ph) == ~ph.load \/ ph.memsz = 0

SkipSegment ==
  /\ At("segments") /\ i \in DOMAIN boot.phdrs
  /\ Skipped(boot.phdrs[i])
  /\ i' = i + 1
  /\ UNCHANGED <<phase, boot, mem, mmap_addr, mem_regions, phys_base, regs>>

LoadSegment ==
  /\ At("segments") /\ i \in DOMAIN boot.phdrs
  /\ LET ph == boot.phdrs[i]
     IN  /\ ~Skipped(ph)
         /\ mem' = Load(mem, boot, ph)
         /\ phys_base' = IF phys_base = AllOnes \/ ph.paddr < phys_base
                         THEN ph.paddr ELSE phys_base
  /\ i' = i + 1
  /\ UNCHANGED <<phase, boot, mmap_addr, mem_regions, regs>>

\* boot_info is filled, paging is set up and the globals of the switch are set.
BuildInfo ==
  /\ At("segments") /\ i \notin DOMAIN boot.phdrs
  /\ phase' = "switch"
  /\ UNCHANGED <<boot, mem, mmap_addr, mem_regions, i, phys_base, regs>>

\* stage1_enter_long_mode up to its far jump.
EnterLongMode ==
  /\ At("switch")
  /\ phase' = "trampoline"
  /\ rsi' = "boot_info" /\ rdi' = "entry"
  /\ UNCHANGED <<boot, mem, mmap_addr, mem_regions, i, phys_base, rax>>

\* trampoline64: rdi is overwritten before it is moved to rax.
Trampoline ==
  /\ At("trampoline")
  /\ phase' = "jumped"
  /\ rdi' = rsi /\ rax' = rdi'
  /\ UNCHANGED <<boot, mem, mmap_addr, mem_regions, i, phys_base, rsi>>

\* Overwritten code or headers: anything may follow.
Lost ==
  /\ phase \notin Ends /\ ~Sane
  /\ phase' = "wild"
  /\ UNCHANGED <<boot, mem, mmap_addr, mem_regions, i, phys_base, regs>>

Next == \/ Start \/ CheckMagic \/ WalkEntry \/ WalkDone \/ CheckModule
        \/ SkipSegment \/ LoadSegment \/ BuildInfo \/ EnterLongMode
        \/ Trampoline \/ Lost

Spec == Init /\ [][Next]_vars
\* Nothing else runs on the machine.
FairSpec == Spec /\ WF_vars(Next)
-----------------------------------------------------------------------------
Value == {Held("stage1"), Held("other"), Held("zero")}
         \cup {File(k) : k \in UNION {0 .. b.filecells - 1 : b \in Boots}}

TypeOK ==
  /\ boot \in Boots
  /\ phase \in {"_start", "multiboot_main", "mmap", "module", "segments",
                "switch", "trampoline"} \cup Ends
  /\ mem \in [Cells -> Value]
  /\ mmap_addr \in Nat /\ i \in Nat
  /\ Len(mem_regions) <= MaxRegions
  /\ phys_base \in Cells \cup {AllOnes}
  /\ {rdi, rsi, rax} \subseteq {"none", "boot_info", "entry"}

\* The loader writes nowhere but where loadable segments say.
WritesConfined ==
  \A c \in Cells \ UNION {Targets(boot.phdrs[k]) : k \in LoadSegments(boot)} :
    mem[c] = IF c \in Image THEN Held("stage1")
             ELSE IF c \in Module(boot) THEN File(c - boot.at) ELSE Held("other")

\* A kernel that lies clear of the loader and of the module leaves it sane.
Apart(b) == \A k \in LoadSegments(b) : Targets(b.phdrs[k]) \cap (Image \cup Module(b)) = {}
Survives == Apart(boot) => phase # "wild"

\* Memory, regions and registers hold what the loader put there and no more:
\* the array of regions is not overrun, no cell beyond the segments is written,
\* and only a kernel loaded over the loader or over its own file destroys it.
Inv == TypeOK /\ WritesConfined /\ Survives

\* What a file asks for: of segments that overlap, the last one.
Covered(b) == UNION {Targets(b.phdrs[k]) : k \in LoadSegments(b)}
Wanted(b) ==
  [c \in Covered(b) |->
     LET over == {k \in LoadSegments(b) : c \in Targets(b.phdrs[k])}
         ph == b.phdrs[CHOOSE k \in over : \A l \in over : l <= k]
     IN  IF c < ph.paddr + ph.filesz THEN File(ph.offset + c - ph.paddr) ELSE Held("zero")]

\* What memory is, as Multiboot numbers it in the map's entries, or by the two
\* sizes it gives instead; and what the regions say of it.
MemoryType == [usable |-> 1, reclaimable |-> 3, nvs |-> 4]
Units(r) == r.base .. r.base + r.length - 1
Truth(b) ==
  CASE b.map = "mmap" ->
         UNION {Units(b.entries[k]) \X {use \in DOMAIN MemoryType : MemoryType[use] = b.entries[k].type}
                : k \in DOMAIN b.entries}
    [] b.map = "memory" ->
         ((0 .. b.lower - 1) \cup (1024 .. 1024 + b.upper - 1)) \X {"usable"}
    [] b.map = "none" -> {}
Told(regions) ==
  UNION {Units(regions[k]) \X ({regions[k].type} \ {"reserved"}) : k \in DOMAIN regions}

\* The array has room for the entries that are not empty.
Filled(b) == {k \in DOMAIN b.entries : b.entries[k].length > 0}
Fits(b) == b.map = "mmap" => Cardinality(Filled(b)) <= MaxRegions

Left == phase = "jumped" /\ Apart(boot)
Promise == INSTANCE Loader WITH
  state <- CASE Left -> "left" [] phase = "wild" \/ (phase = "jumped" /\ ~Left) -> "lost"
             [] phase \in {"halted", "fault"} -> "refused" [] phase \notin Ends -> "loading",
  wanted <- Wanted(boot), truth <- Truth(boot), fits <- Fits(boot),
  placed <- (IF Left THEN [c \in Covered(boot) |-> mem[c]] ELSE <<>>),
  told <- (IF Left THEN Told(mem_regions) ELSE {})

\* Unless the kernel is loaded over stage 1 or over its own file: when control
\* leaves stage 1, the kernel's segments are in place, their tails zero, and
\* boot_info says nothing of memory that is not so, and all that is so if the
\* array has room.  Control does not go to the kernel (KernelEntered).
Implements == Promise!Spec

\* Control leaves the loader only for an ELF module named by a Multiboot
\* loader, and boot_info carries its lowest address and is in rdi.  That it
\* goes to the kernel's entry is not said and not so (KernelEntered).
HandoverFaithful ==
  phase = "jumped" =>
    /\ boot.magic /\ boot.module /\ boot.elf
    /\ rdi = "boot_info"
    /\ IF LoadSegments(boot) = {} THEN phys_base = AllOnes
       ELSE \E k \in LoadSegments(boot) :
              /\ phys_base = boot.phdrs[k].paddr
              /\ \A l \in LoadSegments(boot) : phys_base <= boot.phdrs[l].paddr

\* The loader always ends: it halts on bad input or leaves for the kernel.
LoaderEnds == <>(phase \in Ends)

\* start32.S:85: "rdi = boot_info, rax = kernel entry".
KernelEntered == phase = "jumped" => rax = "entry"

\* start32.S:3: the bootstrap sets up a GDT and calls multiboot_main.
StartReachesMain == phase # "fault"

\* docs/building.md:112-115: stage 1 loads the segments, builds boot_info and
\* makes the transition, which takes that its code survives the loading.
SurvivesLoading == phase # "wild"
=============================================================================
