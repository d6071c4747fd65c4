----------------------------- MODULE UefiLoader -----------------------------
(***************************************************************************)
(* The UEFI boot loader, efi_main and read_file of boot/uefi/src/main.c,   *)
(* one step per firmware call, against firmware that may fail any call and *)
(* change its memory map whenever boot services are active.                *)
(*                                                                         *)
(* The firmware's memory map is a sequence of descriptors and a key; every *)
(* change gives it a new key.  Buffer sizes are counted in descriptors,    *)
(* memory in pages.  Printing is left out: what it does to the memory map  *)
(* is the firmware's doing (FirmwareChange).                               *)
(***************************************************************************)
EXTENDS Naturals, Sequences, FiniteSets

CONSTANTS Pages,        \* physical pages the firmware can hand out
          Elfs,         \* files the loader may find under a path
          Tables,       \* ACPI configuration tables the firmware may publish
          FirmwareMaps, \* memory maps the firmware may have
          Garbage,      \* descriptors unwritten memory may read as
          Extra,        \* descriptors that fit the 4096 spare bytes
          MaxRegions,   \* MAX_MEMORY_REGIONS
          MaxKey        \* bound on the firmware's changes of its map

Headers == [load : BOOLEAN, paddr : Nat, filesz : Nat, memsz : Nat]
FirmwareTypes == {"conventional", "acpi_reclaim", "acpi_nvs", "other"}
Descriptors == [base : Nat, pages : Nat, type : FirmwareTypes]

ASSUME UefiAssumption ==
  /\ Extra \in Nat /\ MaxRegions \in Nat /\ MaxKey \in Nat \ {0}
  /\ FirmwareMaps \subseteq Seq(Descriptors) /\ <<>> \notin FirmwareMaps
  /\ Garbage \subseteq Descriptors
  /\ \A e \in Elfs : e.phdrs \in Seq(Headers)

VARIABLES pc,
          rsdp_physical,
          path,         \* which of the two paths read_file is trying
          elf,          \* the file read, or NoFile
          i,            \* the program header the loop is at
          open,         \* file handles not closed
          pool,         \* pool allocations not freed
          allocated,    \* pages got from AllocatePages
          mem,          \* what each page the loader has written holds
          map_size, map_key, capacity, memory_map,
          memory_regions,
          \* the firmware
          bs_active, fw_key, fw_map,
          \* history
          exit_tried,   \* ExitBootServices has been called
          retry_answer, \* what GetMemoryMap answered on the retry
          changes       \* of the map since ExitBootServices was first tried

loader == <<pc, rsdp_physical, path, elf, i, open, pool, allocated, mem,
            map_size, map_key, capacity, memory_map, memory_regions,
            exit_tried, retry_answer, changes>>
firmware == <<bs_active, fw_key, fw_map>>
vars == <<loader, firmware>>

NoFile == [magic |-> FALSE, class64 |-> FALSE, x86_64 |-> FALSE, phdrs |-> <<>>]
NoTable == <<"none", 0>>
-----------------------------------------------------------------------------
(* convert_memory_map.                                                     *)

AurelionType(type) ==
  CASE type = "conventional" -> "usable" [] type = "acpi_reclaim" -> "reclaimable"
    [] type = "acpi_nvs" -> "nvs" [] OTHER -> "reserved"

Nonempty(map) == {k \in DOMAIN map : map[k].pages > 0}

\* Those that find room in the array: the others are dropped without a word.
Kept(map) ==
  {k \in Nonempty(map) : Cardinality({l \in Nonempty(map) : l < k}) < MaxRegions}

\* The array, each region under the number of its descriptor.
Convert(map) ==
  [k \in Kept(map) |-> [base |-> map[k].base, pages |-> map[k].pages,
                        type |-> AurelionType(map[k].type)]]

\* What the loop reads as descriptors: the map last written to the buffer and,
\* when the size it has is larger, memory no map was written to.
Buffer(map, size) == {map \o rest : rest \in [1 .. size - Len(map) -> Garbage]}
-----------------------------------------------------------------------------
Init ==
  /\ pc = "rsdp"
  /\ rsdp_physical = NoTable
  /\ path = 1 /\ elf = NoFile /\ i = 1
  /\ open = {} /\ pool = {} /\ allocated = {} /\ mem = [p \in {} |-> 0]
  /\ map_size = 0 /\ map_key = 0 /\ capacity = 0
  /\ memory_map = <<>> /\ memory_regions = Convert(<<>>)
  /\ bs_active = TRUE /\ fw_key = 1 /\ fw_map \in FirmwareMaps
  /\ exit_tried = FALSE /\ retry_answer = "none" /\ changes = 0

Goto(to) == pc' = to
Keep(vs) == UNCHANGED <<vs, firmware, exit_tried, retry_answer, changes>>
-----------------------------------------------------------------------------
\* The configuration table in words of 8 bytes, counted from 0: two of GUID
\* and one of pointer to an entry.
Word(table, w) ==
  LET e == table[(w \div 3) + 1]
  IN  CASE w % 3 = 0 -> <<"guid low", e.guid>>
        [] w % 3 = 1 -> <<"guid high", e.guid>>
        [] w % 3 = 2 -> <<"pointer", e.table>>

\* The scan steps two words at a time, and compares two.
MatchesAt(table, n, guid) ==
  /\ Word(table, 2 * n) = <<"guid low", guid>>
  /\ Word(table, 2 * n + 1) = <<"guid high", guid>>

\* It stops at the first ACPI 2.0 entry, else settles for the first ACPI 1.0
\* entry, and takes the ADDRESS of the word behind the GUID.
ScanRsdp(table) ==
  LET hits(guid) == {n \in 0 .. Len(table) - 1 : MatchesAt(table, n, guid)}
      first(S) == CHOOSE n \in S : \A k \in S : n <= k
      at(n) == <<"word", 2 * n + 2>>
  IN  IF hits("acpi20") # {} THEN at(first(hits("acpi20")))
      ELSE IF hits("acpi10") # {} THEN at(first(hits("acpi10")))
      ELSE NoTable

RsdpScan ==
  /\ pc = "rsdp"
  /\ \E table \in Tables : rsdp_physical' = ScanRsdp(table)
  /\ Goto("volume")
  /\ Keep(<<path, elf, i, open, pool, allocated, mem, map_size, map_key,
            capacity, memory_map, memory_regions>>)

\* HandleProtocol and OpenVolume.  No path of the loader closes the root.
OpenVolume ==
  /\ pc = "volume"
  /\ \/ open' = open \cup {"root"} /\ Goto("open")
     \/ open' = open /\ Goto("returned")
  /\ Keep(<<rsdp_physical, path, elf, i, pool, allocated, mem, map_size, map_key,
            capacity, memory_map, memory_regions>>)

\* read_file fails: the other path is tried, then efi_main gives up.
ReadFails ==
  IF path = 1 THEN path' = 2 /\ Goto("open")
  ELSE path' = path /\ Goto("returned")

KeepRead == Keep(<<rsdp_physical, i, allocated, mem, map_size, map_key, capacity,
                   memory_map, memory_regions>>)

Open ==
  /\ pc = "open"
  /\ \/ open' = open \cup {"file"} /\ Goto("info_size") /\ path' = path
     \/ open' = open /\ ReadFails
  /\ UNCHANGED <<elf, pool>>
  /\ KeepRead

\* A plausible bug: this early return without its Close.
GetInfoSizeLeavesOpen ==
  /\ pc = "info_size"
  /\ \/ Goto("info_pool") /\ UNCHANGED <<open, path>>
     \/ open' = open /\ ReadFails
  /\ UNCHANGED <<elf, pool>>
  /\ KeepRead

GetInfoSize ==
  /\ pc = "info_size"
  /\ \/ Goto("info_pool") /\ UNCHANGED <<open, path>>
     \/ open' = open \ {"file"} /\ ReadFails
  /\ UNCHANGED <<elf, pool>>
  /\ KeepRead

AllocInfo ==
  /\ pc = "info_pool"
  /\ \/ pool' = pool \cup {"info"} /\ Goto("info") /\ UNCHANGED <<open, path>>
     \/ open' = open \ {"file"} /\ ReadFails /\ UNCHANGED pool
  /\ UNCHANGED elf
  /\ KeepRead

GetInfo ==
  /\ pc = "info"
  /\ pool' = pool \ {"info"}
  /\ \/ Goto("buffer") /\ UNCHANGED <<open, path>>
     \/ open' = open \ {"file"} /\ ReadFails
  /\ UNCHANGED elf
  /\ KeepRead

AllocBuffer ==
  /\ pc = "buffer"
  /\ \/ pool' = pool \cup {"file"} /\ Goto("read") /\ UNCHANGED <<open, path>>
     \/ open' = open \ {"file"} /\ ReadFails /\ UNCHANGED pool
  /\ UNCHANGED elf
  /\ KeepRead

\* The buffer of a failed read stays allocated.
Read ==
  /\ pc = "read"
  /\ open' = open \ {"file"}
  /\ \/ elf' \in Elfs /\ Goto("validate") /\ path' = path
     \/ elf' = elf /\ ReadFails
  /\ UNCHANGED pool
  /\ KeepRead

Valid(e) == e.magic /\ e.class64 /\ e.x86_64

Validate ==
  /\ pc = "validate"
  /\ Goto(IF Valid(elf) THEN "segments" ELSE "returned")
  /\ Keep(<<rsdp_physical, path, elf, i, open, pool, allocated, mem, map_size, map_key,
            capacity, memory_map, memory_regions>>)
-----------------------------------------------------------------------------
Loadable(ph) == ph.load /\ ph.memsz > 0
Target(ph) == ph.paddr .. ph.paddr + ph.memsz - 1

\* What is copied from the file: filesz bytes, whatever memsz is.
Copied(ph) == ph.paddr .. ph.paddr + ph.filesz - 1

\* A segment's pages once zeroed, and the pages the file's part is copied to.
Image(ph, k) ==
  [p \in Target(ph) \cup Copied(ph) |->
     IF p \in Copied(ph) THEN <<k, p - ph.paddr>> ELSE "zero"]

\* A plausible bug: the answer of AllocatePages not looked at.
GrantablePages(ph) == Target(ph) \subseteq Pages
\* AllocatePages at a fixed address needs every page to be free.
Grantable(ph) == Target(ph) \subseteq Pages \ allocated

LoadSegment ==
  /\ pc = "segments" /\ i <= Len(elf.phdrs)
  /\ LET ph == elf.phdrs[i]
         new == Image(ph, i)
     IN  \/ /\ ~Loadable(ph)
            /\ i' = i + 1
            /\ UNCHANGED <<pc, allocated, mem>>
         \/ /\ Loadable(ph) /\ Grantable(ph)
            /\ allocated' = allocated \cup Target(ph)
            /\ mem' = [p \in DOMAIN mem \cup DOMAIN new |->
                         IF p \in DOMAIN new THEN new[p] ELSE mem[p]]
            /\ i' = i + 1
            /\ UNCHANGED pc
         \/ /\ Loadable(ph)           \* refused, for want of pages or otherwise
            /\ Goto("returned")
            /\ UNCHANGED <<i, allocated, mem>>
  /\ Keep(<<rsdp_physical, path, elf, open, pool, map_size, map_key, capacity,
            memory_map, memory_regions>>)

SegmentsDone ==
  /\ pc = "segments" /\ i > Len(elf.phdrs)
  /\ Goto("map_size")
  /\ Keep(<<rsdp_physical, path, elf, i, open, pool, allocated, mem, map_size, map_key,
            capacity, memory_map, memory_regions>>)
-----------------------------------------------------------------------------
KeepFile == UNCHANGED <<rsdp_physical, path, elf, i, open, allocated, mem>>

\* GetMemoryMap with no buffer asks for the size, to which some is added; the
\* answer is not looked at, and may be another error that leaves the size 0.
\* The key it may write is written again before it is used.
AskMapSize ==
  /\ pc = "map_size"
  /\ map_size' \in {Len(fw_map) + Extra, Extra}
  /\ Goto("map_pool")
  /\ KeepFile
  /\ Keep(<<pool, map_key, capacity, memory_map, memory_regions>>)

AllocMap ==
  /\ pc = "map_pool"
  /\ \/ /\ pool' = pool \cup {"map"}
        /\ capacity' = map_size
        /\ Goto("map")
     \/ Goto("returned") /\ UNCHANGED <<pool, capacity>>
  /\ KeepFile
  /\ Keep(<<map_size, map_key, memory_map, memory_regions>>)

\* GetMemoryMap given map_size descriptors of room: it fills the buffer and
\* answers with the size and key; or answers with the size alone (firmware
\* differs in whether it updates the key as well); or fails otherwise.
GetMemoryMap(answer) ==
  CASE answer = "filled" ->
         /\ Len(fw_map) <= map_size
         /\ map_size' = Len(fw_map) /\ map_key' = fw_key /\ memory_map' = fw_map
    [] answer = "too small" ->
         /\ Len(fw_map) > map_size
         /\ map_size' = Len(fw_map) /\ map_key' \in {map_key, fw_key}
         /\ UNCHANGED memory_map
    [] answer = "failed" -> UNCHANGED <<map_size, map_key, memory_map>>
Answers == {"filled", "too small", "failed"}

\* The first attempt: any failure is the end.
GetMap ==
  /\ pc = "map"
  /\ \E answer \in Answers :
       /\ GetMemoryMap(answer)
       /\ Goto(IF answer = "filled" THEN "convert" ELSE "returned")
  /\ KeepFile
  /\ Keep(<<pool, capacity, memory_regions>>)

ConvertMap ==
  /\ pc = "convert"
  /\ \E read \in Buffer(memory_map, map_size) : memory_regions' = Convert(read)
  /\ Goto("exit")
  /\ KeepFile
  /\ Keep(<<pool, map_size, map_key, capacity, memory_map>>)

\* ExitBootServices: external, it accepts only the key of the current map.
ExitBootServices ==
  /\ bs_active' = (map_key # fw_key)
  /\ exit_tried' = TRUE
  /\ UNCHANGED <<fw_key, fw_map>>

Exit ==
  /\ pc = "exit"
  /\ ExitBootServices
  /\ Goto(IF map_key = fw_key THEN "boot_info" ELSE "retry_map")
  /\ KeepFile
  /\ UNCHANGED <<pool, map_size, map_key, capacity, memory_map, memory_regions,
                 retry_answer, changes>>

\* A plausible bug: a larger buffer taken from the pool for the retry.
RetryGetMapReallocating ==
  /\ pc = "retry_map"
  /\ \E answer \in Answers :
       /\ GetMemoryMap(answer) /\ retry_answer' = answer
       /\ pool' = IF answer = "too small" THEN pool \cup {"map2"} ELSE pool
  /\ Goto("retry_convert")
  /\ KeepFile
  /\ UNCHANGED <<capacity, memory_regions, exit_tried, changes, firmware>>

\* The retry: map_size is still what the first answer took, not the room the
\* buffer has, and the result is not looked at.
RetryGetMap ==
  /\ pc = "retry_map"
  /\ \E answer \in Answers : GetMemoryMap(answer) /\ retry_answer' = answer
  /\ Goto("retry_convert")
  /\ KeepFile
  /\ UNCHANGED <<pool, capacity, memory_regions, exit_tried, changes, firmware>>

\* A plausible bug: the regions of the first attempt kept.
RetryConvertForgotten ==
  /\ pc = "retry_convert"
  /\ Goto("retry_exit")
  /\ KeepFile
  /\ Keep(<<pool, map_size, map_key, capacity, memory_map, memory_regions>>)

RetryConvert ==
  /\ pc = "retry_convert"
  /\ \E read \in Buffer(memory_map, map_size) : memory_regions' = Convert(read)
  /\ Goto("retry_exit")
  /\ KeepFile
  /\ Keep(<<pool, map_size, map_key, capacity, memory_map>>)

\* A plausible bug: the retry repeated until it succeeds.
RetryExitAgain ==
  /\ pc = "retry_exit"
  /\ ExitBootServices
  /\ Goto(IF map_key = fw_key THEN "boot_info" ELSE "retry_exit")
  /\ KeepFile
  /\ UNCHANGED <<pool, map_size, map_key, capacity, memory_map, memory_regions,
                 retry_answer, changes>>

\* The answer of the second attempt is not looked at either.
RetryExit ==
  /\ pc = "retry_exit"
  /\ ExitBootServices
  /\ Goto("boot_info")
  /\ KeepFile
  /\ UNCHANGED <<pool, map_size, map_key, capacity, memory_map, memory_regions,
                 retry_answer, changes>>

\* boot_info is filled in and the kernel entered.
EnterKernel ==
  /\ pc = "boot_info"
  /\ Goto("kernel")
  /\ KeepFile
  /\ Keep(<<pool, map_size, map_key, capacity, memory_map, memory_regions>>)

\* Anything else the firmware does with its memory while its services run:
\* the loader's own calls, timers and drivers change the map.
FirmwareChange ==
  /\ bs_active /\ fw_key < MaxKey
  /\ pc \notin {"returned", "kernel"}
  /\ fw_key' = fw_key + 1
  /\ fw_map' \in FirmwareMaps
  /\ changes' = IF exit_tried THEN changes + 1 ELSE changes
  /\ UNCHANGED <<pc, rsdp_physical, path, elf, i, open, pool, allocated, mem,
                 map_size, map_key, capacity, memory_map, memory_regions,
                 exit_tried, retry_answer, bs_active>>

Finished == pc \in {"returned", "kernel"} /\ UNCHANGED vars

LoaderStep ==
  \/ RsdpScan \/ OpenVolume
  \/ Open \/ GetInfoSize \/ AllocInfo \/ GetInfo \/ AllocBuffer \/ Read
  \/ Validate \/ LoadSegment \/ SegmentsDone
  \/ AskMapSize \/ AllocMap \/ GetMap \/ ConvertMap \/ Exit
  \/ RetryGetMap \/ RetryConvert \/ RetryExit \/ EnterKernel

Next == LoaderStep \/ FirmwareChange \/ Finished

Spec == Init /\ [][Next]_vars
FairSpec == Spec /\ WF_vars(LoaderStep)
-----------------------------------------------------------------------------
InArray(regions) == IsFiniteSet(DOMAIN regions) /\ Cardinality(DOMAIN regions) <= MaxRegions
BufferMaps == FirmwareMaps \cup {<<>>}
TypeOK ==
  /\ path \in {1, 2} /\ i \in Nat \ {0}
  /\ open \subseteq {"root", "file"} /\ pool \subseteq {"info", "file", "map"}
  /\ allocated \subseteq Pages
  /\ map_size \in Nat /\ map_key \in 0..MaxKey /\ capacity \in Nat
  /\ memory_map \in BufferMaps
  /\ InArray(memory_regions)
  /\ bs_active \in BOOLEAN /\ fw_key \in 1..MaxKey /\ fw_map \in FirmwareMaps
  /\ retry_answer \in Answers \cup {"none"}
  /\ changes \in 0..MaxKey

\* An early return leaves firmware in charge, and of what read_file opened and
\* allocated for itself, the file and its information, nothing.  The root, the
\* buffers of files and map and the pages of segments stay behind.
FilesClosed ==
  pc = "returned" => bs_active /\ "file" \notin open /\ "info" \notin pool

\* One retry suffices: the kernel is entered with boot services active only if
\* the map changed once more during it, or was not obtained for it.
RetrySuffices == pc = "kernel" /\ bs_active => changes > 0 \/ retry_answer # "filled"

\* Firmware and loader agree on what is open, allocated and active, whichever
\* way the loader ends; the array of regions is not overrun.
Inv == TypeOK /\ FilesClosed /\ RetrySuffices

\* The memory image a file asks for; none if segments share a page.
Segments == {k \in DOMAIN elf.phdrs : Loadable(elf.phdrs[k])}
Wanted ==
  IF \E k, l \in Segments : k # l /\ Target(elf.phdrs[k]) \cap Target(elf.phdrs[l]) # {}
  THEN <<>>
  ELSE [p \in UNION {Target(elf.phdrs[k]) : k \in Segments} |->
          LET k == CHOOSE k \in Segments : p \in Target(elf.phdrs[k])
          IN  Image(elf.phdrs[k], k)[p]]

\* A file asks for memory enough if no segment has more in it than in memory.
Fits == \A k \in Segments : elf.phdrs[k].filesz <= elf.phdrs[k].memsz

\* What memory is, as the firmware's descriptors say: pages and their use.
MemoryType == [usable |-> "conventional", reclaimable |-> "acpi_reclaim", nvs |-> "acpi_nvs"]
PagesOf(d) == d.base .. d.base + d.pages - 1
Truth(map) ==
  UNION {PagesOf(map[k]) \X {use \in DOMAIN MemoryType : MemoryType[use] = map[k].type}
         : k \in DOMAIN map}
\* What the kernel is told of it.
Told(regions) ==
  UNION {PagesOf(regions[k]) \X ({regions[k].type} \ {"reserved"}) : k \in DOMAIN regions}

Entered == pc = "kernel" /\ ~bs_active /\ retry_answer \in {"none", "filled"} /\ Fits
Promise == INSTANCE Loader WITH
  state <- CASE pc = "returned" -> "refused" [] pc # "returned" /\ pc # "kernel" -> "loading"
             [] Entered -> "left" [] pc = "kernel" /\ ~Entered -> "lost",
  wanted <- Wanted, placed <- (IF Entered THEN mem ELSE <<>>),
  truth <- Truth(fw_map), told <- (IF Entered THEN Told(memory_regions) ELSE {}),
  fits <- (Cardinality(Nonempty(fw_map)) <= MaxRegions)

\* However often the map changed before, the kernel is entered with exactly its
\* segments in place, none overwritten, and told nothing of memory that is not
\* so when services end, and all of it if the array has room.  Not promised:
\* if services are still active, if the retry did not get the map, or if a
\* segment has more in the file than in memory.
Implements == Promise!Spec

\* Once ExitBootServices has been tried, the loader uses no boot service but
\* GetMemoryMap and ExitBootServices: nothing is allocated, opened or freed.
QuietAfterExit ==
  [][exit_tried => UNCHANGED <<open, pool, allocated, mem>>]_vars

\* The loader ends, in the kernel or in an error, whatever the firmware does.
LoaderEnds == <>(pc \in {"returned", "kernel"})

\* main.c:13-14 and docs/building.md:35: boot services are exited before the
\* kernel is entered.
ServicesExited == pc = "kernel" => ~bs_active

\* main.c:467: the spare room is for allocations made since the size was asked.
SpareRoomUsed == retry_answer = "too small" => Len(fw_map) > capacity

\* main.c:10: the RSDP is located whenever the configuration table has one.
RsdpLocated ==
  pc = "volume" =>
    \E table \in Tables :
      LET of(guid) == {k \in DOMAIN table : table[k].guid = guid}
      IN  rsdp_physical \in
            IF of("acpi20") # {} THEN {table[k].table : k \in of("acpi20")}
            ELSE IF of("acpi10") # {} THEN {table[k].table : k \in of("acpi10")}
            ELSE {NoTable}
=============================================================================
