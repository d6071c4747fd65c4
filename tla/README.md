# Aurelian OS: models, checks and proofs

This directory holds TLA+ models of the Aurelian OS sources: the boot loaders
under `boot/`, the Aurelion kernel under `kernel/`, and the earlier kernel under
`aurelian-os-v1/`. TLC checks each model on small instances; the refinements and
all safety properties are also proved for every value of the constants with
TLAPS. `PROJECT.json` lists every run, the code each definition stands for, the
hazards the properties are aimed at, and what the runs found.

    tlc -config MCPmm.cfg MCPmm          # check a model
    tlapm PmmProofs.tla                  # check the proofs about one

## The system

| Part | Source | State it keeps | Operations |
|---|---|---|---|
| UEFI loader | `boot/uefi/src/main.c` | the file and its segments, the firmware's memory map as last read, `boot_info` | `efi_main` (scan for the RSDP, load the file, leave boot services), `read_file`, description of the display |
| Stage 1 | `boot/stage1/multiboot.c`, `start32.S` | regions, segments, registers at the mode switch | `multiboot_main`, the trampoline to long mode |
| Boot ABI | `kernel/include/aurelian/boot.h` | `boot_info` | filled by a loader, validated by the kernel |
| Kernel bring-up | `kernel/src/kernel.c`, `start.S` | which subsystems are up | `aurelion_kernel_main` |
| GDT, IDT | `kernel/src/x86_64/{gdt,idt}.c` | descriptors, gates, RFLAGS.IF | `init`, the exception handlers |
| Physical memory | `kernel/src/x86_64/pmm.c` | bitmap, total and free counts | `init`, `alloc_page`, `free_page`, the two counts |
| Virtual memory | `kernel/src/x86_64/vmm.c` | page tables, CR3 | `init`, `map`, `unmap`, `load_cr3` |
| Heap | `kernel/src/x86_64/heap.c` | chain of blocks, bytes used | `init`, `alloc`, `free` |
| Framebuffer | `kernel/src/framebuffer.c` | the display, video memory | `init`, drawing primitives, the splash |
| Console | `kernel/src/console.c` | cursor, text screen | `init`, `write` |
| Serial port | `kernel/src/x86_64/serial.c`, its twin in `multiboot.c`, the reports printed through it | the port's registers and FIFO, the text under way | `init`, `putc`, `write`, numerals; the exception handler's report |
| First kernel | `aurelian-os-v1/kernel/` | bootstrap page tables, registers, text screen | `_start`, `kmain`, `kprintf`, `vga_*` |

**How they interact.** A loader (the UEFI application, or stage 1 under a
Multiboot loader) reads the kernel's ELF file, places its segments, fills
`boot_info` and is to jump to the kernel (stage 1 jumps to `boot_info` itself, see
`KernelEntered`). The kernel validates what it was given,
installs its segments and gates, enables interrupts, then builds the page
allocator from the regions, page tables from the allocator's pages, loads CR3,
draws the splash through the mapping of the display, and sets up the heap. From
`sti` on, device interrupts come between any two of its steps. The pieces share
physical memory at fixed addresses: kernel at 1 MiB, bitmap at 3 MiB, heap at
4 to 8 MiB, an early identity map of 16 MiB. The first kernel stands alone.

**What is hard here.** One processor, no threads: concurrency is between the
kernel and device interrupts, between the processor and a serial port that
sends at its own pace, and between the loader and a firmware that may fail any
call and may change its memory map whenever boot services are active.
The rest is ordering (what must be up before what), memory that is owned by two
parts at once, bounds (a bitmap with a fixed place, arrays of 256 regions,
tables that run dry), address arithmetic, and a long sequence of legal calls to
the two allocators. `hazards` in `PROJECT.json` gives each at its line.

**What makes each part correct.** The page allocator owns each frame once and
never gives a guarded one away unless a caller has freed it; the heap's blocks tile its arena and never
overlap what callers hold; a mapping is what was last asked for and the identity
map survives; a loader that leaves for good leaves the kernel's segments as the
file has them and a memory map that is true of the moment; bring-up never uses what is not yet, or no longer, there;
drawing stays inside visible pixels; what is printed arrives as it was meant;
every one of them comes to an end.

## Modules

| Module | Models | Abstract specification | Proofs |
|---|---|---|---|
| `Pmm` | `pmm.c` | `PageAllocator` | `PmmProofs` |
| `Heap` | `heap.c` | `HeapSpec` | `HeapProofs` |
| `Vmm` | `vmm.c`, the MMU and its TLB | `AddressSpace` | `VmmProofs` |
| `KernelBoot` | `kernel.c`, `start.S`, `gdt.c`, `idt.c`, and what bring-up sees of the memory managers | uses `PageAllocator` | `KernelBootProofs` |
| `UefiLoader` | `efi_main`, `read_file`, the firmware | `Loader` | `UefiLoaderProofs` |
| `Stage1` | `multiboot.c`, `start32.S` | `Loader` | `MultibootProofs` |
| `SerialPort` | `serial.c`, the texts and numerals of `kernel.c`, `pmm.c`, `heap.c`, `idt.c`, `multiboot.c`; the port's hardware | `Line` | `MultibootProofs` |
| `Framebuffer` | the drawing functions of `framebuffer.c`, the loader's description of a graphics mode | - | `FramebufferProofs` |
| `Splash` | the picture `framebuffer.c` draws with them | - | `FramebufferProofs` |
| `V1Boot` | `boot.S`, `gdt.c`, `kernel.c`, `uitoa` (first kernel) | - | `MultibootProofs` |
| `TextScreen` | `console.c`, and `vga.c` of the first kernel | `Paper` | `TextScreenProofs` |

`Numerals` says what a number in decimal is, for the reports of `SerialPort` and
of `V1Boot`. `MultibootProofs` is about three programs, so the names of two carry a
prefix (`PortInit`, `V1Spec`). Each `MC...` module holds the small values one of them is checked with. Each
module's state invariants are named one by one and gathered in `Inv`, the sound
states of that part; what a run checks beside it are the properties that need a
run of their own to be understood. Definitions named after a plausible bug
("A plausible bug: ...") are not part of any specification: each is a variant
of the definition after it, kept to show that the property it is listed with
(`mutants`) does notice such a bug.

### Pmm

State: `pmm_total_pages`, `pmm_bitmap` (the set of frames whose bit is 1),
`pmm_free_pages`, as in the code, and four history variables: `held`,
`reserved` and `regions` (who owns what), and `released`, the reserved frames that
a caller has freed. One action per call:
`PmmInit` (all loops of `aurelion_pmm_init`), `AllocPage` (first clear bit),
`FreePage` with any address up to the end of the first frame the bitmap does not
describe, of a frame held or not: frame 0 and the bitmap's own frames too, which
the code frees like any other. Calls before `init` are included: they find no
frame. What is not modelled is a caller that writes into a frame of the bitmap
after it was freed and handed out: from then on the bitmap is the caller's data.

### Heap

The chain of headers is a function from addresses to `[size, is_free, next]`;
every loop iteration (the search of `alloc`, the coalescing pass of `free`) is a
step, so that invariants hold inside a call too. `free` marks its block and then
makes one forward pass from `heap_first` with a cursor, which stays where it is
after a merge. Sizes are in words of 8 bytes; `SizeMod` is the wrap of `size_t`.
Only blocks that are live are freed: what freeing anything else does is
undefined in the code.

### Vmm, AddressSpace

Physical memory is a function from frames to tables of entries; a data frame
that is followed as a table reads as one. `VmmInit` (which maps the display and
loads CR3), `CallMapPage`, `CallUnmapPage`, and the processor: `Access` (walk,
cache in the TLB), `Evict`. Page tables come from whatever set of frames the
page allocator has free (`Pools`), which runs dry, and which may reach beyond the
16 MiB that the kernel's own tables map. Under the loader's tables the manager
reaches every frame; once CR3 is loaded only the `Early` ones, so that clearing a
table in a frame beyond, or reading one that `init` put there, is a page fault and
the end (`faulted`). A display that is not described, or described in part, or too
large to count, is not mapped (`Mappable`). Permission bits are left out: every
mapping is writable and for the kernel.

`AddressSpace` is what callers are promised: a function from pages to frames
that `map` and `unmap` change at one page, and what the processor sees of it.
The refinement maps the tables to the function the code's own walk
(`get_physical`) reads from them, and what is seen to TLB and tables together.
A request that found no memory is a stutter, and one that faults stops the address
space as it was; a page mapped over a mapped page
may be seen at its old frame until the TLB lets go, which the code allows
because it only flushes in `unmap`.

### KernelBoot

Composes the kernel's parts: memory is a set of frames, each step of
`aurelion_kernel_main` names the frames it touches, and runs only if the tables
in force map them all; if not, the processor faults, into a handler if the IDT
is there, into a reset if not. `Interrupt` may come between any two steps once
IF is set. What a loader leaves behind is a record (`Handoff`) and the instance
has one for the combinations of stage 1 or UEFI, valid or invalid `boot_info`,
bitmap size, stack position, display and unmasked interrupts, and beside them
firmware with hardly any memory below the heap (`Crowded`), and loaders that report
the kernel's frames or the stack's as usable and pass a display (`Careless`).
`pmm.c` holds back only frame 0 and its bitmap. So a table for the display may be
cut from the heap, the kernel or the stack, and clearing it there (`Cleared`) ends
bring-up badly or leaves it to be overwritten. `CollisionsExplained` says that this
happens exactly where the loader reports such a frame among the lowest usable ones.

### UefiLoader, Stage1, Loader

`Loader` states the promise both ways of booting make: when control leaves the
loader for good, memory holds the kernel's segments as its file has them, and what
`boot_info` says of memory is true, and complete if it fits the array. Where control
goes is not part of it. What the file asks for (`wanted`) and what is so of memory
(`truth`) are computed in each module from the file and from the firmware's or the
boot loader's descriptors: sets of pages or units with their use, named by the
numbers of the respective standard (`MemoryType`). The loader's own conversion
(`Convert`, `Converted`) has no part in it; what it made of the map is read back by
`Told`. So a wrong case in the switch over memory types, a descriptor left out, or
a map cut where it would fit shows. That an overlong map is cut without a word is
allowed for by `fits`: of such a map the promise is only that nothing false is told.

`UefiLoader` takes one step per firmware call. The firmware is a key and a
sequence of descriptors; `FirmwareChange` alters them at any time while boot
services are active, and any call may fail: GetMemoryMap too, for want of room or
for any other reason (`retry_answer`). What is open (`open`), which pool buffers
(`pool`) and which pages (`allocated`) are the loader's are followed, so that an
early return can be checked for what it leaves behind: the file and the buffer for
its information are always closed and freed (`FilesClosed`), the root directory
opened at `main.c:365` never is, nor are the buffers for the file and the map and
the pages of segments. A segment is copied as `main.c:448-452` does it, `filesz`
bytes whatever `memsz` says, into pages that follow those allocated (`Image`).
The refinement sets aside as the abstract state "lost" what the code does not look
at: an exit refused twice, so that services are still active; a second GetMemoryMap
that failed, after which the exit may even succeed with the key left over, and the
kernel is told the map before or none; and a file with a segment that is larger in
the file than in memory (`Fits`). The graphics query is in `Framebuffer`.

`Stage1` walks the Multiboot map one entry a step, loads one program header a
step, then runs the trampoline register by register. Memory is a function from
cells to what they hold, so that a segment that lands on the loader or on the
module it is read from is visible. Both ways in are modelled: `_start` of
`start32.S`, and `multiboot_main`, which the link script names as the entry and
which then takes its arguments from the loader's stack.

### SerialPort, Line

The port is a 16550: the divisor latch behind the data and interrupt registers,
a FIFO, a shift register that sends at its own pace (`Shift`, `Arrive`). A
program is the list of statements stage 1 and the kernel execute to report their
progress; one step is one `outb`, one poll, one digit. `Exception` may come at
any point once the gates are there and starts a report of its own. `Line` is
what that amounts to: bytes arrive in the order they were meant, only a set-up
of the port loses any (the kernel sets up a port stage 1 may still be sending
through), only an exception cuts a message short (`ReportsArrive`). The handler of
`idt.c` guards against nothing, so an exception may come in the middle of an
exception's report; `Nested` bounds how many come in all.
`KernelReport` has every message of bring-up with the condition it is printed
under: without boot information or regions the page allocator says so and stays
down; a page of the display without memory for its table makes one "out of memory"
line, and drawing on it ends in the page fault's report. Two branches are there
that no state of the program takes, the mapping that fails for a display that was
accepted and the test allocation that fails in a heap of 4 MiB. Each statement maps to
the bytes it has still to say; the decimal numeral (`Numerals`) is defined from the
value, not by the loop that divides and reverses.

### Framebuffer, Splash

`LocateGop` describes a graphics mode the way the loader does, `FramebufferInit`
accepts or rejects it, `Rebase` moves the surface to where the kernel has mapped
it, then one drawing function draws; a thick line is drawn one disc a step.
Video memory is a partial function from bytes to bits, so that a byte written
where no pixel is visible shows.

`Splash` adds the boot splash: the sequence of calls it makes, with the
coordinates it computes from the size of the display. Its pixels are not drawn
(a display has too many); each call's extent is what the properties speak of.

### TextScreen, Paper

`Paper` says what a console promises: a sheet without end. `driver` says which of
the two drivers is at work; both carry a sheet along as a history variable, typed
on by the same calls. A cell is a character and an attribute. Characters are bytes,
and `char` is signed: `vga.c` converts it to `unsigned char` first, `console.c` does
not, so that there a character from 0x80 up overwrites the colour with 0xFF
(`ConsoleEntry`). The screen keeps the colour a character was written in for the
first kernel, and for the present one below 0x80 (`Written`). The first kernel's screen scrolls and must be a window on
the end of the sheet; the present kernel's does not and must keep its beginning.

### V1Boot

One step per group of instructions of `boot.S`, with the registers the pointer
to the boot information passes through, the tables, the control registers and
the processor's walk of the tables; then the walk over the Multiboot2 tags, and
`kprintf` one call a step, with the numerals `uitoa` makes digit by digit.

## Runs

Passing runs (each property is described above its definition):

| Run | Instance | What it shows |
|---|---|---|
| `MCPmm` | frames of 2 bytes, 5 memory maps up to 10 frames, any call in any order, any frame freed (116967 states) | `Inv`: every set bit has one owner, frame 0 and the bitmap's frames are free or held only if a caller has freed one that nobody was given, the counter is never short. `OnlyUsable`: only usable memory is handed out, but for frames so freed (aligned maps). `DriftConstant`: the counter's error never changes. `Implements`: `PageAllocator` |
| `MCHeap` | arena of 22 words, requests of 1 and 4 words, any order (353332 states) | `Inv`: blocks tile the arena, live ranges are exact, no two free neighbours between calls. `FullRecovery`: all memory comes back. `RefusalHonest`. `CallReturns`. `Implements`: `HeapSpec` |
| `MCUefiLoader` | 7 files (as the kernel is linked, with segments that share a page, that lie where no memory is, that are longer in the file than in memory; three with bad headers), 3 configuration tables, 4 maps with empty descriptors and with more than the array holds, which change up to 3 times (38416 states) | `Inv`: an early return leaves services active and no file open or its information allocated (the root and the buffers stay behind); services are active in the kernel only if the map changed again during the retry, or the retry did not get it. `Implements`: `Loader`. `QuietAfterExit`: nothing is allocated or opened after ExitBootServices. `LoaderEnds` |
| `MCVmm` | tables of 6 entries, 4 pages, 2 targets, pools of 5 frames and of 4, one of them beyond the kernel's map; displays without a height, of a page, of a page's worth across two (4718 states) | `Inv`: the identity map survives. `TablesOwned`: a frame taken is linked once, a free one never. `DisplayMapped`. `MapExact`: a map changes the page asked for and no other, whether it succeeds, is refused or faults. `Implements`: `AddressSpace` |
| `MCKernelBoot` | 14 frames, 63 ways a loader may leave the machine, among them usable frames so few or so low that tables are built in the kernel, the heap, the stack or the loader's data; interrupts on or off (846 states) | `Inv`: gates and segments are the kernel's when interrupts are on; only a mapped display is drawn on. `BadEndsExplained`: every bad end has one of the known causes. `CollisionsExplained`: a table lies in memory in use if and only if that was reported among the lowest usable frames. `UsesAllocator`: bring-up is a client of `PageAllocator`. `QuietBootCompletes` |
| `MCStage1` | 14 cells, 5 maps, 4 kernels (one over the loader, one into its own file), every flag (947 states) | `Inv`: nothing but segments is written. `Implements`: `Loader`. `HandoverFaithful`: control leaves only for a checked module. `LoaderEnds` |
| `MCFramebuffer` | pixels of 8 bits, 8 small modes with rectangles, rounded rectangles, discs and lines at and over the edges, 441 large ones with the splash (20631 states) | `Inv`: bytes stay within visible pixels. `ColourShown`: the nearest shade in the mode's bits. `ShapeExact`. `LineStraight`. `SplashLaidOut`: no difference is negative, and from 358 by 298 on nothing on the card covers anything else. `DrawingEnds` |
| `MCV1Boot` | real table sizes, 85 tag lists, boot information in 4 places (22956 states) | `V1Inv`: the pointer survives, the switch cannot fault, and the walk keeps the last name and memory tag and the size. `ReportTrue`: what stands on the screen at the halt is what the tags say, in their order, number by number. `Halts` |
| `MCSerial` | FIFO of 2 bytes, 8 programs (stage 1 alone, stage 1 and kernel, kernel alone with boot information that is good, rejected, missing or without a memory map), a port just reset or with a byte under way, a page fault at any point and another in its handler (699926 states) | `PortInv`: the port has no interrupt enabled, its latch closed, when gates are in force; the driver has one byte at most in the FIFO. `ReportsArrive`: `Line`. `ReportReachesLine` |
| `MCTextScreen` | 2 x 4 screen, 8 calls, both drivers, characters below and above 0x80 (188743 states) | `Inv`: one screen is the end of what was written, the other its beginning and a last row written over; nothing lands beside them; colours are those written in, except above 0x80 in the present kernel |

**Bounds.** The constants are scaled, not the algorithms: frames of 2 bytes give
unaligned ends, bitmaps that end inside a byte and maps smaller than a frame;
22 heap words hold three blocks, enough for splits, both merges and the case
where the remainder is too small for a header; six entries a table are enough
for the four special slots, one large page and two tables of a region; screens
of two rows scroll. Where a counter is not bounded by the code, a named constant
bounds it (`MaxKey`, `MaxDescs`, `MaxText`, `Nested`); each is large enough for the case
it exists for: two changes of the firmware's map around one ExitBootServices,
and a screen written over twice. `Pmm` and `Heap` are unbounded apart from memory.
`Nested` counts the exceptions taken, each in the handler of the one before: the
code has no limit, and two show a report cut by another. `MaxKey` of 4 is three changes, one before each use the loader makes of the map.

Two runs must be found violated, one disagreement each between the code and
what its comments or documents say (quoted in `findings`):

| Run | The code does not |
|---|---|
| `MCHeapUsed` | count the bytes allocated: `alloc` and `free` disagree when a block is taken whole |
| `MCBootStack` | keep a stack above 16 MiB mapped when it loads CR3: the machine resets before the canvas is drawn |

Further disagreements of the same kind have a configuration each, with which TLC
prints the behaviour in question. Each refutes one sentence of the repository,
given above the property it names; where several share a configuration, TLC's
`-continue` shows them all (with one worker; it is still quicker to name one at a time):

| Configuration | Module, property | The code does not |
|---|---|---|
| `MCPmmCounts` | `MCPmm`, `FreeCountExact` | report the number of free pages: the bitmap and frame 0 are counted free |
| `MCPmmCounts` | `MCPmm`, `HighestUsable` | size the bitmap by the highest *usable* address |
| `MCPmmUnaligned` | `MCPmm`, `OnlyUsable` | keep to usable memory when a region starts inside a frame |
| `MCPmmCounts` | `MCPmm`, `NullNeverGranted` | keep frame 0 as a guard when `NULL` is freed |
| `MCUefiRetry` | `MCUefiLoader`, `ServicesExited` | leave boot services for certain before the jump: the second ExitBootServices is not looked at |
| `MCUefiRetry` | `MCUefiLoader`, `SpareRoomUsed` | use the spare room of its buffer when it retries |
| `MCUefiRetry` | `MCUefiLoader`, `RsdpLocated` | find an RSDP behind another table: it steps 16 bytes through 24-byte entries |
| `MCVmmDisplay` | `MCVmm`, `DisplayMapped` | notice that a table for the display could not be had |
| `MCVmmHigherHalf` | `MCVmm`, `HigherHalfMapped` | map 0xFFFFFFFF80000000 |
| `MCBootTimer` | `MCKernelBoot`, `BootCompletes` | survive the first tick of a timer left unmasked |
| `MCBootHeap` | `MCKernelBoot`, `OthersZeroed` | zero the gates it has no handler for |
| `MCBootHeap` | `MCKernelBoot`, `HeapOffBitmap` | keep a large bitmap out of the heap |
| `MCStage1Issues` | `MCStage1`, `KernelEntered` | jump to the kernel's entry: it jumps to `boot_info` |
| `MCStage1Issues` | `MCStage1`, `StartReachesMain` | load SS with a data segment |
| `MCStage1Issues` | `MCStage1`, `SurvivesLoading` | survive loading a kernel that is linked where it runs |
| `MCSerialLoss` | `MCSerial`, `StageOneHeard` | show stage 1's last line whole: the kernel clears the FIFO it may still be in |
| `MCV1Identity` | `MCV1Boot`, `IdentityMapped` | map the first GiB to itself in the first kernel |

The three about stage 1 are also among the known issues of `docs/building.md`.
The passing runs are made on instances that contain these situations wherever
their properties still make sense in them, and say in the property which part is
given up (`OnlyUsable` on aligned maps; `BadEndsExplained` lists the causes).

## Fairness

There is one processor and it does not stop by itself, so each liveness property
assumes weak fairness of that processor's next step and of nothing else:
`WF(Step)` in `Heap`, `WF(LoaderStep)` in `UefiLoader` (the firmware need not
change its map, and need not stop changing it within its bound), `WF(Run)` in
`KernelBoot` (a device need not interrupt), `WF(Next)` in `Stage1`, `Splash` (with
`Framebuffer`'s steps) and `V1Boot`, where every step is the processor's.
`SerialPort` has two actors, and fairness for each: `WF(Processor)`, and
`WF(Transmitter)`, a port whose clock runs; exceptions need not come. A fault or a halt is an end,
and so are the loops the code itself calls a halt. `CHECK_DEADLOCK FALSE` is set
exactly where the modelled code ends, or, in `TextScreen`, where the number of
calls is bounded.

## What is proved

All theorems are about the modules above as TLC checks them, for every value of
the constants allowed by the one assumption each module names
(`PmmAssumption`: sizes are positive and maps are sequences of regions;
`HeapAssumption`: the arena does not start at 0, lies below the wrap of `size_t`
and holds at least a header, header size and alignment are positive, requests are
positive and their rounding does not wrap; `BootAssumption`: the tables a loader
leaves map the kernel, its stack and data, the bitmap and the usable frames, and
the early map covers the kernel and the heap; `TextScreenAssumption`: a screen
has a row and a column, and a character that is drawn is neither a control
character nor the blank of a cleared screen; `UefiAssumption`: sizes, descriptors
and fields of program headers have their types, and a memory map is not empty; `FramebufferAssumption`: so have
a graphics mode's fields and a call's arguments, and masks lie within a pixel;
`SplashAssumption`: the seven texts of the splash have the lengths the code
prints them with, which the provers cannot count; `Stage1Assumption`: what a
Multiboot loader passes has its types, the module and the segments lie in memory,
a memory map entry has at least 20 bytes, and of a segment no more is in the file
than in memory and all of that is in the module; `V1Assumption`: a tag has at
least the 8 bytes of its header; `SerialAssumption`: a program of reports sets up
the port first and not again once interrupts are enabled, its texts consist of
characters, which include the line ends and the ten digits, its numbers fit the
buffers the code builds them in, it finds the port's divisor latch closed and its
registers typed, and exceptions are the vectors 0 to 31; `VmmAssumption` and
`DisplayAssumption`: the static tables are four different frames of the early map,
none of them in a pool, a pool is any other set of frames without frame 0, the
slots of the display and of the alias are two different ones besides the first,
callers map no page in the first slot or the alias, and no display takes more
pages than one directory of tables maps, 1 GiB).

**PmmProofs.** `TypeCorrect`, `OwnerUnique`, `GuardsAlwaysKept`,
`CountIsUpperBound` and together `AllocatorSound` (safety), `DriftNeverChanges` (action), `PmmImplements`
(refinement of `PageAllocator`). `GuardsAlwaysKept` says who can lose a guard: only
a caller that frees frame 0 or a frame of the bitmap itself, whatever else is
allocated and freed, twice or out of range. The inductive invariant is the conjunction of
the type invariant, `OneOwner` (a set bit is held by one caller or reserved),
that each guarded frame is reserved or has been freed unowned (`Guarded`), and the counter's relation to the bitmap. The last is the reason the
types need strengthening: that the unsigned counter does not wrap when a page is
taken follows only from the counter being at least the number of clear bits.
`UsableOnly` has a hypothesis, `Aligned`: usable regions start where frames do.
The maps of `MCPmm` meet it, and `MCPmmUnaligned` shows what happens to one that
does not; the invariant adds that a clear bit, and a frame held, is one that a
caller freed unowned or one that `pmm_init` cleared (`Cleared`), and the latter is entirely usable
(`MarkedUsable`).

**HeapProofs.** `TypeCorrect`, `ChainTiles`, `LiveAlwaysExact`,
`AlwaysCoalesced`, together `HeapSound`, and `AlwaysRecovers` (safety), `RefusalsHonest` (action),
`HeapImplements` (refinement of `HeapSpec`). The inductive invariant adds to
these what holds in the middle of a call: where the search cursor is and that
no block behind it fits (`SearchInv`, from which refusals are honest), and,
while `free` coalesces, that its cursor has left no pair to merge behind it
(`CoalesceInv`, from which no two free neighbours are left when it reaches the
end). `TypeOK` alone is not
inductive: that no subtraction of sizes wraps rests on the tiling.

**KernelBootProofs.** `BootReady`, `BootEnds` and `BootCollisions` (safety), `BootUsesAllocator`
(refinement of `PageAllocator`), for every loader, memory layout and set of
interrupt sources. The inductive invariant says which tables, segments and gates
are in force in each phase (`InForce`: without it nothing excludes an interrupt
through the loader's gates, or a page fault before CR3 is loaded) and that every
frame of the pool is free or a table (`Allocated`: from it a display left
incomplete means that memory is out). `FaultCause` is the lemma the bad ends rest
on: under the loader's tables no step faults, and under the kernel's only for a
stack beyond the early map. `BootCollisions` has no hypothesis: the code holds
back frame 0 and the bitmap and nothing else (the kernel, the heap at 4 MiB, the
stack are free frames if the loader reports them usable), so the theorem says of
every memory map exactly when a table is built in memory in use. It rests on the
frames taken being the lowest of the pool (`LowestFirst`, `LowestInv`), each next
one the lowest left (`NextTaken`).

**TextScreenProofs.** `ScreenShowsText` (safety), for screens of every size and
texts of every length, of both drivers, in characters of all codes; for the
present kernel's it says that characters from 0x80 up lose their colour. The inductive invariant gives the screen
and the sheet their types, which `Inv` does not mention, and replaces the last
row of a console that never scrolls, described in `TextScreen` by a `CHOOSE` of
the latest mark in a column, by the existence of such a mark (`Latest`), which
each step can extend. Each operation of a driver is one lemma about what it does
to the screen and the sheet together: a mark struck, a row fed, a move within
the row. Beneath them lies the arithmetic of cells: rows do not overlap
(`RowsApart`) and different places are different cells (`CellsDiffer`).

**UefiLoaderProofs.** `LoaderSound` (safety), `QuietOnceExited` (action),
`LoaderImplements` (refinement of `Loader`), for every file, every sequence of
memory maps and every choice of calls that fail. `LoaderImplements` excepts
the kernel whose services are still active, whose map the retry did not get, or
whose file has more of a segment than memory is asked for (the copy runs over what
lies behind). Memory told of is compared with the firmware's own map (`Truth`), so
that a type converted wrongly shows, and complete only if the array has room
(`fits`). The inductive invariant has,
for each place in `efi_main`, what is held and open and whether services are
active (`Control`), how the map last read relates to the firmware's (`Mapped`:
a matching key means the same map, unless it changed since), and which segments
are in place (`Placed`). `Inv` alone forgets where the loader is. That the image
is complete when the last header is done (`ImageComplete`) is the one step with
content: each header's turn either leaves memory as it should be or returns.

**MultibootProofs.** Of stage 1: `Stage1Sound` and `HandoverTrue` (safety),
`Stage1Implements` (refinement of `Loader`), for every memory map, kernel file and
place of the module. They are about the machine as control leaves stage 1: that it
goes to `boot_info` and not to the kernel is `KernelEntered`. The inductive invariant ties the walk of the map to the
entries it has passed (`Walked`): the address is where the next entry starts, the
array holds the regions of those that were not empty, each at its rank. So the
array in the end is what the map says, or as much of it as fits (`WalkedTrue`).
For the segments (`Loaded`, `Lowest`) it says that a cell holds what the last
segment over it asks for, provided the kernel is clear of the loader and of the
module; `memcpy` over its own source is the case that is excluded, and the one
`MCStage1Issues` shows. Sums (where entries start) and ranks are functions
defined by recursion; that they exist, that they grow and what they reach rests
on `Recursion` and `Numbers`, induction over one set at a time.

Of the first kernel: `FirstKernelSound` (safety), for every list of tags. The
inductive invariant says which step of `boot.S` has left what (`Prepared`), and
that the walk is where the tag after the first j starts, with the last name and
memory tag of those j in hand (`Walking`); the rounding of sizes makes the next
tag the only one that starts there (`NextTag`), and only the list's end stops the
walk (`LastTag`).

`ReportsTrue` (safety) goes on to the screen. The invariant (`Reports`): what is
printed so far, followed by what the calls of `kprintf` to come will print, is
what is expected. What calls print is defined by taking them to pieces
(`Prints`): a text, a name or a number, each with the directive and the argument it
takes. A step of `kprintf` consumes one call, so the lemma about it
(`KprintfPrints`) follows from what one piece does (`KprintfPiece`), and the rest is
that the calls `print_boot_info` makes of a list of tags print the expected texts
(`EndWalkPrints`). That `uitoa`, which divides and then reverses, makes the decimal
numeral of every number is `UitoaIs`.

Of the serial port: `SerialSound` (safety) and `SerialImplements` (refinement of
`Line`), for every program of reports, every number and text in it, a FIFO of
any depth, and exceptions at any point, in each other's handlers too. `PortInv` alone forgets how far a set-up has come, so the
inductive invariant counts its writes (`Written`: after the first the port's
interrupt is off, from the second to the fourth the latch is open, after the
sixth the FIFO is empty), says that the rest of a program is whole (`Orderly`),
and that a byte waits in `putc` with the transmitter seen empty only while it is.
That the FIFO never holds two of the driver's bytes follows from the last. For the
refinement it adds the types of statements under way (`Speaking`), among them that
a number's digits so far and those to come fit its buffer. Each step is then
compared with the line's: a statement that hands a byte to `putc` leaves of itself
what it says after that byte (`StepSays`, `TextMeans`, `NumberMeans`), so the meaning
of all that is to come does not change; `Out` moves the first byte of it into a
FIFO that is empty, so no byte finds it full; a byte leaves the port in
the order it came; and a set-up loses only what the FIFO holds (`SetUpPortSays`).
What a program says is its statements' meanings put together. The operator the
library flattens sequences with is recursive; that its function exists and how it
starts and goes on (`FlattenJoins`, `FlattenHead`), and the same of powers of ten and
numbers of digits (`Descent`, `TensSteps`, `WidthSteps`, `DecimalIs`), is proved by
the least number at which it would fail.

**FramebufferProofs.** `VisibleOnly`, `ShapesExact`, `StraightLines`,
`ColoursTrue`, `SplashSound` (safety), of `Splash`'s specification, for displays of
every mode, size and pitch and drawings of every size. For the line, the inductive invariant says what `error` is after so many steps across
and down, that the distance from the ideal line is at most half the longer
extent, and that neither end is passed (`Tracked`); `LineStraight` alone says
nothing of `error`, which decides the next step. A flat line takes a step across
every turn (`FlatTurn`), and a steep one is a flat one with the axes exchanged
and the sign of `error` changed (`SteepTurn`). For the memory it says that the
renderer works with the description of the mode it checked, and that every byte
written is the address of a visible pixel (`Surface`), which division by the
pitch takes apart again (`AddressParts`) because a row that holds its pixels was
checked for. `SplashSound` adds the layout of the splash, for displays of every
size: each part of the picture is one the invariant lists (`SplashDrawn`), and the
geometry is arithmetic about the display's width and height (`PictureListed`,
`PictureDisplayed`, `PictureLies`, `PictureApart`, `BackgroundRises`, `RailsLit`):
no difference of unsigned coordinates is negative, and from 358 by 298 on nothing
on the card covers anything else. A rounded rectangle has two descriptions, by corners in the code,
by distance from the inner rectangle in `RoundedEven`; `RoundedNear` and
`NearRounded` show that they agree.

`ColoursTrue` is for every width of a byte and every colour. The invariant adds
that every byte written is the byte of the packed colour that belongs there, and
that a pixel is written whole (`Painted`); a byte's address belongs to one pixel
and one place in it, so what one drawing writes over another's is the same
(`PlotPaints`). What the bytes show is then about numbers: `scale_component`
rounds to the nearest (`Nearest`, `Scaled`), the bits of a shade stay within its
mask and no other component's bits do (`PartPlaced`), and a number is known from
its bits (`BitsTell`), so reading the mask gives the shade back. Powers of two are
a function defined by recursion, `TwoTo`, whose steps are proved the same way as
those of powers of ten. The hypothesis is `RegularMasks`: where a mode has masks of
its own, each is a run of bits and no two overlap. The loader reduces a mask to its
lowest bit and its number of bits (`main.c:121-139`), and a mask with a hole is drawn
in other bits than its own; the modes of `MCFramebuffer` meet the hypothesis.

**VmmProofs.** `KernelKept`, `OneOwner`, `DisplayWhole` (safety), `MapsExactly`
(action), `IsAddressSpace` (refinement of `AddressSpace`), for tables of any
number of entries, any number of pages and any pool, also one that reaches beyond
the kernel's map: there a request is done, or refused because no frame is left, or
ends in a page fault because none within reach is (`OutOfReach`). The inductive
invariant is that the tables form a tree (`Forest`): each table has a level, an
entry of a table leads one level down or maps a large page, no table but the
aliased one is linked twice, the kernel's own entries are as `init` wrote them, no
page is mapped to a frame of the pool (a page table that callers could write is
outside the model), and once CR3 is loaded the tables on a caller's way are ones
the kernel reaches (`Reachable`). `LinkTree` and `Writing` are the two ways memory
changes: a cleared table hung into an empty slot changes no translation, and an
entry written below a page that is not the kernel's changes that page's and no
other's, because two pages with one page table agree in three indices
(`SameTable`). The mapping of a display is a function defined by recursion on its
pages; that it exists (`Going`) and what it reaches (`Displaying`) follow from the
least page at which it would fail. Two hypotheses say what callers must respect and
the code does not check. `Elsewhere`: they map no page in the display's slot.
`Outside`: neither what they map nor the display is memory the page tables may
come from. The kernel's only caller today is the display's mapping, and `MCVmm`
meets both; `DisplayWhole` excepts the pool that has run dry, which is
`MCVmmDisplay`.

**Only model-checked.** Liveness everywhere: it needs fairness.

## What is not modelled

- The shapes of the letters (a table of 39 glyphs): data.
- The byte loops of `string.c` (copies, comparisons) in both kernels and in the
  UEFI loader: no state, and no property depends on how they work.
- The UEFI loader's messages. `print_str` passes the firmware one character
  without a terminator (`main.c:99`); what that prints is decided by the
  compiler's use of the stack.
- Bit layouts of descriptors and table entries: only which descriptor, which
  gate and which entry matters to the properties. Access rights of pages.
- Struct layouts of the boot ABI: the compiler asserts them.
- Link scripts, makefiles, image and run scripts, EFI headers: declarations, or
  straight-line calls of external tools.

## Plan

Done, in this order: `Pmm` and `Heap` with proofs (what everything else stands
on), `UefiLoader`, `Vmm`, `KernelBoot`, `Stage1`, `Framebuffer`, `V1Boot`,
`TextScreen`; then the abstract specifications `AddressSpace` and `Loader`, the
serial port with its promise `Line`, the first kernel's printing, `Splash`.

To come:

1. *Compositions.* `UefiLoader` and `KernelBoot` joined, so that the loader's
   result, not a record, is the kernel's start; `Vmm` on the page allocator of
   `Pmm` instead of a pool.
2. *More proofs.* What the two allocators give each other when `KernelBoot` is
   put on `Pmm` itself instead of its abstraction.
