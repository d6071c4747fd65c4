----------------------------- MODULE KernelBoot -----------------------------
(***************************************************************************)
(* The kernel's bring-up: aurelion_kernel_main (kernel/src/kernel.c) from  *)
(* the _start of start.S to its final halt, on a processor that takes      *)
(* interrupts between any two steps.                                       *)
(*                                                                         *)
(* Memory is a set of frames.  What the allocators and the paging code do  *)
(* inside is in modules Pmm, Vmm and Heap; here they are what bring-up     *)
(* sees of them: which frames each one reads or writes, hands out or maps. *)
(* A step runs only if every frame it touches is mapped; if not, the       *)
(* processor faults.  A console or serial port never stops a step.         *)
(***************************************************************************)
EXTENDS Naturals, FiniteSets

CONSTANTS Kernel,        \* frames of the image linked at 1 MiB
          BitmapAt,      \* frame at which the PMM bitmap starts (3 MiB)
          Heap,          \* frames given to the heap (4 to 8 MiB)
          Early,         \* frames the kernel's tables identity map (16 MiB)
          Exceptions,    \* vectors init gives a handler (0-31)
          Vectors,       \* vectors of the IDT (0-255)
          Loaders        \* what a boot loader may leave behind: see Handoff

VARIABLES phase,         \* the step of kernel_main to come, or how it ended
          boot,          \* what the loader left behind
          iflag,         \* RFLAGS.IF
          gdt,           \* the segments in force: "loader" or "kernel"
          idt,           \* vector -> "handler", "null" (a gate to address 0)
          accessible,    \* frames the page tables in force map
          framebuffer_available,
          free,          \* frames the PMM has free
          ready,         \* pmm_init has built its bitmap
          tables,        \* frames the VMM holds
          out,           \* what the latest allocation returned
          drawn          \* the boot splash has been drawn

vars == <<phase, boot, iflag, gdt, idt, accessible, framebuffer_available,
          free, ready, tables, out, drawn>>

NULL == 0
Ends == {"halted", "hung", "wild", "reset"}
Phases == {"entry", "validate", "gdt", "idt", "pmm", "vmm", "cr3", "splash",
           "heap", "test"} \cup Ends

(* info: the pointer in rdi is NULL, or points to data that fails or passes *)
(* validation.  usable: frames reported usable.  bitmap: how many frames the *)
(* bitmap of this memory map takes.  stack, data: where the loader's stack   *)
(* and its boot_info and regions are.  maps: the frames its tables map.      *)
(* display: page tables its display needs, 0 if it passes none.  irqs:       *)
(* vectors that unmasked devices raise.                                      *)
Handoff == [info : {"null", "invalid", "valid"}, usable : SUBSET Nat,
            bitmap : Nat, stack : Nat, data : Nat, maps : SUBSET Nat,
            display : Nat, irqs : SUBSET Vectors]

Bitmap(l) == BitmapAt .. BitmapAt + l.bitmap - 1
\* The lowest frame of a set, as the set of it.
Lowest(s) == {f \in s : \A g \in s : f <= g}

\* The loader's tables map what bring-up uses before it has its own.
ASSUME BootAssumption ==
  /\ Early \subseteq Nat /\ Kernel \cup Heap \subseteq Early
  /\ BitmapAt \in Early \ (Kernel \cup Heap \cup {0})
  /\ Exceptions \subseteq Vectors
  /\ Loaders \subseteq Handoff
  /\ \A l \in Loaders :
       Kernel \cup {l.stack, l.data} \cup Bitmap(l) \cup l.usable \subseteq l.maps
-----------------------------------------------------------------------------
Init ==
  /\ boot \in Loaders
  /\ phase = "entry"
  /\ iflag \in BOOLEAN                  \* UEFI hands over with interrupts on
  /\ gdt = "loader"
  /\ idt = [v \in {} |-> "null"]
  /\ accessible = boot.maps
  /\ framebuffer_available = FALSE
  /\ free = {} /\ ready = FALSE /\ tables = {} /\ out = NULL
  /\ drawn = FALSE

\* The frames the step to come reads or writes, its code and stack included.
Touched ==
  Kernel \cup {boot.stack} \cup
  CASE phase = "validate" -> IF boot.info = "null" THEN {} ELSE {boot.data}
    [] phase = "pmm" -> IF boot.info = "null" THEN {} ELSE {boot.data} \cup Bitmap(boot)
    [] phase = "vmm" /\ framebuffer_available ->
         {boot.data} \cup Bitmap(boot) \cup Lowest(free)
    [] phase \in {"heap", "test"} -> Lowest(Heap)
    [] OTHER -> {}

At(p) == phase = p /\ Touched \subseteq accessible

\* A plausible bug: interrupts left as the loader had them.
StartSansCli ==
  /\ At("entry")
  /\ phase' = "validate"
  /\ UNCHANGED <<boot, iflag, gdt, idt, accessible, framebuffer_available,
                 free, ready, tables, out, drawn>>

\* _start: cli, and kernel_main up to its validation.
Start ==
  /\ At("entry")
  /\ phase' = "validate" /\ iflag' = FALSE
  /\ UNCHANGED <<boot, gdt, idt, accessible, framebuffer_available,
                 free, ready, tables, out, drawn>>

\* aurelion_validate_boot_info decides only whether the display is used; a
\* boot that fails validation goes on.
Validate ==
  /\ At("validate")
  /\ phase' = "gdt"
  /\ framebuffer_available' = (boot.info = "valid" /\ boot.display > 0)
  /\ UNCHANGED <<boot, iflag, gdt, idt, accessible, free, ready, tables, out, drawn>>

\* A plausible bug: the segments the loader left kept.
GdtInitUnflushed ==
  /\ At("gdt")
  /\ phase' = "idt"
  /\ UNCHANGED <<boot, iflag, gdt, idt, accessible, framebuffer_available, free,
                 ready, tables, out, drawn>>

\* aurelion_gdt_init.
GdtInit ==
  /\ At("gdt")
  /\ phase' = "idt" /\ gdt' = "kernel"
  /\ UNCHANGED <<boot, iflag, idt, accessible, framebuffer_available, free,
                 ready, tables, out, drawn>>

\* aurelion_idt_init: every gate is present, those of exceptions have a
\* handler, the others lead to address 0.  Ends with sti.
IdtInit ==
  /\ At("idt")
  /\ phase' = "pmm" /\ iflag' = TRUE
  /\ idt' = [v \in Vectors |-> IF v \in Exceptions THEN "handler" ELSE "null"]
  /\ UNCHANGED <<boot, gdt, accessible, framebuffer_available, free, ready,
                 tables, out, drawn>>

\* A plausible bug: the bitmap's own frames handed out as free.
InitialFreeSansBitmap(l) == l.usable \ {0}
InitialFree(l) == l.usable \ (Bitmap(l) \cup {0})

\* Of them, the ones that the display's tables come to take: the lowest.
Taken(l) ==
  {f \in InitialFree(l) : Cardinality({g \in InitialFree(l) : g < f}) < l.display}

\* aurelion_pmm_init.  A bitmap that runs over the stack or the loader's data
\* destroys return addresses and the map it is being built from.
PmmInit ==
  /\ At("pmm")
  /\ IF boot.info = "null" THEN phase' = "vmm" /\ UNCHANGED <<free, ready>>
     ELSE /\ phase' \in IF {boot.stack, boot.data} \cap Bitmap(boot) = {}
                        THEN {"vmm"} ELSE {"hung", "wild"}
          /\ free' = InitialFree(boot) /\ ready' = TRUE
  /\ UNCHANGED <<boot, iflag, gdt, idt, accessible, framebuffer_available,
                 tables, out, drawn>>

\* How bring-up goes on once frame f is cleared: no longer if f held its return
\* addresses, and perhaps no longer if f is part of the kernel.
Cleared(f) ==
  {p \in {"vmm", "hung", "wild"} :
     IF p = "vmm" THEN f # boot.stack ELSE f \in Kernel \cup {boot.stack}}

\* A plausible bug: a table handed out and still free.
VmmTableUnmarked ==
  /\ At("vmm")
  /\ framebuffer_available /\ Cardinality(tables) < boot.display
  /\ \E f \in Lowest(free) : tables' = tables \cup {f} /\ out' = f /\ phase' \in Cleared(f)
  /\ UNCHANGED <<boot, iflag, gdt, idt, accessible,
                 framebuffer_available, free, ready, drawn>>

\* aurelion_vmm_init allocating one more table for the display, and clearing it.
VmmTable ==
  /\ At("vmm")
  /\ framebuffer_available /\ Cardinality(tables) < boot.display
  /\ \E f \in Lowest(free) : /\ tables' = tables \cup {f} /\ free' = free \ {f} /\ out' = f
                             /\ phase' \in Cleared(f)
  /\ UNCHANGED <<boot, iflag, gdt, idt, accessible,
                 framebuffer_available, ready, drawn>>

\* With the display mapped, or memory out, it goes on to load CR3.
VmmMapped ==
  /\ At("vmm")
  /\ framebuffer_available => Cardinality(tables) = boot.display \/ free = {}
  /\ phase' = "cr3"
  /\ out' = IF framebuffer_available /\ Cardinality(tables) < boot.display
            THEN NULL ELSE out
  /\ UNCHANGED <<boot, iflag, gdt, idt, accessible, framebuffer_available,
                 free, ready, tables, drawn>>

\* A plausible bug: too few large pages in the early map to reach the heap.
LoadCr3Short ==
  /\ At("cr3")
  /\ phase' = "splash" /\ accessible' = Early \ Heap
  /\ UNCHANGED <<boot, iflag, gdt, idt, framebuffer_available, free, ready,
                 tables, out, drawn>>

\* aurelion_vmm_load_cr3: from here on only Early and the display are mapped.
LoadCr3 ==
  /\ At("cr3")
  /\ phase' = "splash" /\ accessible' = Early
  /\ UNCHANGED <<boot, iflag, gdt, idt, framebuffer_available, free, ready,
                 tables, out, drawn>>

\* The splash is drawn through the mapping of the display; where a table was
\* missing, the first pixel beyond it faults.
Splash ==
  /\ At("splash")
  /\ LET whole == Cardinality(tables) = boot.display
     IN  /\ drawn' = (framebuffer_available /\ whole)
         /\ phase' = IF framebuffer_available => whole THEN "heap" ELSE "hung"
         /\ iflag' = (iflag /\ (framebuffer_available => whole))
  /\ UNCHANGED <<boot, gdt, idt, accessible, framebuffer_available, free,
                 ready, tables, out>>

\* aurelion_heap_init at 4 MiB, whatever else lies there.
HeapInit ==
  /\ At("heap")
  /\ phase' = "test"
  /\ UNCHANGED <<boot, iflag, gdt, idt, accessible, framebuffer_available,
                 free, ready, tables, out, drawn>>

\* The test allocation is made and freed, and the kernel halts for good.
TestAndHalt ==
  /\ At("test")
  /\ phase' = "halted"
  /\ UNCHANGED <<boot, iflag, gdt, idt, accessible, framebuffer_available,
                 free, ready, tables, out, drawn>>

\* A step that touches an unmapped frame: the page fault reaches its handler
\* if there is one and a stack to push on, and resets the machine otherwise.
Fault ==
  /\ phase \notin Ends
  /\ ~(Touched \subseteq accessible)
  /\ phase' = IF DOMAIN idt # {} /\ boot.stack \in accessible THEN "hung" ELSE "reset"
  /\ iflag' = FALSE
  /\ UNCHANGED <<boot, gdt, idt, accessible, framebuffer_available, free,
                 ready, tables, out, drawn>>

\* A device interrupt between two steps, or while halted.  An exception
\* handler never returns; a gate to address 0 runs what low memory holds.
\* Before lidt the loader's handlers, if any, serve it and return.
Interrupt(v) ==
  /\ phase \notin Ends \ {"halted"}
  /\ iflag /\ v \in boot.irqs
  /\ DOMAIN idt # {}
  /\ phase' = IF gdt = "loader" \/ boot.stack \notin accessible THEN "reset"
              ELSE IF idt[v] = "handler" THEN "hung" ELSE "wild"
  /\ iflag' = FALSE
  /\ UNCHANGED <<boot, gdt, idt, accessible, framebuffer_available, free,
                 ready, tables, out, drawn>>

Run == \/ Start \/ Validate \/ GdtInit \/ IdtInit \/ PmmInit \/ VmmTable
       \/ VmmMapped \/ LoadCr3 \/ Splash \/ HeapInit \/ TestAndHalt \/ Fault

Next == Run \/ \E v \in Vectors : Interrupt(v)

Spec == Init /\ [][Next]_vars

\* The one processor keeps executing until it halts for good.
FairSpec == Spec /\ WF_vars(Run)
-----------------------------------------------------------------------------
TypeOK ==
  /\ phase \in Phases /\ boot \in Loaders
  /\ iflag \in BOOLEAN /\ framebuffer_available \in BOOLEAN
  /\ gdt \in {"loader", "kernel"}
  /\ DOMAIN idt \in {{}, Vectors}
  /\ accessible \in {boot.maps, Early}
  /\ free \cup tables \subseteq boot.usable
  /\ ready \in BOOLEAN /\ drawn \in BOOLEAN /\ out \in Nat

\* Interrupts are never enabled before the kernel's own segments and gates are
\* in force: each gate names a selector of the kernel's GDT.
HandlersReady ==
  iflag /\ phase # "entry" => gdt = "kernel" /\ DOMAIN idt = Vectors

\* Every bad end has one of the causes known here: a device interrupt, a stack
\* or loader data the bitmap ran over, a kernel or stack reported usable and
\* taken for a table, a stack the kernel does not map, a display for which
\* memory did not suffice.
BadEndsExplained ==
  LET overrun == boot.info # "null" /\ {boot.stack, boot.data} \cap Bitmap(boot) # {}
      erased == framebuffer_available /\ Taken(boot) \cap (Kernel \cup {boot.stack}) # {}
  IN  /\ phase = "wild" => overrun \/ erased \/ boot.irqs \ Exceptions # {}
      /\ phase = "reset" => boot.stack \notin Early
      /\ phase = "hung" => \/ overrun \/ erased \/ boot.irqs \cap Exceptions # {}
                           \/ framebuffer_available /\ free = {}

\* pmm.c holds back frame 0 and its bitmap, and nothing else that is in use:
\* the kernel, the heap, the stack and the loader's data are free frames like
\* any other wherever the loader reports them usable.  They are taken for a
\* table if, and by the time the display is drawn only if, they are among
\* the lowest.
CollisionsExplained ==
  LET contested == Taken(boot) \cap (Kernel \cup Heap \cup {boot.stack, boot.data})
      inuse == Kernel \cup Heap \cup Bitmap(boot) \cup {0, boot.stack, boot.data}
  IN  /\ tables \cap inuse \subseteq contested
      /\ drawn => contested \subseteq tables

\* The display is drawn on only if the loader's description of it passed
\* validation and all of it is mapped by the kernel's tables.
DrawnOnlyIfMapped ==
  drawn => /\ boot.info = "valid"
           /\ Cardinality(tables) = boot.display
           /\ accessible = Early

\* Every state bring-up passes through is ready for what can happen in it next:
\* an interrupt, or a pixel drawn.
Inv == TypeOK /\ HandlersReady /\ DrawnOnlyIfMapped

\* Bring-up uses the physical memory manager as an abstract page allocator.
Allocator == INSTANCE PageAllocator WITH PageSize <- 1, held <- tables, gifts <- {}
UsesAllocator == Allocator!Spec

\* Bring-up comes to its halt if no device interrupts it, the loader's stack is
\* in the early map, the bitmap and the tables run over nothing it runs on, and
\* memory suffices.
Undisturbed ==
  /\ boot.irqs = {} /\ boot.stack \in Early
  /\ {boot.stack, boot.data} \cap Bitmap(boot) = {}
  /\ Taken(boot) \cap (Kernel \cup {boot.stack}) = {}
  /\ boot.display <= Cardinality(InitialFree(boot))
QuietBootCompletes == Undisturbed ~> phase = "halted"

\* docs/building.md:103: the run ends "All subsystems initialized. Halting.",
\* here for a boot that differs from an undisturbed one by its timer alone.
BootCompletes == <>(phase = "halted")

\* docs/building.md:14-16: a display passed by the loader shows the canvas.
CanvasShown == framebuffer_available ~> drawn

\* idt.c:103: Zero out all entries, which leaves no gate present.
OthersZeroed == \A v \in DOMAIN idt \ Exceptions : idt[v] = "none"

\* vmm.c:54: the bitmap and the heap lie at 3 MiB and 4 MiB, side by side.
HeapOffBitmap == ready => Heap \cap Bitmap(boot) = {}
=============================================================================
