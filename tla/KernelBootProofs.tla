-------------------------- MODULE KernelBootProofs --------------------------
(***************************************************************************)
(* Proofs about the kernel's bring-up, for every loader, memory layout and *)
(* set of interrupt sources.                                               *)
(***************************************************************************)
EXTENDS KernelBoot, FiniteSetTheorems, TLAPS

\* What is in force while bring-up has come to a phase: segments and gates
\* before interrupts, the loader's tables until CR3 is loaded.
InForce ==
  /\ phase \in {"entry", "validate", "gdt", "idt"} => idt = [v \in {} |-> "null"] /\ ~ready
  /\ phase \in {"validate", "gdt", "idt"} => ~iflag
  /\ phase \notin {"entry", "validate", "gdt"} /\ ~(phase \in Ends /\ ~iflag) => gdt = "kernel"
  /\ phase \notin {"entry", "validate", "gdt", "idt"} /\ ~(phase \in Ends /\ ~iflag) =>
       idt = [v \in Vectors |-> IF v \in Exceptions THEN "handler" ELSE "null"]
  /\ phase \in {"entry", "validate", "gdt", "idt", "pmm", "vmm", "cr3"} => accessible = boot.maps
  /\ phase \in {"splash", "heap", "test", "halted"} => accessible = Early
  /\ phase = "pmm" => ~ready

\* What has been allocated: nothing before the page allocator is up, and after
\* that every frame of its pool is free or holds one table.  The display's
\* tables are complete, or memory is out, before CR3 is loaded.
Allocated ==
  /\ ~ready => free = {} /\ tables = {}
  /\ ready => free = InitialFree(boot) \ tables /\ tables \subseteq InitialFree(boot)
  /\ framebuffer_available => boot.info = "valid"
  /\ drawn => phase \in {"heap", "test"} \cup Ends /\ accessible = Early
  /\ phase \in {"cr3", "splash"} /\ framebuffer_available =>
       Cardinality(tables) = boot.display \/ free = {}

\* The frames that hold tables are the lowest of the pool, and no more than the
\* display needs.
LowestFirst ==
  /\ IsFiniteSet(tables) /\ tables \subseteq Taken(boot)
  /\ \A t \in tables, g \in InitialFree(boot) : g < t => g \in tables

\* The inductive invariant.
IInv == /\ TypeOK /\ HandlersReady /\ DrawnOnlyIfMapped /\ BadEndsExplained
        /\ InForce /\ Allocated /\ LowestFirst

\* What a loader's handoff says of itself.
LEMMA LoaderFacts ==
  ASSUME BootAssumption, boot \in Loaders
  PROVE  /\ boot.usable \subseteq Nat /\ boot.usable \subseteq boot.maps
         /\ Kernel \cup {boot.stack, boot.data} \cup Bitmap(boot) \subseteq boot.maps
         /\ Kernel \cup Heap \subseteq Early
         /\ InitialFree(boot) \subseteq boot.usable \ {0}
         /\ boot.display \in Nat
<1>1. boot \in Handoff
  BY DEF BootAssumption
<1>2. boot.usable \subseteq Nat /\ boot.display \in Nat
  BY <1>1 DEF Handoff
<1> QED
  BY <1>2 DEF BootAssumption, InitialFree

\* No step faults as long as the loader's tables are in force, and after that
\* only for a stack beyond the early map.
LEMMA FaultCause ==
  ASSUME BootAssumption, IInv, Fault
  PROVE  boot.stack \notin accessible /\ boot.stack \notin Early
<1>1. boot \in Loaders /\ phase \in Phases \ Ends /\ free \subseteq boot.usable
  BY DEF IInv, TypeOK, Fault, Phases
<1>2. ~(Touched \subseteq accessible)
  BY DEF Fault
<1>3. CASE phase \in {"entry", "validate", "gdt", "idt", "pmm", "vmm", "cr3"}
  <2>1. accessible = boot.maps
    BY <1>3 DEF IInv, InForce
  <2>2. Touched \subseteq Kernel \cup {boot.stack, boot.data} \cup Bitmap(boot) \cup free
    BY <1>3 DEF Touched, Lowest
  <2> QED
    BY <1>1, <1>2, <2>1, <2>2, LoaderFacts
<1>4. CASE phase \in {"splash", "heap", "test"}
  <2>1. accessible = Early
    BY <1>4 DEF IInv, InForce
  <2>2. Touched \subseteq Kernel \cup {boot.stack} \cup Heap
    BY <1>4 DEF Touched, Lowest
  <2> QED
    BY <1>1, <1>2, <2>1, <2>2, LoaderFacts
<1> QED
  BY <1>1, <1>3, <1>4 DEF Phases, Ends

LEMMA InitInv == BootAssumption /\ Init => IInv
<1> SUFFICES ASSUME BootAssumption, Init PROVE IInv
  OBVIOUS
<1>1. TypeOK
  BY DEF Init, TypeOK, Phases, Ends, NULL
<1>2. HandlersReady /\ DrawnOnlyIfMapped /\ BadEndsExplained
  BY DEF Init, HandlersReady, DrawnOnlyIfMapped, BadEndsExplained
<1>3. InForce /\ Allocated
  BY DEF Init, InForce, Allocated, Ends
<1>4. LowestFirst
  BY FS_EmptySet DEF Init, LowestFirst
<1> QED
  BY <1>1, <1>2, <1>3, <1>4 DEF IInv

\* A new table is the lowest frame of the pool not yet taken, so that the frames
\* below it are all tables, fewer than the display needs.
LEMMA NextTaken ==
  ASSUME BootAssumption, IInv, VmmTable, NEW f \in Lowest(free), tables' = tables \cup {f}
  PROVE  f \in Taken(boot) /\ LowestFirst'
<1>1. /\ boot' = boot /\ boot \in Loaders
      /\ Cardinality(tables) < boot.display
  BY DEF VmmTable, At, IInv, TypeOK
<1>2. IsFiniteSet(tables) /\ tables \subseteq Taken(boot)
  BY DEF IInv, LowestFirst
<1>3. \A t \in tables, g \in InitialFree(boot) : g < t => g \in tables
  BY DEF IInv, LowestFirst
<1>4. f \in InitialFree(boot) \ tables /\ \A g \in InitialFree(boot) \ tables : f <= g
  BY DEF Lowest, IInv, Allocated
<1>5. InitialFree(boot) \subseteq Nat /\ boot.display \in Nat
  BY <1>1, LoaderFacts
<1> DEFINE below == {g \in InitialFree(boot) : g < f}
<1>6. below \subseteq tables
  BY <1>4, <1>5
<1>7. IsFiniteSet(below) /\ Cardinality(below) <= Cardinality(tables)
  BY <1>2, <1>6, FS_Subset
<1>8. Cardinality(below) \in Nat /\ Cardinality(tables) \in Nat
  BY <1>2, <1>7, FS_CardinalityType
<1>9. Cardinality(below) < boot.display
  <2> HIDE DEF below
  <2> QED
    BY <1>1, <1>5, <1>7, <1>8
<1>10. f \in Taken(boot)
  BY <1>4, <1>9 DEF Taken
<1>11. IsFiniteSet(tables')
  BY <1>2, FS_AddElement
<1>12. Taken(boot)' = Taken(boot) /\ InitialFree(boot)' = InitialFree(boot)
  BY <1>1 DEF Taken, InitialFree, Bitmap
<1>13. \A t \in tables', g \in InitialFree(boot) : g < t => g \in tables'
  BY <1>3, <1>6
<1> QED
  BY <1>1, <1>2, <1>10, <1>11, <1>12, <1>13 DEF LowestFirst

\* No other step takes a table.
LEMMA LowestInv == ASSUME BootAssumption, IInv, [Next]_vars PROVE LowestFirst'
<1>1. CASE VmmTable
  <2>1. PICK f \in Lowest(free) : tables' = tables \cup {f}
    BY <1>1 DEF VmmTable
  <2> QED
    BY <1>1, <2>1, NextTaken
<1>2. CASE UNCHANGED <<boot, tables>>
  <2>1. Taken(boot)' = Taken(boot) /\ InitialFree(boot)' = InitialFree(boot)
    BY <1>2 DEF Taken, InitialFree, Bitmap
  <2> QED
    BY <1>2, <2>1 DEF IInv, LowestFirst
<1> QED
  BY <1>1, <1>2 DEF Next, Run, vars, Start, Validate, GdtInit, IdtInit, PmmInit,
     VmmMapped, LoadCr3, Splash, HeapInit, TestAndHalt, Fault, Interrupt

\* Every step of bring-up, and every interrupt, preserves the invariant.
LEMMA StepInv == BootAssumption /\ IInv /\ [Next]_vars => IInv'
<1> SUFFICES ASSUME BootAssumption, IInv, [Next]_vars PROVE IInv'
  OBVIOUS
<1>0. LowestFirst'
  BY LowestInv
<1> USE <1>0 DEF IInv, TypeOK, HandlersReady, DrawnOnlyIfMapped, BadEndsExplained,
            InForce, Allocated, Phases, Ends
<1>1. CASE Start
  BY <1>1 DEF Start, At
<1>2. CASE Validate
  BY <1>2 DEF Validate, At
<1>3. CASE GdtInit
  BY <1>3 DEF GdtInit, At
<1>4. CASE IdtInit
  BY <1>4 DEF IdtInit, At
<1>5. CASE PmmInit
  BY <1>5, LoaderFacts DEF PmmInit, At
<1>6. CASE VmmTable
  <2>1. PICK f \in Lowest(free) : /\ tables' = tables \cup {f} /\ free' = free \ {f}
                                  /\ out' = f /\ phase' \in Cleared(f)
    BY <1>6 DEF VmmTable
  <2>2. f \in Taken(boot) /\ Taken(boot)' = Taken(boot)
    BY <1>6, <2>1, NextTaken DEF VmmTable, Taken, InitialFree, Bitmap
  <2>3. f \in free /\ f \in Nat
    BY <2>1, LoaderFacts DEF Lowest
  <2> QED
    BY <1>6, <2>1, <2>2, <2>3, LoaderFacts DEF VmmTable, At, Cleared, Bitmap, InitialFree
<1>7. CASE VmmMapped
  BY <1>7, LoaderFacts DEF VmmMapped, At, NULL
<1>8. CASE LoadCr3
  BY <1>8 DEF LoadCr3, At
<1>9. CASE Splash
  BY <1>9 DEF Splash, At
<1>10. CASE HeapInit
  BY <1>10 DEF HeapInit, At
<1>11. CASE TestAndHalt
  BY <1>11 DEF TestAndHalt, At
<1>12. CASE Fault
  BY <1>12, FaultCause DEF Fault
<1>13. ASSUME NEW v \in Vectors, Interrupt(v) PROVE IInv'
  BY <1>13, LoaderFacts DEF Interrupt
<1>14. CASE UNCHANGED vars
  BY <1>14 DEF vars
<1> QED
  BY <1>1, <1>2, <1>3, <1>4, <1>5, <1>6, <1>7, <1>8, <1>9, <1>10, <1>11, <1>12,
     <1>13, <1>14 DEF Next, Run

\* The invariant holds in every state bring-up reaches.
THEOREM SpecInv == BootAssumption /\ Spec => []IInv
<1> SUFFICES ASSUME BootAssumption PROVE Spec => []IInv
  OBVIOUS
<1>1. Init => IInv
  BY InitInv
<1>2. IInv /\ [Next]_vars => IInv'
  BY StepInv
<1> QED
  BY <1>1, <1>2, PTL DEF Spec

\* Whatever the loader leaves behind, every state bring-up passes through is
\* ready for what can happen in it next: no interrupt is taken between two
\* steps before the kernel's segments and gates are in force (idt.c, gdt.c),
\* and the display is drawn on only through the kernel's complete tables.
THEOREM BootReady == Spec => []Inv
<1>1. IInv => Inv
  BY DEF IInv, Inv
<1> QED
  BY <1>1, SpecInv, BootAssumption, PTL

\* Bring-up ends badly for no cause but those listed: a device interrupt, a
\* bitmap over the loader's stack or data (pmm.c), a table cleared where the
\* kernel or its stack lies, a stack the kernel does not map (vmm.c), or a
\* display for which memory did not suffice.
THEOREM BootEnds == Spec => []BadEndsExplained
<1>1. IInv => BadEndsExplained
  BY DEF IInv
<1> QED
  BY <1>1, SpecInv, BootAssumption, PTL

\* Bring-up uses the page allocator as pmm.h promises it: no table is taken
\* from a frame in use, address 0 is never one, and memory is called out only
\* when nothing is free.
THEOREM BootUsesAllocator == Spec => UsesAllocator
<1>1. Init => Allocator!Init
  BY DEF Init, Allocator!Init
<1>2. ASSUME BootAssumption, IInv, [Next]_vars PROVE [Allocator!Next]_(Allocator!vars)
  <2> USE <1>2
  <2>1. CASE PmmInit
    <3>1. CASE boot.info = "null"
      BY <2>1, <3>1 DEF PmmInit, Allocator!vars
    <3>2. CASE boot.info # "null"
      <4>1. ready = FALSE /\ InitialFree(boot) \subseteq Nat
        BY <2>1, LoaderFacts DEF PmmInit, At, IInv, InForce, TypeOK
      <4> QED
        BY <2>1, <3>2, <4>1 DEF PmmInit, Allocator!Next, Allocator!SetUp
    <3> QED
      BY <3>1, <3>2
  <2>2. CASE VmmTable
    <3>1. PICK f \in Lowest(free) :
            tables' = tables \cup {f} /\ free' = free \ {f} /\ out' = f
      BY <2>2 DEF VmmTable
    <3>2. f \in free /\ f \in Nat /\ f # 0
      BY <3>1, LoaderFacts DEF Lowest, IInv, TypeOK, Allocated
    <3>3. f * 1 = f
      BY <3>2
    <3>4. Allocator!Grant(f)
      BY <2>2, <3>1, <3>2, <3>3 DEF VmmTable, Allocator!Grant, NULL
    <3> QED
      BY <3>2, <3>4 DEF Allocator!Next
  <2>3. CASE VmmMapped
    <3>1. CASE framebuffer_available /\ Cardinality(tables) < boot.display
      <4>1. boot.display \in Nat /\ framebuffer_available
        BY <3>1, LoaderFacts DEF IInv, TypeOK
      <4>2. Cardinality(tables) = boot.display \/ free = {}
        BY <2>3, <4>1 DEF VmmMapped
      <4>3. free = {}
        BY <3>1, <4>1, <4>2
      <4> QED
        BY <2>3, <3>1, <4>3 DEF VmmMapped, Allocator!Next, Allocator!Refuse
    <3>2. CASE ~(framebuffer_available /\ Cardinality(tables) < boot.display)
      BY <2>3, <3>2 DEF VmmMapped, Allocator!vars
    <3> QED
      BY <3>1, <3>2
  <2>4. CASE UNCHANGED <<ready, free, tables, out>>
    BY <2>4 DEF Allocator!vars
  <2> QED
    BY <2>1, <2>2, <2>3, <2>4 DEF Next, Run, vars, Start, Validate, GdtInit, IdtInit,
       LoadCr3, Splash, HeapInit, TestAndHalt, Fault, Interrupt
<1> QED
  BY <1>1, <1>2, SpecInv, BootAssumption, PTL DEF Spec, UsesAllocator, Allocator!Spec

\* Whatever the loader reports usable, a frame that aurelion_vmm_init takes for a
\* table is never the null page or the bitmap's.  It is the kernel's, the heap's,
\* the stack's or the loader's data if and only if the loader reports such a
\* frame among the lowest usable ones, for pmm.c holds none of them back.
THEOREM BootCollisions == Spec => []CollisionsExplained
<1>1. ASSUME BootAssumption, IInv PROVE CollisionsExplained
  <2> USE <1>1
  <2>1. tables \subseteq Taken(boot) /\ IsFiniteSet(tables)
    BY DEF IInv, LowestFirst
  <2>2. Taken(boot) \subseteq InitialFree(boot)
    BY DEF Taken
  <2>3. ASSUME drawn PROVE Taken(boot) \subseteq tables
    <3> SUFFICES ASSUME NEW f \in Taken(boot), f \notin tables PROVE FALSE
      OBVIOUS
    <3> DEFINE below == {g \in InitialFree(boot) : g < f}
    <3>1. Cardinality(tables) = boot.display /\ boot.display \in Nat
      BY <2>3, LoaderFacts DEF IInv, TypeOK, DrawnOnlyIfMapped
    <3>2. InitialFree(boot) \subseteq Nat
      BY LoaderFacts DEF IInv, TypeOK
    <3>3. \A t \in tables : t < f
      BY <2>1, <2>2, <3>2 DEF IInv, LowestFirst
    <3>4. tables \subseteq below
      BY <2>1, <2>2, <3>3
    <3>5. Cardinality(below) < boot.display
      BY DEF Taken
    <3>6. IsFiniteSet(below)
      <4>1. below \subseteq 0 .. f
        BY <2>2, <3>2
      <4>2. IsFiniteSet(0 .. f)
        BY <2>2, <3>2, FS_Interval
      <4> QED
        BY <4>1, <4>2, FS_Subset
    <3>7. Cardinality(tables) <= Cardinality(below) /\ Cardinality(below) \in Nat
      BY <3>4, <3>6, FS_Subset, FS_CardinalityType
    <3> QED
      <4> HIDE DEF below
      <4> QED
        BY <3>1, <3>5, <3>7
  <2> QED
    BY <2>1, <2>2, <2>3 DEF CollisionsExplained, InitialFree
<1> QED
  BY <1>1, SpecInv, BootAssumption, PTL
=============================================================================
