---------------------------- MODULE MCKernelBoot ----------------------------
(***************************************************************************)
(* Frames 3-4 hold the kernel, 5 the bitmap, 6 the end of the loader's low *)
(* stack, 7-8 the heap; 0-9 are the early map, 10-13 lie above it.  Vector *)
(* 1 stands for an exception's, 2 for one beyond them.                     *)
(***************************************************************************)
EXTENDS KernelBoot

McKernel == {3, 4}
McHeap == {7, 8}
McEarly == 0 .. 9

\* Stage 1: the kernel lies in memory reported usable; the stack ends at
\* 4 MiB; no display is passed.
Stage1(info, bitmap, irqs) ==
  [info |-> info, usable |-> 0 .. 10, bitmap |-> bitmap, stack |-> 6, data |-> 9,
   maps |-> 0 .. 13, display |-> 0, irqs |-> irqs]
\* UEFI: the kernel is in loader data; the stack is where firmware put it.
Uefi(info, low, bitmap, stack, display, irqs) ==
  [info |-> info, usable |-> low \cup {5, 6, 7, 8, 10}, bitmap |-> bitmap,
   stack |-> stack, data |-> 13, maps |-> 0 .. 13, display |-> display,
   irqs |-> irqs]
\* Firmware that reports one usable frame in all.
Starved(display) ==
  [info |-> "valid", usable |-> {0, 1}, bitmap |-> 1, stack |-> 9, data |-> 13,
   maps |-> 0 .. 13, display |-> display, irqs |-> {}]

\* Firmware with little usable memory below the heap, where only the heap or
\* frames above it are left for tables.
Crowded(display) == Uefi("valid", {0}, 1, 9, display, {})
\* What boot.h does not forbid a loader: a display, and a map that reports as
\* usable the kernel's own frames, or the stack's.
Careless(inuse, low) ==
  [info |-> "valid", usable |-> {0, 10} \cup low \cup inuse, bitmap |-> 1, stack |-> 9,
   data |-> 13, maps |-> 0 .. 13, display |-> 2, irqs |-> {}]

McLoaders ==
  {Stage1(info, b, q) : info \in {"null", "invalid", "valid"}, b \in {1, 2},
                        q \in {{}, {1}, {2}}}
  \cup {Uefi(info, {0, 1, 2}, 1, s, d, q) :
          info \in {"invalid", "valid"}, s \in {9, 12}, d \in {0, 2, 3},
          q \in {{}, {1}, {2}}}
  \cup {Uefi("valid", {0, 1}, 1, 9, 2, {}), Starved(1), Starved(2), Crowded(1), Crowded(3)}
  \cup {Careless(inuse, low) : inuse \in {McKernel, {9}}, low \in {{2}, {1, 2}}}

\* Undisturbed but for its timer.
TimerLoaders == {Stage1("valid", 1, {1})}
\* Undisturbed but for its stack, which lies above 16 MiB.
HighStackLoaders == {Uefi("valid", {0, 1, 2}, 1, 12, 2, {})}
\* A memory map whose bitmap is larger than 1 MiB.
LargeLoaders == {Uefi("valid", {0, 1, 2}, 3, 12, 0, {})}
=============================================================================
