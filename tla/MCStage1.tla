------------------------------ MODULE MCStage1 ------------------------------
(***************************************************************************)
(* Fourteen cells: stage 1 in cells 1-2 (1 MiB), the module in the four    *)
(* cells from 8 on, headers first.  At most three regions.                 *)
(***************************************************************************)
EXTENDS Stage1

McCells == 0 .. 13
McImage == {1, 2}

Seg(load, paddr, offset, filesz, memsz) ==
  [load |-> load, paddr |-> paddr, offset |-> offset, filesz |-> filesz, memsz |-> memsz]
E(size, base, length, type) ==
  [size |-> size, base |-> base, length |-> length, type |-> type]

\* Entries with and without extended attributes, empty ones, every type.
Maps == {<<>>, <<E(20, 0, 4, 1)>>,
         <<E(20, 0, 4, 1), E(20, 4, 0, 2), E(20, 4, 2, 2)>>,
         <<E(24, 0, 4, 1), E(20, 4, 2, 3), E(24, 6, 8, 4)>>,
         <<E(20, 0, 4, 1), E(20, 4, 2, 5), E(20, 6, 8, 1), E(20, 14, 2, 2)>>}

\* A kernel clear of everything: text, a note, data with bss, an empty segment.
ClearKernel == <<Seg(TRUE, 5, 1, 1, 1), Seg(FALSE, 0, 3, 1, 1),
                 Seg(TRUE, 3, 2, 1, 2), Seg(TRUE, 12, 0, 0, 0)>>
NoSegments == <<Seg(FALSE, 0, 1, 1, 1)>>
\* The kernel as linker.ld places it: where stage 1 runs.
AtOneMiB == <<Seg(TRUE, 1, 1, 2, 3), Seg(TRUE, 4, 3, 1, 1)>>
\* A kernel whose bss reaches into the module.
IntoModule == <<Seg(TRUE, 6, 1, 1, 3), Seg(TRUE, 4, 3, 1, 1)>>

Boot(entry, magic, map, entries, module, elf, phdrs) ==
  [entry |-> entry, magic |-> magic, map |-> map, entries |-> entries,
   lower |-> 3, upper |-> 2, module |-> module, elf |-> elf,
   at |-> 8, filecells |-> 4, phdrs |-> phdrs]
Kernels == {ClearKernel, NoSegments, AtOneMiB, IntoModule}

McBoots ==
  {Boot("multiboot_main", g, m, IF m = "mmap" THEN e ELSE <<>>, o, f, k) :
     g \in BOOLEAN, m \in {"mmap", "memory", "none"}, e \in Maps,
     o \in BOOLEAN, f \in BOOLEAN, k \in Kernels}
  \cup {Boot("_start", TRUE, "mmap", e, TRUE, TRUE, ClearKernel) : e \in Maps}
\* Everything as it should be, and a kernel that disturbs nothing; the entry
\* point of the ELF header; the kernel as it is linked.
IssueBoots ==
  {Boot(g, TRUE, "mmap", <<E(20, 0, 4, 1)>>, TRUE, TRUE, k) :
     g \in {"multiboot_main", "_start"}, k \in {ClearKernel, AtOneMiB}}
=============================================================================
