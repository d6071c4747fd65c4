---------------------------- MODULE MCUefiLoader ----------------------------
(***************************************************************************)
(* Small files, tables and memory for the UEFI loader.                     *)
(***************************************************************************)
EXTENDS UefiLoader

Ph(l, a, f, m) == [load |-> l, paddr |-> a, filesz |-> f, memsz |-> m]
Elf(phs) == [magic |-> TRUE, class64 |-> TRUE, x86_64 |-> TRUE, phdrs |-> phs]

\* As the kernel is linked: text, a note, data with bss, an empty segment.
Kernel == Elf(<<Ph(TRUE, 1, 1, 1), Ph(FALSE, 0, 1, 1), Ph(TRUE, 2, 1, 2), Ph(TRUE, 9, 0, 0)>>)
\* Two segments that share a page.
Overlapping == Elf(<<Ph(TRUE, 1, 2, 2), Ph(TRUE, 2, 1, 1)>>)
\* A segment where no memory is.
Misplaced == Elf(<<Ph(TRUE, 1, 1, 1), Ph(TRUE, 4, 1, 2)>>)
\* A segment with more in the file than in memory, copied over the one before.
Spilling == Elf(<<Ph(TRUE, 2, 1, 1), Ph(TRUE, 1, 2, 1)>>)
McElfs == {Kernel, Overlapping, Misplaced, Spilling,
           [Kernel EXCEPT !.magic = FALSE], [Kernel EXCEPT !.class64 = FALSE],
           [Kernel EXCEPT !.x86_64 = FALSE]}

D(base, pages, type) == [base |-> base, pages |-> pages, type |-> type]
\* Maps with an empty descriptor, with as many as the array holds, with more.
McMaps == {<<D(0, 8, "conventional")>>,
           <<D(0, 2, "other"), D(2, 0, "conventional"), D(2, 3, "conventional"), D(5, 1, "acpi_nvs")>>,
           <<D(0, 5, "conventional"), D(5, 1, "acpi_reclaim"), D(6, 1, "other")>>,
           <<D(0, 1, "conventional"), D(1, 1, "other"), D(2, 1, "conventional"), D(3, 1, "acpi_nvs")>>}
McGarbage == {D(9, 1, "conventional")}

Entry(g, t) == [guid |-> g, table |-> t]
McTables == {<<>>, <<Entry("smbios", <<"smbios", 0>>), Entry("acpi10", <<"rsdp", 1>>)>>,
              <<Entry("acpi20", <<"rsdp", 2>>)>>}
\* The 2.0 entry second, as firmware lists it behind the 1.0 entry.
AcpiTables == {<<Entry("acpi10", <<"rsdp", 1>>), Entry("acpi20", <<"rsdp", 2>>)>>}
=============================================================================
