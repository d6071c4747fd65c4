------------------------------ MODULE MCSerial ------------------------------
(***************************************************************************)
(* Stage 1 and the kernel after it, or the kernel alone as a UEFI loader   *)
(* enters it, on a port just reset or still busy with a firmware's byte.   *)
(***************************************************************************)
EXTENDS SerialPort

\* Stage 1 passes no display and no RSDP.
McInfo == [given |-> TRUE, valid |-> TRUE, regions |-> 6, base |-> 1048576, rsdp |-> 0,
           address |-> 0, width |-> 0, height |-> 0, bpp |-> 0, drawable |-> FALSE,
           free |-> 32497, total |-> 32736, mapping |-> FALSE, unmapped |-> 0]
UefiInfo == [McInfo EXCEPT !.regions = 40, !.rsdp = 905, !.address = 1073741824, !.width = 1024,
                           !.height = 768, !.bpp = 32, !.drawable = TRUE, !.mapping = TRUE]
\* A loader's data that fails validation although a map and a display are there,
\* no data at all, and a display of two pages without memory for its tables.
Rejected == [UefiInfo EXCEPT !.valid = FALSE, !.drawable = FALSE, !.mapping = FALSE]
Missing == [McInfo EXCEPT !.given = FALSE, !.valid = FALSE]
NoMap == [UefiInfo EXCEPT !.regions = 0, !.width = 64, !.height = 32, !.unmapped = 2]
McPrograms == {Stage1(6, "none") \o KernelReport(McInfo), Stage1(0, "magic"),
               Stage1(0, "module"), Stage1(10, "elf")}
              \cup {KernelReport(i) : i \in {UefiInfo, Rejected, Missing, NoMap}}
Port(divisor, irqs, shift) ==
  [dlab |-> FALSE, divisor |-> divisor, irqs |-> irqs, fifo |-> shift # None,
   queue |-> <<>>, shift |-> shift]
McPorts == {Port(12, FALSE, None), Port(1, TRUE, "a")}
McExceptions == {14}
McCharacters == STRING \ {None}
=============================================================================
