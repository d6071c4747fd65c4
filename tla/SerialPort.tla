----------------------------- MODULE SerialPort -----------------------------
(***************************************************************************)
(* The serial port COM1 and those who print through it: stage 1            *)
(* (boot/stage1/multiboot.c), then the kernel (kernel/src/x86_64/serial.c, *)
(* kernel.c and the reports of its parts), with the exception handler of   *)
(* idt.c that may cut in anywhere and never returns.                       *)
(*                                                                         *)
(* A run of printable characters is one byte here; a text is a sequence of *)
(* such runs and LF.  A number is kept with its digits.                    *)
(***************************************************************************)
EXTENDS Numerals, SequencesExt

CONSTANTS Programs,     \* sequences of statements to print
          Ports,        \* states in which a program may find the port
          Traps,        \* exceptions the processor may raise
          Nested,       \* bound: exceptions raised in all, one in another's handler
          Depth,        \* bytes the transmit FIFO holds (16)
          Characters    \* what texts consist of: runs of printable characters, CR, LF

VARIABLES program,      \* the statements to come, the first one under way
          byte,         \* the byte given to putc, or None
          polled,       \* putc has seen the transmitter empty
          uart,         \* the port's registers, FIFO and shift register
          line,         \* the bytes that arrived at the other end
          screen,       \* the messages on the console
          armed,        \* the kernel's gates are in force
          trapped       \* exceptions raised so far

portVars == <<program, byte, polled, uart, line, screen, armed, trapped>>

None == "none"
Garbled == "garbled"
-----------------------------------------------------------------------------
(* The port, a 16550: a write to one of its registers.                     *)

WriteData(u, v) ==
  IF u.dlab THEN [u EXCEPT !.divisor = v, !.shift = IF @ = None \/ v = u.divisor THEN @ ELSE Garbled]
  ELSE IF ~u.fifo THEN [u EXCEPT !.queue = <<v>>]
  ELSE IF Len(u.queue) < Depth THEN [u EXCEPT !.queue = Append(@, v)]
  ELSE u

\* The register behind IER is the divisor's high half while DLAB is set.
WriteRegister(u, w) ==
  CASE w.reg = "data" -> WriteData(u, w.val)
    [] w.reg = "ier" -> IF u.dlab THEN u ELSE [u EXCEPT !.irqs = w.val # 0]
    [] w.reg = "lcr" -> [u EXCEPT !.dlab = (w.val = 128)]
    [] w.reg = "fcr" -> [u EXCEPT !.fifo = TRUE, !.queue = <<>>]
    [] w.reg = "mcr" -> u

Write(reg, val) == [reg |-> reg, val |-> val]
-----------------------------------------------------------------------------
(* What is printed.                                                        *)

\* A plausible bug: DLAB is set before the first write to IER.
InitWritesLatched ==
  <<Write("lcr", 128), Write("ier", 0), Write("data", 3), Write("ier", 0),
    Write("lcr", 3), Write("fcr", 199), Write("mcr", 11)>>

\* aurelion_serial_init; serial_init of stage 1 is the same.
InitWrites ==
  <<Write("ier", 0), Write("lcr", 128), Write("data", 3), Write("ier", 0),
    Write("lcr", 3), Write("fcr", 199), Write("mcr", 11)>>

SerialInit == [kind |-> "init", writes |-> InitWrites]
Text(t) == [kind |-> "text", text |-> t, cr |-> FALSE]
Number(n, room) == [kind |-> "number", val |-> n, room |-> room, buf |-> <<>>, emitting |-> FALSE]
Mirror(t) == [kind |-> "mirror", text |-> t]
Sti == [kind |-> "sti"]

Put(name) == <<Text(<<name, LF>>)>>
Field(name, n) == <<Text(<<name>>), Number(n, 20), Text(<<LF>>)>>

\* print_serial: the port first, then the console.
PrintSerial(t) == <<Text(t), Mirror(t)>>
Tell(name) == PrintSerial(<<name, LF>>)

\* fault: what stage 1 stops at, or "none".
Stage1(regions, fault) ==
  LET told == CASE fault = "magic" -> <<"ERROR: Bad multiboot magic">>
                [] fault = "module" -> <<"Multiboot OK", "Memory", "ERROR: No kernel module.">>
                [] fault = "elf" -> <<"Multiboot OK", "Memory", "ERROR: Not ELF.">>
                [] OTHER -> <<"Multiboot OK", "Memory", "Kernel ELF OK", "Segments loaded",
                              "Entering long mode...">>
      Item(name) == IF name = "Memory"
                      THEN <<Text(<<"Memory regions: ">>), Number(regions, 10), Text(<<LF>>)>>
                      ELSE Put(name)
  IN  <<SerialInit>> \o Put("Aurelian stage-1 bootloader v0.0.1")
      \o FlattenSeq([k \in 1 .. Len(told) |-> Item(told[k])])

BootDetails(info) ==
  Field("  Memory regions: ", info.regions) \o Field("  Kernel phys base: ", info.base)
  \o Field("  RSDP physical: ", info.rsdp)
  \o IF info.address = 0 THEN <<>>
     ELSE <<Text(<<"  Framebuffer: ">>), Number(info.width, 20), Text(<<"x">>),
            Number(info.height, 20), Text(<<" bpp=">>), Number(info.bpp, 20), Text(<<LF>>)>>

PmmReport(info) ==
  IF ~info.given \/ info.regions = 0 THEN Put("PMM: no memory map provided, cannot init.")
  ELSE <<Text(<<"PMM: initialized, ">>), Number(info.free, 20), Text(<<" free pages (">>),
         Number(info.total, 20), Text(<<" total).", LF>>)>>

\* A line for every page of the display that found no memory for a table.
VmmReport(info) ==
  FlattenSeq([k \in 1 .. info.unmapped |-> Put("PMM: out of memory!")])
  \o Put("VMM: 4-level paging initialized (identity + higher-half).")

\* The heap: 4 MiB at 4 MiB.
HeapSize == 4194304
HeapHeader == 24

HeapReport(start, size) ==
  <<Text(<<"HEAP: initialized at ">>), Number(start, 20), Text(<<", size ">>),
    Number(size, 20), Text(<<" bytes.", LF>>)>>

HeapTest(size) ==
  IF size >= HeapHeader + 64
    THEN Put("HEAP: test alloc of 64 bytes succeeded.") \o Put("HEAP: test free succeeded.")
    ELSE Put("HEAP: out of memory!") \o Put("HEAP: test alloc FAILED.")

ExceptionReport(v) == <<Text(<<"EXCEPTION: vector ">>), Number(v, 3), Text(<<LF>>)>>

\* What follows the display: the rest of bring-up.
HeapAndHalt ==
  Tell("HEAP: initializing...") \o HeapReport(HeapSize, HeapSize) \o Tell("HEAP: done.")
  \o HeapTest(HeapSize)
  \o PrintSerial(<<LF, "=== Aurelion kernel bring-up complete ===", LF>>)
  \o Put("All subsystems initialized. Halting.")

\* The messages of aurelion_kernel_main and of the parts it calls, with the
\* set-up of the gates among them.  info: whether boot_info was given, whether
\* it passes validation (valid) and its display aurelion_framebuffer_init
\* (drawable), what it says, whether aurelion_vmm_init returns a mapping
\* (mapping), and how many of the display's pages it left unmapped: drawing on
\* the first of those faults, and the handler does not return.
KernelReport(info) ==
  LET available == info.valid /\ info.drawable
      PageFault == 14
  IN  <<SerialInit>> \o PrintSerial(<<"Aurelion kernel ">>) \o Tell("0.0.1")
      \o Tell(IF info.valid THEN "Boot ABI validated." ELSE "ERROR: Boot ABI validation failed.")
      \o (IF available THEN Put("Prism framebuffer: available.") ELSE <<>>)
      \o (IF info.given THEN BootDetails(info) ELSE <<>>)
      \o Tell("GDT: initializing...") \o Tell("GDT: done.")
      \o Tell("IDT: initializing...") \o <<Sti>> \o Tell("IDT: done (interrupts enabled).")
      \o Tell("PMM: initializing...") \o PmmReport(info) \o Tell("PMM: done.")
      \o Tell("VMM: initializing...") \o VmmReport(info) \o Tell("VMM: done.")
      \o CASE ~available -> HeapAndHalt
           [] available /\ ~info.mapping -> Put("Prism framebuffer: mapping failed.") \o HeapAndHalt
           [] available /\ info.mapping /\ info.unmapped > 0 -> ExceptionReport(PageFault)
           [] available /\ info.mapping /\ info.unmapped = 0 ->
                Put("Prism framebuffer: boot canvas rendered.") \o HeapAndHalt
-----------------------------------------------------------------------------
\* Nothing of a program has been printed yet; it sets up the port first, and
\* not again once interrupts are enabled; each number fits the buffer its digits
\* are collected in.  Whoever used the port before has left its divisor latch
\* closed.
Statements ==
  [kind : {"init"}, writes : {InitWrites}]
  \cup [kind : {"text"}, text : Seq(Characters), cr : {FALSE}]
  \cup [kind : {"number"}, val : Nat, room : Nat, buf : {<<>>}, emitting : {FALSE}]
  \cup [kind : {"mirror"}, text : Seq(Characters)] \cup [kind : {"sti"}]
Registers == {"dlab", "divisor", "irqs", "fifo", "queue", "shift"}

ASSUME SerialAssumption ==
  /\ Depth \in Nat \ {0} /\ Traps \subseteq 0 .. 31 /\ Nested \in Nat
  /\ None \notin Characters /\ {CR, LF, Garbled, "EXCEPTION: vector "} \subseteq Characters
  /\ \A d \in 0 .. 9 : Digit[d] \in Characters
  /\ \A p \in Programs :
       /\ p \in Seq(Statements) /\ p # <<>> /\ Head(p).kind = "init"
       /\ \A k \in 1 .. Len(p) : p[k].kind = "number" => Width[p[k].val] <= p[k].room
       /\ \A j, k \in 1 .. Len(p) : j < k /\ p[j].kind = "sti" => p[k].kind # "init"
  /\ \A u \in Ports :
       /\ DOMAIN u = Registers /\ u.dlab = FALSE /\ u.irqs \in BOOLEAN /\ u.fifo \in BOOLEAN
       /\ u.queue \in Seq(Characters) /\ Len(u.queue) <= Depth
       /\ u.shift \in Characters \cup {None}
-----------------------------------------------------------------------------
PortInit ==
  /\ program \in Programs /\ uart \in Ports
  /\ byte = None /\ polled = FALSE
  /\ line = <<>> /\ screen = <<>> /\ armed = FALSE /\ trapped = 0

\* The statement under way, once the byte before is out, is of this kind.
Under(kind) == byte = None /\ program # <<>> /\ Head(program).kind = kind
Continue(s) == program' = <<s>> \o Tail(program)
Finish == program' = Tail(program)
Putc(c) == byte' = c
Quiet == UNCHANGED <<polled, uart, line, screen, armed, trapped>>

\* One outb of the set-up.
SetUpPort ==
  /\ Under("init")
  /\ LET s == Head(program)
     IN  /\ uart' = WriteRegister(uart, Head(s.writes))
         /\ IF Len(s.writes) = 1 THEN Finish ELSE Continue([s EXCEPT !.writes = Tail(@)])
  /\ UNCHANGED <<byte, polled, line, screen, armed, trapped>>

\* A plausible bug: the carriage return in place of the line feed.
WriteTextReturnOnly ==
  /\ Under("text")
  /\ LET s == Head(program)
     IN  CASE s.text = <<>> -> Finish /\ UNCHANGED byte
           [] s.text # <<>> -> /\ Putc(IF Head(s.text) = LF THEN CR ELSE Head(s.text))
                               /\ Continue([s EXCEPT !.text = Tail(@)])
  /\ Quiet

\* The loop of aurelion_serial_write, a putc a step.
WriteText ==
  /\ Under("text")
  /\ LET s == Head(program)
     IN  \/ s.text = <<>> /\ Finish /\ UNCHANGED byte
         \/ /\ s.text # <<>> /\ Head(s.text) = LF /\ ~s.cr
            /\ Putc(CR) /\ Continue([s EXCEPT !.cr = TRUE])
         \/ /\ s.text # <<>> /\ (Head(s.text) = LF => s.cr)
            /\ Putc(Head(s.text)) /\ Continue([s EXCEPT !.text = Tail(@), !.cr = FALSE])
  /\ Quiet

\* serial_print_u64 and its likes: the digits from the last to the first into
\* a buffer, then out of it from its end.
PrintNumber ==
  /\ Under("number")
  /\ LET s == Head(program)
         dividing == ~s.emitting /\ s.val > 0 /\ Len(s.buf) < s.room
     IN  \/ s.val = 0 /\ s.buf = <<>> /\ ~s.emitting /\ Putc(Digit[0]) /\ Finish
         \/ /\ dividing /\ UNCHANGED byte
            /\ Continue([s EXCEPT !.buf = Append(@, Digit[s.val % 10]), !.val = @ \div 10])
         \/ /\ ~dividing /\ s.buf # <<>>
            /\ Putc(Last(s.buf))
            /\ Continue([s EXCEPT !.buf = Front(@), !.emitting = TRUE])
         \/ s.emitting /\ s.buf = <<>> /\ Finish /\ UNCHANGED byte
  /\ Quiet

WriteConsole ==
  /\ Under("mirror") /\ Finish
  /\ screen' = Append(screen, Head(program).text)
  /\ UNCHANGED <<byte, polled, uart, line, armed, trapped>>

EnableInterrupts ==
  /\ Under("sti") /\ Finish /\ armed' = TRUE
  /\ UNCHANGED <<byte, polled, uart, line, screen, trapped>>

\* Plausible bugs: the bit taken the wrong way round; no bit polled.
PollInverted ==
  /\ byte # None /\ ~polled
  /\ uart.queue # <<>>
  /\ polled' = TRUE
  /\ UNCHANGED <<program, byte, uart, line, screen, armed, trapped>>
PollNothing ==
  /\ byte # None /\ ~polled /\ polled' = TRUE
  /\ UNCHANGED <<program, byte, uart, line, screen, armed, trapped>>

\* putc waits for LSR bit 5, which says that the whole FIFO is empty, ...
Poll ==
  /\ byte # None /\ ~polled
  /\ uart.queue = <<>>
  /\ polled' = TRUE
  /\ UNCHANGED <<program, byte, uart, line, screen, armed, trapped>>

\* ... then writes the byte.
Out ==
  /\ byte # None /\ polled
  /\ uart' = WriteData(uart, byte)
  /\ byte' = None /\ polled' = FALSE
  /\ UNCHANGED <<program, line, screen, armed, trapped>>

\* default_exception_handler, at any point, its own report included: what was
\* under way never resumes.
Exception(v) ==
  /\ armed /\ trapped < Nested /\ trapped' = trapped + 1
  /\ program' = ExceptionReport(v)
  /\ byte' = None /\ polled' = FALSE
  /\ UNCHANGED <<uart, line, screen, armed>>

\* The transmitter takes the next byte, or has sent the one it has.
Shift ==
  /\ uart.shift = None /\ uart.queue # <<>>
  /\ uart' = [uart EXCEPT !.shift = Head(uart.queue), !.queue = Tail(@)]
  /\ UNCHANGED <<program, byte, polled, line, screen, armed, trapped>>
Arrive ==
  /\ uart.shift # None
  /\ line' = Append(line, uart.shift)
  /\ uart' = [uart EXCEPT !.shift = None]
  /\ UNCHANGED <<program, byte, polled, screen, armed, trapped>>

Processor == \/ SetUpPort \/ WriteText \/ PrintNumber \/ WriteConsole \/ EnableInterrupts
             \/ Poll \/ Out
Transmitter == Shift \/ Arrive
PortNext == Processor \/ Transmitter \/ \E v \in Traps : Exception(v)

PortSpec == PortInit /\ [][PortNext]_portVars
PortFairSpec == PortSpec /\ WF_portVars(Processor) /\ WF_portVars(Transmitter)
-----------------------------------------------------------------------------
PortTypeOK ==
  /\ uart.irqs \in BOOLEAN /\ uart.dlab \in BOOLEAN /\ uart.fifo \in BOOLEAN
  /\ Len(uart.queue) <= Depth
  /\ {polled, armed} \subseteq BOOLEAN /\ trapped \in 0 .. Nested

\* Once gates are in force the port raises no interrupt (there is no gate for
\* one), and after a set-up it runs at 38400 baud, its latch closed.
PortQuiet == armed => ~uart.irqs /\ ~uart.dlab /\ uart.fifo /\ uart.divisor = 3

\* The driver never has more than one byte of its own in the FIFO, so a set-up
\* after it loses one at most.
OneAtATime == uart.divisor = 3 /\ ~Under("init") => Len(uart.queue) <= 1

\* The port never interrupts a kernel that has no gate for it, and the next
\* set-up of it finds no more than one byte to lose.
PortInv == PortTypeOK /\ PortQuiet /\ OneAtATime

\* What a statement, in whatever state it is, still means to say.
OnLine(bs) == [k \in 1 .. Len(bs) |-> [to |-> "line", what |-> <<bs[k]>>]]
Lines(t) == FlattenSeq([k \in 1 .. Len(t) |-> IF t[k] = LF THEN <<CR, LF>> ELSE <<t[k]>>])
Digits(s) == IF ~s.emitting /\ (s.val > 0 \/ s.buf = <<>>)
               THEN Decimal(s.val) \o Reverse(s.buf) ELSE Reverse(s.buf)
Meaning(s) ==
  CASE s.kind = "text" -> OnLine(IF s.cr THEN Tail(Lines(s.text)) ELSE Lines(s.text))
    [] s.kind = "number" -> OnLine(Digits(s))
    [] s.kind = "mirror" -> <<[to |-> "screen", what |-> s.text]>>
    [] s.kind = "init" -> IF \E k \in DOMAIN s.writes : s.writes[k].reg = "fcr"
                            THEN <<[to |-> "port", what |-> <<>>]>> ELSE <<>>
    [] s.kind = "sti" -> <<>>
Meanings(p) == FlattenSeq([k \in 1 .. Len(p) |-> Meaning(p[k])])
Pending(u) == (IF u.shift = None THEN <<>> ELSE <<u.shift>>) \o u.queue

Wire == INSTANCE Line WITH
          Beginnings <- {[todo |-> Meanings(p), pending |-> Pending(u)] : p \in Programs, u \in Ports},
          Reports <- {Meanings(ExceptionReport(v)) : v \in Traps},
          todo <- (IF byte = None THEN <<>> ELSE OnLine(<<byte>>)) \o Meanings(program),
          pending <- Pending(uart), stopped <- trapped > 0

\* What stage 1 and the kernel mean to say arrives, byte by byte and in order,
\* on the line and on the screen: whatever the port was doing before, only a
\* set-up of the port loses bytes, only an exception cuts a message short.
ReportsArrive == Wire!Spec

\* docs/building.md:75 shows stage 1's last message on a line of its own.
StageOneHeard ==
  program = <<>> /\ byte = None /\ Pending(uart) = <<>> =>
    \A k \in DOMAIN line : line[k] = "Entering long mode..." =>
      SubSeq(line, k + 1, k + 2) = <<CR, LF>>

\* The last report gets out, although the processor halts with bytes pending.
ReportReachesLine == <>[](program = <<>> /\ byte = None /\ Pending(uart) = <<>>)
=============================================================================
