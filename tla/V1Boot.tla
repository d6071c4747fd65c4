------------------------------- MODULE V1Boot --------------------------------
(***************************************************************************)
(* The first Aurelian kernel, aurelian-os-v1: from the Multiboot2 loader's *)
(* jump to _start, through the bootstrap page tables and the switch to     *)
(* long mode (boot.S), to kmain's walk over the loader's list of tags and  *)
(* the halt (kernel.c).                                                    *)
(*                                                                         *)
(* Memory is counted in large pages of 2 MiB; the kernel, its tables, its  *)
(* stack and the text screen are all in large page 0.  The boot            *)
(* information lies within one large page.  A run of printed characters    *)
(* without a directive is one mark; where the marks land on the screen is  *)
(* in module TextScreen.                                                   *)
(***************************************************************************)
EXTENDS Numerals, SequencesExt

CONSTANTS MbiPages,   \* large pages a loader may put the boot information in
          Names,      \* names a loader may give itself
          TagLists,   \* lists of tags it may pass: [type, size, name,
                      \* lower, upper]
          Strays      \* tags that bytes that are no tag may read as

Entries == 512        \* entries of a page directory
Frames == 2048        \* large pages in 4 GiB, what 32 bits can address
Unset == -1           \* a table entry that is not present
Tags == [type : Nat, size : Nat, name : Names, lower : Nat, upper : Nat]
NoTag == [type |-> 0, size |-> 0, name |-> "unknown", lower |-> 0, upper |-> 0]

VARIABLES pc,         \* the next step
          mbi,        \* what the loader passed, [page, tags], and what
                      \* bytes that are no tag read as, [stray]
          reg,        \* ebx, esi and edi, where one of them is the pointer
          table,      \* the first entries of pml4 and pdpt, and pd
          cr,         \* CR4.PAE, CR3, EFER.LME and CR0.PG
          gdt,        \* the descriptor table in use
          cs,         \* width of the code segment in use
          tag,        \* offset of the tag print_boot_info is at
          total,      \* size of the boot information, as it read it
          seen,       \* the name and memory tags it keeps
          calls,      \* calls of kprintf to come, each what is left of it
          printed     \* the characters put on the console

v1vars == <<pc, mbi, reg, table, cr, gdt, cs, tag, total, seen, calls, printed>>

ASSUME V1Assumption ==
  /\ MbiPages \subseteq 0 .. Frames - 1
  /\ Strays \subseteq Tags
  /\ TagLists \subseteq Seq(Tags) /\ \A l \in TagLists : \A i \in DOMAIN l : l[i].size >= 8

RoundUp8(n) == ((n + 7) \div 8) * 8

\* Where the loader's first i tags end: each on 8 bytes, after 8 bytes of header.
TagEnds(l) ==
  LET end[i \in 0 .. Len(l)] == IF i = 0 THEN 8 ELSE end[i-1] + RoundUp8(l[i].size)
  IN  end
TotalOf(l) == TagEnds(l)[Len(l)]
TagAt(l, o) == {i \in DOMAIN l : TagEnds(l)[i-1] = o}

\* The selector 0x08 in gdt32, in gdt64 and in the table gdt_init builds.
CodeBits(g) == CASE g = "loader" -> 32 [] g = "gdt32" -> 32
                 [] g = "gdt64" -> 64 [] g = "runtime" -> 64

\* The processor's walk from CR3: the large page a large page is mapped to.
Translate(p) ==
  IF p < Entries /\ cr.cr3 = "pml4" /\ table.pml4 = "pdpt" /\ table.pdpt = "pd"
  THEN table.pd[p] ELSE Unset

V1Init ==
  /\ pc = "start"
  /\ mbi \in [page : MbiPages, tags : TagLists, stray : Strays]
  /\ reg = [ebx |-> "info", esi |-> "other", edi |-> "other"]
  /\ table = [pml4 |-> "unset", pdpt |-> "unset", pd |-> [e \in 0 .. Entries - 1 |-> Unset]]
  /\ cr = [pae |-> FALSE, cr3 |-> "loader", lme |-> FALSE, pg |-> FALSE]
  /\ gdt = "loader" /\ cs = 32
  /\ tag = 0 /\ total = 0
  /\ seen = [name |-> NoTag, mem |-> NoTag]
  /\ calls = <<>> /\ printed = <<>>

info == <<tag, total, seen, calls, printed>>
-----------------------------------------------------------------------------
(* boot.S                                                                  *)

Enter ==
  /\ pc = "start"
  /\ pc' = "clear"
  /\ reg' = [reg EXCEPT !.esi = reg.ebx]
  /\ gdt' = "gdt32" /\ cs' = CodeBits("gdt32")
  /\ UNCHANGED <<mbi, table, cr, info>>

\* rep stosl leaves edi past the end of the tables.
ClearTables ==
  /\ pc = "clear"
  /\ pc' = "link"
  /\ table' = [pml4 |-> "unset", pdpt |-> "unset", pd |-> [e \in 0 .. Entries - 1 |-> Unset]]
  /\ reg' = [reg EXCEPT !.edi = "other"]
  /\ UNCHANGED <<mbi, cr, gdt, cs, info>>

LinkTables ==
  /\ pc = "link"
  /\ pc' = "fill"
  /\ table' = [table EXCEPT !.pml4 = "pdpt", !.pdpt = "pd"]
  /\ UNCHANGED <<mbi, reg, cr, gdt, cs, info>>

\* Each entry is 0x02000000, sixteen large pages, above the last, in 32 bits.
FillPd ==
  /\ pc = "fill"
  /\ pc' = "pae"
  /\ table' = [table EXCEPT !.pd = [e \in 0 .. Entries - 1 |-> (e * 16) % Frames]]
  /\ reg' = [reg EXCEPT !.edi = "other"]
  /\ UNCHANGED <<mbi, cr, gdt, cs, info>>

EnablePae ==
  /\ pc = "pae"
  /\ pc' = "cr3" /\ cr' = [cr EXCEPT !.pae = TRUE]
  /\ UNCHANGED <<mbi, reg, table, gdt, cs, info>>

LoadCr3 ==
  /\ pc = "cr3"
  /\ pc' = "lme" /\ cr' = [cr EXCEPT !.cr3 = "pml4"]
  /\ UNCHANGED <<mbi, reg, table, gdt, cs, info>>

EnableLme ==
  /\ pc = "lme"
  /\ pc' = "pg" /\ cr' = [cr EXCEPT !.lme = TRUE]
  /\ UNCHANGED <<mbi, reg, table, gdt, cs, info>>

\* With no handlers installed a fault resets the machine: paging without PAE
\* when LME is set, or the next instruction not where the tables lead.
EnablePaging ==
  /\ pc = "pg"
  /\ cr' = [cr EXCEPT !.pg = TRUE]
  /\ pc' = IF (cr.lme => cr.pae) /\ Translate(0) = 0 THEN "jump" ELSE "reset"
  /\ UNCHANGED <<mbi, reg, table, gdt, cs, info>>

FarJump ==
  /\ pc = "jump"
  /\ pc' = "long"
  /\ gdt' = "gdt64" /\ cs' = CodeBits("gdt64")
  /\ UNCHANGED <<mbi, reg, table, cr, info>>

\* A plausible bug: the pointer not brought back from esi.
LongModeStale ==
  /\ pc = "long"
  /\ pc' = "kmain"
  /\ UNCHANGED <<mbi, reg, table, cr, gdt, cs, info>>

\* long_mode_start, up to the call of kmain.
LongMode ==
  /\ pc = "long"
  /\ pc' = "kmain"
  /\ reg' = [reg EXCEPT !.edi = reg.esi]
  /\ UNCHANGED <<mbi, table, cr, gdt, cs, info>>
-----------------------------------------------------------------------------
(* kernel.c                                                                *)

Call(fmt, args) == [fmt |-> fmt, args |-> args]
CallLn(text) == Call(<<text, LF>>, <<>>)

Opening == <<"banner", LF, "[boot] long mode active", LF, "[boot] initializing runtime GDT ...", LF,
             "[boot] GDT loaded", LF, "[boot] reading multiboot2 info ...", LF>>
Closing == <<CallLn("[ok]   Aurelion kernel reached idle loop."), Call(<<LF>>, <<>>),
             CallLn("v1 baseline reached. Halting CPU."),
             CallLn("(Scheduler, filesystems, and Luma Shell are v2+ milestones.)")>>

\* kmain up to print_boot_info: the screen cleared, the banner, the GDT.
GdtInit ==
  /\ pc = "kmain"
  /\ pc' = "info"
  /\ gdt' = "runtime" /\ cs' = CodeBits("runtime")
  /\ printed' = Opening
  /\ UNCHANGED <<mbi, reg, table, cr, tag, total, seen, calls>>

\* Whether reading at the pointer reads what the loader wrote there.
Sees == reg.edi = "info" /\ Translate(mbi.page) = mbi.page
TagsAt(o) ==
  IF Sees /\ TagAt(mbi.tags, o) # {} THEN {mbi.tags[i] : i \in TagAt(mbi.tags, o)}
  ELSE {mbi.stray}

\* print_boot_info up to its loop.  An unmapped address is a fault.
PrintBootInfo ==
  /\ pc = "info"
  /\ IF reg.edi = "info" /\ Translate(mbi.page) = Unset
     THEN pc' = "reset" /\ UNCHANGED info
     ELSE /\ pc' = "walk" /\ tag' = 8 /\ UNCHANGED <<seen, calls, printed>>
          /\ total' = IF Sees THEN TotalOf(mbi.tags) ELSE mbi.stray.size
  /\ UNCHANGED <<mbi, reg, table, cr, gdt, cs>>

Keep(t) == seen' = [name |-> IF t.type = 2 THEN t ELSE seen.name,
                    mem |-> IF t.type = 4 THEN t ELSE seen.mem]

\* A plausible bug: one tag more than the information holds.
InListPastEnd == tag <= total

\* The loop's condition.
InList == tag < total

\* A plausible bug: the next tag looked for where this one's bytes end.
WalkTagUnrounded ==
  /\ pc = "walk" /\ InList
  /\ \E t \in TagsAt(tag) : Keep(t) /\ tag' = tag + t.size
  /\ UNCHANGED <<pc, mbi, reg, table, cr, gdt, cs, total, calls, printed>>

WalkTag ==
  /\ pc = "walk" /\ InList
  /\ \E t \in TagsAt(tag) : Keep(t) /\ tag' = tag + RoundUp8(t.size)
  /\ UNCHANGED <<pc, mbi, reg, table, cr, gdt, cs, total, calls, printed>>

\* What print_boot_info and then kmain print of it.
Report ==
  <<Call(<<"  bootloader : ", "%", "s", LF>>, <<seen.name.name>>),
    Call(<<"  mbi2 size  : ", "%", "u", " bytes", LF>>, <<total>>)>>
  \o (IF seen.mem = NoTag THEN <<>>
      ELSE <<Call(<<"  mem lower  : ", "%", "u", " KiB", LF>>, <<seen.mem.lower>>),
             Call(<<"  mem upper  : ", "%", "u", " KiB (", "%", "u", " MiB)", LF>>,
                   <<seen.mem.upper, seen.mem.upper \div 1024>>)>>)
  \o <<Call(<<LF>>, <<>>)>>

EndWalk ==
  /\ pc = "walk" /\ ~InList
  /\ pc' = "print"
  /\ calls' = Report \o Closing
  /\ UNCHANGED <<mbi, reg, table, cr, gdt, cs, tag, total, seen, printed>>

digits == <<"0","1","2","3","4","5","6","7","8","9","a","b","c","d","e","f">>

\* uitoa: the digits from the last to the first, then turned round.
Uitoa(val, base) ==
  LET tmp[v \in 0 .. val] == IF v = 0 THEN <<>> ELSE <<digits[(v % base) + 1]>> \o tmp[v \div base]
  IN  IF val = 0 THEN <<"0">> ELSE Reverse(tmp[val])

\* The directives that take an argument; "%%" and unknown ones take none.
Takes(d) == d \in {"s", "d", "u", "x", "c"}
Conversion(d, arg) ==
  CASE d \in {"s", "c"} -> <<arg>>
    [] d = "u" -> Uitoa(arg, 10)
    [] d = "x" -> Uitoa(arg, 16)
    [] d = "d" -> IF arg < 0 THEN <<"-">> \o Uitoa(-arg, 10) ELSE Uitoa(arg, 10)

\* The loop of kprintf over its format, one character or directive a step.
Kprintf ==
  /\ pc = "print" /\ calls # <<>>
  /\ LET c == Head(calls)
         Rest(fmt, args) == calls' = <<Call(fmt, args)>> \o Tail(calls)
         d == c.fmt[2]
     IN  \/ c.fmt = <<>> /\ calls' = Tail(calls) /\ UNCHANGED printed
         \/ /\ c.fmt # <<>> /\ Head(c.fmt) # "%"
            /\ printed' = Append(printed, Head(c.fmt)) /\ Rest(Tail(c.fmt), c.args)
         \/ /\ Len(c.fmt) > 1 /\ Head(c.fmt) = "%"
            /\ printed' = printed \o IF Takes(d) THEN Conversion(d, Head(c.args))
                                     ELSE IF d = "%" THEN <<"%">> ELSE <<"%", d>>
            /\ Rest(Tail(Tail(c.fmt)), IF Takes(d) THEN Tail(c.args) ELSE c.args)
  /\ UNCHANGED <<pc, mbi, reg, table, cr, gdt, cs, tag, total, seen>>

\* kmain returns and boot.S halts.
Halt ==
  /\ pc = "print" /\ calls = <<>>
  /\ pc' = "halted"
  /\ UNCHANGED <<mbi, reg, table, cr, gdt, cs, info>>

V1Next == \/ Enter \/ ClearTables \/ LinkTables \/ FillPd \/ EnablePae \/ LoadCr3
        \/ EnableLme \/ EnablePaging \/ FarJump \/ LongMode
        \/ GdtInit \/ PrintBootInfo \/ WalkTag \/ EndWalk
        \/ Kprintf \/ Halt

V1Spec == V1Init /\ [][V1Next]_v1vars
\* One processor, interrupts off, runs until it halts.
V1FairSpec == V1Spec /\ WF_v1vars(V1Next)
-----------------------------------------------------------------------------
V1TypeOK ==
  /\ mbi \in [page : MbiPages, tags : TagLists, stray : Strays]
  /\ pc \in {"start", "clear", "link", "fill", "pae", "cr3", "lme", "pg", "jump",
             "long", "kmain", "info", "walk", "print", "halted", "reset"}
  /\ reg \in [{"ebx", "esi", "edi"} -> {"info", "other"}]
  /\ table \in [pml4 : {"unset", "pdpt"}, pdpt : {"unset", "pd"},
                pd : [0 .. Entries - 1 -> (0 .. Frames - 1) \cup {Unset}]]
  /\ cr \in [pae : BOOLEAN, cr3 : {"loader", "pml4"}, lme : BOOLEAN, pg : BOOLEAN]
  /\ gdt \in {"loader", "gdt32", "gdt64", "runtime"} /\ cs \in {32, 64}
  /\ tag \in Nat /\ total \in Nat /\ {seen.name, seen.mem} \subseteq Tags \cup {NoTag}

InKmain == pc \in {"kmain", "info", "walk", "print", "halted"}

\* When kmain runs the processor is in long mode, its selector names a 64-bit
\* segment of whichever table is loaded, and the first argument is the pointer
\* the loader passed, whatever the page-table code did with the registers.
KmainReady ==
  InKmain => /\ cr.pae /\ cr.lme /\ cr.pg
             /\ cs = 64 /\ CodeBits(gdt) = 64
             /\ reg.edi = "info"

\* The machine is reset only when the boot information lies beyond the tables:
\* paging itself never pulls the kernel from under its own feet.
ResetOnlyBeyond == pc = "reset" => mbi.page >= Entries

\* With the boot information in low memory the walk keeps what it is to report:
\* the last name and the last memory tag of the loader's list, none if the list
\* has none, and the list's size.
LastOf(type) ==
  LET all == {i \in DOMAIN mbi.tags : mbi.tags[i].type = type}
  IN  IF all = {} THEN NoTag ELSE mbi.tags[CHOOSE i \in all : \A j \in all : j <= i]
TagsKept ==
  mbi.page = 0 /\ pc \in {"print", "halted"} =>
    seen = [name |-> LastOf(2), mem |-> LastOf(4)] /\ total = TotalOf(mbi.tags)

\* Each stage leaves the next one the processor state it needs, and the walk
\* over the tags leaves the report what the loader wrote.
V1Inv == V1TypeOK /\ KmainReady /\ ResetOnlyBeyond /\ TagsKept

\* With the boot information in low memory the console shows, when the kernel
\* halts, the last name and the last memory tag of the loader's list and the
\* list's size, each number in full, between the texts that announce them.
Expected ==
  FlattenSeq(<<Opening, <<"  bootloader : ", LastOf(2).name, LF>>,
               <<"  mbi2 size  : ">>, Decimal(TotalOf(mbi.tags)), <<" bytes", LF>>>>
             \o (IF LastOf(4) = NoTag THEN <<>>
                 ELSE <<<<"  mem lower  : ">>, Decimal(LastOf(4).lower), <<" KiB", LF>>,
                        <<"  mem upper  : ">>, Decimal(LastOf(4).upper), <<" KiB (">>,
                        Decimal(LastOf(4).upper \div 1024), <<" MiB)", LF>>>>)
             \o <<<<LF>>>> \o [k \in DOMAIN Closing |-> Closing[k].fmt])
ReportTrue == mbi.page = 0 /\ pc = "halted" => printed = Expected

\* With the boot information in low memory the kernel always comes to its halt.
Halts == mbi.page = 0 ~> pc = "halted"

\* boot.S and the README: the first GiB is mapped to itself.
IdentityMapped == InKmain => \A p \in 0 .. Entries - 1 : Translate(p) = p
=============================================================================
