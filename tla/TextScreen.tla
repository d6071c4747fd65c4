----------------------------- MODULE TextScreen ------------------------------
(***************************************************************************)
(* The two drivers of the 80 x 25 text screen, with the sheet of paper     *)
(* each shows a part of: the first kernel's vga.c, which scrolls, and the  *)
(* kernel's console.c, which once the screen is full writes its last row   *)
(* over and over again.  The console's driver widens the character as a     *)
(* signed number, so that one from 0x80 up sets every bit of the colour.   *)
(***************************************************************************)
EXTENDS Integers, Sequences, Paper

CONSTANTS Height,      \* VGA_HEIGHT
          Chars,       \* characters that have no meaning to a driver
          High,        \* those of them from 0x80 up, which a char holds as negative
          Colors,      \* colour attributes
          AllBits,     \* the attribute 0xff
          FirstColor,  \* the colour a driver starts with
          MaxText      \* bound: calls made

VARIABLES driver,      \* "vga" or "console"
          screen,      \* its cursor and the screen's cells: [row, col, buf]
          color,       \* the colour it writes in
          paper,       \* everything written since the screen was last cleared
          calls        \* calls made so far

vars == <<driver, screen, color, paper, calls>>

Attributes == Colors \cup {AllBits}

\* vga_entry of vga.h, of an unsigned char.
Entry(char, c) == [char |-> char, color |-> c]

\* vga_entry of console.c: (uint16_t)c of a negative char covers the colour.
ConsoleEntry(char, c) == [char |-> char, color |-> IF char \in High THEN AllBits ELSE c]

ASSUME TextScreenAssumption ==
  /\ Width \in Nat \ {0} /\ Height \in Nat \ {0} /\ TabStop \in Nat \ {0}
  /\ FirstColor \in Colors /\ High \subseteq Chars
  /\ Chars \cap {"newline", "return", "tab"} = {}
  /\ \A char \in Chars, c \in Colors : Entry(char, c) # Blank

Cell(y, x) == y * Width + x
Cells == 0 .. Width * Height - 1

\* vga_clear, and the loop of aurelion_console_init.
Cleared(c) == [row |-> 0, col |-> 0, buf |-> [i \in Cells |-> Entry(Blank, c)]]

\* A plausible bug: the row that scrolls in keeps what it showed.
VgaNewlineUncleared(s, c) ==
  IF s.row + 1 < Height THEN [row |-> s.row + 1, col |-> 0, buf |-> s.buf]
  ELSE [row |-> Height - 1, col |-> 0,
        buf |-> [i \in Cells |-> IF i + Width \in Cells THEN s.buf[i + Width] ELSE s.buf[i]]]

\* vga_newline: at the last row every row moves up and the last is cleared.
VgaNewline(s, c) ==
  IF s.row + 1 < Height THEN [row |-> s.row + 1, col |-> 0, buf |-> s.buf]
  ELSE [row |-> Height - 1, col |-> 0,
        buf |-> [i \in Cells |-> IF i + Width \in Cells THEN s.buf[i + Width]
                                 ELSE Entry(Blank, c)]]

\* vga_putc.
VgaMoveTo(s, col, c) == IF col >= Width THEN VgaNewline(s, c) ELSE [s EXCEPT !.col = col]
VgaPut(s, char, c) ==
  CASE char = "newline" -> VgaNewline(s, c)
    [] char = "return" -> [s EXCEPT !.col = 0]
    [] char = "tab" -> VgaMoveTo(s, ((s.col + TabStop) \div TabStop) * TabStop, c)
    [] char \in Chars ->
         VgaMoveTo([s EXCEPT !.buf[Cell(s.row, s.col)] = Entry(char, c)], s.col + 1, c)

\* console_newline.
ConsoleNewline(s) ==
  IF s.row + 1 < Height THEN [row |-> s.row + 1, col |-> 0, buf |-> s.buf] ELSE [s EXCEPT !.col = 0]

\* One turn of the loop of aurelion_console_write.
ConsolePut(s, char, c) ==
  IF char = "newline" THEN ConsoleNewline(s)
  ELSE LET t == [s EXCEPT !.buf[Cell(s.row, s.col)] = ConsoleEntry(char, c)]
       IN  IF s.col + 1 = Width THEN ConsoleNewline(t) ELSE [t EXCEPT !.col = @ + 1]
-----------------------------------------------------------------------------
\* vga_init or aurelion_console_init.
Init ==
  /\ driver \in {"vga", "console"}
  /\ color = FirstColor
  /\ screen = Cleared(FirstColor)
  /\ paper = CleanSheet /\ calls = 0

Call(d) == driver = d /\ calls < MaxText /\ calls' = calls + 1 /\ UNCHANGED driver

VgaPutc(char) ==
  /\ Call("vga")
  /\ screen' = VgaPut(screen, char, color)
  /\ paper' = CASE char = "newline" -> Feed(paper) [] char = "return" -> Return(paper)
                [] char = "tab" -> Tab(paper) [] char \in Chars -> Strike(paper, Entry(char, color))
  /\ UNCHANGED color

VgaSetColor(c) ==
  /\ Call("vga")
  /\ color' = c
  /\ UNCHANGED <<screen, paper>>

VgaClear ==
  /\ Call("vga")
  /\ screen' = Cleared(color) /\ paper' = CleanSheet
  /\ UNCHANGED color

ConsoleWrite(char) ==
  /\ Call("console")
  /\ screen' = ConsolePut(screen, char, color)
  /\ paper' = IF char = "newline" THEN Feed(paper) ELSE Strike(paper, Entry(char, color))
  /\ UNCHANGED color

Next == \/ \E char \in Chars \cup {"newline", "return", "tab"} : VgaPutc(char)
        \/ \E c \in Colors : VgaSetColor(c)
        \/ VgaClear
        \/ \E char \in Chars \cup {"newline"} : ConsoleWrite(char)

Spec == Init /\ [][Next]_vars
-----------------------------------------------------------------------------
\* The cursor is on the screen, and nothing is written beside it.
TypeOK ==
  /\ driver \in {"vga", "console"} /\ color \in Colors
  /\ screen.row \in 0 .. Height - 1 /\ screen.col \in 0 .. Width - 1
  /\ screen.buf \in [Cells -> [char : Chars \cup {Blank}, color : Attributes]]

\* A cell of the first kernel's screen shows a mark: the character in the
\* colour it was written in.
At(y, x) == screen.buf[Cell(y, x)]
Marked(cell, mark) == IF mark = Blank THEN cell.char = Blank ELSE cell = mark
Mark(n, x) == IF n \in DOMAIN paper.rows THEN paper.rows[n][x] ELSE Blank

\* A cell of the console shows it too, but in its colour only below 0x80: any
\* other character appears with all bits of the attribute set.
Written(cell, mark) ==
  IF mark = Blank THEN cell.char = Blank
  ELSE cell.char = mark.char /\ cell.color = IF mark.char \in High THEN AllBits ELSE mark.color

\* The first kernel's screen always shows the last rows of what was written,
\* however a row was left: by a newline, past the right edge or by a tab; and
\* the next character lands where paper would have it.
Top == IF Len(paper.rows) > Height THEN Len(paper.rows) - Height ELSE 0
TailShown ==
  driver = "vga" =>
    /\ screen.row = Len(paper.rows) - 1 - Top /\ screen.col = paper.col
    /\ \A y \in 0 .. Height - 1, x \in 0 .. Width - 1 : Marked(At(y, x), Mark(Top + y + 1, x))

\* The kernel's console keeps the first rows of the text above its last row,
\* for good.  There each cell has the latest character any row of the text
\* from there on put in its column: the current row's up to the cursor, what
\* earlier ones left beyond it.  What it shows keeps the colour it was written
\* in, save for the characters whose sign covers it.
HeadKept ==
  driver = "console" =>
    /\ screen.row = IF Len(paper.rows) < Height THEN Len(paper.rows) - 1 ELSE Height - 1
    /\ screen.col = paper.col
    /\ \A x \in 0 .. Width - 1 :
         LET late == {n \in DOMAIN paper.rows : n >= Height /\ paper.rows[n][x] # Blank} IN
           /\ \A y \in 0 .. Height - 2 : Written(At(y, x), Mark(y + 1, x))
           /\ Written(At(Height - 1, x),
                      IF late = {} THEN Blank
                      ELSE paper.rows[CHOOSE n \in late : \A m \in late : m <= n][x])

\* Either driver shows the part of the text it is meant to show.
Inv == TypeOK /\ TailShown /\ HeadKept
=============================================================================
