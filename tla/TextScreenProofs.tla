-------------------------- MODULE TextScreenProofs --------------------------
(***************************************************************************)
(* Proofs about the two drivers of the text screen, for a screen of any    *)
(* size, any tab stop and a text of any length.                            *)
(***************************************************************************)
EXTENDS TextScreen, TLAPS

Columns == 0 .. Width - 1
Marks == [char : Chars, color : Colors]
Screens == [row : 0 .. Height - 1, col : Columns,
            buf : [Cells -> [char : Chars \cup {Blank}, color : Attributes]]]
Sheets == [rows : Seq([Columns -> Marks \cup {Blank}]) \ {<<>>}, col : Columns]

\* The definitions of TextScreen, of any screen and any sheet.
CellOf(s, y, x) == s.buf[Cell(y, x)]
MarkOn(p, n, x) == IF n \in DOMAIN p.rows THEN p.rows[n][x] ELSE Blank
TopOf(p) == IF Len(p.rows) > Height THEN Len(p.rows) - Height ELSE 0

ShowsTail(s, p) ==
  /\ s.row = Len(p.rows) - 1 - TopOf(p) /\ s.col = p.col
  /\ \A y \in 0 .. Height - 1, x \in Columns :
       Marked(CellOf(s, y, x), MarkOn(p, TopOf(p) + y + 1, x))

\* The latest of the rows that share the last row of the screen and have a mark
\* in a column is row n.
Latest(p, x, n) ==
  /\ n \in Nat /\ n >= Height /\ MarkOn(p, n, x) # Blank
  /\ \A m \in Nat : m >= Height /\ MarkOn(p, m, x) # Blank => m <= n
Unmarked(p, x) == \A m \in Nat : m >= Height => MarkOn(p, m, x) = Blank

KeepsHead(s, p) ==
  /\ s.row = IF Len(p.rows) < Height THEN Len(p.rows) - 1 ELSE Height - 1
  /\ s.col = p.col
  /\ \A x \in Columns :
       /\ \A y \in 0 .. Height - 2 : Written(CellOf(s, y, x), MarkOn(p, y + 1, x))
       /\ \/ Unmarked(p, x) /\ Written(CellOf(s, Height - 1, x), Blank)
          \/ \E n \in Nat : Latest(p, x, n) /\ Written(CellOf(s, Height - 1, x), MarkOn(p, n, x))

Shows(d, s, p) == IF d = "vga" THEN ShowsTail(s, p) ELSE KeepsHead(s, p)

\* The inductive invariant: the types, those of the sheet among them, and what
\* the driver at work shows.
IInv ==
  /\ driver \in {"vga", "console"} /\ color \in Colors
  /\ screen \in Screens /\ paper \in Sheets
  /\ Shows(driver, screen, paper)
-----------------------------------------------------------------------------
(* Cells.                                                                  *)

\* A later row begins after an earlier one has ended.
LEMMA RowsApart ==
  ASSUME NEW w \in Nat, NEW y \in Nat, NEW z \in Nat, y < z
  PROVE  y * w + w <= z * w
<1>1. PICK k \in Nat : z = y + 1 + k
  <2>1. z - y - 1 \in Nat /\ z = y + 1 + (z - y - 1)
    OBVIOUS
  <2> QED
    BY <2>1
<1>2. z * w = y * w + w + k * w
  BY <1>1
<1>3. k * w \in Nat
  OBVIOUS
<1> QED
  BY <1>2, <1>3

\* The cells of the rows and columns of the screen are cells.
LEMMA CellsInside ==
  ASSUME TextScreenAssumption, NEW y \in 0 .. Height - 1, NEW x \in Columns
  PROVE  Cell(y, x) \in Cells
<1>1. Width \in Nat /\ Height \in Nat /\ y \in Nat /\ y < Height /\ x \in Nat /\ x < Width
  BY DEF TextScreenAssumption, Columns
<1>2. y * Width + Width <= Height * Width /\ y * Width \in Nat
  BY <1>1, RowsApart
<1>3. Height * Width = Width * Height
  BY <1>1
<1> QED
  BY <1>1, <1>2, <1>3 DEF Cell, Cells

\* Different places are different cells.
LEMMA CellsDiffer ==
  ASSUME TextScreenAssumption, NEW y \in Nat, NEW x \in Columns,
         NEW z \in Nat, NEW u \in Columns, Cell(y, x) = Cell(z, u)
  PROVE  y = z /\ x = u
<1>1. Width \in Nat /\ x \in Nat /\ x < Width /\ u \in Nat /\ u < Width
  BY DEF TextScreenAssumption, Columns
<1>2. y * Width \in Nat /\ z * Width \in Nat /\ y * Width + x = z * Width + u
  BY <1>1 DEF Cell
<1>3. ~ y < z
  BY <1>1, <1>2, RowsApart
<1>4. ~ z < y
  BY <1>1, <1>2, RowsApart
<1>5. y = z
  BY <1>3, <1>4
<1> QED
  BY <1>1, <1>2, <1>5

\* The cell below is a row further.
LEMMA CellBelow ==
  ASSUME TextScreenAssumption, NEW y \in Nat, NEW x \in Columns
  PROVE  Cell(y, x) + Width = Cell(y + 1, x)
<1>1. Width \in Nat /\ x \in Nat
  BY DEF TextScreenAssumption, Columns
<1>2. (y + 1) * Width = y * Width + Width
  BY <1>1
<1> QED
  BY <1>1, <1>2 DEF Cell
-----------------------------------------------------------------------------
(* Paper.                                                                  *)

\* A sheet with a part replaced, and a screen, as records.
LEMMA SheetWith ==
  ASSUME NEW p \in Sheets, NEW v
  PROVE  /\ [p EXCEPT !.rows = v] = [rows |-> v, col |-> p.col]
         /\ [p EXCEPT !.col = v] = [rows |-> p.rows, col |-> v]
  BY DEF Sheets

LEMMA ScreenWith ==
  ASSUME NEW s \in Screens, NEW v
  PROVE  /\ [s EXCEPT !.buf = v] = [row |-> s.row, col |-> s.col, buf |-> v]
         /\ [s EXCEPT !.col = v] = [row |-> s.row, col |-> v, buf |-> s.buf]
<1>1. [s EXCEPT !.buf = v] = [row |-> s.row, col |-> s.col, buf |-> v]
  BY DEF Screens
<1>2. [s EXCEPT !.col = v] = [row |-> s.row, col |-> v, buf |-> s.buf]
  BY DEF Screens
<1> QED
  BY <1>1, <1>2

\* A clean row at the end of the sheet changes no mark.
LEMMA FeedMarks ==
  ASSUME NEW p \in Sheets, TextScreenAssumption
  PROVE  /\ Feed(p) \in Sheets
         /\ Len(Feed(p).rows) = Len(p.rows) + 1 /\ Feed(p).col = 0
         /\ \A n \in Nat, x \in Columns : MarkOn(Feed(p), n, x) = MarkOn(p, n, x)
<1>1. BlankRow \in [Columns -> Marks \cup {Blank}] /\ 0 \in Columns
  BY DEF BlankRow, Columns, TextScreenAssumption
<1>2. p.rows \in Seq([Columns -> Marks \cup {Blank}])
  BY DEF Sheets
<1>3. /\ Feed(p).rows = Append(p.rows, BlankRow) /\ Feed(p).col = 0
      /\ Feed(p) = [rows |-> Append(p.rows, BlankRow), col |-> 0]
  BY DEF Feed
<1>4. /\ Len(Append(p.rows, BlankRow)) = Len(p.rows) + 1
      /\ Append(p.rows, BlankRow) \in Seq([Columns -> Marks \cup {Blank}])
      /\ Append(p.rows, BlankRow) # <<>>
  BY <1>1, <1>2
<1>5. Feed(p) \in Sheets
  BY <1>1, <1>3, <1>4 DEF Sheets
<1>6. ASSUME NEW n \in Nat, NEW x \in Columns
      PROVE  MarkOn(Feed(p), n, x) = MarkOn(p, n, x)
  <2>1. CASE n \in DOMAIN p.rows
    <3>1. n \in DOMAIN Append(p.rows, BlankRow) /\ Append(p.rows, BlankRow)[n] = p.rows[n]
      BY <1>1, <1>2, <2>1
    <3> QED
      BY <1>3, <2>1, <3>1 DEF MarkOn
  <2>2. CASE n = Len(p.rows) + 1
    <3>1. /\ n \in DOMAIN Append(p.rows, BlankRow) /\ n \notin DOMAIN p.rows
          /\ Append(p.rows, BlankRow)[n] = BlankRow
      BY <1>1, <1>2, <2>2
    <3>2. BlankRow[x] = Blank
      BY DEF BlankRow, Columns
    <3> QED
      BY <1>3, <3>1, <3>2 DEF MarkOn
  <2>3. CASE n \notin DOMAIN p.rows /\ n # Len(p.rows) + 1
    <3>1. n \notin DOMAIN Append(p.rows, BlankRow)
      BY <1>1, <1>2, <2>3
    <3> QED
      BY <1>3, <2>3, <3>1 DEF MarkOn
  <2> QED
    BY <2>1, <2>2, <2>3
<1> QED
  BY <1>3, <1>4, <1>5, <1>6

\* The sheet with a mark struck, before the carriage moves.
Struck(p, mark) == [p EXCEPT !.rows[Len(p.rows)] = [@ EXCEPT ![p.col] = mark]]

\* Striking changes the mark under the carriage and no other.
LEMMA StrikeMarks ==
  ASSUME NEW p \in Sheets, NEW mark \in Marks, TextScreenAssumption
  PROVE  /\ Struck(p, mark) \in Sheets
         /\ Len(Struck(p, mark).rows) = Len(p.rows) /\ Struck(p, mark).col = p.col
         /\ \A n \in Nat, x \in Columns :
              /\ n = Len(p.rows) /\ x = p.col => MarkOn(Struck(p, mark), n, x) = mark
              /\ ~ (n = Len(p.rows) /\ x = p.col) =>
                   MarkOn(Struck(p, mark), n, x) = MarkOn(p, n, x)
<1> DEFINE R == p.rows
           row == [R[Len(R)] EXCEPT ![p.col] = mark]
           S == [R EXCEPT ![Len(R)] = row]
<1>1. /\ R \in Seq([Columns -> Marks \cup {Blank}]) /\ R # <<>> /\ p.col \in Columns
      /\ p = [rows |-> R, col |-> p.col]
  BY DEF Sheets
<1>2. Len(R) \in DOMAIN R /\ R[Len(R)] \in [Columns -> Marks \cup {Blank}]
  BY <1>1
<1>3. row \in [Columns -> Marks \cup {Blank}] /\ row[p.col] = mark
      /\ \A x \in Columns : x # p.col => row[x] = R[Len(R)][x]
  BY <1>1, <1>2
<1>4. /\ S \in Seq([Columns -> Marks \cup {Blank}]) /\ S # <<>> /\ Len(S) = Len(R)
      /\ DOMAIN S = DOMAIN R
      /\ \A n \in DOMAIN R : S[n] = IF n = Len(R) THEN row ELSE R[n]
  BY <1>1, <1>2, <1>3
<1>5. Struck(p, mark) = [rows |-> S, col |-> p.col]
  <2>1. Struck(p, mark) = [p EXCEPT !.rows = S]
    BY DEF Struck
  <2>2. [p EXCEPT !.rows = S] = [rows |-> S, col |-> p.col]
    BY SheetWith
  <2> QED
    BY <2>1, <2>2
<1>6. Struck(p, mark).rows = S /\ Struck(p, mark).col = p.col
  BY <1>5
<1> HIDE DEF R, row, S
<1>7. Struck(p, mark) \in Sheets
  BY <1>1, <1>4, <1>5 DEF Sheets
<1>8. ASSUME NEW n \in Nat, NEW x \in Columns
      PROVE  /\ n = Len(R) /\ x = p.col => MarkOn(Struck(p, mark), n, x) = mark
             /\ ~ (n = Len(R) /\ x = p.col) =>
                  MarkOn(Struck(p, mark), n, x) = MarkOn(p, n, x)
  BY <1>2, <1>3, <1>4, <1>6 DEF MarkOn, R
<1> QED
  BY <1>4, <1>6, <1>7, <1>8 DEF R
-----------------------------------------------------------------------------
(* What both drivers do to a screen.                                       *)

\* The screen with a character put under the cursor, before the cursor moves.
Put(s, char, c) == [s EXCEPT !.buf[Cell(s.row, s.col)] = Entry(char, c)]

\* Putting changes the cell under the cursor and no other.
LEMMA PutCells ==
  ASSUME TextScreenAssumption, NEW s \in Screens, NEW char \in Chars, NEW c \in Attributes
  PROVE  /\ Put(s, char, c) \in Screens
         /\ Put(s, char, c).row = s.row /\ Put(s, char, c).col = s.col
         /\ \A y \in 0 .. Height - 1, x \in Columns :
              CellOf(Put(s, char, c), y, x) =
                IF y = s.row /\ x = s.col THEN Entry(char, c) ELSE CellOf(s, y, x)
<1> DEFINE B == s.buf
           here == Cell(s.row, s.col)
           T == [B EXCEPT ![here] = Entry(char, c)]
<1>1. /\ B \in [Cells -> [char : Chars \cup {Blank}, color : Attributes]]
      /\ s.row \in 0 .. Height - 1 /\ s.col \in Columns
  BY DEF Screens
<1>2. here \in Cells
  BY <1>1, CellsInside
<1>3. Entry(char, c) \in [char : Chars \cup {Blank}, color : Attributes]
  BY DEF Entry
<1>4. /\ T \in [Cells -> [char : Chars \cup {Blank}, color : Attributes]]
      /\ \A i \in Cells : T[i] = IF i = here THEN Entry(char, c) ELSE B[i]
  BY <1>1, <1>2, <1>3
<1>5. Put(s, char, c) = [row |-> s.row, col |-> s.col, buf |-> T]
  <2>1. Put(s, char, c) = [s EXCEPT !.buf = T]
    BY DEF Put
  <2> HIDE DEF T, here, B
  <2>2. [s EXCEPT !.buf = T] = [row |-> s.row, col |-> s.col, buf |-> T]
    BY ScreenWith
  <2> QED
    BY <2>1, <2>2
<1> HIDE DEF T, here, B
<1>6. ASSUME NEW y \in 0 .. Height - 1, NEW x \in Columns
      PROVE  CellOf(Put(s, char, c), y, x) =
               IF y = s.row /\ x = s.col THEN Entry(char, c) ELSE CellOf(s, y, x)
  <2>1. Cell(y, x) \in Cells
    BY CellsInside
  <2>2. Cell(y, x) = here <=> y = s.row /\ x = s.col
    <3>1. y \in Nat /\ s.row \in Nat
      BY <1>1, TextScreenAssumption DEF TextScreenAssumption
    <3> QED
      BY <1>1, <3>1, CellsDiffer DEF here
  <2> QED
    BY <1>4, <1>5, <2>1, <2>2 DEF CellOf, B
<1> QED
  BY <1>1, <1>4, <1>5, <1>6 DEF Screens

\* A clean screen shows nothing.
LEMMA ClearedCells ==
  ASSUME TextScreenAssumption, NEW c \in Colors
  PROVE  /\ Cleared(c) \in Screens /\ Cleared(c).row = 0 /\ Cleared(c).col = 0
         /\ \A y \in 0 .. Height - 1, x \in Columns : CellOf(Cleared(c), y, x).char = Blank
<1>1. /\ [i \in Cells |-> Entry(Blank, c)] \in
           [Cells -> [char : Chars \cup {Blank}, color : Attributes]]
      /\ 0 \in 0 .. Height - 1 /\ 0 \in Columns
  BY DEF Attributes, Entry, Columns, TextScreenAssumption
<1>2. ASSUME NEW y \in 0 .. Height - 1, NEW x \in Columns
      PROVE  CellOf(Cleared(c), y, x).char = Blank
  BY CellsInside DEF CellOf, Cleared, Entry
<1> QED
  BY <1>1, <1>2 DEF Cleared, Screens

\* A clean sheet has no mark.
LEMMA CleanMarks ==
  ASSUME TextScreenAssumption
  PROVE  /\ CleanSheet \in Sheets /\ Len(CleanSheet.rows) = 1 /\ CleanSheet.col = 0
         /\ \A n \in Nat, x \in Columns : MarkOn(CleanSheet, n, x) = Blank
<1>1. BlankRow \in [Columns -> Marks \cup {Blank}] /\ 0 \in Columns
  BY DEF BlankRow, Columns, TextScreenAssumption
<1>2. /\ <<BlankRow>> \in Seq([Columns -> Marks \cup {Blank}]) /\ <<BlankRow>> # <<>>
      /\ Len(<<BlankRow>>) = 1 /\ DOMAIN <<BlankRow>> = {1} /\ <<BlankRow>>[1] = BlankRow
  BY <1>1
<1>3. \A x \in Columns : BlankRow[x] = Blank
  BY DEF BlankRow, Columns
<1> QED
  BY <1>1, <1>2, <1>3 DEF CleanSheet, Sheets, MarkOn
-----------------------------------------------------------------------------
(* The first kernel's driver.                                              *)

\* Where the cursor is on the sheet.
LEMMA TailCursor ==
  ASSUME TextScreenAssumption, NEW s \in Screens, NEW p \in Sheets, ShowsTail(s, p)
  PROVE  /\ Len(p.rows) \in Nat \ {0} /\ TopOf(p) \in Nat /\ Height \in Nat \ {0}
         /\ Len(p.rows) = TopOf(p) + s.row + 1 /\ s.row \in 0 .. Height - 1
         /\ s.col = p.col /\ s.col \in Columns
<1>1. Len(p.rows) \in Nat \ {0}
  BY DEF Sheets
<1>2. Height \in Nat \ {0} /\ s.row \in 0 .. Height - 1 /\ s.col \in Columns
  BY DEF Screens, TextScreenAssumption
<1> QED
  BY <1>1, <1>2 DEF ShowsTail, TopOf

\* A character put on the screen is the mark struck on the sheet.
LEMMA TailStrike ==
  ASSUME TextScreenAssumption, NEW s \in Screens, NEW p \in Sheets, ShowsTail(s, p),
         NEW char \in Chars, NEW c \in Colors
  PROVE  ShowsTail(Put(s, char, c), Struck(p, Entry(char, c)))
<1> DEFINE t == Put(s, char, c)
           q == Struck(p, Entry(char, c))
<1>1. Entry(char, c) \in Marks /\ Entry(char, c) # Blank
  BY DEF Entry, Marks, TextScreenAssumption
<1>2. /\ t.row = s.row /\ t.col = s.col /\ Len(q.rows) = Len(p.rows) /\ q.col = p.col
      /\ TopOf(q) = TopOf(p)
  <2>1. t.row = s.row /\ t.col = s.col
    BY PutCells DEF Attributes
  <2>2. Len(q.rows) = Len(p.rows) /\ q.col = p.col
    BY <1>1, StrikeMarks
  <2> QED
    BY <2>1, <2>2 DEF TopOf
<1>3. ASSUME NEW y \in 0 .. Height - 1, NEW x \in Columns
      PROVE  Marked(CellOf(t, y, x), MarkOn(q, TopOf(p) + y + 1, x))
  <2>1. /\ TopOf(p) + y + 1 \in Nat
        /\ TopOf(p) + y + 1 = Len(p.rows) <=> y = s.row
    BY TailCursor
  <2>2. Marked(CellOf(s, y, x), MarkOn(p, TopOf(p) + y + 1, x))
    BY DEF ShowsTail
  <2>3. /\ y = s.row /\ x = s.col => MarkOn(q, TopOf(p) + y + 1, x) = Entry(char, c)
        /\ ~ (y = s.row /\ x = s.col) =>
             MarkOn(q, TopOf(p) + y + 1, x) = MarkOn(p, TopOf(p) + y + 1, x)
    <3>1. \A n \in Nat, u \in Columns :
            /\ n = Len(p.rows) /\ u = p.col => MarkOn(q, n, u) = Entry(char, c)
            /\ ~ (n = Len(p.rows) /\ u = p.col) => MarkOn(q, n, u) = MarkOn(p, n, u)
      BY <1>1, StrikeMarks
    <3>2. p.col = s.col
      BY TailCursor
    <3> HIDE DEF q
    <3> QED
      BY <2>1, <3>1, <3>2
  <2>4. CellOf(t, y, x) = IF y = s.row /\ x = s.col THEN Entry(char, c) ELSE CellOf(s, y, x)
    BY PutCells DEF Attributes
  <2> QED
    BY <1>1, <2>2, <2>3, <2>4 DEF Marked
<1> QED
  BY <1>2, <1>3 DEF ShowsTail

\* A new row on the screen is a new row on the sheet, whether the screen scrolls
\* or not.
LEMMA TailFeed ==
  ASSUME TextScreenAssumption, NEW s \in Screens, NEW p \in Sheets, ShowsTail(s, p),
         NEW c \in Colors
  PROVE  VgaNewline(s, c) \in Screens /\ ShowsTail(VgaNewline(s, c), Feed(p))
<1> DEFINE t == VgaNewline(s, c)
           q == Feed(p)
<1>1. /\ Len(q.rows) = Len(p.rows) + 1 /\ q.col = 0
      /\ \A n \in Nat, x \in Columns : MarkOn(q, n, x) = MarkOn(p, n, x)
  BY FeedMarks
<1>2. 0 \in Columns
  BY DEF Columns, TextScreenAssumption
<1>3. CASE s.row + 1 < Height
  <2>1. t = [row |-> s.row + 1, col |-> 0, buf |-> s.buf]
    BY <1>3 DEF VgaNewline
  <2>2. t \in Screens
    BY <1>2, <1>3, <2>1, TailCursor DEF Screens
  <2>3. TopOf(p) = 0 /\ TopOf(q) = 0 /\ t.row = Len(q.rows) - 1 - TopOf(q) /\ t.col = q.col
    <3>1. ~ Len(p.rows) > Height
      BY <1>3, TailCursor DEF TopOf
    <3>2. Len(q.rows) <= Height
      BY <1>1, <1>3, <3>1, TailCursor DEF TopOf
    <3>3. TopOf(p) = 0 /\ TopOf(q) = 0
      BY <1>1, <3>1, <3>2, TailCursor DEF TopOf
    <3> QED
      BY <1>1, <2>1, <3>3, TailCursor
  <2>4. ASSUME NEW y \in 0 .. Height - 1, NEW x \in Columns
        PROVE  Marked(CellOf(t, y, x), MarkOn(q, TopOf(q) + y + 1, x))
    <3>1. TopOf(p) + y + 1 \in Nat /\ TopOf(p) + y + 1 = TopOf(q) + y + 1
      BY <2>3, TailCursor
    <3>2. CellOf(t, y, x) = CellOf(s, y, x)
      BY <2>1 DEF CellOf
    <3> QED
      BY <1>1, <3>1, <3>2 DEF ShowsTail
  <2> QED
    BY <2>2, <2>3, <2>4 DEF ShowsTail
<1>4. CASE ~ s.row + 1 < Height
  <2> DEFINE B == [i \in Cells |-> IF i + Width \in Cells THEN s.buf[i + Width]
                                   ELSE Entry(Blank, c)]
  <2>1. t = [row |-> Height - 1, col |-> 0, buf |-> B]
    BY <1>4 DEF VgaNewline
  <2>2. t \in Screens
    <3>1. s.buf \in [Cells -> [char : Chars \cup {Blank}, color : Attributes]]
      BY DEF Screens
    <3>2. Entry(Blank, c) \in [char : Chars \cup {Blank}, color : Attributes]
      BY DEF Attributes, Entry
    <3>3. B \in [Cells -> [char : Chars \cup {Blank}, color : Attributes]]
      BY <3>1, <3>2
    <3>4. Height - 1 \in 0 .. Height - 1
      BY TailCursor
    <3> HIDE DEF B
    <3> QED
      BY <1>2, <2>1, <3>3, <3>4 DEF Screens
  <2>3. /\ s.row = Height - 1
        /\ TopOf(q) = TopOf(p) + 1 /\ t.row = Len(q.rows) - 1 - TopOf(q) /\ t.col = q.col
    BY <1>1, <1>4, <2>1, TailCursor DEF TopOf
  <2>4. ASSUME NEW y \in 0 .. Height - 1, NEW x \in Columns
        PROVE  Marked(CellOf(t, y, x), MarkOn(q, TopOf(q) + y + 1, x))
    <3>1. /\ y \in Nat /\ Cell(y, x) \in Cells /\ TopOf(q) + y + 1 \in Nat
          /\ TopOf(q) + y + 1 = TopOf(p) + (y + 1) + 1
      <4>1. Cell(y, x) \in Cells
        BY CellsInside
      <4>2. y \in Nat /\ TopOf(p) \in Nat /\ TopOf(q) = TopOf(p) + 1
        BY <2>3, TailCursor
      <4> HIDE DEF q
      <4> QED
        BY <4>1, <4>2
    <3>2. CellOf(t, y, x) = IF Cell(y, x) + Width \in Cells THEN s.buf[Cell(y, x) + Width]
                            ELSE Entry(Blank, c)
      BY <2>1, <3>1 DEF CellOf
    <3>3. CASE y + 1 < Height
      <4>1. y + 1 \in 0 .. Height - 1 /\ Cell(y, x) + Width = Cell(y + 1, x)
        BY <1>4, <3>1, <3>3, CellBelow, TailCursor
      <4>2. CellOf(t, y, x) = CellOf(s, y + 1, x)
        BY <3>2, <4>1, CellsInside DEF CellOf
      <4>3. Marked(CellOf(s, y + 1, x), MarkOn(p, TopOf(p) + (y + 1) + 1, x))
        BY <4>1 DEF ShowsTail
      <4> QED
        BY <1>1, <3>1, <4>2, <4>3
    <3>4. CASE ~ y + 1 < Height
      <4>1. Cell(y, x) + Width \notin Cells
        <5>1. Width \in Nat /\ Height \in Nat /\ x \in Nat /\ y = Height - 1
          BY <3>4, TailCursor DEF TextScreenAssumption, Columns
        <5>2. Cell(y, x) + Width = Height * Width + x
          <6>1. Cell(y, x) + Width = Cell(y + 1, x) /\ y + 1 = Height
            BY <3>1, <5>1, CellBelow
          <6> QED
            BY <6>1 DEF Cell
        <5>3. Height * Width = Width * Height /\ Width * Height \in Nat
          BY <5>1
        <5> QED
          BY <5>1, <5>2, <5>3 DEF Cells
      <4>2. MarkOn(p, TopOf(q) + y + 1, x) = Blank
        <5>1. TopOf(q) + y + 1 > Len(p.rows)
          BY <2>3, <3>4, TailCursor
        <5>2. TopOf(q) + y + 1 \notin DOMAIN p.rows
          BY <5>1, TailCursor DEF Sheets
        <5> QED
          BY <5>2 DEF MarkOn
      <4> QED
        BY <1>1, <3>1, <3>2, <4>1, <4>2 DEF Marked, Entry
    <3> QED
      BY <3>3, <3>4
  <2> QED
    BY <2>2, <2>3, <2>4 DEF ShowsTail
<1> QED
  BY <1>3, <1>4

\* Cursor and carriage move alike.
LEMMA TailMove ==
  ASSUME TextScreenAssumption, NEW s \in Screens, NEW p \in Sheets, ShowsTail(s, p),
         NEW c \in Colors, NEW col \in Nat
  PROVE  /\ VgaMoveTo(s, col, c) \in Screens /\ MoveTo(p, col) \in Sheets
         /\ ShowsTail(VgaMoveTo(s, col, c), MoveTo(p, col))
<1>1. CASE col >= Width
  BY <1>1, TailFeed, FeedMarks DEF VgaMoveTo, MoveTo
<1>2. CASE ~ col >= Width
  <2>1. col \in Columns
    BY <1>2 DEF Columns, TextScreenAssumption
  <2>2. /\ VgaMoveTo(s, col, c) = [row |-> s.row, col |-> col, buf |-> s.buf]
        /\ MoveTo(p, col) = [rows |-> p.rows, col |-> col]
    BY <1>2, ScreenWith, SheetWith DEF VgaMoveTo, MoveTo
  <2> QED
    BY <2>1, <2>2 DEF Screens, Sheets, ShowsTail, CellOf, MarkOn, TopOf
<1> QED
  BY <1>1, <1>2
-----------------------------------------------------------------------------
(* The kernel's console.                                                   *)

\* Where its cursor is on the sheet.
LEMMA HeadCursor ==
  ASSUME TextScreenAssumption, NEW s \in Screens, NEW p \in Sheets, KeepsHead(s, p)
  PROVE  /\ Len(p.rows) \in Nat \ {0} /\ Height \in Nat \ {0} /\ s.row \in 0 .. Height - 1
         /\ Len(p.rows) < Height => s.row + 1 = Len(p.rows)
         /\ Len(p.rows) >= Height => s.row + 1 = Height
         /\ s.col = p.col /\ s.col \in Columns
<1>1. Len(p.rows) \in Nat \ {0}
  BY DEF Sheets
<1>2. Height \in Nat \ {0} /\ s.row \in 0 .. Height - 1 /\ s.col \in Columns
  BY DEF Screens, TextScreenAssumption
<1> QED
  BY <1>1, <1>2 DEF KeepsHead

\* What is kept depends on the marks and the cells alone.
LEMMA HeadSame ==
  ASSUME TextScreenAssumption, NEW s \in Screens, NEW p \in Sheets, KeepsHead(s, p),
         NEW t \in Screens, NEW q \in Sheets,
         t.buf = s.buf, \A n \in Nat, x \in Columns : MarkOn(q, n, x) = MarkOn(p, n, x),
         t.row = IF Len(q.rows) < Height THEN Len(q.rows) - 1 ELSE Height - 1,
         t.col = q.col
  PROVE  KeepsHead(t, q)
<1>1. ASSUME NEW x \in Columns, NEW y \in 0 .. Height - 2
      PROVE  Written(CellOf(t, y, x), MarkOn(q, y + 1, x))
  <2>1. y + 1 \in Nat
    OBVIOUS
  <2> QED
    BY <2>1 DEF KeepsHead, CellOf
<1>2. ASSUME NEW x \in Columns
      PROVE  \/ Unmarked(q, x) /\ Written(CellOf(t, Height - 1, x), Blank)
             \/ \E n \in Nat : Latest(q, x, n) /\ Written(CellOf(t, Height - 1, x), MarkOn(q, n, x))
  <2>1. CellOf(t, Height - 1, x) = CellOf(s, Height - 1, x)
    BY DEF CellOf
  <2>2. CASE Unmarked(p, x) /\ Written(CellOf(s, Height - 1, x), Blank)
    BY <2>1, <2>2 DEF Unmarked
  <2>3. CASE \E n \in Nat :
               Latest(p, x, n) /\ Written(CellOf(s, Height - 1, x), MarkOn(p, n, x))
    BY <2>1, <2>3 DEF Latest
  <2> QED
    BY <2>2, <2>3 DEF KeepsHead
<1> QED
  BY <1>1, <1>2 DEF KeepsHead

\* A new row on the screen is one on the sheet; at the last row, it is the last
\* row again.
LEMMA HeadFeed ==
  ASSUME TextScreenAssumption, NEW s \in Screens, NEW p \in Sheets, KeepsHead(s, p)
  PROVE  ConsoleNewline(s) \in Screens /\ KeepsHead(ConsoleNewline(s), Feed(p))
<1>1. 0 \in Columns
  BY DEF Columns, TextScreenAssumption
<1>2. /\ Feed(p) \in Sheets /\ Len(Feed(p).rows) = Len(p.rows) + 1 /\ Feed(p).col = 0
      /\ \A n \in Nat, x \in Columns : MarkOn(Feed(p), n, x) = MarkOn(p, n, x)
  BY FeedMarks
<1>3. CASE s.row + 1 < Height
  <2>1. ConsoleNewline(s) = [row |-> s.row + 1, col |-> 0, buf |-> s.buf]
    BY <1>3 DEF ConsoleNewline
  <2>2. ConsoleNewline(s) \in Screens
    BY <1>1, <1>3, <2>1, HeadCursor DEF Screens
  <2>3. s.row + 1 = IF Len(Feed(p).rows) < Height THEN Len(Feed(p).rows) - 1 ELSE Height - 1
    BY <1>2, <1>3, HeadCursor
  <2> QED
    BY <1>2, <2>1, <2>2, <2>3, HeadSame
<1>4. CASE ~ s.row + 1 < Height
  <2>1. ConsoleNewline(s) = [row |-> s.row, col |-> 0, buf |-> s.buf]
    BY <1>4, ScreenWith DEF ConsoleNewline
  <2>2. ConsoleNewline(s) \in Screens
    BY <1>1, <2>1, HeadCursor DEF Screens
  <2>3. s.row = IF Len(Feed(p).rows) < Height THEN Len(Feed(p).rows) - 1 ELSE Height - 1
    BY <1>2, <1>4, HeadCursor
  <2> QED
    BY <1>2, <2>1, <2>2, <2>3, HeadSame
<1> QED
  BY <1>3, <1>4

\* A character put on the screen is the mark struck on the sheet, and the latest
\* of its column if the row is the last one of the screen or a later one.
LEMMA HeadStrike ==
  ASSUME TextScreenAssumption, NEW s \in Screens, NEW p \in Sheets, KeepsHead(s, p),
         NEW char \in Chars, NEW c \in Colors, NEW d \in Attributes,
         ConsoleEntry(char, c) = Entry(char, d)
  PROVE  KeepsHead(Put(s, char, d), Struck(p, Entry(char, c)))
<1> DEFINE t == Put(s, char, d)
           q == Struck(p, Entry(char, c))
           last == Len(p.rows)
<1>1. /\ Entry(char, c) \in Marks /\ Entry(char, c) # Blank
      /\ Written(Entry(char, d), Entry(char, c))
  BY DEF Entry, ConsoleEntry, Marks, Written, TextScreenAssumption
<1>2. /\ t.row = s.row /\ t.col = s.col /\ Len(q.rows) = last /\ q.col = p.col
      /\ t \in Screens /\ q \in Sheets
  <2>1. t.row = s.row /\ t.col = s.col /\ t \in Screens
    BY PutCells
  <2>2. Len(q.rows) = last /\ q.col = p.col /\ q \in Sheets
    BY <1>1, StrikeMarks
  <2> QED
    BY <2>1, <2>2
<1>3. \A n \in Nat, u \in Columns :
        /\ n = last /\ u = p.col => MarkOn(q, n, u) = Entry(char, c)
        /\ ~ (n = last /\ u = p.col) => MarkOn(q, n, u) = MarkOn(p, n, u)
  BY <1>1, StrikeMarks
<1>4. \A y \in 0 .. Height - 1, u \in Columns :
        CellOf(t, y, u) = IF y = s.row /\ u = s.col THEN Entry(char, d) ELSE CellOf(s, y, u)
  BY PutCells
<1>5. /\ last \in Nat \ {0} /\ Height \in Nat \ {0} /\ s.row \in 0 .. Height - 1
      /\ last < Height => s.row + 1 = last
      /\ last >= Height => s.row + 1 = Height
      /\ s.col = p.col /\ s.col \in Columns
  BY HeadCursor
<1>6. \A n \in Nat, u \in Columns : MarkOn(q, n, u) # Blank => n <= last
  BY <1>2, <1>5 DEF MarkOn, Sheets
<1> HIDE DEF t, q, last
<1>7. ASSUME NEW x \in Columns, NEW y \in 0 .. Height - 2
      PROVE  Written(CellOf(t, y, x), MarkOn(q, y + 1, x))
  <2>1. y + 1 \in Nat /\ y \in 0 .. Height - 1 /\ (y = s.row <=> y + 1 = last)
    BY <1>5
  <2>2. Written(CellOf(s, y, x), MarkOn(p, y + 1, x))
    BY DEF KeepsHead
  <2>3. CASE y = s.row /\ x = s.col
    BY <1>1, <1>3, <1>4, <1>5, <2>1, <2>3
  <2>4. CASE ~ (y = s.row /\ x = s.col)
    <3>1. MarkOn(q, y + 1, x) = MarkOn(p, y + 1, x)
      BY <1>3, <1>5, <2>1, <2>4
    <3>2. CellOf(t, y, x) = CellOf(s, y, x)
      BY <1>4, <2>1, <2>4
    <3> QED
      BY <2>2, <3>1, <3>2
  <2> QED
    BY <2>3, <2>4
<1>8. ASSUME NEW x \in Columns
      PROVE  \/ Unmarked(q, x) /\ Written(CellOf(t, Height - 1, x), Blank)
             \/ \E n \in Nat : Latest(q, x, n) /\ Written(CellOf(t, Height - 1, x), MarkOn(q, n, x))
  <2>1. Height - 1 \in 0 .. Height - 1
    BY <1>5
  <2>2. CASE last >= Height /\ x = p.col
    <3>1. CellOf(t, Height - 1, x) = Entry(char, d) /\ MarkOn(q, last, x) = Entry(char, c)
      BY <1>3, <1>4, <1>5, <2>1, <2>2
    <3>2. Latest(q, x, last)
      BY <1>1, <1>5, <1>6, <2>2, <3>1 DEF Latest
    <3> QED
      BY <1>1, <1>5, <3>1, <3>2
  <2>3. CASE ~ (last >= Height /\ x = p.col)
    <3>1. CellOf(t, Height - 1, x) = CellOf(s, Height - 1, x)
      BY <1>4, <1>5, <2>1, <2>3
    <3>2. \A n \in Nat : n >= Height => MarkOn(q, n, x) = MarkOn(p, n, x)
      BY <1>3, <1>5, <2>3
    <3>3. CASE Unmarked(p, x) /\ Written(CellOf(s, Height - 1, x), Blank)
      BY <3>1, <3>2, <3>3 DEF Unmarked
    <3>4. CASE \E n \in Nat :
                 Latest(p, x, n) /\ Written(CellOf(s, Height - 1, x), MarkOn(p, n, x))
      <4>1. PICK n \in Nat :
              Latest(p, x, n) /\ Written(CellOf(s, Height - 1, x), MarkOn(p, n, x))
        BY <3>4
      <4>2. n >= Height /\ MarkOn(q, n, x) = MarkOn(p, n, x)
        BY <3>2, <4>1 DEF Latest
      <4>3. Latest(q, x, n)
        BY <3>2, <4>1, <4>2 DEF Latest
      <4> QED
        BY <3>1, <4>1, <4>2, <4>3
    <3> QED
      BY <3>3, <3>4 DEF KeepsHead
  <2> QED
    BY <2>2, <2>3
<1> QED
  BY <1>2, <1>5, <1>7, <1>8 DEF KeepsHead, t, q, last

\* Cursor and carriage move alike.
LEMMA HeadMove ==
  ASSUME TextScreenAssumption, NEW s \in Screens, NEW p \in Sheets, KeepsHead(s, p)
  PROVE  /\ MoveTo(p, p.col + 1) \in Sheets
         /\ s.col + 1 = Width =>
              ConsoleNewline(s) \in Screens /\ KeepsHead(ConsoleNewline(s), MoveTo(p, p.col + 1))
         /\ s.col + 1 # Width =>
              /\ [s EXCEPT !.col = @ + 1] \in Screens
              /\ KeepsHead([s EXCEPT !.col = @ + 1], MoveTo(p, p.col + 1))
<1>1. s.col = p.col /\ s.col \in 0 .. Width - 1 /\ Width \in Nat
  BY HeadCursor, TextScreenAssumption DEF Columns, TextScreenAssumption
<1>2. CASE s.col + 1 = Width
  <2>1. MoveTo(p, p.col + 1) = Feed(p)
    BY <1>1, <1>2 DEF MoveTo
  <2> QED
    BY <1>2, <2>1, HeadFeed, FeedMarks
<1>3. CASE s.col + 1 # Width
  <2> DEFINE t == [row |-> s.row, col |-> s.col + 1, buf |-> s.buf]
             q == [rows |-> p.rows, col |-> p.col + 1]
  <2>1. s.col + 1 \in Columns /\ ~ p.col + 1 >= Width
    BY <1>1, <1>3 DEF Columns
  <2>2. [s EXCEPT !.col = @ + 1] = t /\ MoveTo(p, p.col + 1) = q
    BY <2>1, ScreenWith, SheetWith DEF MoveTo
  <2>3. t \in Screens /\ q \in Sheets
    BY <1>1, <2>1 DEF Screens, Sheets
  <2>4. \A n \in Nat, x \in Columns : MarkOn(q, n, x) = MarkOn(p, n, x)
    BY DEF MarkOn
  <2>5. t.row = IF Len(q.rows) < Height THEN Len(q.rows) - 1 ELSE Height - 1
    BY DEF KeepsHead
  <2>6. KeepsHead(t, q)
    BY <1>1, <2>3, <2>4, <2>5, HeadSame
  <2> QED
    BY <1>3, <2>2, <2>3, <2>6
<1> QED
  BY <1>2, <1>3
-----------------------------------------------------------------------------
(* The drivers.                                                            *)

\* A screen just cleared shows a clean sheet.
LEMMA ClearedShows ==
  ASSUME TextScreenAssumption, NEW c \in Colors
  PROVE  /\ Cleared(c) \in Screens /\ CleanSheet \in Sheets
         /\ ShowsTail(Cleared(c), CleanSheet) /\ KeepsHead(Cleared(c), CleanSheet)
<1> DEFINE s == Cleared(c)
           p == CleanSheet
<1>1. /\ s \in Screens /\ s.row = 0 /\ s.col = 0
      /\ \A y \in 0 .. Height - 1, x \in Columns : CellOf(s, y, x).char = Blank
  BY ClearedCells
<1>2. /\ p \in Sheets /\ Len(p.rows) = 1 /\ p.col = 0
      /\ \A n \in Nat, x \in Columns : MarkOn(p, n, x) = Blank
  BY CleanMarks
<1>3. Height \in Nat \ {0}
  BY TextScreenAssumption DEF TextScreenAssumption
<1>4. TopOf(p) = 0
  BY <1>2, <1>3 DEF TopOf
<1> HIDE DEF s, p
<1>5. ShowsTail(s, p)
  BY <1>1, <1>2, <1>3, <1>4 DEF ShowsTail, Marked
<1>6. KeepsHead(s, p)
  BY <1>1, <1>2, <1>3 DEF KeepsHead, Unmarked, Written
<1> QED
  BY <1>1, <1>2, <1>5, <1>6 DEF s, p

\* The two ways of writing the next tab stop.
LEMMA NextTab ==
  ASSUME NEW t \in Nat \ {0}, NEW n \in Nat
  PROVE  (n + t) \div t = n \div t + 1 /\ ((n + t) \div t) * t \in Nat
<1> DEFINE a == n \div t
           b == (n + t) \div t
<1>1. a \in Nat /\ b \in Nat /\ a * t <= n /\ n < a * t + t /\ b * t <= n + t /\ n < b * t
  OBVIOUS
<1> HIDE DEF a, b
<1>2. (a + 1) * t = a * t + t /\ a * t \in Nat /\ b * t \in Nat
  BY <1>1
<1>3. ~ a + 1 < b
  BY <1>1, <1>2, RowsApart
<1>4. ~ b < a + 1
  BY <1>1, <1>2, RowsApart
<1>5. b = a + 1
  BY <1>1, <1>3, <1>4
<1> QED
  BY <1>1, <1>2, <1>5 DEF a, b

\* Each character the first kernel's driver is given.
LEMMA VgaStep ==
  ASSUME TextScreenAssumption, IInv, NEW char \in Chars \cup {"newline", "return", "tab"},
         VgaPutc(char)
  PROVE  IInv'
<1>1. /\ driver = "vga" /\ driver' = driver /\ color' = color /\ color \in Colors
      /\ screen \in Screens /\ paper \in Sheets /\ ShowsTail(screen, paper)
      /\ screen' = VgaPut(screen, char, color)
  BY DEF IInv, Shows, VgaPutc, Call
<1>2. SUFFICES screen' \in Screens /\ paper' \in Sheets /\ ShowsTail(screen', paper')
  BY <1>1 DEF IInv, Shows
<1>3. screen.col = paper.col /\ screen.col \in Nat /\ 0 \in Nat
  BY <1>1, TailCursor DEF Columns
<1>4. Chars \cap {"newline", "return", "tab"} = {} /\ TabStop \in Nat \ {0} /\ Width \in Nat \ {0}
  BY TextScreenAssumption DEF TextScreenAssumption
<1>5. CASE char = "newline"
  <2>1. screen' = VgaNewline(screen, color) /\ paper' = Feed(paper)
    BY <1>1, <1>5 DEF VgaPut, VgaPutc
  <2> QED
    BY <1>1, <2>1, TailFeed, FeedMarks
<1>6. CASE char = "return"
  <2>1. screen' = [screen EXCEPT !.col = 0] /\ paper' = MoveTo(paper, 0)
    BY <1>1, <1>4, <1>6 DEF VgaPut, VgaPutc, Return
  <2>2. [screen EXCEPT !.col = 0] = VgaMoveTo(screen, 0, color)
    BY <1>4 DEF VgaMoveTo
  <2> QED
    BY <1>1, <1>3, <2>1, <2>2, TailMove
<1>7. CASE char = "tab"
  <2> DEFINE stop == ((screen.col + TabStop) \div TabStop) * TabStop
  <2>1. screen' = VgaMoveTo(screen, stop, color)
    BY <1>1, <1>4, <1>7 DEF VgaPut
  <2>2. paper' = MoveTo(paper, (paper.col \div TabStop + 1) * TabStop)
    BY <1>4, <1>7 DEF VgaPutc, Tab
  <2>3. stop = (paper.col \div TabStop + 1) * TabStop /\ stop \in Nat
    BY <1>3, <1>4, NextTab
  <2> HIDE DEF stop
  <2> QED
    BY <1>1, <2>1, <2>2, <2>3, TailMove
<1>8. CASE char \in Chars
  <2> DEFINE t == Put(screen, char, color)
             q == Struck(paper, Entry(char, color))
  <2>1. t \in Screens /\ q \in Sheets /\ ShowsTail(t, q) /\ q.col = paper.col
    BY <1>1, <1>8, PutCells, StrikeMarks, TailStrike DEF Attributes, Entry, Marks
  <2>2. screen' = VgaMoveTo(t, screen.col + 1, color)
    BY <1>1, <1>4, <1>8 DEF VgaPut, Put
  <2>3. paper' = MoveTo(q, paper.col + 1)
    BY <1>1, <1>4, <1>8 DEF VgaPutc, Strike, Struck
  <2>4. screen.col + 1 \in Nat
    BY <1>3
  <2> HIDE DEF t, q
  <2> QED
    BY <1>1, <1>3, <2>1, <2>2, <2>3, <2>4, TailMove
<1> QED
  BY <1>5, <1>6, <1>7, <1>8

\* Each character the kernel's console is given.
LEMMA ConsoleStep ==
  ASSUME TextScreenAssumption, IInv, NEW char \in Chars \cup {"newline"}, ConsoleWrite(char)
  PROVE  IInv'
<1>1. /\ driver = "console" /\ driver' = driver /\ color' = color /\ color \in Colors
      /\ screen \in Screens /\ paper \in Sheets /\ KeepsHead(screen, paper)
      /\ screen' = ConsolePut(screen, char, color)
  BY DEF IInv, Shows, ConsoleWrite, Call
<1>2. SUFFICES screen' \in Screens /\ paper' \in Sheets /\ KeepsHead(screen', paper')
  BY <1>1 DEF IInv, Shows
<1>3. CASE char = "newline"
  <2>1. screen' = ConsoleNewline(screen) /\ paper' = Feed(paper)
    BY <1>1, <1>3 DEF ConsolePut, ConsoleWrite
  <2> QED
    BY <1>1, <2>1, HeadFeed, FeedMarks
<1>4. CASE char # "newline"
  <2> DEFINE d == IF char \in High THEN AllBits ELSE color
             t == Put(screen, char, d)
             q == Struck(paper, Entry(char, color))
  <2>1. /\ char \in Chars /\ d \in Attributes
        /\ ConsoleEntry(char, color) = Entry(char, d)
    BY <1>1, <1>4 DEF Attributes, ConsoleEntry, Entry
  <2> HIDE DEF d
  <2>2. /\ t \in Screens /\ q \in Sheets /\ KeepsHead(t, q)
        /\ q.col = paper.col /\ t.col = screen.col
    BY <1>1, <2>1, PutCells, StrikeMarks, HeadStrike DEF Entry, Marks
  <2>3. screen' = IF t.col + 1 = Width THEN ConsoleNewline(t) ELSE [t EXCEPT !.col = @ + 1]
    BY <1>1, <1>4, <2>1, <2>2 DEF ConsolePut, Put
  <2>4. paper' = MoveTo(q, q.col + 1)
    BY <1>4, <2>2 DEF ConsoleWrite, Strike, Struck
  <2> HIDE DEF t, q
  <2> QED
    BY <2>2, <2>3, <2>4, HeadMove
<1> QED
  BY <1>3, <1>4

\* Each step of either driver keeps the invariant.
LEMMA StepKeeps ==
  ASSUME TextScreenAssumption, IInv, [Next]_vars
  PROVE  IInv'
<1>1. CASE \E char \in Chars \cup {"newline", "return", "tab"} : VgaPutc(char)
  BY <1>1, VgaStep
<1>2. CASE \E c \in Colors : VgaSetColor(c)
  BY <1>2 DEF VgaSetColor, Call, IInv
<1>3. CASE VgaClear
  BY <1>3, ClearedShows DEF VgaClear, Call, IInv, Shows
<1>4. CASE \E char \in Chars \cup {"newline"} : ConsoleWrite(char)
  BY <1>4, ConsoleStep
<1>5. CASE UNCHANGED vars
  BY <1>5 DEF vars, IInv
<1> QED
  BY <1>1, <1>2, <1>3, <1>4, <1>5 DEF Next

\* What the invariant says of the first kernel's screen is TailShown.
LEMMA TailFollows ==
  ASSUME TextScreenAssumption, IInv
  PROVE  TailShown
  BY DEF IInv, Shows, ShowsTail, TailShown, CellOf, At, MarkOn, Mark, TopOf, Top, Columns

\* What it says of the kernel's console is HeadKept: a latest mark is the one
\* HeadKept chooses.
LEMMA HeadFollows ==
  ASSUME TextScreenAssumption, IInv
  PROVE  HeadKept
<1>1. SUFFICES ASSUME driver = "console" PROVE KeepsHead(screen, paper) => HeadKept
  BY DEF IInv, Shows, HeadKept
<1>2. SUFFICES ASSUME KeepsHead(screen, paper), NEW x \in 0 .. Width - 1
               PROVE  LET late == {n \in DOMAIN paper.rows :
                                     n >= Height /\ paper.rows[n][x] # Blank}
                      IN  Written(At(Height - 1, x),
                                 IF late = {} THEN Blank
                                 ELSE paper.rows[CHOOSE n \in late : \A m \in late : m <= n][x])
  BY DEF KeepsHead, HeadKept, CellOf, At, MarkOn, Mark, Columns
<1> DEFINE late == {n \in DOMAIN paper.rows : n >= Height /\ paper.rows[n][x] # Blank}
<1>3. DOMAIN paper.rows \subseteq Nat
  BY DEF IInv, Sheets
<1>4. CASE Unmarked(paper, x) /\ Written(CellOf(screen, Height - 1, x), Blank)
  <2>1. late = {}
    BY <1>3, <1>4 DEF Unmarked, MarkOn
  <2> QED
    BY <1>4, <2>1 DEF CellOf, At
<1>5. ASSUME NEW n \in Nat, Latest(paper, x, n),
             Written(CellOf(screen, Height - 1, x), MarkOn(paper, n, x))
      PROVE  /\ late # {}
             /\ Written(At(Height - 1, x),
                       paper.rows[CHOOSE k \in late : \A m \in late : m <= k][x])
  <2>1. n \in late /\ \A m \in late : m <= n
    BY <1>3, <1>5 DEF Latest, MarkOn
  <2>2. \A k \in late : (\A m \in late : m <= k) => k = n
    BY <1>3, <2>1
  <2> HIDE DEF late
  <2>3. (CHOOSE k \in late : \A m \in late : m <= k) = n
    BY <2>1, <2>2
  <2>4. n \in DOMAIN paper.rows
    BY <2>1 DEF late
  <2> QED
    BY <1>5, <2>1, <2>3, <2>4 DEF CellOf, At, MarkOn
<1> QED
  BY <1>2, <1>4, <1>5 DEF KeepsHead, Columns

\* Whatever is written, in whatever order, on a screen of whatever size: the
\* cursor stays on the screen, the first kernel's screen shows the end of the
\* text (vga.c), the kernel's console keeps its beginning (console.c), all of it
\* in the colours it was written in but the characters from 0x80 up on the
\* console, whose sign covers the colour (console.c:11).
THEOREM ScreenShowsText == Spec => []Inv
<1>1. Init => IInv
  BY TextScreenAssumption, ClearedShows DEF Init, IInv, Shows, TextScreenAssumption
<1>2. IInv /\ [Next]_vars => IInv'
  BY TextScreenAssumption, StepKeeps
<1>3. IInv => Inv
  <2>1. IInv => TypeOK
    BY DEF IInv, Screens, TypeOK, Columns
  <2> QED
    BY <2>1, TextScreenAssumption, TailFollows, HeadFollows DEF Inv
<1> QED
  BY <1>1, <1>2, <1>3, PTL DEF Spec
=============================================================================
