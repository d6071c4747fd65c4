------------------------- MODULE FramebufferProofs -------------------------
(***************************************************************************)
(* Proofs about the framebuffer renderer, for displays of every mode and   *)
(* size, lines of every length and slope, and every colour.                *)
(***************************************************************************)
EXTENDS Splash, FiniteSetTheorems, WellFoundedInduction, TLAPS

-----------------------------------------------------------------------------
(* Lines.                                                                  *)

\* The loop of draw_thick_line, after X steps across and Y down of a line that
\* takes DX and DY: what error is, and how far the pen is from the ideal line.
Error(DX, DY, X, Y) == DX - DY - X * DY + Y * DX
Close(DX, DY, X, Y) ==
  LET major == IF DX > DY THEN DX ELSE DY
  IN  2 * (X * DY - Y * DX) <= major /\ 2 * (Y * DX - X * DY) <= major

\* A factor that is not positive makes a product that is not.
LEMMA NoGain ==
  ASSUME NEW n \in Nat, NEW k \in Int, k <= 0
  PROVE  n * k <= 0
  OBVIOUS
LEMMA Gain ==
  ASSUME NEW n \in Nat, NEW k \in Int, k >= 1
  PROVE  n * k >= n
  OBVIOUS

\* One turn of the loop, on a line that is not steep: always one across, and
\* one down when the error asks for it.
LEMMA FlatTurn ==
  ASSUME NEW DX \in Nat, NEW DY \in Nat, DX >= DY,
         NEW X \in 0 .. DX, NEW Y \in 0 .. DY, ~(X = DX /\ Y = DY),
         Close(DX, DY, X, Y), NEW e \in Int, e = Error(DX, DY, X, Y)
  PROVE  /\ 2 * e >= -DY
         /\ X + 1 <= DX
         /\ 2 * e <= DX => /\ Y + 1 <= DY
                           /\ Close(DX, DY, X + 1, Y + 1)
                           /\ Error(DX, DY, X + 1, Y + 1) = e - DY + DX
         /\ ~(2 * e <= DX) => /\ Close(DX, DY, X + 1, Y)
                              /\ Error(DX, DY, X + 1, Y) = e - DY
<1> DEFINE A == X * DY
           B == Y * DX
<1>1. A \in Int /\ B \in Int /\ X \in Int /\ Y \in Int
  OBVIOUS
<1>2. (X + 1) * DY = A + DY /\ (Y + 1) * DX = B + DX
  BY <1>1
<1>3. e = DX - DY - A + B
  BY DEF Error
<1>4. 2 * (A - B) <= DX /\ 2 * (B - A) <= DX
  BY DEF Close
<1>5. X + 1 <= DX
  <2> SUFFICES ASSUME X = DX PROVE FALSE
    BY <1>1
  <2>1. DY - Y \in Int /\ DY - Y >= 1
    BY <1>1
  <2>2. DX * (DY - Y) >= DX
    BY <2>1, Gain
  <2>3. DX * (DY - Y) = A - B
    BY <1>1
  <2>4. DX = 0
    BY <1>1, <1>4, <2>2, <2>3
  <2> QED
    BY <2>1, <2>4
<1>6. ASSUME 2 * e <= DX PROVE Y + 1 <= DY
  <2> SUFFICES ASSUME Y = DY PROVE FALSE
    BY <1>1
  <2>1. X - DX + 1 \in Int /\ X - DX + 1 <= 0
    BY <1>1, <1>5
  <2>2. DY * (X - DX + 1) <= 0
    BY <2>1, NoGain
  <2>3. DY * (X - DX + 1) = A - B + DY
    BY <1>1
  <2>4. 2 * (DX - DY - A + B) <= DX
    BY <1>3, <1>6
  <2> QED
    BY <1>1, <1>5, <2>2, <2>3, <2>4
<1> HIDE DEF A, B
<1>7. 2 * e >= -DY
  BY <1>1, <1>3, <1>4
<1>8. 2 * e <= DX => /\ Close(DX, DY, X + 1, Y + 1)
                     /\ Error(DX, DY, X + 1, Y + 1) = e - DY + DX
  BY <1>1, <1>2, <1>3, <1>4 DEF Close, Error
<1>9. ~(2 * e <= DX) => /\ Close(DX, DY, X + 1, Y)
                        /\ Error(DX, DY, X + 1, Y) = e - DY
  BY <1>1, <1>2, <1>3, <1>4 DEF Close, Error, B
<1> QED
  BY <1>5, <1>6, <1>7, <1>8, <1>9

\* On a steep line the two directions change roles and error its sign.
LEMMA SteepTurn ==
  ASSUME NEW DX \in Nat, NEW DY \in Nat, DY >= DX,
         NEW X \in 0 .. DX, NEW Y \in 0 .. DY, ~(X = DX /\ Y = DY),
         Close(DX, DY, X, Y), NEW e \in Int, e = Error(DX, DY, X, Y)
  PROVE  /\ 2 * e <= DX
         /\ Y + 1 <= DY
         /\ 2 * e >= -DY => /\ X + 1 <= DX
                            /\ Close(DX, DY, X + 1, Y + 1)
                            /\ Error(DX, DY, X + 1, Y + 1) = e - DY + DX
         /\ ~(2 * e >= -DY) => /\ Close(DX, DY, X, Y + 1)
                               /\ Error(DX, DY, X, Y + 1) = e + DX
<1>1. \A U, V \in Int : /\ U * DY \in Int /\ V * DX \in Int
                        /\ Error(DY, DX, V, U) = -Error(DX, DY, U, V)
                        /\ Close(DX, DY, U, V) <=> Close(DY, DX, V, U)
  BY DEF Error, Close
<1>2. X \in Int /\ Y \in Int /\ X + 1 \in Int /\ Y + 1 \in Int /\ -e \in Int
  OBVIOUS
<1>3. Close(DY, DX, Y, X) /\ -e = Error(DY, DX, Y, X)
  BY <1>1, <1>2
<1>4. /\ 2 * (-e) >= -DX
      /\ Y + 1 <= DY
      /\ 2 * (-e) <= DY => /\ X + 1 <= DX
                           /\ Close(DY, DX, Y + 1, X + 1)
                           /\ Error(DY, DX, Y + 1, X + 1) = -e - DX + DY
      /\ ~(2 * (-e) <= DY) => /\ Close(DY, DX, Y + 1, X)
                              /\ Error(DY, DX, Y + 1, X) = -e - DX
  BY <1>2, <1>3, FlatTurn
<1>5. /\ Error(DX, DY, X + 1, Y + 1) = -Error(DY, DX, Y + 1, X + 1)
      /\ Error(DX, DY, X, Y + 1) = -Error(DY, DX, Y + 1, X)
      /\ Error(DY, DX, Y + 1, X + 1) \in Int /\ Error(DY, DX, Y + 1, X) \in Int
      /\ Error(DX, DY, X + 1, Y + 1) \in Int /\ Error(DX, DY, X, Y + 1) \in Int
  BY <1>1, <1>2 DEF Error
<1>6. /\ Close(DX, DY, X + 1, Y + 1) <=> Close(DY, DX, Y + 1, X + 1)
      /\ Close(DX, DY, X, Y + 1) <=> Close(DY, DX, Y + 1, X)
  BY <1>1, <1>2
<1>7. 2 * e <= DX /\ (2 * e >= -DY <=> 2 * (-e) <= DY)
  BY <1>4
<1> HIDE DEF Error, Close
<1> QED
  BY <1>4, <1>5, <1>6, <1>7

\* Where the pen of a line d has come, as steps from its start, and what the
\* loop keeps true of it.
Sign(a, b) == IF a < b THEN 1 ELSE -1
Across(d, p) == Sign(d.x, d.x1) * (p.x - d.x)
Down(d, p) == Sign(d.y, d.y1) * (p.y - d.y)
Tracked(d, p) ==
  LET DX == Abs(d.x1 - d.x)
      DY == Abs(d.y1 - d.y)
  IN  /\ p \in [x : Int, y : Int, error : Int]
      /\ Across(d, p) \in 0 .. DX /\ Down(d, p) \in 0 .. DY
      /\ p.error = Error(DX, DY, Across(d, p), Down(d, p))
      /\ Close(DX, DY, Across(d, p), Down(d, p))
Lines == [op : {"line"}, x : Nat, y : Nat, x1 : Nat, y1 : Nat, thickness : Nat]

LEMMA BeginsTracked ==
  ASSUME NEW d \in Lines
  PROVE  Tracked(d, [x |-> d.x, y |-> d.y, error |-> Abs(d.x1 - d.x) - Abs(d.y1 - d.y)])
<1> DEFINE DX == Abs(d.x1 - d.x)
           DY == Abs(d.y1 - d.y)
           p == [x |-> d.x, y |-> d.y, error |-> DX - DY]
<1>1. {d.x, d.y, d.x1, d.y1} \subseteq Nat /\ DX \in Nat /\ DY \in Nat
  BY DEF Lines, Abs
<1>2. Across(d, p) = 0 /\ Down(d, p) = 0
  BY <1>1 DEF Across, Down, Sign
<1> HIDE DEF DX, DY
<1>3. Error(DX, DY, 0, 0) = DX - DY /\ Close(DX, DY, 0, 0)
  BY <1>1 DEF Error, Close
<1>4. p \in [x : Int, y : Int, error : Int] /\ p.error = DX - DY
  BY <1>1
<1> QED
  BY <1>1, <1>2, <1>3, <1>4 DEF Tracked, DX, DY

LEMMA AdvanceTracked ==
  ASSUME NEW d \in Lines, NEW p, Tracked(d, p), ~(p.x = d.x1 /\ p.y = d.y1)
  PROVE  Tracked(d, Advance(d, p))
<1> DEFINE DX == Abs(d.x1 - d.x)
           DY == Abs(d.y1 - d.y)
           X == Across(d, p)
           Y == Down(d, p)
           e == p.error
           q == Advance(d, p)
<1>1. /\ {d.x, d.y, d.x1, d.y1} \subseteq Nat /\ DX \in Nat /\ DY \in Nat
      /\ p.x \in Int /\ p.y \in Int /\ e \in Int
      /\ X \in 0 .. DX /\ Y \in 0 .. DY /\ Close(DX, DY, X, Y) /\ e = Error(DX, DY, X, Y)
  BY DEF Lines, Abs, Tracked
<1>2. ~(X = DX /\ Y = DY)
  <2>1. X = DX => p.x = d.x1
    BY <1>1 DEF Across, Sign, Abs
  <2>2. Y = DY => p.y = d.y1
    BY <1>1 DEF Down, Sign, Abs
  <2> QED
    BY <2>1, <2>2
<1>3. /\ q.x = IF 2 * e >= -DY THEN p.x + Sign(d.x, d.x1) ELSE p.x
      /\ q.y = IF 2 * e <= DX THEN p.y + Sign(d.y, d.y1) ELSE p.y
      /\ q.error = e + (IF 2 * e >= -DY THEN -DY ELSE 0) + (IF 2 * e <= DX THEN DX ELSE 0)
      /\ q = [x |-> q.x, y |-> q.y, error |-> q.error]
  BY DEF Advance, Sign
<1>4. /\ Across(d, q) = IF 2 * e >= -DY THEN X + 1 ELSE X
      /\ Down(d, q) = IF 2 * e <= DX THEN Y + 1 ELSE Y
  BY <1>1, <1>3 DEF Across, Down, Sign
<1>5. q \in [x : Int, y : Int, error : Int]
  <2>1. q.x \in Int /\ q.y \in Int /\ q.error \in Int
    BY <1>1, <1>3 DEF Sign
  <2> QED
    BY <1>3, <2>1
<1> HIDE DEF DX, DY, X, Y, e, q
<1>6. /\ Across(d, q) \in 0 .. DX /\ Down(d, q) \in 0 .. DY
      /\ q.error = Error(DX, DY, Across(d, q), Down(d, q))
      /\ Close(DX, DY, Across(d, q), Down(d, q))
  <2>1. CASE DX >= DY
    BY <1>1, <1>2, <1>3, <1>4, <2>1, FlatTurn
  <2>2. CASE DY >= DX
    BY <1>1, <1>2, <1>3, <1>4, <2>2, SteepTurn
  <2> QED
    BY <1>1, <2>1, <2>2
<1> QED
  BY <1>5, <1>6 DEF Tracked, DX, DY, q

\* A tracked pen is as close to the line as LineStraight has it.
LEMMA TrackedStraight ==
  ASSUME NEW d \in Lines, NEW p, Tracked(d, p)
  PROVE  LET dx == d.x1 - d.x
             dy == d.y1 - d.y
             major == IF Abs(dx) > Abs(dy) THEN Abs(dx) ELSE Abs(dy)
         IN  /\ 2 * Abs(dx * (p.y - d.y) - dy * (p.x - d.x)) <= major
             /\ p.x \in (Lesser(d.x, d.x1) .. Lesser(d.x, d.x1) + Abs(dx))
             /\ p.y \in (Lesser(d.y, d.y1) .. Lesser(d.y, d.y1) + Abs(dy))
<1> DEFINE dx == d.x1 - d.x
           dy == d.y1 - d.y
           u == p.x - d.x
           v == p.y - d.y
           X == Across(d, p)
           Y == Down(d, p)
           major == IF Abs(dx) > Abs(dy) THEN Abs(dx) ELSE Abs(dy)
<1>1. /\ {d.x, d.y, d.x1, d.y1} \subseteq Nat /\ p.x \in Int /\ p.y \in Int
      /\ X \in 0 .. Abs(dx) /\ Y \in 0 .. Abs(dy) /\ Close(Abs(dx), Abs(dy), X, Y)
  BY DEF Lines, Tracked
<1>2. /\ dx \in Int /\ dy \in Int /\ u \in Int /\ v \in Int
      /\ Abs(dx) = Sign(d.x, d.x1) * dx /\ X = Sign(d.x, d.x1) * u
      /\ Abs(dy) = Sign(d.y, d.y1) * dy /\ Y = Sign(d.y, d.y1) * v
  BY <1>1 DEF Abs, Sign, Across, Down
<1>3. /\ p.x \in (Lesser(d.x, d.x1) .. Lesser(d.x, d.x1) + Abs(dx))
      /\ p.y \in (Lesser(d.y, d.y1) .. Lesser(d.y, d.y1) + Abs(dy))
  BY <1>1 DEF Abs, Lesser, Across, Down, Sign
<1>4. \/ Y * Abs(dx) - X * Abs(dy) = dx * v - dy * u
      \/ Y * Abs(dx) - X * Abs(dy) = -(dx * v - dy * u)
  <2>1. Sign(d.x, d.x1) \in {1, -1} /\ Sign(d.y, d.y1) \in {1, -1}
    BY DEF Sign
  <2> HIDE DEF dx, dy, u, v, X, Y
  <2> QED
    BY <1>2, <2>1
<1>5. /\ 2 * (X * Abs(dy) - Y * Abs(dx)) <= major
      /\ 2 * (Y * Abs(dx) - X * Abs(dy)) <= major
  BY <1>1 DEF Close
<1>6. /\ X * Abs(dy) \in Int /\ Y * Abs(dx) \in Int /\ dx * v \in Int /\ dy * u \in Int
      /\ major \in Int
  BY <1>1, <1>2 DEF Abs
<1>7. 2 * Abs(dx * v - dy * u) <= major
  <2> DEFINE R == dx * v - dy * u
             P == X * Abs(dy)
             Q == Y * Abs(dx)
  <2>1. R \in Int /\ P \in Int /\ Q \in Int /\ (Q - P = R \/ Q - P = -R)
    BY <1>4, <1>6
  <2>2. 2 * (P - Q) <= major /\ 2 * (Q - P) <= major
    BY <1>5
  <2> HIDE DEF R, P, Q, major
  <2>3. 2 * Abs(R) <= major
    BY <1>6, <2>1, <2>2 DEF Abs
  <2> QED
    BY <2>3 DEF R
<1> QED
  BY <1>3, <1>7

\* What a run keeps true of the line it draws.
LineInv ==
  /\ mode \in Modes
  /\ phase = "line" => drawing \in Lines /\ Tracked(drawing, pen)

LEMMA LineKept == ASSUME LineInv, [SplashNext]_splashVars PROVE LineInv'
<1> USE DEF LineInv
<1>1. CASE \E d \in Drawings[mode] : LineBegin(d)
  <2>1. PICK d \in Drawings[mode] : LineBegin(d)
    BY <1>1
  <2>2. d \in Lines
    BY <2>1, FramebufferAssumption DEF LineBegin, Calls, Lines
  <2> QED
    BY <2>1, <2>2, BeginsTracked DEF LineBegin
<1>2. CASE LineStep
  <2>1. ASSUME phase' = "line" PROVE ~(pen.x = drawing.x1 /\ pen.y = drawing.y1)
    BY <1>2, <2>1 DEF LineStep
  <2>2. ASSUME phase' = "line" PROVE Tracked(drawing, Advance(drawing, pen))
    BY <1>2, <2>1, <2>2, AdvanceTracked DEF LineStep
  <2> QED
    BY <1>2, <2>2 DEF LineStep
<1>3. CASE \E d \in Drawings[mode] : FillRect(d) \/ FillRoundedRect(d) \/ FillDisc(d)
  BY <1>3 DEF FillRect, FillRoundedRect, FillDisc, Fill
<1>4. CASE LocateGop \/ FramebufferInit \/ \E mapping \in Mappings : Rebase(mapping)
  BY <1>4 DEF LocateGop, FramebufferInit, Rebase
<1>5. CASE \E d \in Drawings[mode] : DrawBootSplash(d)
  BY <1>5 DEF DrawBootSplash
<1>6. CASE UNCHANGED splashVars
  BY <1>6 DEF splashVars, vars
<1> QED
  BY <1>1, <1>2, <1>3, <1>4, <1>5, <1>6 DEF SplashNext, Next

\* framebuffer.c:153-179: whatever its length and slope, and on a display of
\* any size, the pen of draw_thick_line keeps to the ideal line.
THEOREM StraightLines == Spec => []LineStraight
<1>1. SplashInit => LineInv
  BY DEF SplashInit, Init, LineInv
<1>2. LineInv => LineStraight
  BY TrackedStraight DEF LineInv, LineStraight
<1> QED
  BY <1>1, <1>2, LineKept, PTL DEF Spec
-----------------------------------------------------------------------------
(* Pixels.                                                                 *)

\* A sum of whole multiples and a remainder comes apart again.
LEMMA DivMod ==
  ASSUME NEW k \in Nat \ {0}, NEW q \in Nat, NEW r \in 0 .. k - 1
  PROVE  (q * k + r) \div k = q /\ (q * k + r) % k = r
<1> DEFINE n == q * k + r
           a == n \div k
           b == n % k
<1>1. n \in Nat /\ a \in Nat /\ b \in 0 .. k - 1 /\ n = a * k + b
  OBVIOUS
<1>2. (a - q) * k = r - b /\ a - q \in Int
  BY <1>1
<1>3. a - q = 0
  <2>1. ASSUME a - q >= 1 PROVE FALSE
    <3>1. k * (a - q) >= k
      BY <1>1, <2>1, Gain
    <3> QED
      BY <1>1, <1>2, <3>1
  <2>2. ASSUME a - q <= -1 PROVE FALSE
    <3>1. k * (q - a) >= k
      BY <1>1, <2>2, Gain
    <3> QED
      BY <1>1, <1>2, <3>1
  <2> QED
    BY <1>1, <2>1, <2>2
<1> QED
  BY <1>1, <1>2, <1>3

\* The smallest number of a set, which the shift of a mask is: what lies below
\* a number shrinks with it, and finite sets cannot shrink for ever.
LEMMA Smallest ==
  ASSUME NEW S \in SUBSET Nat, S # {}
  PROVE  MaskShift(S) \in S /\ \A a \in S : MaskShift(S) <= a
<1> DEFINE Below(x) == {y \in S : y <= x}
           Family == {Below(x) : x \in S}
<1>1. Family \subseteq FiniteSubsetsOf(Nat) /\ Family # {}
  <2>1. ASSUME NEW x \in S PROVE IsFiniteSet(Below(x)) /\ Below(x) \subseteq Nat
    <3>1. \A y \in Below(x) : y <= x
      OBVIOUS
    <3>2. Below(x) \in SUBSET Nat /\ x \in Nat
      OBVIOUS
    <3> QED
      BY <3>1, <3>2, FS_BoundedSetOfNaturals
  <2> QED
    BY <2>1 DEF FiniteSubsetsOf
<1> HIDE DEF Family
<1>2. PICK F \in Family : \A G \in Family : ~(<<G, F>> \in StrictSubsetOrdering(Nat))
  BY <1>1, FS_StrictSubsetOrderingWellFounded, WFMin
<1>3. PICK x \in S : F = Below(x)
  BY <1>2 DEF Family
<1>4. \A y \in S : x <= y
  <2> SUFFICES ASSUME NEW y \in S, ~(x <= y) PROVE FALSE
    OBVIOUS
  <2>1. x \in Nat /\ y \in Nat /\ y < x
    OBVIOUS
  <2>2. Below(y) \subseteq Below(x) /\ x \in Below(x) /\ x \notin Below(y)
    <3>1. x <= x /\ ~(x <= y) /\ \A z \in S : z <= y => z <= x
      BY <2>1
    <3> QED
      BY <3>1, Zenon
  <2>3. Below(y) \in Family /\ Below(x) \in SUBSET Nat /\ Below(y) \in SUBSET Nat
    BY DEF Family
  <2> HIDE DEF Below
  <2>4. <<Below(y), Below(x)>> \in StrictSubsetOrdering(Nat)
    BY <2>2, <2>3, Zenon DEF StrictSubsetOrdering
  <2> QED
    BY <1>2, <1>3, <2>3, <2>4
<1> QED
  BY <1>4 DEF MaskShift

\* What the renderer gets of a graphics mode it can draw in.
LEMMA Described ==
  ASSUME NEW m \in Modes, m.format # "none"
  PROVE  /\ Describe(m).width = m.width /\ m.width \in Nat
         /\ Describe(m).height = m.height /\ m.height \in Nat
         /\ Describe(m).address = m.base /\ m.base \in Nat
         /\ Describe(m).pitch = m.ppsl * 4 /\ m.ppsl \in Nat
         /\ Describe(m).bpp \div ByteBits = 4
         /\ \A c \in Components : Describe(m).shift[c] \in Nat
<1>1. {m.base, m.width, m.height, m.ppsl} \subseteq Nat /\ ByteBits \in Nat \ {0}
  BY FramebufferAssumption
<1>2. Describe(m).bpp \div ByteBits = 4
  <2>1. (4 * ByteBits + 0) \div ByteBits = 4
    BY <1>1, DivMod
  <2> QED
    BY <1>1, <2>1 DEF Describe, BytesPerPixel
<1>3. ASSUME NEW c \in Components PROVE Describe(m).shift[c] \in Nat
  <2>1. m.format \in {"rgb", "bgr", "mask", "blt"} /\ c \in 1 .. 3
    BY FramebufferAssumption, <1>3 DEF Components
  <2>2. (c - 1) * ByteBits \in Nat /\ (3 - c) * ByteBits \in Nat
    BY <1>1, <2>1
  <2>3. m.masks[c] \in SUBSET Nat
    <3>1. m.masks[c] \subseteq 0 .. 4 * ByteBits - 1
      BY <2>1, FramebufferAssumption
    <3> QED
      BY <3>1
  <2>4. MaskShift(m.masks[c]) \in Nat
    <3>1. CASE m.masks[c] = {}
      BY <3>1 DEF MaskShift
    <3>2. CASE m.masks[c] # {}
      BY <2>3, <3>2, Smallest
    <3> QED
      BY <3>1, <3>2
  <2>5. Describe(m).shift[c] = CASE m.format = "rgb" -> (c - 1) * ByteBits
                                 [] m.format = "bgr" -> (3 - c) * ByteBits
                                 [] m.format = "mask" -> MaskShift(m.masks[c])
                                 [] m.format = "blt" -> 0
    BY DEF Describe, Format
  <2> QED
    BY <2>1, <2>2, <2>4, <2>5
<1> QED
  BY <1>1, <1>2, <1>3 DEF Describe, BytesPerPixel

\* A byte of a packed colour is a byte.
LEMMA PackedByte ==
  ASSUME NEW f, \A c \in Components : f.shift[c] \in Nat, NEW k \in Nat
  PROVE  {b - k * ByteBits : b \in {a \in Pack(f) : a \div ByteBits = k}}
           \subseteq 0 .. ByteBits - 1
<1>1. Pack(f) \subseteq Nat
  BY FramebufferAssumption DEF Pack, Bits
<1>2. ASSUME NEW a \in Nat, a \div ByteBits = k PROVE a - k * ByteBits \in 0 .. ByteBits - 1
  BY <1>2, FramebufferAssumption
<1> QED
  BY <1>1, <1>2

\* The address of a byte of a visible pixel, and how it is taken apart again.
Visible(o) == \E p \in OnDisplay(fb), b \in 0 .. 3 : o = AddressOf(fb, p) + b
Usable ==
  /\ mode \in Modes /\ mode.format # "none" /\ fb = Describe(mode) /\ Fits(fb)
  /\ pixels \in Nat

LEMMA AddressParts ==
  ASSUME Usable, NEW p \in OnDisplay(fb), NEW b \in 0 .. 3
  PROVE  /\ AddressOf(fb, p) + b \in Nat
         /\ (AddressOf(fb, p) + b) - pixels = p[2] * fb.pitch + (p[1] * 4 + b)
         /\ p[1] * 4 + b \in 0 .. fb.width * 4 - 1
         /\ ((AddressOf(fb, p) + b) - pixels) \div fb.pitch = p[2]
         /\ ((AddressOf(fb, p) + b) - pixels) % fb.pitch = p[1] * 4 + b
         /\ PointOf(AddressOf(fb, p) + b) = p
<1>1. /\ fb.width \in Nat /\ fb.height \in Nat /\ fb.pitch \in Nat /\ pixels \in Nat
      /\ fb.bpp \div ByteBits = 4
  BY Described DEF Usable
<1>2. p[1] \in 0 .. fb.width - 1 /\ p[2] \in 0 .. fb.height - 1 /\ p = <<p[1], p[2]>>
  BY DEF OnDisplay
<1>3. fb.pitch >= fb.width * 4 /\ fb.width # 0
  BY <1>1 DEF Usable, Fits
<1>4. p[1] * 4 + b \in 0 .. fb.width * 4 - 1 /\ fb.pitch \in Nat \ {0}
  BY <1>1, <1>2, <1>3
<1>5. p[2] * fb.pitch \in Nat /\ p[2] \in Nat /\ p[1] * 4 + b \in 0 .. fb.pitch - 1
  BY <1>1, <1>2, <1>3, <1>4
<1>6. /\ AddressOf(fb, p) + b \in Nat
      /\ (AddressOf(fb, p) + b) - pixels = p[2] * fb.pitch + (p[1] * 4 + b)
  BY <1>1, <1>2, <1>5 DEF AddressOf
<1>7. /\ ((AddressOf(fb, p) + b) - pixels) \div fb.pitch = p[2]
      /\ ((AddressOf(fb, p) + b) - pixels) % fb.pitch = p[1] * 4 + b
  <2> DEFINE k == fb.pitch
             q == p[2]
             r == p[1] * 4 + b
  <2>1. k \in Nat \ {0} /\ q \in Nat /\ r \in 0 .. k - 1
    BY <1>4, <1>5
  <2> HIDE DEF k, q, r
  <2>2. (q * k + r) \div k = q /\ (q * k + r) % k = r
    BY <2>1, DivMod
  <2> QED
    BY <1>6, <2>2, Zenon DEF k, q, r
<1>8. (p[1] * 4 + b) \div 4 = p[1]
  BY <1>1, <1>2
<1>9. PointOf(AddressOf(fb, p) + b) = <<p[1], p[2]>>
  BY <1>7, <1>8 DEF PointOf, BytesPerPixel
<1> QED
  BY <1>2, <1>4, <1>6, <1>7, <1>9, Zenon

\* put_pixel writes the points it is given that are on the display, and bytes.
LEMMA Plotting ==
  ASSUME Usable, NEW scr, NEW points, NEW new, new = Plot(fb, scr, points)
  PROVE  /\ \A o \in DOMAIN new : \/ o \in DOMAIN scr /\ new[o] = scr[o]
                                  \/ Visible(o) /\ new[o] \subseteq 0 .. ByteBits - 1
         /\ DOMAIN scr = {} => {PointOf(o) : o \in DOMAIN new} = points \cap OnDisplay(fb)
<1> DEFINE starts == {AddressOf(fb, p) : p \in points \cap OnDisplay(fb)}
           bytes == 0 .. (fb.bpp \div ByteBits) - 1
           byte(k) == {b - k * ByteBits : b \in {a \in Pack(fb) : a \div ByteBits = k}}
           k(o) == CHOOSE b \in bytes : o - b \in starts
           written == {o + b : o \in starts, b \in bytes}
<1>1. new = [o \in DOMAIN scr \cup written |-> IF o \in written THEN byte(k(o)) ELSE scr[o]]
  BY DEF Plot
<1> HIDE DEF starts, bytes, byte, k, written
<1>2. bytes = 0 .. 3 /\ \A c \in Components : fb.shift[c] \in Nat
  BY Described DEF Usable, bytes
<1>3. ASSUME NEW o \in written PROVE Visible(o) /\ k(o) \in 0 .. 3
  <2>1. PICK s \in starts, b \in bytes : o = s + b
    BY DEF written
  <2>2. PICK p \in points \cap OnDisplay(fb) : s = AddressOf(fb, p)
    BY DEF starts
  <2>3. AddressOf(fb, p) \in Int
    BY <1>2, <2>2, Described DEF Usable, AddressOf, OnDisplay
  <2>4. o - b = s
    BY <1>2, <2>1, <2>2, <2>3
  <2>5. k(o) \in bytes
    BY <2>4 DEF k
  <2> QED
    BY <1>2, <2>1, <2>2, <2>5 DEF Visible
<1>4. DOMAIN new = DOMAIN scr \cup written
  BY <1>1
<1>5. ASSUME NEW o \in DOMAIN new
      PROVE  \/ o \in DOMAIN scr /\ new[o] = scr[o]
             \/ Visible(o) /\ new[o] \subseteq 0 .. ByteBits - 1
  <2>1. CASE o \in written
    <3>1. new[o] = byte(k(o)) /\ k(o) \in Nat
      BY <1>1, <1>3, <1>4, <2>1
    <3>2. byte(k(o)) \subseteq 0 .. ByteBits - 1
      BY <1>2, <3>1, PackedByte DEF byte
    <3> QED
      BY <1>3, <2>1, <3>1, <3>2
  <2>2. CASE o \notin written
    BY <1>1, <1>4, <2>2
  <2> QED
    BY <2>1, <2>2
<1>6. ASSUME DOMAIN scr = {}
      PROVE  {PointOf(o) : o \in DOMAIN new} = points \cap OnDisplay(fb)
  <2>1. ASSUME NEW o \in written PROVE PointOf(o) \in points \cap OnDisplay(fb)
    <3>1. PICK s \in starts, b \in bytes : o = s + b
      BY DEF written
    <3>2. PICK p \in points \cap OnDisplay(fb) : s = AddressOf(fb, p)
      BY DEF starts
    <3>3. PointOf(o) = p
      BY <1>2, <3>1, <3>2, AddressParts
    <3> QED
      BY <3>3
  <2>2. ASSUME NEW p \in points \cap OnDisplay(fb)
        PROVE  \E o \in written : PointOf(o) = p
    <3>1. AddressOf(fb, p) + 0 \in written
      <4>1. AddressOf(fb, p) \in starts /\ 0 \in bytes
        BY <1>2 DEF starts
      <4> QED
        BY <4>1 DEF written
    <3>2. PointOf(AddressOf(fb, p) + 0) = p
      BY AddressParts
    <3> QED
      BY <3>1, <3>2
  <2> QED
    BY <1>4, <1>6, <2>1, <2>2
<1> QED
  BY <1>5, <1>6

\* What holds of a run: the renderer has the mode's description, has checked it
\* before it draws, has written nothing before that, and bytes of visible
\* pixels since.
Surface ==
  /\ phase # "gop" => fb = IF mode.format = "none" THEN NoFb ELSE Describe(mode)
  /\ phase \in {"draw", "line", "done"} => Fits(fb) /\ pixels # 0
  /\ phase \in {"gop", "init", "draw", "rejected"} => DOMAIN screen = {}
  /\ \A o \in DOMAIN screen : Visible(o) /\ screen[o] \subseteq 0 .. ByteBits - 1
Types ==
  /\ phase \in {"gop", "init", "draw", "line", "done", "rejected"}
  /\ mode \in Modes
  /\ drawing.op = "none" \/ drawing \in Drawings[mode]
  /\ pen \in [x : Int, y : Int, error : Int]
  /\ pixels \in {0, mode.base} \cup Mappings
RunInv == LineInv /\ Types /\ Surface

LEMMA DrawingUsable ==
  ASSUME Types, Surface, phase \in {"draw", "line", "done"}
  PROVE  Usable
<1>1. mode \in Modes /\ fb = (IF mode.format = "none" THEN NoFb ELSE Describe(mode)) /\ Fits(fb)
  BY DEF Types, Surface
<1>2. NoFb.address = 0 /\ fb.address # 0
  BY <1>1 DEF NoFb, Fits
<1>3. mode.format # "none" /\ fb = Describe(mode)
  BY <1>1, <1>2
<1>4. pixels \in Nat
  <2>1. mode.base \in Nat /\ Mappings \subseteq Nat
    BY <1>1, <1>3, Described, FramebufferAssumption
  <2> QED
    BY <2>1 DEF Types
<1> QED
  BY <1>1, <1>3, <1>4 DEF Usable

LEMMA TypesKept == ASSUME RunInv, [SplashNext]_splashVars PROVE Types'
<1> USE DEF RunInv, Types
<1>1. CASE LocateGop
  BY <1>1 DEF LocateGop
<1>2. CASE FramebufferInit
  <2>1. fb.address \in {0, mode.base}
    BY <1>2 DEF Surface, FramebufferInit, NoFb, Describe
  <2> QED
    BY <1>2, <2>1 DEF FramebufferInit
<1>3. CASE \E mapping \in Mappings : Rebase(mapping)
  BY <1>3 DEF Rebase
<1>4. CASE \E d \in Drawings[mode] : FillRect(d) \/ FillRoundedRect(d) \/ FillDisc(d)
  BY <1>4 DEF FillRect, FillRoundedRect, FillDisc, Fill
<1>5. CASE \E d \in Drawings[mode] : LineBegin(d)
  <2>1. LineInv'
    BY LineKept
  <2> QED
    BY <1>5, <2>1 DEF LineBegin, LineInv, Tracked
<1>6. CASE LineStep
  <2>1. LineInv' /\ LineInv
    BY LineKept
  <2> QED
    BY <1>6, <2>1 DEF LineStep, LineInv, Tracked
<1>7. CASE \E d \in Drawings[mode] : DrawBootSplash(d)
  BY <1>7 DEF DrawBootSplash
<1>8. CASE UNCHANGED splashVars
  BY <1>8 DEF splashVars, vars
<1> QED
  BY <1>1, <1>2, <1>3, <1>4, <1>5, <1>6, <1>7, <1>8 DEF SplashNext, Next

\* A step that plots points on a surface that stays where it is.
LEMMA PlotKept ==
  ASSUME Types, Surface, phase \in {"draw", "line"}, phase' \in {"line", "done"},
         NEW points, screen' = Plot(fb, screen, points), UNCHANGED <<mode, fb, pixels>>
  PROVE  Surface'
<1>1. Usable
  BY DrawingUsable
<1>2. \A o \in DOMAIN screen' : \/ o \in DOMAIN screen /\ screen'[o] = screen[o]
                                \/ Visible(o) /\ screen'[o] \subseteq 0 .. ByteBits - 1
  BY <1>1, Plotting
<1>3. \A o : Visible(o)' <=> Visible(o)
  BY DEF Visible, OnDisplay, AddressOf
<1> QED
  BY <1>2, <1>3 DEF Surface

LEMMA SurfaceKept == ASSUME RunInv, [SplashNext]_splashVars PROVE Surface'
<1> USE DEF RunInv
<1>1. CASE LocateGop
  BY <1>1 DEF LocateGop, Surface
<1>2. CASE FramebufferInit
  BY <1>2 DEF FramebufferInit, Surface, Fits
<1>3. CASE \E mapping \in Mappings : Rebase(mapping)
  BY <1>3 DEF Rebase, Surface
<1>4. CASE \E d \in Drawings[mode] : FillRect(d) \/ FillRoundedRect(d) \/ FillDisc(d)
  BY <1>4, PlotKept DEF FillRect, FillRoundedRect, FillDisc, Fill
<1>5. CASE \E d \in Drawings[mode] : LineBegin(d)
  <2>1. \A o : Visible(o)' <=> Visible(o)
    BY <1>5 DEF LineBegin, Visible, OnDisplay, AddressOf
  <2> QED
    BY <1>5, <2>1 DEF LineBegin, Surface
<1>6. CASE LineStep
  BY <1>6, PlotKept DEF LineStep
<1>7. CASE \E d \in Drawings[mode] : DrawBootSplash(d)
  <2>1. \A o : Visible(o)' <=> Visible(o)
    BY <1>7 DEF DrawBootSplash, Visible, OnDisplay, AddressOf
  <2> QED
    BY <1>7, <2>1 DEF DrawBootSplash, Surface
<1>8. CASE UNCHANGED splashVars
  <2>1. \A o : Visible(o)' <=> Visible(o)
    BY <1>8 DEF splashVars, vars, Visible, OnDisplay, AddressOf
  <2> QED
    BY <1>8, <2>1 DEF splashVars, vars, Surface
<1> QED
  BY <1>1, <1>2, <1>3, <1>4, <1>5, <1>6, <1>7, <1>8 DEF SplashNext, Next

LEMMA RunSound == Spec => []RunInv
<1>1. SplashInit => RunInv
  BY DEF SplashInit, Init, RunInv, LineInv, Types, Surface
<1>2. RunInv /\ [SplashNext]_splashVars => RunInv'
  BY LineKept, TypesKept, SurfaceKept DEF RunInv
<1> QED
  BY <1>1, <1>2, PTL DEF Spec

\* framebuffer.c:49-66: whatever the mode of the display and wherever it is
\* mapped, no byte is written but those of visible pixels.
THEOREM VisibleOnly == Spec => []Inv
<1>1. RunInv => TypeOK
  <2> SUFFICES ASSUME RunInv, NEW o \in DOMAIN screen
               PROVE  o \in Nat /\ screen[o] \subseteq 0 .. ByteBits - 1
    BY DEF RunInv, Types, TypeOK
  <2>1. Usable /\ Visible(o) /\ screen[o] \subseteq 0 .. ByteBits - 1
    BY DrawingUsable DEF RunInv, Surface, Types
  <2> QED
    BY <2>1, AddressParts DEF Visible
<1>2. RunInv => OnlyVisible
  <2> SUFFICES ASSUME RunInv, NEW o \in DOMAIN screen
               PROVE  /\ o >= pixels /\ (o - pixels) \div (mode.ppsl * 4) < mode.height
                      /\ (o - pixels) % (mode.ppsl * 4) < mode.width * 4
    BY DEF OnlyVisible, BytesPerPixel
  <2>1. Usable /\ Visible(o)
    BY DrawingUsable DEF RunInv, Surface, Types
  <2>2. PICK p \in OnDisplay(fb), b \in 0 .. 3 : o = AddressOf(fb, p) + b
    BY <2>1 DEF Visible
  <2>3. /\ fb.pitch = mode.ppsl * 4 /\ fb.width = mode.width /\ fb.height = mode.height
        /\ fb.width \in Nat /\ fb.height \in Nat /\ fb.pitch \in Nat /\ pixels \in Nat
    BY <2>1, Described DEF Usable
  <2>4. p[2] \in 0 .. fb.height - 1 /\ p[2] * fb.pitch \in Nat
    BY <2>3 DEF OnDisplay
  <2>5. /\ o \in Nat /\ o - pixels = p[2] * fb.pitch + (p[1] * 4 + b)
        /\ p[1] * 4 + b \in 0 .. fb.width * 4 - 1
        /\ (o - pixels) \div fb.pitch = p[2] /\ (o - pixels) % fb.pitch = p[1] * 4 + b
    BY <2>1, <2>2, AddressParts
  <2> QED
    BY <2>3, <2>4, <2>5
<1> QED
  BY <1>1, <1>2, RunSound, PTL DEF Inv
-----------------------------------------------------------------------------
(* Shapes.                                                                 *)

LEMMA SquareMonotone ==
  ASSUME NEW t \in Nat, NEW s \in Int, -t <= s, s <= t
  PROVE  s * s <= t * t
<1>1. (t - s) * (t + s) >= 0
  <2> DEFINE a == t - s
             b == t + s
  <2>1. a \in Nat /\ b \in Nat
    OBVIOUS
  <2> HIDE DEF a, b
  <2>2. a * b >= 0
    BY <2>1
  <2> QED
    BY <2>2 DEF a, b
<1>2. (t - s) * (t + s) = t * t - s * s
  OBVIOUS
<1> QED
  BY <1>1, <1>2

LEMMA SquareBound ==
  ASSUME NEW t \in Nat, NEW s \in Int, s * s <= t * t
  PROVE  -t <= s /\ s <= t
<1>1. ASSUME NEW u \in Nat, u > t PROVE u * u > t * t
  <2>1. u * u = t * t + (u - t) * (u + t) /\ u - t >= 1 /\ u + t \in Nat /\ u + t >= 1
    BY <1>1
  <2>2. (u + t) * (u - t) >= u + t
    BY <2>1, Gain
  <2> QED
    BY <2>1, <2>2
<1>2. (-s) * (-s) = s * s
  OBVIOUS
<1> QED
  BY <1>1, <1>2

\* What the corners and the middle of a rounded rectangle come to: a point is
\* in it exactly if one of the inner rectangle is within the radius.
LEMMA RoundedNear ==
  ASSUME NEW w \in Nat, NEW h \in Nat, NEW r \in Nat, 2 * r < w, 2 * r < h,
         NEW x \in 0 .. w - 1, NEW y \in 0 .. h - 1, InRounded(x, y, w, h, r)
  PROVE  \E a \in r .. w - r - 1, b \in r .. h - r - 1 :
           (x - a) * (x - a) + (y - b) * (y - b) <= r * r
<1> DEFINE a == IF x < r THEN r ELSE IF x > w - r - 1 THEN w - r - 1 ELSE x
           b == IF y < r THEN r ELSE IF y > h - r - 1 THEN h - r - 1 ELSE y
<1>1. /\ a \in r .. w - r - 1 /\ b \in r .. h - r - 1
      /\ -r <= x - a /\ x - a <= r /\ -r <= y - b /\ y - b <= r
      /\ x - a \in Int /\ y - b \in Int
  OBVIOUS
<1>2. CASE r = 0 \/ x \in r .. w - r - 1
  <2>1. x - a = 0
    BY <1>2
  <2>2. (y - b) * (y - b) <= r * r
    BY <1>1, SquareMonotone
  <2>3. (x - a) * (x - a) = 0
    BY <2>1
  <2>4. (y - b) * (y - b) \in Int /\ r * r \in Int
    BY <1>1
  <2> HIDE DEF a, b
  <2>5. (x - a) * (x - a) + (y - b) * (y - b) <= r * r
    BY <2>2, <2>3, <2>4
  <2> QED
    BY <1>1, <2>5
<1>3. CASE y \in r .. h - r - 1
  <2>1. y - b = 0
    BY <1>3
  <2>2. (x - a) * (x - a) <= r * r
    BY <1>1, SquareMonotone
  <2>3. (y - b) * (y - b) = 0
    BY <2>1
  <2>4. (x - a) * (x - a) \in Int /\ r * r \in Int
    BY <1>1
  <2> HIDE DEF a, b
  <2>5. (x - a) * (x - a) + (y - b) * (y - b) <= r * r
    BY <2>2, <2>3, <2>4
  <2> QED
    BY <1>1, <2>5
<1>4. CASE ~(r = 0 \/ x \in r .. w - r - 1 \/ y \in r .. h - r - 1)
  <2>1. a = (IF x < r THEN r ELSE w - r - 1) /\ b = (IF y < r THEN r ELSE h - r - 1)
    BY <1>4
  <2> HIDE DEF a, b
  <2>2. (x - a) * (x - a) + (y - b) * (y - b) <= r * r
    BY <1>4, <2>1 DEF InRounded
  <2> QED
    BY <1>1, <2>2
<1> QED
  BY <1>2, <1>3, <1>4

LEMMA NearRounded ==
  ASSUME NEW w \in Nat, NEW h \in Nat, NEW r \in Nat, 2 * r < w, 2 * r < h,
         NEW x \in Int, NEW y \in Int,
         NEW a \in r .. w - r - 1, NEW b \in r .. h - r - 1,
         (x - a) * (x - a) + (y - b) * (y - b) <= r * r
  PROVE  x \in 0 .. w - 1 /\ y \in 0 .. h - 1 /\ InRounded(x, y, w, h, r)
<1>1. /\ (x - a) * (x - a) \in Int /\ (y - b) * (y - b) \in Int /\ r * r \in Int
      /\ x - a \in Int /\ y - b \in Int
  OBVIOUS
<1>2. (x - a) * (x - a) >= 0 /\ (y - b) * (y - b) >= 0
  <2>1. \A s \in Int : s * s >= 0
    OBVIOUS
  <2> QED
    BY <1>1, <2>1
<1>3. (x - a) * (x - a) <= r * r /\ (y - b) * (y - b) <= r * r
  BY <1>1, <1>2
<1>4. -r <= x - a /\ x - a <= r /\ -r <= y - b /\ y - b <= r
  BY <1>1, <1>3, SquareBound
<1>5. x \in 0 .. w - 1 /\ y \in 0 .. h - 1
  BY <1>4
<1>6. ASSUME x \notin r .. w - r - 1, y \notin r .. h - r - 1
      PROVE  InRounded(x, y, w, h, r)
  <2> DEFINE dx == x - (IF x < r THEN r ELSE w - r - 1)
             dy == y - (IF y < r THEN r ELSE h - r - 1)
  <2>1. ASSUME NEW s \in Int, NEW t \in Int, (t <= s /\ s <= 0) \/ (0 <= s /\ s <= t)
        PROVE  s * s <= t * t
    <3>1. CASE t <= s /\ s <= 0
      <4>1. -t \in Nat /\ -(-t) <= s /\ s <= -t /\ (-t) * (-t) = t * t
        BY <3>1
      <4> QED
        BY <4>1, SquareMonotone
    <3>2. CASE 0 <= s /\ s <= t
      BY <3>2, SquareMonotone
    <3> QED
      BY <2>1, <3>1, <3>2
  <2>2. /\ dx \in Int /\ ((x - a <= dx /\ dx <= 0) \/ (0 <= dx /\ dx <= x - a))
        /\ dy \in Int /\ ((y - b <= dy /\ dy <= 0) \/ (0 <= dy /\ dy <= y - b))
    BY <1>5, <1>6
  <2>3. dx * dx <= (x - a) * (x - a) /\ dy * dy <= (y - b) * (y - b)
    BY <1>1, <2>1, <2>2
  <2>4. dx * dx \in Int /\ dy * dy \in Int
    BY <2>2
  <2> HIDE DEF dx, dy
  <2>5. dx * dx + dy * dy <= r * r
    BY <1>1, <2>3, <2>4
  <2> QED
    BY <2>5 DEF InRounded, dx, dy
<1> QED
  BY <1>5, <1>6 DEF InRounded

\* A rounded rectangle is its own mirror image.
LEMMA RoundedMirror ==
  ASSUME NEW w \in Nat, NEW h \in Nat, NEW r \in Nat, 2 * r <= w, 2 * r <= h,
         NEW x \in 0 .. w - 1, NEW y \in 0 .. h - 1, InRounded(x, y, w, h, r)
  PROVE  InRounded(w - 1 - x, y, w, h, r) /\ InRounded(x, h - 1 - y, w, h, r)
<1> DEFINE across(u) == u - (IF u < r THEN r ELSE w - r - 1)
           down(v) == v - (IF v < r THEN r ELSE h - r - 1)
<1>1. CASE r = 0 \/ x \in r .. w - r - 1 \/ y \in r .. h - r - 1
  <2>1. /\ x \in r .. w - r - 1 => w - 1 - x \in r .. w - r - 1
        /\ y \in r .. h - r - 1 => h - 1 - y \in r .. h - r - 1
    OBVIOUS
  <2> QED
    BY <1>1, <2>1 DEF InRounded
<1>2. CASE ~(r = 0 \/ x \in r .. w - r - 1 \/ y \in r .. h - r - 1)
  <2>1. across(x) * across(x) + down(y) * down(y) <= r * r
    BY <1>2 DEF InRounded
  <2>2. across(w - 1 - x) = -across(x) /\ down(h - 1 - y) = -down(y)
    BY <1>2
  <2>3. across(x) \in Int /\ down(y) \in Int
    OBVIOUS
  <2>4. \A s \in Int : (-s) * (-s) = s * s
    OBVIOUS
  <2> HIDE DEF across, down
  <2>5. /\ across(w - 1 - x) * across(w - 1 - x) = across(x) * across(x)
        /\ down(h - 1 - y) * down(h - 1 - y) = down(y) * down(y)
    BY <2>2, <2>3, <2>4
  <2>6. /\ across(w - 1 - x) * across(w - 1 - x) + down(y) * down(y) <= r * r
        /\ across(x) * across(x) + down(h - 1 - y) * down(h - 1 - y) <= r * r
    BY <2>1, <2>5
  <2> QED
    BY <2>6 DEF InRounded, across, down
<1> QED
  BY <1>1, <1>2

\* Each filling function is done in one step, and leaves its points.
Points(d) ==
  CASE d.op = "rect" -> RectPoints(fb, d)
    [] d.op = "rounded" -> RoundedPoints(fb, d)
    [] d.op = "disc" -> DiscPoints(fb, d.x, d.y, d.r)
Covered ==
  phase = "done" /\ drawing.op \in {"rect", "rounded", "disc"} =>
    Written = Points(drawing) \cap OnDisplay(fb)

LEMMA CoveredKept == ASSUME RunInv, Covered, [SplashNext]_splashVars PROVE Covered'
<1> USE DEF RunInv
<1>1. CASE \E d \in Drawings[mode] : FillRect(d) \/ FillRoundedRect(d) \/ FillDisc(d)
  <2>1. PICK d \in Drawings[mode] : FillRect(d) \/ FillRoundedRect(d) \/ FillDisc(d)
    BY <1>1
  <2>2. Fill(d, Points(d)) /\ drawing' = d
    BY <2>1 DEF FillRect, FillRoundedRect, FillDisc, Fill, Points
  <2>3. DOMAIN screen = {} /\ Usable /\ screen' = Plot(fb, screen, Points(d)) /\ UNCHANGED <<fb, pixels>>
    BY <2>2, DrawingUsable DEF Fill, Surface
  <2>4. {PointOf(o) : o \in DOMAIN screen'} = Points(d) \cap OnDisplay(fb)
    BY <2>3, Plotting
  <2>5. Written' = {PointOf(o) : o \in DOMAIN screen'}
    BY <2>3 DEF Written, PointOf
  <2>6. Points(d)' = Points(d) /\ OnDisplay(fb)' = OnDisplay(fb)
    BY <2>3 DEF Points, RectPoints, RoundedPoints, DiscPoints, OnDisplay
  <2>7. Points(drawing)' = Points(d)
    BY <2>2, <2>3 DEF Points, RectPoints, RoundedPoints, DiscPoints
  <2> QED
    BY <2>4, <2>5, <2>6, <2>7 DEF Covered
<1>2. CASE LineStep
  BY <1>2 DEF LineStep, Covered, LineInv, Lines
<1>3. CASE \E d \in Drawings[mode] : LineBegin(d)
  BY <1>3 DEF LineBegin, Covered
<1>4. CASE LocateGop \/ FramebufferInit \/ \E mapping \in Mappings : Rebase(mapping)
  BY <1>4 DEF LocateGop, FramebufferInit, Rebase, Covered
<1>5. CASE \E d \in Drawings[mode] : DrawBootSplash(d)
  BY <1>5 DEF DrawBootSplash, Covered
<1>6. CASE UNCHANGED splashVars
  BY <1>6 DEF splashVars, vars, Covered, Written, PointOf, Points, RectPoints,
              RoundedPoints, DiscPoints, OnDisplay
<1> QED
  BY <1>1, <1>2, <1>3, <1>4, <1>5, <1>6 DEF SplashNext, Next

LEMMA PlainShape == ASSUME RunInv, Covered PROVE PlainExact
<1> SUFFICES ASSUME phase = "done", drawing.op \in {"rect", "disc"}
             PROVE  Written = Plane(drawing)
  BY DEF PlainExact
<1>1. Written = Points(drawing) \cap OnDisplay(fb) /\ drawing \in Calls
  BY FramebufferAssumption DEF Covered, RunInv, Types
<1>2. fb.width \in Nat /\ fb.height \in Nat
  BY DrawingUsable, Described DEF RunInv, Usable
<1>3. CASE drawing.op = "rect"
  <2>1. {drawing.x, drawing.y, drawing.w, drawing.h} \subseteq Nat
    BY <1>1, <1>3 DEF Calls
  <2>2. Points(drawing) \cap OnDisplay(fb) =
          {p \in OnDisplay(fb) : /\ p[1] >= drawing.x /\ p[1] - drawing.x < drawing.w
                                 /\ p[2] >= drawing.y /\ p[2] - drawing.y < drawing.h}
    BY <1>2, <1>3, <2>1 DEF Points, RectPoints, OnDisplay, Lesser
  <2> QED
    BY <1>1, <1>3, <2>2 DEF Plane
<1>4. CASE drawing.op = "disc"
  <2>1. {drawing.x, drawing.y, drawing.r} \subseteq Nat
    BY <1>1, <1>4 DEF Calls
  <2>2. ASSUME NEW p \in OnDisplay(fb),
               (p[1] - drawing.x) * (p[1] - drawing.x)
                 + (p[2] - drawing.y) * (p[2] - drawing.y) <= drawing.r * drawing.r
        PROVE  p \in DiscPoints(fb, drawing.x, drawing.y, drawing.r)
    <3> DEFINE dx == p[1] - drawing.x
               dy == p[2] - drawing.y
               r == drawing.r
    <3>1. /\ dx \in Int /\ dy \in Int /\ r \in Nat
          /\ p[1] \in 0 .. fb.width - 1 /\ p[2] \in 0 .. fb.height - 1 /\ p = <<p[1], p[2]>>
      BY <1>2, <2>1 DEF OnDisplay
    <3> HIDE DEF dx, dy, r
    <3>2. dx * dx + dy * dy <= r * r
      BY <2>2 DEF dx, dy, r
    <3>3. dx * dx >= 0 /\ dy * dy >= 0 /\ dx * dx \in Int /\ dy * dy \in Int /\ r * r \in Int
      BY <3>1
    <3>4. dx * dx <= r * r /\ dy * dy <= r * r
      BY <3>2, <3>3
    <3>5. -r <= dx /\ dx <= r /\ -r <= dy /\ dy <= r
      BY <3>1, <3>4, SquareBound
    <3>6. p \in ((IF drawing.x > r THEN drawing.x - r ELSE 0) .. Lesser(fb.width, drawing.x + r + 1) - 1) \X
              ((IF drawing.y > r THEN drawing.y - r ELSE 0) .. Lesser(fb.height, drawing.y + r + 1) - 1)
      BY <1>2, <2>1, <3>1, <3>5 DEF Lesser, dx, dy
    <3> QED
      BY <2>2, <3>6 DEF DiscPoints, r
  <2>3. Points(drawing) \cap OnDisplay(fb) =
          {p \in OnDisplay(fb) : (p[1] - drawing.x) * (p[1] - drawing.x)
             + (p[2] - drawing.y) * (p[2] - drawing.y) <= drawing.r * drawing.r}
    <3>1. Points(drawing) = DiscPoints(fb, drawing.x, drawing.y, drawing.r)
      BY <1>4 DEF Points
    <3> QED
      BY <2>2, <3>1 DEF DiscPoints
  <2> QED
    BY <1>1, <1>4, <2>3 DEF Plane
<1> QED
  BY <1>3, <1>4

\* The points of a rounded rectangle that lies within the display.
LEMMA RoundedWhole ==
  ASSUME RunInv, Covered, phase = "done", drawing.op = "rounded",
         drawing.x + drawing.w <= fb.width, drawing.y + drawing.h <= fb.height,
         NEW r, r = Lesser(drawing.r, Lesser(drawing.w \div 2, drawing.h \div 2))
  PROVE  /\ {drawing.x, drawing.y, drawing.w, drawing.h, drawing.r, fb.width, fb.height} \subseteq Nat
         /\ r \in Nat /\ 2 * r <= drawing.w /\ 2 * r <= drawing.h
         /\ \A p : p \in Written <=>
              \E x \in 0 .. drawing.w - 1, y \in 0 .. drawing.h - 1 :
                p = <<drawing.x + x, drawing.y + y>> /\ InRounded(x, y, drawing.w, drawing.h, r)
<1> DEFINE w == drawing.w
           h == drawing.h
<1>1. Written = Points(drawing) \cap OnDisplay(fb) /\ drawing \in Calls
  BY FramebufferAssumption DEF Covered, RunInv, Types
<1>2. fb.width \in Nat /\ fb.height \in Nat
  BY DrawingUsable, Described DEF RunInv, Usable
<1>3. {drawing.x, drawing.y, w, h, drawing.r} \subseteq Nat
  BY <1>1 DEF Calls
<1>4. r \in Nat /\ 2 * r <= w /\ 2 * r <= h
  BY <1>3 DEF Lesser
<1>5. CASE drawing.x >= fb.width \/ drawing.y >= fb.height
  <2>1. (w = 0 \/ h = 0) /\ Points(drawing) = {}
    BY <1>2, <1>3, <1>5 DEF Points, RoundedPoints
  <2> QED
    BY <1>1, <1>2, <1>3, <1>4, <2>1
<1>6. CASE ~(drawing.x >= fb.width \/ drawing.y >= fb.height)
  <2>1. Lesser(w, fb.width - drawing.x) = w /\ Lesser(h, fb.height - drawing.y) = h
    BY <1>2, <1>3 DEF Lesser
  <2>2. Points(drawing) = {<<drawing.x + q[1], drawing.y + q[2]>> :
           q \in {q \in (0 .. w - 1) \X (0 .. h - 1) : InRounded(q[1], q[2], w, h, r)}}
    BY <1>6, <2>1 DEF Points, RoundedPoints
  <2>3. ASSUME NEW x \in 0 .. w - 1, NEW y \in 0 .. h - 1
        PROVE  <<drawing.x + x, drawing.y + y>> \in OnDisplay(fb)
    BY <1>2, <1>3 DEF OnDisplay
  <2>4. ASSUME NEW p \in Written
        PROVE  \E x \in 0 .. w - 1, y \in 0 .. h - 1 :
                 p = <<drawing.x + x, drawing.y + y>> /\ InRounded(x, y, w, h, r)
    BY <1>1, <2>2
  <2>5. ASSUME NEW x \in 0 .. w - 1, NEW y \in 0 .. h - 1, InRounded(x, y, w, h, r)
        PROVE  <<drawing.x + x, drawing.y + y>> \in Written
    <3>1. <<x, y>> \in {q \in (0 .. w - 1) \X (0 .. h - 1) : InRounded(q[1], q[2], w, h, r)}
      BY <2>5
    <3>2. <<drawing.x + x, drawing.y + y>> \in Points(drawing)
      BY <2>2, <3>1
    <3> QED
      BY <1>1, <2>3, <3>2
  <2> QED
    BY <1>2, <1>3, <1>4, <2>4, <2>5
<1> QED
  BY <1>5, <1>6

LEMMA RoundedShape == ASSUME RunInv, Covered PROVE RoundedEven
<1> DEFINE d == drawing
           w == d.w
           h == d.h
           r == Lesser(d.r, Lesser(w \div 2, h \div 2))
<1> SUFFICES ASSUME phase = "done", drawing.op = "rounded",
                    d.x + w <= fb.width, d.y + h <= fb.height
             PROVE  /\ \A p \in Written : /\ <<2 * d.x + w - 1 - p[1], p[2]>> \in Written
                                          /\ <<p[1], 2 * d.y + h - 1 - p[2]>> \in Written
                    /\ 2 * d.r < w /\ 2 * d.r < h =>
                         Written = {p \in OnDisplay(fb) :
                           \E a \in d.x + d.r .. d.x + w - d.r - 1,
                              b \in d.y + d.r .. d.y + h - d.r - 1 :
                             (p[1]-a) * (p[1]-a) + (p[2]-b) * (p[2]-b) <= d.r * d.r}
  BY DEF RoundedEven
<1>1. /\ {d.x, d.y, w, h, d.r, fb.width, fb.height} \subseteq Nat
      /\ r \in Nat /\ 2 * r <= w /\ 2 * r <= h
      /\ \A p : p \in Written <=>
           \E x \in 0 .. w - 1, y \in 0 .. h - 1 :
             p = <<d.x + x, d.y + y>> /\ InRounded(x, y, w, h, r)
  BY RoundedWhole
<1> HIDE DEF r
<1>2. ASSUME NEW p \in Written
      PROVE  /\ <<2 * d.x + w - 1 - p[1], p[2]>> \in Written
             /\ <<p[1], 2 * d.y + h - 1 - p[2]>> \in Written
  <2>1. PICK x \in 0 .. w - 1, y \in 0 .. h - 1 :
          p = <<d.x + x, d.y + y>> /\ InRounded(x, y, w, h, r)
    BY <1>1
  <2>2. InRounded(w - 1 - x, y, w, h, r) /\ InRounded(x, h - 1 - y, w, h, r)
    BY <1>1, <2>1, RoundedMirror
  <2>3. /\ w - 1 - x \in 0 .. w - 1 /\ h - 1 - y \in 0 .. h - 1
        /\ 2 * d.x + w - 1 - p[1] = d.x + (w - 1 - x) /\ p[2] = d.y + y
        /\ 2 * d.y + h - 1 - p[2] = d.y + (h - 1 - y) /\ p[1] = d.x + x
    BY <1>1, <2>1
  <2>4. /\ <<d.x + (w - 1 - x), d.y + y>> \in Written
        /\ <<d.x + x, d.y + (h - 1 - y)>> \in Written
    BY <1>1, <2>2, <2>3
  <2> QED
    BY <2>3, <2>4
<1>3. ASSUME 2 * d.r < w, 2 * d.r < h
      PROVE  Written = {p \in OnDisplay(fb) :
               \E a \in d.x + d.r .. d.x + w - d.r - 1, b \in d.y + d.r .. d.y + h - d.r - 1 :
                 (p[1]-a) * (p[1]-a) + (p[2]-b) * (p[2]-b) <= d.r * d.r}
  <2>1. r = d.r
    BY <1>1, <1>3 DEF r, Lesser
  <2>2. ASSUME NEW p \in Written
        PROVE  /\ p \in OnDisplay(fb)
               /\ \E a \in d.x + d.r .. d.x + w - d.r - 1, b \in d.y + d.r .. d.y + h - d.r - 1 :
                    (p[1]-a) * (p[1]-a) + (p[2]-b) * (p[2]-b) <= d.r * d.r
    <3>1. PICK x \in 0 .. w - 1, y \in 0 .. h - 1 :
            p = <<d.x + x, d.y + y>> /\ InRounded(x, y, w, h, d.r)
      BY <1>1, <2>1
    <3>2. PICK a \in d.r .. w - d.r - 1, b \in d.r .. h - d.r - 1 :
            (x - a) * (x - a) + (y - b) * (y - b) <= d.r * d.r
      <4>1. w \in Nat /\ h \in Nat /\ d.r \in Nat
        BY <1>1
      <4> HIDE DEF w, h, d
      <4> QED
        BY <1>3, <3>1, <4>1, RoundedNear
    <3>3. /\ p[1] - (d.x + a) = x - a /\ p[2] - (d.y + b) = y - b
          /\ d.x + a \in d.x + d.r .. d.x + w - d.r - 1
          /\ d.y + b \in d.y + d.r .. d.y + h - d.r - 1
      BY <1>1, <3>1
    <3>4. (p[1] - (d.x + a)) * (p[1] - (d.x + a)) + (p[2] - (d.y + b)) * (p[2] - (d.y + b))
            <= d.r * d.r
      BY <3>2, <3>3
    <3>5. p \in OnDisplay(fb)
      BY <1>1, <3>1 DEF OnDisplay
    <3> QED
      BY <3>3, <3>4, <3>5
  <2>3. ASSUME NEW p \in OnDisplay(fb),
               NEW a \in d.x + d.r .. d.x + w - d.r - 1, NEW b \in d.y + d.r .. d.y + h - d.r - 1,
               (p[1]-a) * (p[1]-a) + (p[2]-b) * (p[2]-b) <= d.r * d.r
        PROVE  p \in Written
    <3> DEFINE x == p[1] - d.x
               y == p[2] - d.y
    <3>1. /\ x \in Int /\ y \in Int /\ p = <<d.x + x, d.y + y>>
          /\ a - d.x \in d.r .. w - d.r - 1 /\ b - d.y \in d.r .. h - d.r - 1
          /\ x - (a - d.x) = p[1] - a /\ y - (b - d.y) = p[2] - b
      BY <1>1 DEF OnDisplay
    <3> HIDE DEF x, y
    <3>2. (x - (a - d.x)) * (x - (a - d.x)) + (y - (b - d.y)) * (y - (b - d.y)) <= d.r * d.r
      BY <2>3, <3>1
    <3>3. x \in 0 .. w - 1 /\ y \in 0 .. h - 1 /\ InRounded(x, y, w, h, d.r)
      BY <1>1, <1>3, <3>1, <3>2, NearRounded
    <3> QED
      BY <1>1, <2>1, <3>1, <3>3
  <2> QED
    BY <2>2, <2>3
<1> QED
  BY <1>2, <1>3

\* framebuffer.c:68-151: on a display of any size a finished rectangle, disc or
\* rounded rectangle covers exactly the points it should.
THEOREM ShapesExact == Spec => []ShapeExact
<1>1. SplashInit => RunInv /\ Covered
  BY DEF SplashInit, Init, RunInv, LineInv, Types, Surface, Covered
<1>2. RunInv /\ Covered => ShapeExact
  BY PlainShape, RoundedShape DEF ShapeExact
<1> QED
  BY <1>1, <1>2, RunSound, CoveredKept, PTL DEF Spec
-----------------------------------------------------------------------------
(* The boot splash.                                                        *)

\* Division keeps order, and a quotient stays below a bound.
LEMMA DivParts ==
  ASSUME NEW n \in Nat \ {0}, NEW a \in Nat
  PROVE  /\ a \div n \in Nat /\ a % n \in 0 .. n - 1
         /\ n * (a \div n) <= a /\ a < n * (a \div n) + n
<1>1. a = n * (a \div n) + (a % n) /\ a % n \in 0 .. n - 1 /\ a \div n \in Nat
  OBVIOUS
<1>2. n * (a \div n) \in Nat
  BY <1>1
<1> QED
  BY <1>1, <1>2

LEMMA DivOrder ==
  ASSUME NEW n \in Nat \ {0}, NEW a \in Nat, NEW b \in Nat, a <= b
  PROVE  a \div n \in Nat /\ a \div n <= b \div n
<1> DEFINE q == a \div n
           p == b \div n
<1>1. q \in Nat /\ n * q <= a /\ p \in Nat /\ b < n * p + n
  BY DivParts
<1> HIDE DEF q, p
<1>2. ASSUME q > p PROVE FALSE
  <2>1. n * (q - p) >= n
    BY <1>1, <1>2, Gain
  <2>2. n * (q - p) = n * q - n * p /\ n * q \in Int /\ n * p \in Int
    BY <1>1
  <2> QED
    BY <1>1, <2>1, <2>2
<1> QED
  BY <1>1, <1>2 DEF q, p

LEMMA DivBelow ==
  ASSUME NEW n \in Nat \ {0}, NEW a \in Nat, NEW k \in Nat, a < n * k
  PROVE  a \div n \in Nat /\ a \div n < k
<1> DEFINE q == a \div n
<1>1. q \in Nat /\ n * q <= a
  BY DivParts
<1> HIDE DEF q
<1>2. ASSUME q >= k PROVE FALSE
  <2>1. n * (k - q) <= 0
    BY <1>1, <1>2, NoGain
  <2>2. n * (k - q) = n * k - n * q /\ n * q \in Int /\ n * k \in Int
    BY <1>1
  <2> QED
    BY <1>1, <2>1, <2>2
<1> QED
  BY <1>1, <1>2 DEF q

\* Joining sequences.
Joins(S, s, t, r) ==
  /\ r \in Seq(S) /\ Len(r) = Len(s) + Len(t)
  /\ \A i \in 1 .. Len(s) : r[i] = s[i]
  /\ \A i \in 1 .. Len(t) : r[Len(s) + i] = t[i]
LEMMA Concat ==
  ASSUME NEW S, NEW s \in Seq(S), NEW t \in Seq(S)
  PROVE  Joins(S, s, t, s \o t)
  BY DEF Joins
Parts(a, b, c, d, e, s) ==
  /\ Len(s) = 17 /\ DOMAIN s = 1 .. 17
  /\ \A i \in 1 .. 6 : s[i] = a[i]
  /\ \A i \in 1 .. 3 : s[6+i] = b[i]
  /\ \A i \in 1 .. 2 : s[9+i] = c[i]
  /\ \A i \in 1 .. 4 : s[11+i] = d[i]
  /\ \A i \in 1 .. 2 : s[15+i] = e[i]
LEMMA Joined ==
  ASSUME NEW S, NEW a \in Seq(S), NEW b \in Seq(S), NEW c \in Seq(S), NEW d \in Seq(S), NEW e \in Seq(S),
         Len(a) = 6, Len(b) = 3, Len(c) = 2, Len(d) = 4, Len(e) = 2
  PROVE  Parts(a, b, c, d, e, a \o (b \o c \o d \o e))
<1> DEFINE t == b \o c
           u == t \o d
           v == u \o e
           s == a \o v
<1>1. /\ t \in Seq(S) /\ Len(t) = 5
      /\ \A i \in 1 .. 3 : t[i] = b[i]
      /\ \A i \in 1 .. 2 : t[3+i] = c[i]
  <2>1. Joins(S, b, c, t)
    BY Concat
  <2> HIDE DEF t
  <2> QED
    BY <2>1 DEF Joins
<1> HIDE DEF t
<1>2. /\ u \in Seq(S) /\ Len(u) = 9
      /\ \A i \in 1 .. 5 : u[i] = t[i]
      /\ \A i \in 1 .. 4 : u[5+i] = d[i]
  <2>1. Joins(S, t, d, u)
    BY <1>1, Concat
  <2> HIDE DEF u
  <2> QED
    BY <1>1, <2>1 DEF Joins
<1> HIDE DEF u
<1>3. /\ v \in Seq(S) /\ Len(v) = 11
      /\ \A i \in 1 .. 9 : v[i] = u[i]
      /\ \A i \in 1 .. 2 : v[9+i] = e[i]
  <2>1. Joins(S, u, e, v)
    BY <1>2, Concat
  <2> HIDE DEF v
  <2> QED
    BY <1>2, <2>1 DEF Joins
<1> HIDE DEF v
<1>4. /\ s \in Seq(S) /\ Len(s) = 17
      /\ \A i \in 1 .. 6 : s[i] = a[i]
      /\ \A i \in 1 .. 11 : s[6+i] = v[i]
  <2>1. Joins(S, a, v, s)
    BY <1>3, Concat
  <2> HIDE DEF s
  <2> QED
    BY <1>3, <2>1 DEF Joins
<1> HIDE DEF s
<1>5. \A i \in 1 .. 3 : s[6+i] = b[i]
  <2> TAKE i \in 1 .. 3
  <2>1. i \in 1 .. 5 /\ i \in 1 .. 9 /\ i \in 1 .. 11
    OBVIOUS
  <2>2. s[6+i] = v[i] /\ v[i] = u[i] /\ u[i] = t[i] /\ t[i] = b[i]
    BY <2>1, <1>1, <1>2, <1>3, <1>4
  <2> QED
    BY <2>2
<1>6. \A i \in 1 .. 2 : s[9+i] = c[i]
  <2> TAKE i \in 1 .. 2
  <2>1. 3 + i \in 1 .. 5 /\ 3 + i \in 1 .. 9 /\ 3 + i \in 1 .. 11 /\ 6 + (3 + i) = 9 + i
    OBVIOUS
  <2>2. s[6 + (3 + i)] = v[3+i] /\ v[3+i] = u[3+i] /\ u[3+i] = t[3+i] /\ t[3+i] = c[i]
    BY <2>1, <1>1, <1>2, <1>3, <1>4
  <2> QED
    BY <2>1, <2>2
<1>7. \A i \in 1 .. 4 : s[11+i] = d[i]
  <2> TAKE i \in 1 .. 4
  <2>1. 5 + i \in 1 .. 9 /\ 5 + i \in 1 .. 11 /\ 6 + (5 + i) = 11 + i
    OBVIOUS
  <2>2. s[6 + (5 + i)] = v[5+i] /\ v[5+i] = u[5+i] /\ u[5+i] = d[i]
    BY <2>1, <1>2, <1>3, <1>4
  <2> QED
    BY <2>1, <2>2
<1>8. \A i \in 1 .. 2 : s[15+i] = e[i]
  <2> TAKE i \in 1 .. 2
  <2>1. 9 + i \in 1 .. 11 /\ 6 + (9 + i) = 15 + i
    OBVIOUS
  <2>2. s[6 + (9 + i)] = v[9+i] /\ v[9+i] = e[i]
    BY <2>1, <1>3, <1>4
  <2> QED
    BY <2>1, <2>2
<1>9. DOMAIN s = 1 .. 17
  BY <1>4
<1> QED
  BY <1>4, <1>5, <1>6, <1>7, <1>8, <1>9 DEF s, t, u, v, Parts

LEMMA Listing ==
  ASSUME NEW S, NEW n \in Nat, NEW s \in [1 .. n -> S]
  PROVE  s \in Seq(S) /\ Len(s) = n
  OBVIOUS
\* Tuples are sequences.
LEMMA Pair ==
  ASSUME NEW S, NEW a \in S, NEW b \in S
  PROVE  <<a, b>> \in Seq(S) /\ Len(<<a, b>>) = 2 /\ <<a, b>>[1] = a /\ <<a, b>>[2] = b
  OBVIOUS
LEMMA Triple ==
  ASSUME NEW S, NEW a \in S, NEW b \in S, NEW c \in S
  PROVE  /\ <<a, b, c>> \in Seq(S) /\ Len(<<a, b, c>>) = 3
         /\ <<a, b, c>>[1] = a /\ <<a, b, c>>[2] = b /\ <<a, b, c>>[3] = c
  OBVIOUS
LEMMA Sextuple ==
  ASSUME NEW S, NEW a \in S, NEW b \in S, NEW c \in S, NEW d \in S, NEW e \in S, NEW g \in S
  PROVE  LET t == <<a, b, c, d, e, g>>
         IN  /\ t \in Seq(S) /\ Len(t) = 6
             /\ t[1] = a /\ t[2] = b /\ t[3] = c /\ t[4] = d /\ t[5] = e /\ t[6] = g
  OBVIOUS

\* The calls of a picture, one by one.
Picture(f, c, p) == Backdrop(f, c) \o Content(c, p)
Rail(c, p, k) == Rounded(c.x + 36 + k * ((c.w - 96) \div 4 + 8), c.y + c.h - 82,
                         (c.w - 96) \div 4, 7, 3, IF k < p THEN "cyan" ELSE "dim")
Middle(c) == c.x + c.w \div 2
LogoAt(c) == c.y + c.h \div 4
Listed(f, c, p, s) ==
  /\ DOMAIN s = 1 .. 17
  /\ s[1] = [op |-> "background", x |-> 0, y |-> 0, w |-> f.width, h |-> f.height]
  /\ s[2] = Disc(c.x + 72, c.y + 54, 46) /\ s[3] = Disc(c.x + c.w - 80, c.y + c.h - 52, 58)
  /\ s[4] = Rounded(c.x + 8, c.y + 12, c.w, c.h, 28, "shadow")
  /\ s[5] = Rounded(c.x, c.y, c.w, c.h, 28, "card")
  /\ s[6] = Rounded(c.x + 1, c.y + 1, c.w - 2, 2, 1, "edge")
  /\ s[7] = Line(Middle(c) - 42, LogoAt(c) + 38, Middle(c), LogoAt(c) - 42, 12)
  /\ s[8] = Line(Middle(c), LogoAt(c) - 42, Middle(c) + 42, LogoAt(c) + 38, 12)
  /\ s[9] = Line(Middle(c) - 23, LogoAt(c) + 8, Middle(c) + 23, LogoAt(c) + 8, 9)
  /\ s[10] = DrawCentered(Middle(c), c.y + c.h \div 2 - 20, "AURELIAN", 5)
  /\ s[11] = DrawCentered(Middle(c), c.y + c.h \div 2 + 24, "PRISM BOOT CANVAS", 2)
  /\ \A k \in 0 .. 3 : s[12 + k] = Rail(c, p, k)
  /\ s[16] = DrawCentered(Middle(c), c.y + c.h - 82 + 26, Caption(p), 2)
  /\ s[17] = DrawCentered(Middle(c), c.y + c.h - 28, "AURELION 0.0.1", 1)
LEMMA PictureListed ==
  ASSUME NEW f, NEW c, NEW p
  PROVE  Listed(f, c, p, Picture(f, c, p)) /\ Len(Backdrop(f, c)) = 6
<1> DEFINE a1 == [op |-> "background", x |-> 0, y |-> 0, w |-> f.width, h |-> f.height]
           a2 == Disc(c.x + 72, c.y + 54, 46)
           a3 == Disc(c.x + c.w - 80, c.y + c.h - 52, 58)
           a4 == Rounded(c.x + 8, c.y + 12, c.w, c.h, 28, "shadow")
           a5 == Rounded(c.x, c.y, c.w, c.h, 28, "card")
           a6 == Rounded(c.x + 1, c.y + 1, c.w - 2, 2, 1, "edge")
           b1 == Line(Middle(c) - 42, LogoAt(c) + 38, Middle(c), LogoAt(c) - 42, 12)
           b2 == Line(Middle(c), LogoAt(c) - 42, Middle(c) + 42, LogoAt(c) + 38, 12)
           b3 == Line(Middle(c) - 23, LogoAt(c) + 8, Middle(c) + 23, LogoAt(c) + 8, 9)
           c1 == DrawCentered(Middle(c), c.y + c.h \div 2 - 20, "AURELIAN", 5)
           c2 == DrawCentered(Middle(c), c.y + c.h \div 2 + 24, "PRISM BOOT CANVAS", 2)
           d == Rails(c, p)
           r(k) == Rail(c, p, k)
           e1 == DrawCentered(Middle(c), c.y + c.h - 82 + 26, Caption(p), 2)
           e2 == DrawCentered(Middle(c), c.y + c.h - 28, "AURELION 0.0.1", 1)
           S == {a1, a2, a3, a4, a5, a6, b1, b2, b3, c1, c2, e1, e2} \cup {r(k) : k \in 0 .. 3}
           s == Picture(f, c, p)
<1>1. Backdrop(f, c) = <<a1, a2, a3, a4, a5, a6>> /\ Logo(Middle(c), LogoAt(c)) = <<b1, b2, b3>>
  BY DEF Backdrop, Logo
<1>2. Content(c, p) = <<b1, b2, b3>> \o <<c1, c2>> \o d \o <<e1, e2>>
  BY <1>1 DEF Content, Middle, LogoAt
<1>3. d = [n \in 1 .. 4 |-> r(n - 1)]
  BY DEF Rails, Rail
<1>4. s = <<a1, a2, a3, a4, a5, a6>> \o (<<b1, b2, b3>> \o <<c1, c2>> \o d \o <<e1, e2>>)
  BY <1>1, <1>2 DEF Picture
<1> HIDE DEF a1, a2, a3, a4, a5, a6, b1, b2, b3, c1, c2, d, e1, e2, r
<1>5. d \in Seq(S) /\ Len(d) = 4 /\ \A k \in 0 .. 3 : d[1 + k] = r(k)
  <2>1. \A n \in 1 .. 4 : r(n - 1) \in S
    OBVIOUS
  <2> HIDE DEF S
  <2>2. d \in [1 .. 4 -> S]
    BY <2>1, <1>3
  <2>3. d \in Seq(S) /\ Len(d) = 4
    BY <2>2, Listing, 4 \in Nat
  <2>4. \A k \in 0 .. 3 : 1 + k \in 1 .. 4 /\ (1 + k) - 1 = k
    OBVIOUS
  <2>5. \A n \in 1 .. 4 : d[n] = r(n - 1)
    BY <1>3
  <2>6. \A k \in 0 .. 3 : d[1 + k] = r(k)
    BY <2>4, <2>5
  <2> QED
    BY <2>3, <2>6
<1>6. /\ {a1, a2, a3, a4, a5, a6} \subseteq S /\ {b1, b2, b3} \subseteq S
      /\ {c1, c2} \subseteq S /\ {e1, e2} \subseteq S
  OBVIOUS
<1> HIDE DEF S
<1> DEFINE A == <<a1, a2, a3, a4, a5, a6>>
           B == <<b1, b2, b3>>
           C == <<c1, c2>>
           E == <<e1, e2>>
<1>7. /\ A \in Seq(S) /\ Len(A) = 6
      /\ A[1] = a1 /\ A[2] = a2 /\ A[3] = a3 /\ A[4] = a4 /\ A[5] = a5 /\ A[6] = a6
  BY <1>6, Sextuple
<1>8. B \in Seq(S) /\ Len(B) = 3 /\ B[1] = b1 /\ B[2] = b2 /\ B[3] = b3
  BY <1>6, Triple
<1>9. /\ C \in Seq(S) /\ Len(C) = 2 /\ C[1] = c1 /\ C[2] = c2
      /\ E \in Seq(S) /\ Len(E) = 2 /\ E[1] = e1 /\ E[2] = e2
  BY <1>6, Pair
<1> HIDE DEF s, A, B, C, E
<1>10. Parts(A, B, C, d, E, s)
  <2>1. s = A \o (B \o C \o d \o E)
    BY <1>4 DEF A, B, C, E
  <2>2. Parts(A, B, C, d, E, A \o (B \o C \o d \o E))
    BY <1>5, <1>7, <1>8, <1>9, Joined
  <2> QED
    BY <2>1, <2>2
<1>11. /\ DOMAIN s = 1 .. 17
       /\ \A i \in 1 .. 6 : s[i] = A[i]
       /\ \A i \in 1 .. 3 : s[6+i] = B[i]
       /\ \A i \in 1 .. 2 : s[9+i] = C[i]
       /\ \A i \in 1 .. 4 : s[11+i] = d[i]
       /\ \A i \in 1 .. 2 : s[15+i] = E[i]
  BY <1>10 DEF Parts
<1>12. s[1] = a1 /\ s[2] = a2 /\ s[3] = a3 /\ s[4] = a4 /\ s[5] = a5 /\ s[6] = a6
  BY <1>7, <1>11
<1>13. s[7] = b1 /\ s[8] = b2 /\ s[9] = b3
  <2>1. s[6+1] = B[1] /\ s[6+2] = B[2] /\ s[6+3] = B[3]
    BY <1>11
  <2> QED
    BY <2>1, <1>8
<1>14. s[10] = c1 /\ s[11] = c2 /\ s[16] = e1 /\ s[17] = e2
  <2>1. s[9+1] = C[1] /\ s[9+2] = C[2] /\ s[15+1] = E[1] /\ s[15+2] = E[2]
    BY <1>11
  <2> QED
    BY <2>1, <1>9
<1>15. \A k \in 0 .. 3 : s[12 + k] = r(k)
  <2> TAKE k \in 0 .. 3
  <2>1. s[11 + (1 + k)] = d[1 + k] /\ 11 + (1 + k) = 12 + k
    BY <1>11
  <2> QED
    BY <2>1, <1>5
<1> QED
  BY <1>1, <1>7, <1>11, <1>12, <1>13, <1>14, <1>15
     DEF Listed, s, A, a1, a2, a3, a4, a5, a6, b1, b2, b3, c1, c2, e1, e2, r

\* What the calls reach.
Reaches(d, x, y, w, h) == LET b == Box(d) IN b.x = x /\ b.y = y /\ b.w = w /\ b.h = h
LEMMA RoundedBox ==
  ASSUME NEW x, NEW y, NEW w, NEW h, NEW r, NEW colour
  PROVE  /\ Reaches(Rounded(x, y, w, h, r, colour), x, y, w, h)
         /\ Rounded(x, y, w, h, r, colour).op = "rounded"
         /\ Rounded(x, y, w, h, r, colour).colour = colour
  BY DEF Reaches, Box, Rounded
DiscReaches(d, x, y, r) == Reaches(d, x - r, y - r, 2 * r + 1, 2 * r + 1)
LEMMA DiscBox ==
  ASSUME NEW x, NEW y, NEW r
  PROVE  DiscReaches(Disc(x, y, r), x, y, r)
  BY DEF DiscReaches, Reaches, Box, Disc
LEMMA LineBox ==
  ASSUME NEW x \in Int, NEW y \in Int, NEW u \in Int, NEW v \in Int, NEW t
  PROVE  LET r == t \div 2
         IN  /\ Reaches(Line(x, y, u, v, t), Lesser(x, u) - r, Lesser(y, v) - r,
                       Abs(u - x) + 2 * r + 1, Abs(v - y) + 2 * r + 1)
             /\ Line(x, y, u, v, t).op = "line"
  BY DEF Reaches, Box, Line
LogoReaches(a, b, d, m, l) ==
  Reaches(a, m - 48, l - 48, 55, 93) /\ Reaches(b, m - 6, l - 48, 55, 93) /\ Reaches(d, m - 27, l + 4, 55, 9)
LEMMA LogoBoxes ==
  ASSUME NEW m \in Int, NEW l \in Int
  PROVE  LogoReaches(Line(m - 42, l + 38, m, l - 42, 12), Line(m, l - 42, m + 42, l + 38, 12),
                     Line(m - 23, l + 8, m + 23, l + 8, 9), m, l)
<1>1. 12 \div 2 = 6 /\ 9 \div 2 = 4
  OBVIOUS
<1>2. Reaches(Line(m - 42, l + 38, m, l - 42, 12), m - 48, l - 48, 55, 93)
  <2>1. /\ Lesser(m - 42, m) - 6 = m - 48 /\ Lesser(l + 38, l - 42) - 6 = l - 48
        /\ Abs(m - (m - 42)) + 2 * 6 + 1 = 55 /\ Abs((l - 42) - (l + 38)) + 2 * 6 + 1 = 93
    BY DEF Lesser, Abs
  <2> QED
    BY <1>1, <2>1, LineBox, m - 42 \in Int, l + 38 \in Int, l - 42 \in Int
<1>3. Reaches(Line(m, l - 42, m + 42, l + 38, 12), m - 6, l - 48, 55, 93)
  <2>1. /\ Lesser(m, m + 42) - 6 = m - 6 /\ Lesser(l - 42, l + 38) - 6 = l - 48
        /\ Abs((m + 42) - m) + 2 * 6 + 1 = 55 /\ Abs((l + 38) - (l - 42)) + 2 * 6 + 1 = 93
    BY DEF Lesser, Abs
  <2> QED
    BY <1>1, <2>1, LineBox, m + 42 \in Int, l + 38 \in Int, l - 42 \in Int
<1>4. Reaches(Line(m - 23, l + 8, m + 23, l + 8, 9), m - 27, l + 4, 55, 9)
  <2>1. /\ Lesser(m - 23, m + 23) - 4 = m - 27 /\ Lesser(l + 8, l + 8) - 4 = l + 4
        /\ Abs((m + 23) - (m - 23)) + 2 * 4 + 1 = 55 /\ Abs((l + 8) - (l + 8)) + 2 * 4 + 1 = 9
    BY DEF Lesser, Abs
  <2> QED
    BY <1>1, <2>1, LineBox, m - 23 \in Int, m + 23 \in Int, l + 8 \in Int
<1> QED
  BY <1>2, <1>3, <1>4 DEF LogoReaches

LEMMA LetterWidths ==
  ASSUME NEW n \in Nat, NEW s \in {1, 2, 5}
  PROVE  ((n - 1) * 6 + 5) * s = 6 * s * n - s
<1>1. ((n - 1) * 6 + 5) * 1 = 6 * 1 * n - 1
  OBVIOUS
<1>2. ((n - 1) * 6 + 5) * 2 = 6 * 2 * n - 2
  OBVIOUS
<1>3. ((n - 1) * 6 + 5) * 5 = 6 * 5 * n - 5
  OBVIOUS
<1> QED
  BY <1>1, <1>2, <1>3

\* Where the card lies, if it is not too small.
LEMMA Halves ==
  ASSUME NEW n \in Nat
  PROVE  /\ n \div 2 \in Nat /\ 2 * (n \div 2) <= n /\ n <= 2 * (n \div 2) + 1
         /\ n \div 4 \in Nat /\ 4 * (n \div 4) <= n /\ n <= 4 * (n \div 4) + 3
  OBVIOUS
Placed(c, W, H) ==
  /\ {c.x, c.y, c.w, c.h} \subseteq Nat
  /\ c.w >= 240 /\ c.h >= 180 /\ c.x >= 24 /\ c.y >= 20
  /\ c.x + c.w + 24 <= W /\ c.y + c.h + 20 <= H
LEMMA CardPlaced ==
  ASSUME NEW f, f.width \in Nat, f.height \in Nat
  PROVE  /\ ~TooSmall(Card(f)) => Placed(Card(f), f.width, f.height)
         /\ f.width >= 358 => Card(f).w >= 310
         /\ f.height >= 298 => Card(f).h >= 258
<1> DEFINE W == f.width
           H == f.height
           w == Lesser(IF W > 48 THEN W - 48 ELSE W, 720)
           h == Lesser(IF H > 40 THEN H - 40 ELSE H, 336)
           x == (W - w) \div 2
           y == (H - h) \div 2
<1>1. Card(f) = [x |-> x, y |-> y, w |-> w, h |-> h]
  BY DEF Card
<1>2. W \in Nat /\ H \in Nat
  OBVIOUS
<1> HIDE DEF W, H
<1>3. /\ w \in Nat /\ w <= W /\ (w >= 240 => W - w >= 48) /\ (W >= 358 => w >= 310)
      /\ h \in Nat /\ h <= H /\ (h >= 180 => H - h >= 40) /\ (H >= 298 => h >= 258)
  BY <1>2 DEF Lesser
<1> HIDE DEF w, h
<1>4. /\ x \in Nat /\ 2 * x <= W - w /\ W - w <= 2 * x + 1
      /\ y \in Nat /\ 2 * y <= H - h /\ H - h <= 2 * y + 1
  <2>1. W - w \in Nat /\ H - h \in Nat
    BY <1>2, <1>3
  <2> QED
    BY <2>1, Halves
<1> HIDE DEF x, y
<1> DEFINE c == Card(f)
<1>5. c.x = x /\ c.y = y /\ c.w = w /\ c.h = h
  BY <1>1
<1> HIDE DEF c
<1>6. TooSmall(c) <=> w < 240 \/ h < 180
  BY <1>5 DEF TooSmall
<1>7. ASSUME ~TooSmall(c) PROVE Placed(c, W, H)
  <2>1. w >= 240 /\ h >= 180
    BY <1>3, <1>6, <1>7
  <2>2. x >= 24 /\ x + w + 24 <= W
    BY <2>1, <1>2, <1>3, <1>4
  <2>3. y >= 20 /\ y + h + 20 <= H
    BY <2>1, <1>2, <1>3, <1>4
  <2> QED
    BY <2>1, <2>2, <2>3, <1>3, <1>4, <1>5 DEF Placed
<1> QED
  BY <1>3, <1>5, <1>7 DEF c, W, H

\* The rails: g wide, at a pace of g + 8.
LEMMA RailPace ==
  ASSUME NEW g \in Nat, NEW k \in 0 .. 3
  PROVE  /\ k * (g + 8) \in Nat /\ k * (g + 8) + g <= 4 * g + 24
         /\ \A j \in 0 .. 3 : k < j => k * (g + 8) + g <= j * (g + 8)
<1>1. 0 * (g + 8) = 0 /\ 1 * (g + 8) = g + 8 /\ 2 * (g + 8) = 2 * g + 16 /\ 3 * (g + 8) = 3 * g + 24
  OBVIOUS
<1>2. k * (g + 8) \in Nat /\ k * (g + 8) + g <= 4 * g + 24
  <2>1. k = 0 \/ k = 1 \/ k = 2 \/ k = 3
    OBVIOUS
  <2> QED
    BY <1>1, <2>1
<1>3. ASSUME NEW j \in 0 .. 3, k < j PROVE k * (g + 8) + g <= j * (g + 8)
  <2>1. k = 0 \/ k = 1 \/ k = 2
    BY <1>3
  <2>2. j = 1 \/ j = 2 \/ j = 3
    BY <1>3
  <2> QED
    BY <1>1, <1>3, <2>1, <2>2
<1> QED
  BY <1>2, <1>3

\* The caption is one of four texts.
LEMMA CaptionLength ==
  ASSUME NEW p \in 0 .. 4
  PROVE  \E n \in 18 .. 26 : Len(Caption(p)) = n /\ Caption(p) # ""
<1>1. Caption(p) \in {"PREPARING PRISM UI", "VALIDATING BOOT ABI",
                      "STARTING PLATFORM SERVICES", "BOOT SEQUENCE COMPLETE"}
  <2>1. p = 0 \/ p = 1 \/ p \in 2 .. 3 \/ p = 4
    OBVIOUS
  <2> QED
    BY <2>1 DEF Caption
<1>2. /\ 18 \in 18 .. 26 /\ 19 \in 18 .. 26 /\ 26 \in 18 .. 26 /\ 22 \in 18 .. 26
      /\ "PREPARING PRISM UI" # "" /\ "VALIDATING BOOT ABI" # ""
      /\ "STARTING PLATFORM SERVICES" # "" /\ "BOOT SEQUENCE COMPLETE" # ""
  OBVIOUS
<1> QED
  BY <1>1, <1>2, SplashAssumption

\* Every call of a picture is on the display, but for a text's right end.
OnScreen(d, W, H) ==
  LET b == Box(d) IN
    /\ b.x >= 0 /\ b.y >= 0 /\ b.y + b.h <= H
    /\ d.op = "text" \/ b.x + b.w <= W

\* Where the texts of a picture are.
Texted(d, c, y, w, h) ==
  LET m == Middle(c)
      x == IF m > w \div 2 THEN m - w \div 2 ELSE 0
  IN  Reaches(d, x, y, w, h) /\ d.op = "text" /\ d.x = x /\ d.w = w
\* A text of n letters, put around a centre.
Measured(text, z, n, w, h) ==
  /\ text # "" /\ z \in {1, 2, 5} /\ n \in Nat \ {0} /\ Len(text) = n
  /\ w = 6 * z * n - z /\ h = 7 * z
LEMMA TextPlaced ==
  ASSUME NEW c, Middle(c) \in Nat, NEW y \in Int,
         NEW text, NEW z, NEW n, NEW w, NEW h, Measured(text, z, n, w, h)
  PROVE  Texted(DrawCentered(Middle(c), y, text, z), c, y, w, h)
<1> DEFINE m == Middle(c)
           x == IF m > w \div 2 THEN m - w \div 2 ELSE 0
           d == DrawCentered(m, y, text, z)
<1>1. ((Len(text) - 1) * 6 + 5) * z = w
  <2>1. n \in Nat /\ z \in {1, 2, 5} /\ Len(text) = n /\ w = 6 * z * n - z
    BY DEF Measured
  <2>2. ((n - 1) * 6 + 5) * z = 6 * z * n - z
    BY <2>1, LetterWidths
  <2> QED
    BY <2>1, <2>2
<1>2. TextWidth(text, z) = w
  BY DEF TextWidth, Measured
<1> HIDE DEF m
<1>3. d = DrawText(x, y, text, z)
  BY <1>2 DEF DrawCentered
<1> HIDE DEF d, x
<1>4. d = [op |-> "text", x |-> x, y |-> y, text |-> text, w |-> w, h |-> h]
  BY <1>1, <1>3 DEF DrawText, Measured
<1>5. d.op = "text" /\ d.x = x /\ d.y = y /\ d.w = w /\ d.h = h
  BY <1>4
<1>6. Reaches(d, x, y, w, h)
  BY <1>5 DEF Reaches, Box
<1>7. Texted(d, c, y, w, h)
  BY <1>5, <1>6 DEF Texted, m, x
<1> QED
  BY <1>7 DEF d, m
TextsAt(s, c) ==
  /\ Texted(s[10], c, c.y + c.h \div 2 - 20, 235, 35)
  /\ Texted(s[11], c, c.y + c.h \div 2 + 24, 202, 14)
  /\ \E w \in 214 .. 310 : Texted(s[16], c, c.y + c.h - 56, w, 14)
  /\ Texted(s[17], c, c.y + c.h - 28, 83, 7)
LEMMA TextsPlaced ==
  ASSUME NEW f, NEW c, NEW W, NEW H, Placed(c, W, H), NEW p \in 0 .. 4,
         NEW s, Listed(f, c, p, s)
  PROVE  TextsAt(s, c)
<1>1. {c.x, c.y, c.w, c.h} \subseteq Nat
  BY DEF Placed
<1>2. Middle(c) \in Nat /\ c.h \div 2 \in Nat
  BY <1>1, Halves DEF Middle
<1> DEFINE m == Middle(c)
           y1 == c.y + c.h \div 2 - 20
           y2 == c.y + c.h \div 2 + 24
           y3 == c.y + c.h - 82 + 26
           y4 == c.y + c.h - 28
<1>3. y1 \in Int /\ y2 \in Int /\ y3 \in Int /\ y4 \in Int /\ y3 = c.y + c.h - 56
  BY <1>1, <1>2
<1>4. /\ s[10] = DrawCentered(m, y1, "AURELIAN", 5)
      /\ s[11] = DrawCentered(m, y2, "PRISM BOOT CANVAS", 2)
      /\ s[16] = DrawCentered(m, y3, Caption(p), 2)
      /\ s[17] = DrawCentered(m, y4, "AURELION 0.0.1", 1)
  BY DEF Listed
<1> HIDE DEF y1, y2, y3, y4, m
<1>5. m \in Nat
  BY <1>2 DEF m
<1>7. Texted(s[10], c, y1, 235, 35)
  <2>1. "AURELIAN" # "" /\ Len("AURELIAN") = 8
    BY SplashAssumption
  <2>2. 235 = 6 * 5 * 8 - 5 /\ 35 = 7 * 5 /\ 5 \in {1, 2, 5} /\ 8 \in Nat \ {0}
    OBVIOUS
  <2>3. Measured("AURELIAN", 5, 8, 235, 35)
    BY <2>1, <2>2 DEF Measured
  <2>4. Texted(DrawCentered(Middle(c), y1, "AURELIAN", 5), c, y1, 235, 35)
    BY <1>2, <1>3, <2>3, TextPlaced
  <2> QED
    BY <1>4, <2>4 DEF m
<1>8. Texted(s[11], c, y2, 202, 14)
  <2>1. "PRISM BOOT CANVAS" # "" /\ Len("PRISM BOOT CANVAS") = 17
    BY SplashAssumption
  <2>2. 202 = 6 * 2 * 17 - 2 /\ 14 = 7 * 2 /\ 2 \in {1, 2, 5} /\ 17 \in Nat \ {0}
    OBVIOUS
  <2>3. Measured("PRISM BOOT CANVAS", 2, 17, 202, 14)
    BY <2>1, <2>2 DEF Measured
  <2>4. Texted(DrawCentered(Middle(c), y2, "PRISM BOOT CANVAS", 2), c, y2, 202, 14)
    BY <1>2, <1>3, <2>3, TextPlaced
  <2> QED
    BY <1>4, <2>4 DEF m
<1>9. \E w \in 214 .. 310 : Texted(s[16], c, y3, w, 14)
  <2>1. PICK n \in 18 .. 26 : Len(Caption(p)) = n /\ Caption(p) # ""
    BY CaptionLength
  <2> DEFINE w == 6 * 2 * n - 2
  <2>2. w \in 214 .. 310 /\ 14 = 7 * 2 /\ 2 \in {1, 2, 5} /\ n \in Nat \ {0} /\ w = 6 * 2 * n - 2
    OBVIOUS
  <2> HIDE DEF w
  <2>3. Measured(Caption(p), 2, n, w, 14)
    BY <2>1, <2>2 DEF Measured
  <2>4. Texted(DrawCentered(Middle(c), y3, Caption(p), 2), c, y3, w, 14)
    BY <1>2, <1>3, <2>3, TextPlaced
  <2> QED
    BY <1>4, <2>2, <2>4 DEF m
<1>10. Texted(s[17], c, y4, 83, 7)
  <2>1. "AURELION 0.0.1" # "" /\ Len("AURELION 0.0.1") = 14
    BY SplashAssumption
  <2>2. 83 = 6 * 1 * 14 - 1 /\ 7 = 7 * 1 /\ 1 \in {1, 2, 5} /\ 14 \in Nat \ {0}
    OBVIOUS
  <2>3. Measured("AURELION 0.0.1", 1, 14, 83, 7)
    BY <2>1, <2>2 DEF Measured
  <2>4. Texted(DrawCentered(Middle(c), y4, "AURELION 0.0.1", 1), c, y4, 83, 7)
    BY <1>2, <1>3, <2>3, TextPlaced
  <2> QED
    BY <1>4, <2>4 DEF m
<1> QED
  BY <1>3, <1>7, <1>8, <1>9, <1>10 DEF y1, y2, y3, y4, TextsAt

LEMMA TextOnScreen ==
  ASSUME NEW c, NEW W \in Nat, NEW H \in Nat, Middle(c) \in Nat,
         NEW d, NEW y \in Int, NEW w \in Nat, NEW h \in Int, Texted(d, c, y, w, h), y >= 0, y + h <= H
  PROVE  OnScreen(d, W, H)
<1> DEFINE x == IF Middle(c) > w \div 2 THEN Middle(c) - w \div 2 ELSE 0
<1>1. Reaches(d, x, y, w, h) /\ d.op = "text"
  BY DEF Texted
<1>2. x \in Int /\ x >= 0
  BY Halves
<1> HIDE DEF x
<1> QED
  BY <1>1, <1>2 DEF OnScreen, Reaches

LEMMA RailsOnScreen ==
  ASSUME NEW c, NEW W \in Nat, NEW H \in Nat, Placed(c, W, H), NEW p, NEW k \in 0 .. 3
  PROVE  /\ OnScreen(Rail(c, p, k), W, H)
         /\ \E x \in Nat : /\ Reaches(Rail(c, p, k), x, c.y + c.h - 82, (c.w - 96) \div 4, 7)
                           /\ x >= c.x + 36 /\ x + (c.w - 96) \div 4 + 36 <= c.x + c.w
                           /\ x = c.x + 36 + k * ((c.w - 96) \div 4 + 8)
<1> DEFINE g == (c.w - 96) \div 4
           a == k * (g + 8)
           x == c.x + 36 + a
           y == c.y + c.h - 82
<1>1. /\ c.x \in Nat /\ c.y \in Nat /\ c.w \in Nat /\ c.h \in Nat /\ c.w >= 240 /\ c.h >= 180
      /\ c.x + c.w + 24 <= W /\ c.y + c.h + 20 <= H
  BY DEF Placed
<1>2. g \in Nat /\ 4 * g <= c.w - 96
  <2>1. c.w - 96 \in Nat
    BY <1>1
  <2> QED
    BY <2>1, Halves
<1>3. Reaches(Rail(c, p, k), x, y, g, 7)
  BY RoundedBox DEF Rail
<1> HIDE DEF g
<1>4. a \in Nat /\ a + g <= 4 * g + 24
  BY <1>2, RailPace
<1> HIDE DEF a
<1>5. x \in Nat /\ x >= c.x + 36 /\ x + g + 36 <= c.x + c.w
  BY <1>1, <1>2, <1>4
<1>6. y \in Int /\ y >= 0 /\ y + 7 <= H /\ x + g <= W
  <2>1. y \in Int /\ y >= 0 /\ y + 7 <= H
    BY <1>1
  <2> HIDE DEF x, y
  <2>2. x + g <= W
    BY <1>1, <1>2, <1>5
  <2> QED
    BY <2>1, <2>2
<1>7. OnScreen(Rail(c, p, k), W, H)
  <2> HIDE DEF x, y
  <2> QED
    BY <1>2, <1>3, <1>5, <1>6 DEF OnScreen, Reaches
<1> QED
  BY <1>3, <1>5, <1>7 DEF g, a

LEMMA PictureDisplayed ==
  ASSUME NEW f, f.width \in Nat, f.height \in Nat, NEW c, Placed(c, f.width, f.height),
         NEW p \in 0 .. 4, NEW s, Listed(f, c, p, s)
  PROVE  \A i \in 1 .. 17 : OnScreen(s[i], f.width, f.height)
<1> DEFINE W == f.width
           H == f.height
           m == Middle(c)
           l == LogoAt(c)
<1>1. /\ c.x \in Nat /\ c.y \in Nat /\ c.w \in Nat /\ c.h \in Nat /\ c.w >= 240 /\ c.h >= 180 /\ c.x >= 24 /\ c.y >= 20
      /\ c.x + c.w + 24 <= W /\ c.y + c.h + 20 <= H /\ W \in Nat /\ H \in Nat
  BY DEF Placed
<1>2. /\ m \in Nat /\ m >= c.x + 120 /\ m + 120 <= c.x + c.w
      /\ l \in Nat /\ l >= c.y + 45 /\ l + 135 <= c.y + c.h
  BY <1>1, Halves DEF Middle, LogoAt
<1> HIDE DEF W, H, m, l
<1>3. OnScreen(s[1], W, H)
  <2>1. s[1] = [op |-> "background", x |-> 0, y |-> 0, w |-> W, h |-> H]
    BY DEF Listed, W, H
  <2>2. Reaches(s[1], 0, 0, W, H)
    BY <2>1 DEF Reaches, Box
  <2> QED
    BY <1>1, <2>2 DEF OnScreen, Reaches
<1>4. OnScreen(s[2], W, H) /\ OnScreen(s[3], W, H)
  <2>1. /\ Reaches(s[2], c.x + 72 - 46, c.y + 54 - 46, 2 * 46 + 1, 2 * 46 + 1)
        /\ Reaches(s[3], c.x + c.w - 80 - 58, c.y + c.h - 52 - 58, 2 * 58 + 1, 2 * 58 + 1)
    <3>1. s[2] = Disc(c.x + 72, c.y + 54, 46) /\ s[3] = Disc(c.x + c.w - 80, c.y + c.h - 52, 58)
      BY DEF Listed
    <3>2. /\ DiscReaches(s[2], c.x + 72, c.y + 54, 46)
          /\ DiscReaches(s[3], c.x + c.w - 80, c.y + c.h - 52, 58)
      BY <3>1, DiscBox
    <3> QED
      BY <1>1, <3>2 DEF DiscReaches, Reaches
  <2>2. /\ c.x + 72 - 46 \in Int /\ c.y + 54 - 46 \in Int /\ 2 * 46 + 1 \in Int
        /\ c.x + c.w - 80 - 58 \in Int /\ c.y + c.h - 52 - 58 \in Int /\ 2 * 58 + 1 \in Int
    BY <1>1
  <2>3. /\ c.x + 72 - 46 >= 0 /\ c.y + 54 - 46 >= 0
        /\ c.x + 72 - 46 + (2 * 46 + 1) <= W /\ c.y + 54 - 46 + (2 * 46 + 1) <= H
    BY <1>1
  <2>4. /\ c.x + c.w - 80 - 58 >= 0 /\ c.y + c.h - 52 - 58 >= 0
        /\ c.x + c.w - 80 - 58 + (2 * 58 + 1) <= W /\ c.y + c.h - 52 - 58 + (2 * 58 + 1) <= H
    BY <1>1
  <2>5. OnScreen(s[2], W, H)
    BY <1>1, <2>1, <2>2, <2>3 DEF OnScreen, Reaches
  <2>6. OnScreen(s[3], W, H)
    BY <1>1, <2>1, <2>2, <2>4 DEF OnScreen, Reaches
  <2> QED
    BY <2>5, <2>6
<1>5. OnScreen(s[4], W, H) /\ OnScreen(s[5], W, H) /\ OnScreen(s[6], W, H)
  <2>1. /\ Reaches(s[4], c.x + 8, c.y + 12, c.w, c.h) /\ Reaches(s[5], c.x, c.y, c.w, c.h)
        /\ Reaches(s[6], c.x + 1, c.y + 1, c.w - 2, 2)
    <3>1. /\ s[4] = Rounded(c.x + 8, c.y + 12, c.w, c.h, 28, "shadow")
          /\ s[5] = Rounded(c.x, c.y, c.w, c.h, 28, "card")
          /\ s[6] = Rounded(c.x + 1, c.y + 1, c.w - 2, 2, 1, "edge")
      BY DEF Listed
    <3> QED
      BY <3>1, RoundedBox
  <2>2. c.x + 8 \in Int /\ c.y + 12 \in Int /\ c.x + 1 \in Int /\ c.y + 1 \in Int /\ c.w - 2 \in Int
    BY <1>1
  <2>3. OnScreen(s[4], W, H)
    <3>1. c.x + 8 >= 0 /\ c.y + 12 >= 0 /\ c.x + 8 + c.w <= W /\ c.y + 12 + c.h <= H
      BY <1>1
    <3> QED
      BY <1>1, <2>1, <2>2, <3>1 DEF OnScreen, Reaches
  <2>4. OnScreen(s[5], W, H)
    <3>1. c.x >= 0 /\ c.y >= 0 /\ c.x + c.w <= W /\ c.y + c.h <= H
      BY <1>1
    <3> QED
      BY <1>1, <2>1, <3>1 DEF OnScreen, Reaches
  <2>5. OnScreen(s[6], W, H)
    <3>1. c.x + 1 >= 0 /\ c.y + 1 >= 0 /\ c.x + 1 + (c.w - 2) <= W /\ c.y + 1 + 2 <= H
      BY <1>1
    <3> QED
      BY <1>1, <2>1, <2>2, <3>1 DEF OnScreen, Reaches
  <2> QED
    BY <2>3, <2>4, <2>5
<1>6. OnScreen(s[7], W, H) /\ OnScreen(s[8], W, H) /\ OnScreen(s[9], W, H)
  <2>1. /\ Reaches(s[7], m - 48, l - 48, 55, 93) /\ Reaches(s[8], m - 6, l - 48, 55, 93)
        /\ Reaches(s[9], m - 27, l + 4, 55, 9)
    <3>1. /\ s[7] = Line(m - 42, l + 38, m, l - 42, 12)
          /\ s[8] = Line(m, l - 42, m + 42, l + 38, 12)
          /\ s[9] = Line(m - 23, l + 8, m + 23, l + 8, 9)
      BY DEF Listed, m, l
    <3>2. LogoReaches(s[7], s[8], s[9], m, l)
      BY <1>2, <3>1, LogoBoxes
    <3> QED
      BY <3>2 DEF LogoReaches
  <2>2. m - 48 \in Int /\ m - 6 \in Int /\ m - 27 \in Int /\ l - 48 \in Int /\ l + 4 \in Int
    BY <1>2
  <2>3. /\ m - 48 >= 0 /\ m - 6 >= 0 /\ m - 27 >= 0 /\ l - 48 >= 0 /\ l + 4 >= 0
        /\ m - 48 + 55 <= W /\ m - 6 + 55 <= W /\ m - 27 + 55 <= W
        /\ l - 48 + 93 <= H /\ l + 4 + 9 <= H
    BY <1>1, <1>2
  <2>4. OnScreen(s[7], W, H)
    BY <1>1, <2>1, <2>2, <2>3 DEF OnScreen, Reaches
  <2>5. OnScreen(s[8], W, H)
    BY <1>1, <2>1, <2>2, <2>3 DEF OnScreen, Reaches
  <2>6. OnScreen(s[9], W, H)
    BY <1>1, <2>1, <2>2, <2>3 DEF OnScreen, Reaches
  <2> QED
    BY <2>4, <2>5, <2>6
<1>7. OnScreen(s[10], W, H) /\ OnScreen(s[11], W, H) /\ OnScreen(s[16], W, H) /\ OnScreen(s[17], W, H)
  <2> DEFINE y1 == c.y + c.h \div 2 - 20
             y2 == c.y + c.h \div 2 + 24
             y3 == c.y + c.h - 56
             y4 == c.y + c.h - 28
  <2>1. PICK w \in 214 .. 310 : /\ Texted(s[10], c, y1, 235, 35) /\ Texted(s[11], c, y2, 202, 14)
                                /\ Texted(s[16], c, y3, w, 14) /\ Texted(s[17], c, y4, 83, 7)
    <3>1. TextsAt(s, c)
      BY TextsPlaced
    <3> QED
      BY <3>1 DEF TextsAt
  <2>2. /\ y1 \in Int /\ y1 >= 0 /\ y1 + 35 <= H /\ y2 \in Int /\ y2 >= 0 /\ y2 + 14 <= H
        /\ y3 \in Int /\ y3 >= 0 /\ y3 + 14 <= H /\ y4 \in Int /\ y4 >= 0 /\ y4 + 7 <= H
    BY <1>1, Halves
  <2>3. 235 \in Nat /\ 202 \in Nat /\ w \in Nat /\ 83 \in Nat
    OBVIOUS
  <2> HIDE DEF y1, y2, y3, y4
  <2>4. Middle(c) \in Nat
    BY <1>2 DEF m
  <2>5. OnScreen(s[10], W, H)
    BY <1>1, <2>1, <2>2, <2>3, <2>4, TextOnScreen
  <2>6. OnScreen(s[11], W, H)
    BY <1>1, <2>1, <2>2, <2>3, <2>4, TextOnScreen
  <2>7. OnScreen(s[16], W, H)
    BY <1>1, <2>1, <2>2, <2>3, <2>4, TextOnScreen
  <2>8. OnScreen(s[17], W, H)
    BY <1>1, <2>1, <2>2, <2>3, <2>4, TextOnScreen
  <2> QED
    BY <2>5, <2>6, <2>7, <2>8
<1>8. \A k \in 0 .. 3 : OnScreen(s[12 + k], W, H)
  <2> TAKE k \in 0 .. 3
  <2>1. s[12 + k] = Rail(c, p, k)
    BY DEF Listed
  <2>2. OnScreen(Rail(c, p, k), f.width, f.height)
    BY <1>1, RailsOnScreen DEF W, H
  <2> QED
    BY <2>1, <2>2 DEF W, H
<1>9. \A i \in 12 .. 15 : OnScreen(s[i], W, H)
  <2> TAKE i \in 12 .. 15
  <2>1. i - 12 \in 0 .. 3 /\ 12 + (i - 12) = i
    OBVIOUS
  <2> QED
    BY <1>8, <2>1
<1>10. \A i \in 1 .. 17 : \/ i \in {1, 2, 3, 4, 5, 6, 7, 8, 9, 10, 11, 16, 17} \/ i \in 12 .. 15
  OBVIOUS
<1> QED
  BY <1>3, <1>4, <1>5, <1>6, <1>7, <1>9, <1>10 DEF W, H

\* The card from top to bottom: the logo, its two lines, the rails, the caption
\* and the version each have a band of their own.
Band(i) == CASE i \in 7 .. 9 -> 1 [] i = 10 -> 2 [] i = 11 -> 3
             [] i \in 12 .. 15 -> 4 [] i = 16 -> 5 [] i = 17 -> 6
Top(c, g) == CASE g = 1 -> c.y [] g = 2 -> c.y + c.h \div 2 - 20 [] g = 3 -> c.y + c.h \div 2 + 24
               [] g = 4 -> c.y + c.h - 82 [] g = 5 -> c.y + c.h - 56
               [] g = 6 -> c.y + c.h - 28 [] g = 7 -> c.y + c.h
Roomy(c) == /\ c.x \in Nat /\ c.y \in Nat /\ c.w \in Nat /\ c.h \in Nat
            /\ c.w >= 310 /\ c.h >= 258
LEMMA Bands ==
  /\ \A i \in 7 .. 17 : Band(i) \in 1 .. 6 /\ \A k \in 7 .. 17 : i < k => Band(i) <= Band(k)
  /\ \A i \in 7 .. 9 : Band(i) = 1
  /\ Band(10) = 2 /\ Band(11) = 3 /\ Band(16) = 5 /\ Band(17) = 6
  /\ \A i \in 12 .. 15 : Band(i) = 4
  /\ \A i \in 7 .. 17 : /\ Band(i) = 1 => i \in 7 .. 9
                        /\ Band(i) = 2 => i = 10
                        /\ Band(i) = 3 => i = 11
                        /\ Band(i) = 4 => i \in 12 .. 15
                        /\ Band(i) = 5 => i = 16
                        /\ Band(i) = 6 => i = 17
  BY DEF Band
LEMMA Tops ==
  ASSUME NEW c
  PROVE  /\ Top(c, 1) = c.y /\ Top(c, 2) = c.y + c.h \div 2 - 20 /\ Top(c, 3) = c.y + c.h \div 2 + 24
         /\ Top(c, 4) = c.y + c.h - 82 /\ Top(c, 5) = c.y + c.h - 56
         /\ Top(c, 6) = c.y + c.h - 28 /\ Top(c, 7) = c.y + c.h
  BY DEF Top
LEMMA TopsRise ==
  ASSUME NEW c, Roomy(c), NEW g \in 1 .. 7, NEW k \in 1 .. 7, g <= k
  PROVE  Top(c, g) \in Int /\ Top(c, g) <= Top(c, k)
<1> DEFINE a == c.h \div 2
<1>1. c.y \in Nat /\ c.h \in Nat /\ c.h >= 258 /\ a \in Nat /\ 2 * a <= c.h /\ c.h <= 2 * a + 1
  BY Halves DEF Roomy
<1>2. /\ Top(c, 1) = c.y /\ Top(c, 2) = c.y + a - 20 /\ Top(c, 3) = c.y + a + 24
      /\ Top(c, 4) = c.y + c.h - 82 /\ Top(c, 5) = c.y + c.h - 56
      /\ Top(c, 6) = c.y + c.h - 28 /\ Top(c, 7) = c.y + c.h
  BY Tops
<1> HIDE DEF a
<1>3. /\ Top(c, 1) \in Int /\ Top(c, 2) \in Int /\ Top(c, 3) \in Int /\ Top(c, 4) \in Int
      /\ Top(c, 5) \in Int /\ Top(c, 6) \in Int /\ Top(c, 7) \in Int
  BY <1>1, <1>2
<1>4. /\ Top(c, 1) <= Top(c, 2) /\ Top(c, 2) <= Top(c, 3) /\ Top(c, 3) <= Top(c, 4)
      /\ Top(c, 4) <= Top(c, 5) /\ Top(c, 5) <= Top(c, 6) /\ Top(c, 6) <= Top(c, 7)
  BY <1>1, <1>2
<1>5. /\ g = 1 \/ g = 2 \/ g = 3 \/ g = 4 \/ g = 5 \/ g = 6 \/ g = 7
      /\ k = 1 \/ k = 2 \/ k = 3 \/ k = 4 \/ k = 5 \/ k = 6 \/ k = 7
  OBVIOUS
<1> QED
  BY <1>3, <1>4, <1>5

\* What Legible asks of one call: it is on the card, in its band, and a text in
\* the middle.
Lies(d, c, g) ==
  LET b == Box(d) IN
    /\ b.x \in Int /\ b.y \in Int /\ b.w \in Int /\ b.h \in Int
    /\ b.x >= c.x /\ b.x + b.w <= c.x + c.w
    /\ b.y >= Top(c, g) /\ b.y + b.h <= Top(c, g + 1)
    /\ d.op = "text" => Abs(2 * d.x + d.w - 2 * c.x - c.w) <= 2

Between(c, g, y, h) == g \in Int /\ Top(c, g) = y /\ y + h <= Top(c, g + 1)
LEMMA TextLies ==
  ASSUME NEW c, Roomy(c), NEW d, NEW y \in Int, NEW w \in Nat, w <= 310, NEW h \in Int,
         Texted(d, c, y, w, h), NEW g, Between(c, g, y, h)
  PROVE  Lies(d, c, g)
<1> DEFINE a == c.w \div 2
           v == w \div 2
           x == IF c.x + a > v THEN c.x + a - v ELSE 0
<1>1. c.x \in Nat /\ c.w \in Nat /\ c.w >= 310
  BY DEF Roomy
<1>2. a \in Nat /\ 2 * a <= c.w /\ c.w <= 2 * a + 1 /\ v \in Nat /\ 2 * v <= w /\ w <= 2 * v + 1
  BY <1>1, Halves
<1>3. Reaches(d, x, y, w, h) /\ d.x = x /\ d.w = w
  BY <1>1, <1>2 DEF Texted, Middle
<1> HIDE DEF a, v
<1>4. x = c.x + a - v /\ v <= a
  BY <1>1, <1>2
<1> HIDE DEF x
<1>5. x \in Int /\ x >= c.x /\ x + w <= c.x + c.w
  BY <1>1, <1>2, <1>4
<1>6. Abs(2 * x + w - 2 * c.x - c.w) <= 2
  BY <1>1, <1>2, <1>4 DEF Abs
<1>7. LET b == Box(d) IN b.x = x /\ b.y = y /\ b.w = w /\ b.h = h
  BY <1>3 DEF Reaches
<1>8. Abs(2 * d.x + d.w - 2 * c.x - c.w) <= 2
  BY <1>3, <1>6
<1> DEFINE t == Top(c, g + 1)
<1>9. y >= Top(c, g) /\ y + h <= t
  BY DEF Between
<1> HIDE DEF t
<1> QED
  BY <1>5, <1>7, <1>8, <1>9 DEF Lies, t

LEMMA PictureLies ==
  ASSUME NEW f, NEW W \in Nat, NEW H \in Nat, NEW c, Placed(c, W, H), Roomy(c),
         NEW p \in 0 .. 4, NEW s, Listed(f, c, p, s)
  PROVE  \A i \in 7 .. 17 : Lies(s[i], c, Band(i))
<1> DEFINE m == Middle(c)
           l == LogoAt(c)
           a == c.h \div 2
<1>1. /\ c.x \in Nat /\ c.y \in Nat /\ c.w \in Nat /\ c.h \in Nat /\ c.w >= 310 /\ c.h >= 258
      /\ a \in Nat /\ 2 * a <= c.h /\ c.h <= 2 * a + 1
  BY Halves DEF Roomy
<1>2. /\ m \in Nat /\ m >= c.x + 120 /\ m + 120 <= c.x + c.w
      /\ l \in Nat /\ l >= c.y + 48 /\ l + 65 <= c.y + a
  <2> DEFINE b == c.h \div 4
             e == c.w \div 2
  <2>1. /\ b \in Nat /\ 4 * b <= c.h /\ c.h <= 4 * b + 3
        /\ e \in Nat /\ 2 * e <= c.w /\ c.w <= 2 * e + 1 /\ m = c.x + e /\ l = c.y + b
    BY <1>1, Halves DEF Middle, LogoAt
  <2> HIDE DEF a, b, e, m, l
  <2> QED
    BY <1>1, <2>1
<1>3. /\ Top(c, 1) = c.y /\ Top(c, 2) = c.y + a - 20 /\ Top(c, 3) = c.y + a + 24
      /\ Top(c, 4) = c.y + c.h - 82 /\ Top(c, 5) = c.y + c.h - 56
      /\ Top(c, 6) = c.y + c.h - 28 /\ Top(c, 7) = c.y + c.h
  BY Tops
<1> HIDE DEF m, l, a
<1>4. Lies(s[7], c, 1) /\ Lies(s[8], c, 1) /\ Lies(s[9], c, 1)
  <2>1. /\ s[7] = Line(m - 42, l + 38, m, l - 42, 12)
        /\ s[8] = Line(m, l - 42, m + 42, l + 38, 12)
        /\ s[9] = Line(m - 23, l + 8, m + 23, l + 8, 9)
    BY DEF Listed, m, l
  <2>2. LogoReaches(s[7], s[8], s[9], m, l)
    BY <1>2, <2>1, LogoBoxes
  <2>3. s[7].op # "text" /\ s[8].op # "text" /\ s[9].op # "text"
    BY <2>1 DEF Line
  <2>4. /\ Reaches(s[7], m - 48, l - 48, 55, 93) /\ Reaches(s[8], m - 6, l - 48, 55, 93)
        /\ Reaches(s[9], m - 27, l + 4, 55, 9)
    BY <2>2 DEF LogoReaches
  <2>5. Lies(s[7], c, 1)
    BY <1>1, <1>2, <1>3, <2>3, <2>4 DEF Lies, Reaches
  <2>6. Lies(s[8], c, 1)
    BY <1>1, <1>2, <1>3, <2>3, <2>4 DEF Lies, Reaches
  <2>7. Lies(s[9], c, 1)
    BY <1>1, <1>2, <1>3, <2>3, <2>4 DEF Lies, Reaches
  <2> QED
    BY <2>5, <2>6, <2>7
<1>5. Lies(s[10], c, 2) /\ Lies(s[11], c, 3) /\ Lies(s[16], c, 5) /\ Lies(s[17], c, 6)
  <2> DEFINE y1 == c.y + a - 20
             y2 == c.y + a + 24
             y3 == c.y + c.h - 56
             y4 == c.y + c.h - 28
  <2>1. PICK w \in 214 .. 310 : /\ Texted(s[10], c, y1, 235, 35) /\ Texted(s[11], c, y2, 202, 14)
                                /\ Texted(s[16], c, y3, w, 14) /\ Texted(s[17], c, y4, 83, 7)
    <3>1. TextsAt(s, c)
      BY TextsPlaced
    <3> QED
      BY <3>1 DEF TextsAt, a
  <2>2. /\ y1 \in Int /\ Top(c, 2) = y1 /\ y1 + 35 <= Top(c, 3)
        /\ y2 \in Int /\ Top(c, 3) = y2 /\ y2 + 14 <= Top(c, 4)
        /\ y3 \in Int /\ Top(c, 5) = y3 /\ y3 + 14 <= Top(c, 6)
        /\ y4 \in Int /\ Top(c, 6) = y4 /\ y4 + 7 <= Top(c, 7)
    BY <1>1, <1>3
  <2> HIDE DEF y1, y2, y3, y4
  <2>3. /\ Between(c, 2, y1, 35) /\ Between(c, 3, y2, 14)
        /\ Between(c, 5, y3, 14) /\ Between(c, 6, y4, 7)
    <3>1. 2 + 1 = 3 /\ 3 + 1 = 4 /\ 5 + 1 = 6 /\ 6 + 1 = 7
      OBVIOUS
    <3> QED
      BY <2>2, <3>1 DEF Between
  <2>4. w \in Nat /\ w <= 310
    OBVIOUS
  <2>5. Lies(s[10], c, 2)
    BY <2>1, <2>2, <2>3, <2>4, TextLies
  <2>6. Lies(s[11], c, 3)
    BY <2>1, <2>2, <2>3, <2>4, TextLies
  <2>7. Lies(s[16], c, 5)
    BY <2>1, <2>2, <2>3, <2>4, TextLies
  <2>8. Lies(s[17], c, 6)
    BY <2>1, <2>2, <2>3, <2>4, TextLies
  <2> QED
    BY <2>5, <2>6, <2>7, <2>8
<1>6. \A k \in 0 .. 3 : Lies(s[12 + k], c, 4)
  <2> TAKE k \in 0 .. 3
  <2> DEFINE g == (c.w - 96) \div 4
  <2>1. s[12 + k] = Rail(c, p, k)
    BY DEF Listed
  <2>2. PICK x \in Nat : /\ Reaches(Rail(c, p, k), x, c.y + c.h - 82, g, 7)
                         /\ x >= c.x + 36 /\ x + g + 36 <= c.x + c.w
    BY RailsOnScreen
  <2>3. g \in Nat
    <3>1. c.w - 96 \in Nat
      BY <1>1
    <3> QED
      BY <3>1, Halves
  <2>4. Rail(c, p, k).op # "text"
    BY DEF Rail, Rounded
  <2> HIDE DEF g
  <2>5. Lies(Rail(c, p, k), c, 4)
    BY <1>1, <1>3, <2>2, <2>3, <2>4 DEF Lies, Reaches
  <2> QED
    BY <2>1, <2>5
<1>7. \A i \in 12 .. 15 : Lies(s[i], c, 4)
  <2> TAKE i \in 12 .. 15
  <2>1. i - 12 \in 0 .. 3 /\ 12 + (i - 12) = i
    OBVIOUS
  <2> QED
    BY <1>6, <2>1
<1>8. \A i \in 7 .. 17 : i \in {7, 8, 9, 10, 11, 16, 17} \/ i \in 12 .. 15
  OBVIOUS
<1>9. /\ Band(7) = 1 /\ Band(8) = 1 /\ Band(9) = 1 /\ Band(10) = 2 /\ Band(11) = 3
      /\ Band(16) = 5 /\ Band(17) = 6 /\ \A i \in 12 .. 15 : Band(i) = 4
  BY Bands
<1> QED
  BY <1>4, <1>5, <1>7, <1>8, <1>9

\* Two calls in different bands, or two rails, are apart.
LEMMA PictureApart ==
  ASSUME NEW f, NEW W \in Nat, NEW H \in Nat, NEW c, Placed(c, W, H), Roomy(c),
         NEW p \in 0 .. 4, NEW s, Listed(f, c, p, s),
         NEW i \in 7 .. 17, NEW k \in 7 .. 17, i < k, {s[i].op, s[k].op} # {"line"}
  PROVE  Apart(Box(s[i]), Box(s[k]))
<1>1. Lies(s[i], c, Band(i)) /\ Lies(s[k], c, Band(k))
  BY PictureLies
<1>2. Band(i) \in 1 .. 6 /\ Band(k) \in 1 .. 6 /\ Band(i) <= Band(k)
  BY Bands
<1>3. CASE Band(i) < Band(k)
  <2>1. Band(i) + 1 \in 1 .. 7 /\ Band(k) \in 1 .. 7 /\ Band(i) + 1 <= Band(k)
    BY <1>2, <1>3
  <2>2. Top(c, Band(i) + 1) <= Top(c, Band(k)) /\ Top(c, Band(i) + 1) \in Int /\ Top(c, Band(k)) \in Int
    BY <2>1, TopsRise
  <2> DEFINE t == Top(c, Band(i) + 1)
             u == Top(c, Band(k))
             a == Box(s[i])
             b == Box(s[k])
  <2>3. a.y \in Int /\ a.h \in Int /\ b.y \in Int /\ a.y + a.h <= t /\ b.y >= u
    BY <1>1 DEF Lies
  <2> HIDE DEF t, u, a, b
  <2>4. a.y + a.h <= b.y
    BY <2>2, <2>3 DEF t, u
  <2> QED
    BY <2>4 DEF Apart, a, b
<1>4. CASE Band(i) = 1 /\ Band(k) = 1
  <2>1. i \in 7 .. 9 /\ k \in 7 .. 9
    <3>1. \A j \in 7 .. 17 : Band(j) = 1 => j \in 7 .. 9
      BY Bands
    <3> QED
      BY <1>4, <3>1
  <2>2. s[7].op = "line" /\ s[8].op = "line" /\ s[9].op = "line"
    <3>1. /\ s[7] = Line(Middle(c) - 42, LogoAt(c) + 38, Middle(c), LogoAt(c) - 42, 12)
          /\ s[8] = Line(Middle(c), LogoAt(c) - 42, Middle(c) + 42, LogoAt(c) + 38, 12)
          /\ s[9] = Line(Middle(c) - 23, LogoAt(c) + 8, Middle(c) + 23, LogoAt(c) + 8, 9)
      BY DEF Listed
    <3> QED
      BY <3>1 DEF Line
  <2>3. s[i].op = "line" /\ s[k].op = "line"
    BY <2>1, <2>2
  <2> QED
    BY <2>3
<1>5. CASE Band(i) = 4 /\ Band(k) = 4
  <2> DEFINE g == (c.w - 96) \div 4
             u == i - 12
             v == k - 12
  <2>1. u \in 0 .. 3 /\ v \in 0 .. 3 /\ u < v /\ 12 + u = i /\ 12 + v = k
    <3>1. i \in 12 .. 15 /\ k \in 12 .. 15
      BY <1>5, Bands
    <3> QED
      BY <3>1
  <2> HIDE DEF u, v
  <2>2. s[i] = Rail(c, p, u) /\ s[k] = Rail(c, p, v)
    BY <2>1 DEF Listed
  <2>3. /\ \E x \in Nat : Reaches(s[i], x, c.y + c.h - 82, g, 7) /\ x = c.x + 36 + u * (g + 8)
        /\ \E x \in Nat : Reaches(s[k], x, c.y + c.h - 82, g, 7) /\ x = c.x + 36 + v * (g + 8)
    BY <2>1, <2>2, RailsOnScreen
  <2>4. g \in Nat /\ c.x \in Nat
    <3>1. c.w - 96 \in Nat
      BY DEF Roomy
    <3> QED
      BY <3>1, Halves DEF Roomy
  <2> HIDE DEF g
  <2>5. u * (g + 8) \in Nat /\ v * (g + 8) \in Nat /\ u * (g + 8) + g <= v * (g + 8)
    BY <2>1, <2>4, RailPace
  <2>6. /\ Box(s[i]).x = c.x + 36 + u * (g + 8) /\ Box(s[i]).w = g
        /\ Box(s[k]).x = c.x + 36 + v * (g + 8)
    BY <2>3 DEF Reaches
  <2> DEFINE y == u * (g + 8)
             z == v * (g + 8)
  <2> HIDE DEF y, z
  <2>7. Box(s[i]).x + Box(s[i]).w <= Box(s[k]).x
    <3>1. Box(s[i]).x = c.x + 36 + y /\ Box(s[i]).w = g /\ Box(s[k]).x = c.x + 36 + z
      BY <2>6 DEF y, z
    <3>2. y \in Nat /\ z \in Nat /\ y + g <= z
      BY <2>5 DEF y, z
    <3> QED
      BY <2>4, <3>1, <3>2
  <2> QED
    BY <2>7 DEF Apart
<1>6. \/ Band(i) < Band(k)
      \/ Band(i) = 1 /\ Band(k) = 1
      \/ Band(i) = 4 /\ Band(k) = 4
  <2> DEFINE u == Band(i)
             v == Band(k)
  <2>1. /\ u = 2 => i = 10
        /\ u = 3 => i = 11
        /\ u = 5 => i = 16
        /\ u = 6 => i = 17
        /\ v = 2 => k = 10
        /\ v = 3 => k = 11
        /\ v = 5 => k = 16
        /\ v = 6 => k = 17
    BY Bands
  <2>2. u \in 1 .. 6 /\ v \in 1 .. 6 /\ u <= v /\ i < k
    BY <1>2
  <2> HIDE DEF u, v
  <2>3. ASSUME u = v PROVE u = 1 \/ u = 4
    <3>1. i # k
      BY <2>2
    <3>2. u # 2 /\ u # 3 /\ u # 5 /\ u # 6
      BY <2>1, <2>3, <3>1
    <3> QED
      BY <2>2, <3>2
  <2>4. u < v \/ u = v
    BY <2>2
  <2>5. u < v \/ (u = 1 /\ v = 1) \/ (u = 4 /\ v = 4)
    BY <2>2, <2>3, <2>4
  <2> QED
    BY <2>5 DEF u, v
<1> QED
  BY <1>3, <1>4, <1>5, <1>6

\* The gradient: a share n of a length, in parts of it.
Share(n, k, a) == (a * k) \div n
LEMMA ShareRises ==
  ASSUME NEW n \in Nat \ {0}, NEW k \in Nat \ {0}, NEW a \in Nat, NEW b \in Nat, a <= b, b < n
  PROVE  /\ Share(n, k, a) \in Nat /\ Share(n, k, b) \in Nat
         /\ Share(n, k, a) <= Share(n, k, b) /\ Share(n, k, b) < k
<1> DEFINE q == a * k
           r == b * k
<1>1. q \in Nat /\ r \in Nat
  OBVIOUS
<1>2. q <= r
  <2>1. (b - a) * k = r - q /\ (b - a) * k \in Nat
    OBVIOUS
  <2> QED
    BY <1>1, <2>1
<1>3. r < n * k
  <2>1. k * (n - b) >= k
    BY Gain
  <2>2. k * (n - b) = n * k - r /\ n * k \in Nat
    OBVIOUS
  <2> QED
    BY <1>1, <2>1, <2>2
<1> HIDE DEF q, r
<1>4. q \div n \in Nat /\ q \div n <= r \div n
  BY <1>1, <1>2, DivOrder
<1>5. r \div n \in Nat /\ r \div n < k
  BY <1>1, <1>3, DivBelow
<1> QED
  BY <1>4, <1>5 DEF q, r, Share

\* A point further right or further down is nowhere darker.
Glow(W, x) == IF x > W \div 2 THEN ((x - W \div 2) * 19) \div W ELSE 0
LEMMA GlowRises ==
  ASSUME NEW W \in Nat \ {0}, NEW x \in Nat, NEW u \in Nat, x <= u, u < W
  PROVE  Glow(W, x) \in Nat /\ Glow(W, u) \in Nat /\ Glow(W, x) <= Glow(W, u) /\ Glow(W, u) < 19
<1> DEFINE h == W \div 2
           a == IF x > h THEN x - h ELSE 0
           b == IF u > h THEN u - h ELSE 0
<1>1. h \in Nat
  BY Halves
<1> HIDE DEF h
<1>2. a \in Nat /\ b \in Nat /\ a <= b /\ b < W
  BY <1>1
<1>3. /\ Share(W, 19, a) \in Nat /\ Share(W, 19, b) \in Nat
      /\ Share(W, 19, a) <= Share(W, 19, b) /\ Share(W, 19, b) < 19
  <2> HIDE DEF a, b
  <2> QED
    BY <1>2, ShareRises
<1>4. (0 * 19) \div W = 0
  <2>1. 0 * 19 = 0 /\ 0 < W * 1 /\ 1 \in Nat /\ 0 \in Nat
    OBVIOUS
  <2>2. 0 \div W \in Nat /\ 0 \div W < 1
    BY <2>1, DivBelow
  <2> QED
    BY <2>1, <2>2
<1>5. Glow(W, x) = Share(W, 19, a)
  BY <1>1, <1>4 DEF Glow, h, Share
<1>6. Glow(W, u) = Share(W, 19, b)
  BY <1>1, <1>4 DEF Glow, h, Share
<1> QED
  BY <1>3, <1>5, <1>6

LEMMA BackgroundRises ==
  ASSUME NEW f, f.width \in Nat \ {0}, f.height \in Nat \ {0},
         NEW x \in Nat, NEW u \in Nat, x <= u, u < f.width,
         NEW y \in Nat, NEW v \in Nat, y <= v, v < f.height, NEW c \in Components
  PROVE  Background(f, x, y)[c] <= Background(f, u, v)[c]
<1> DEFINE W == f.width
           H == f.height
           a == Share(W, 30, x)
           b == Share(W, 30, u)
           d == Share(H, 24, y)
           e == Share(H, 24, v)
           g == Glow(W, x)
           k == Glow(W, u)
<1>1. W \in Nat \ {0} /\ H \in Nat \ {0} /\ Greater(W, 1) = W /\ Greater(H, 1) = H
  BY DEF Greater
<1>2. /\ Background(f, x, y) = <<(11 + d \div 3) % 256, (18 + a \div 2 + d \div 4) % 256, (43 + a + g) % 256>>
      /\ Background(f, u, v) = <<(11 + e \div 3) % 256, (18 + b \div 2 + e \div 4) % 256, (43 + b + k) % 256>>
  BY <1>1 DEF Background, Glow, Share
<1> HIDE DEF W, H
<1>3. a \in Nat /\ b \in Nat /\ a <= b /\ b < 30
  <2>1. u < W /\ 30 \in Nat \ {0}
    BY DEF W
  <2> QED
    BY <1>1, <2>1, ShareRises
<1>4. d \in Nat /\ e \in Nat /\ d <= e /\ e < 24
  <2>1. v < H /\ 24 \in Nat \ {0}
    BY DEF H
  <2> QED
    BY <1>1, <2>1, ShareRises
<1>5. g \in Nat /\ k \in Nat /\ g <= k /\ k < 19
  BY <1>1, GlowRises DEF W
<1> HIDE DEF a, b, d, e, g, k
<1>6. (11 + d \div 3) % 256 <= (11 + e \div 3) % 256
  BY <1>4
<1>7. (18 + a \div 2 + d \div 4) % 256 <= (18 + b \div 2 + e \div 4) % 256
  BY <1>3, <1>4
<1>8. (43 + a + g) % 256 <= (43 + b + k) % 256
  BY <1>3, <1>5
<1>9. c = 1 \/ c = 2 \/ c = 3
  BY DEF Components
<1> QED
  BY <1>2, <1>6, <1>7, <1>8, <1>9

\* What the splash draws, whenever it has been drawn.
SplashDrawn ==
  phase = "done" /\ drawing.op = "splash" =>
    calls = IF TooSmall(Card(fb)) THEN <<Backdrop(fb, Card(fb))[1]>>
            ELSE Picture(fb, Card(fb), Lesser(drawing.progress, 4))

LEMMA SplashKept == ASSUME RunInv, SplashDrawn, [SplashNext]_splashVars PROVE SplashDrawn'
<1> USE DEF SplashDrawn
<1>1. CASE \E d \in Drawings[mode] : DrawBootSplash(d)
  BY <1>1 DEF DrawBootSplash, Picture
<1>2. CASE \E d \in Drawings[mode] : FillRect(d) \/ FillRoundedRect(d) \/ FillDisc(d)
  BY <1>2 DEF FillRect, FillRoundedRect, FillDisc, Fill
<1>3. CASE LineStep
  <2>1. phase = "line" /\ drawing.op = "line" /\ drawing' = drawing
    BY <1>3 DEF LineStep, RunInv, LineInv, Lines
  <2> QED
    BY <2>1
<1>4. CASE LocateGop \/ FramebufferInit \/ \E mapping \in Mappings : Rebase(mapping)
  BY <1>4 DEF LocateGop, FramebufferInit, Rebase
<1>5. CASE \E d \in Drawings[mode] : LineBegin(d)
  BY <1>5 DEF LineBegin
<1>6. CASE UNCHANGED splashVars
  BY <1>6 DEF splashVars, vars
<1> QED
  BY <1>1, <1>2, <1>3, <1>4, <1>5, <1>6 DEF SplashNext, Next

IsText(d) == d.op = "text"
LEMMA CenteredText ==
  ASSUME NEW x, NEW y, NEW text, NEW z
  PROVE  IsText(DrawCentered(x, y, text, z))
  BY DEF IsText, DrawCentered, DrawText

\* The rails that are lit are the first p of the four.
LEMMA RailsLit ==
  ASSUME NEW f, NEW c, NEW p \in 0 .. 4, NEW s, Listed(f, c, p, s)
  PROVE  Cardinality({i \in DOMAIN s : s[i].op = "rounded" /\ s[i].colour = "cyan"}) = p
<1>1. \A i \in {1, 2, 3, 4, 5, 6, 7, 8, 9, 10, 11, 16, 17} :
        ~(s[i].op = "rounded" /\ s[i].colour = "cyan")
  <2>1. /\ s[1] = [op |-> "background", x |-> 0, y |-> 0, w |-> f.width, h |-> f.height]
        /\ s[2] = Disc(c.x + 72, c.y + 54, 46) /\ s[3] = Disc(c.x + c.w - 80, c.y + c.h - 52, 58)
    BY DEF Listed
  <2>2. s[1].op # "rounded" /\ s[2].op # "rounded" /\ s[3].op # "rounded"
    BY <2>1 DEF Disc
  <2>3. /\ s[4] = Rounded(c.x + 8, c.y + 12, c.w, c.h, 28, "shadow")
        /\ s[5] = Rounded(c.x, c.y, c.w, c.h, 28, "card")
        /\ s[6] = Rounded(c.x + 1, c.y + 1, c.w - 2, 2, 1, "edge")
    BY DEF Listed
  <2>4. s[4].colour # "cyan" /\ s[5].colour # "cyan" /\ s[6].colour # "cyan"
    BY <2>3 DEF Rounded
  <2>5. /\ s[7] = Line(Middle(c) - 42, LogoAt(c) + 38, Middle(c), LogoAt(c) - 42, 12)
        /\ s[8] = Line(Middle(c), LogoAt(c) - 42, Middle(c) + 42, LogoAt(c) + 38, 12)
        /\ s[9] = Line(Middle(c) - 23, LogoAt(c) + 8, Middle(c) + 23, LogoAt(c) + 8, 9)
    BY DEF Listed
  <2>6. s[7].op # "rounded" /\ s[8].op # "rounded" /\ s[9].op # "rounded"
    BY <2>5 DEF Line
  <2>7. /\ s[10] = DrawCentered(Middle(c), c.y + c.h \div 2 - 20, "AURELIAN", 5)
        /\ s[11] = DrawCentered(Middle(c), c.y + c.h \div 2 + 24, "PRISM BOOT CANVAS", 2)
        /\ s[16] = DrawCentered(Middle(c), c.y + c.h - 82 + 26, Caption(p), 2)
        /\ s[17] = DrawCentered(Middle(c), c.y + c.h - 28, "AURELION 0.0.1", 1)
    BY DEF Listed
  <2>8. IsText(s[10]) /\ IsText(s[11]) /\ IsText(s[16]) /\ IsText(s[17])
    <3>1. IsText(s[10])
      BY <2>7, CenteredText
    <3>2. IsText(s[11])
      BY <2>7, CenteredText
    <3>3. IsText(s[16])
      BY <2>7, CenteredText
    <3>4. IsText(s[17])
      BY <2>7, CenteredText
    <3> QED
      BY <3>1, <3>2, <3>3, <3>4
  <2>9. s[10].op = "text" /\ s[11].op = "text" /\ s[16].op = "text" /\ s[17].op = "text"
    BY <2>8 DEF IsText
  <2> QED
    BY <2>2, <2>4, <2>6, <2>9
<1>2. \A k \in 0 .. 3 : (s[12 + k].op = "rounded" /\ s[12 + k].colour = "cyan") <=> k < p
  <2> TAKE k \in 0 .. 3
  <2>1. s[12 + k] = Rail(c, p, k)
    BY DEF Listed
  <2>2. Rail(c, p, k).op = "rounded" /\ Rail(c, p, k).colour = IF k < p THEN "cyan" ELSE "dim"
    BY DEF Rail, Rounded
  <2> QED
    BY <2>1, <2>2
<1>3. DOMAIN s = 1 .. 17
  BY DEF Listed
<1>4. \A i \in 1 .. 17 : i \in {1, 2, 3, 4, 5, 6, 7, 8, 9, 10, 11, 16, 17} \/ i \in 12 .. 15
  OBVIOUS
<1>5. \A i \in 12 .. 15 : (s[i].op = "rounded" /\ s[i].colour = "cyan") <=> i < 12 + p
  <2> TAKE i \in 12 .. 15
  <2>1. i - 12 \in 0 .. 3 /\ 12 + (i - 12) = i /\ (i - 12 < p <=> i < 12 + p)
    OBVIOUS
  <2> QED
    BY <1>2, <2>1
<1>6. {i \in DOMAIN s : s[i].op = "rounded" /\ s[i].colour = "cyan"} = 12 .. 11 + p
  <2>1. ASSUME NEW i \in 1 .. 17, s[i].op = "rounded", s[i].colour = "cyan" PROVE i \in 12 .. 11 + p
    <3>1. i \in 12 .. 15
      BY <1>1, <1>4, <2>1
    <3>2. i < 12 + p
      BY <1>5, <2>1, <3>1
    <3> QED
      BY <3>1, <3>2
  <2>2. ASSUME NEW i \in 12 .. 11 + p
        PROVE  i \in 1 .. 17 /\ s[i].op = "rounded" /\ s[i].colour = "cyan"
    <3>1. i \in 12 .. 15 /\ i < 12 + p /\ i \in 1 .. 17
      OBVIOUS
    <3> QED
      BY <1>5, <3>1
  <2> QED
    BY <1>3, <2>1, <2>2
<1>7. Cardinality(12 .. 11 + p) = p
  <2>1. 12 \in Int /\ 11 + p \in Int
    OBVIOUS
  <2>2. Cardinality(12 .. 11 + p) = IF 12 > 11 + p THEN 0 ELSE 11 + p - 12 + 1
    BY <2>1, FS_Interval
  <2> QED
    BY <2>2
<1> QED
  BY <1>6, <1>7

LEMMA LaterCall ==
  ASSUME NEW i \in 7 .. 17, NEW k \in 1 .. 17, k > i
  PROVE  k \in 7 .. 17 /\ i < k
  OBVIOUS
LEMMA LiesWithin ==
  ASSUME NEW c, Roomy(c), NEW d, NEW g \in 1 .. 6, Lies(d, c, g)
  PROVE  Within(Box(d), c)
<1> DEFINE k == g + 1
<1>1. g \in 1 .. 7 /\ k \in 1 .. 7 /\ 1 \in 1 .. 7 /\ 7 \in 1 .. 7 /\ 1 <= g /\ k <= 7
  OBVIOUS
<1> HIDE DEF k
<1>2. Top(c, 1) <= Top(c, g) /\ Top(c, 1) \in Int /\ Top(c, g) \in Int
  BY <1>1, TopsRise
<1>3. Top(c, k) <= Top(c, 7) /\ Top(c, k) \in Int /\ Top(c, 7) \in Int
  BY <1>1, TopsRise
<1>4. Top(c, 1) = c.y /\ Top(c, 7) = c.y + c.h
  BY Tops
<1> DEFINE b == Box(d)
           t == Top(c, g)
           u == Top(c, k)
<1>5. /\ b.y \in Int /\ b.h \in Int /\ b.y >= t /\ b.y + b.h <= u
      /\ b.x >= c.x /\ b.x + b.w <= c.x + c.w
  BY DEF Lies, k
<1> HIDE DEF b, t, u
<1>6. b.y >= c.y /\ b.y + b.h <= c.y + c.h
  BY <1>2, <1>3, <1>4, <1>5 DEF t, u
<1> QED
  BY <1>5, <1>6 DEF Within, b

\* A picture drawn as listed is laid out as SplashLaidOut has it.
LEMMA PictureLaidOut ==
  ASSUME fb.width \in Nat \ {0}, fb.height \in Nat \ {0}, drawing.progress \in Nat, ~TooSmall(Card(fb)),
         calls = Picture(fb, Card(fb), Lesser(drawing.progress, 4))
  PROVE  /\ Displayed /\ Legible
         /\ Cardinality({i \in DOMAIN calls :
              calls[i].op = "rounded" /\ calls[i].colour = "cyan"}) = Lesser(drawing.progress, 4)
<1> DEFINE W == fb.width
           H == fb.height
           c == Card(fb)
           p == Lesser(drawing.progress, 4)
<1>1. W \in Nat /\ H \in Nat /\ p \in 0 .. 4
  BY DEF Lesser
<1>2. Placed(c, W, H) /\ (W >= 358 => c.w >= 310) /\ (H >= 298 => c.h >= 258)
  BY <1>1, CardPlaced
<1> HIDE DEF c, p
<1>3. Listed(fb, c, p, calls) /\ Len(Backdrop(fb, c)) = 6
  <2>1. calls = Picture(fb, c, p)
    BY DEF c, p
  <2> QED
    BY <2>1, PictureListed
<1>4. DOMAIN calls = 1 .. 17
  BY <1>3 DEF Listed
<1>5. Displayed
  <2>1. \A i \in 1 .. 17 : OnScreen(calls[i], W, H)
    BY <1>1, <1>2, <1>3, PictureDisplayed
  <2> QED
    BY <1>4, <2>1 DEF Displayed, OnScreen
<1>6. Legible
  <2> SUFFICES ASSUME W >= 358, H >= 298, NEW i \in DOMAIN calls, i > Len(Backdrop(fb, c))
               PROVE  /\ Within(Box(calls[i]), c)
                      /\ calls[i].op = "text" =>
                           Abs(2 * calls[i].x + calls[i].w - 2 * c.x - c.w) <= 2
                      /\ \A k \in DOMAIN calls :
                           k > i /\ {calls[i].op, calls[k].op} # {"line"} =>
                             Apart(Box(calls[i]), Box(calls[k]))
    BY DEF Legible, c
  <2>1. i \in 7 .. 17
    BY <1>3, <1>4
  <2>2. Roomy(c)
    <3>1. c.x \in Nat /\ c.y \in Nat /\ c.w \in Nat /\ c.h \in Nat
      BY <1>2 DEF Placed
    <3> QED
      BY <1>2, <3>1 DEF Roomy
  <2>3. Lies(calls[i], c, Band(i))
    BY <1>1, <1>2, <1>3, <2>1, <2>2, PictureLies
  <2>4. Within(Box(calls[i]), c)
    BY <2>1, <2>2, <2>3, Bands, LiesWithin
  <2>5. calls[i].op = "text" => Abs(2 * calls[i].x + calls[i].w - 2 * c.x - c.w) <= 2
    BY <2>3 DEF Lies
  <2>6. ASSUME NEW k \in DOMAIN calls, k > i, {calls[i].op, calls[k].op} # {"line"}
        PROVE  Apart(Box(calls[i]), Box(calls[k]))
    <3>1. k \in 7 .. 17 /\ i < k
      <4>1. k \in 1 .. 17
        BY <1>4, <2>6
      <4> QED
        BY <2>1, <2>6, <4>1, LaterCall
    <3> QED
      BY <1>1, <1>2, <1>3, <2>1, <2>2, <2>6, <3>1, PictureApart
  <2> QED
    BY <2>4, <2>5, <2>6
<1>7. Cardinality({i \in DOMAIN calls : calls[i].op = "rounded" /\ calls[i].colour = "cyan"}) = p
  BY <1>1, <1>3, RailsLit
<1> QED
  BY <1>5, <1>6, <1>7 DEF p

\* Where there is no room only the background is drawn.
LEMMA BareLaidOut ==
  ASSUME fb.width \in Nat \ {0}, fb.height \in Nat \ {0}, TooSmall(Card(fb)),
         calls = <<Backdrop(fb, Card(fb))[1]>>
  PROVE  Displayed /\ Legible
<1> DEFINE d == [op |-> "background", x |-> 0, y |-> 0, w |-> fb.width, h |-> fb.height]
<1>1. Backdrop(fb, Card(fb))[1] = d
  BY DEF Backdrop
<1>2. DOMAIN calls = {1} /\ calls[1] = d
  BY <1>1
<1>3. Displayed
  <2>1. LET b == Box(d) IN b.x = 0 /\ b.y = 0 /\ b.w = fb.width /\ b.h = fb.height
    BY DEF Box
  <2> HIDE DEF d
  <2> QED
    BY <1>2, <2>1 DEF Displayed
<1>4. Len(Backdrop(fb, Card(fb))) = 6
  BY PictureListed
<1>5. Legible
  BY <1>2, <1>4 DEF Legible
<1> QED
  BY <1>3, <1>5

\* framebuffer.c:356-456: on a display of any size the splash is laid out as it
\* should be, and its rails show the progress.
THEOREM SplashSound == Spec => []SplashLaidOut
<1>1. SplashInit => RunInv /\ SplashDrawn
  BY DEF SplashInit, Init, RunInv, LineInv, Types, Surface, SplashDrawn
<1>2. ASSUME RunInv, SplashDrawn PROVE SplashLaidOut
  <2> SUFFICES ASSUME phase = "done", drawing.op = "splash"
               PROVE  /\ Displayed /\ Legible /\ Smooth
                      /\ ~TooSmall(Card(fb)) => Cardinality({i \in DOMAIN calls :
                           calls[i].op = "rounded" /\ calls[i].colour = "cyan"})
                             = Lesser(drawing.progress, 4)
    BY DEF SplashLaidOut
  <2>1. fb.width \in Nat \ {0} /\ fb.height \in Nat \ {0}
    <3>1. Usable
      BY <1>2, DrawingUsable DEF RunInv
    <3>2. fb.width = mode.width /\ fb.height = mode.height /\ fb.width # 0 /\ fb.height # 0
      BY <3>1 DEF Usable, Describe, Fits
    <3> QED
      BY <3>1, <3>2, FramebufferAssumption DEF Usable
  <2>2. drawing.progress \in Nat
    <3>1. drawing \in Calls
      BY <1>2, FramebufferAssumption DEF RunInv, Types
    <3> QED
      BY <3>1 DEF Calls
  <2>3. Smooth
    <3> SUFFICES ASSUME NEW x \in {0, fb.width \div 2, fb.width - 1}, NEW u \in {0, fb.width \div 2, fb.width - 1},
                        NEW y \in {0, fb.height \div 2, fb.height - 1}, NEW v \in {0, fb.height \div 2, fb.height - 1},
                        x <= u, y <= v, NEW c \in Components
                 PROVE  Background(fb, x, y)[c] <= Background(fb, u, v)[c]
      BY DEF Smooth
    <3>1. /\ fb.width \div 2 \in Nat /\ fb.width \div 2 < fb.width
          /\ fb.height \div 2 \in Nat /\ fb.height \div 2 < fb.height
      BY <2>1, Halves
    <3>2. x \in Nat /\ u \in Nat /\ u < fb.width /\ y \in Nat /\ v \in Nat /\ v < fb.height
      BY <2>1, <3>1
    <3> QED
      BY <2>1, <3>2, BackgroundRises
  <2>4. CASE TooSmall(Card(fb))
    BY <1>2, <2>1, <2>3, <2>4, BareLaidOut DEF SplashDrawn
  <2>5. CASE ~TooSmall(Card(fb))
    BY <1>2, <2>1, <2>2, <2>3, <2>5, PictureLaidOut DEF SplashDrawn
  <2> QED
    BY <2>4, <2>5
<1> QED
  BY <1>1, <1>2, RunSound, SplashKept, PTL DEF Spec
-----------------------------------------------------------------------------
(* Powers of two, and the numbers below them as sets of bits.              *)

\* The powers of two up to the n-th, each twice the one before.
ArePowers(g, n) == g = [k \in 0 .. n |-> IF k = 0 THEN 1 ELSE 2 * g[k-1]]
\* There is such a function, so TwoTo is one.
LEMMA PowersExist ==
  ASSUME NEW n \in Nat
  PROVE  \E g : ArePowers(g, n)
<1> DEFINE Stuck == {m \in Nat : ~\E g : ArePowers(g, m)}
<1> SUFFICES ASSUME Stuck # {} PROVE FALSE
  OBVIOUS
<1>1. PICK m \in Stuck : \A k \in Stuck : m <= k
  <2>1. Stuck \in SUBSET Nat
    OBVIOUS
  <2> HIDE DEF Stuck
  <2> QED
    BY <2>1, Smallest
<1>2. m \in Nat /\ ~\E g : ArePowers(g, m)
  OBVIOUS
<1>3. CASE m = 0
  <2>1. ArePowers([k \in 0 .. 0 |-> 1], 0)
    BY DEF ArePowers
  <2> QED
    BY <1>2, <1>3, <2>1
<1>4. CASE m # 0
  <2>1. m - 1 \in Nat /\ m - 1 \notin Stuck
    BY <1>1, <1>2, <1>4
  <2>2. PICK g : ArePowers(g, m - 1)
    BY <2>1
  <2> DEFINE h == [k \in 0 .. m |-> IF k = 0 THEN 1 ELSE 2 * g[k-1]]
  <2>3. \A k \in 0 .. m - 1 : h[k] = g[k]
    BY <1>2, <2>2 DEF ArePowers
  <2>4. ASSUME NEW k \in 0 .. m, k # 0 PROVE g[k-1] = h[k-1]
    BY <1>2, <2>3, <2>4
  <2>5. ArePowers(h, m)
    <3>1. \A k \in 0 .. m : (IF k = 0 THEN 1 ELSE 2 * g[k-1]) = (IF k = 0 THEN 1 ELSE 2 * h[k-1])
      <4> HIDE DEF h
      <4> QED
        BY <2>4
    <3>2. h = [k \in 0 .. m |-> IF k = 0 THEN 1 ELSE 2 * g[k-1]]
      OBVIOUS
    <3> HIDE DEF h
    <3> QED
      BY <3>1, <3>2 DEF ArePowers
  <2> QED
    BY <1>2, <2>5
<1> QED
  BY <1>3, <1>4

\* The places of a pixel's bits, and TwoTo on them.
Places == 0 .. 4 * ByteBits
LEMMA Powers ==
  /\ 4 * ByteBits \in Nat /\ ByteBits \in Places /\ 0 \in Places
  /\ DOMAIN TwoTo = Places /\ \A k \in Places : TwoTo[k] \in Nat \ {0}
  /\ TwoTo[0] = 1 /\ \A k \in Places : k # 0 => k - 1 \in Places /\ TwoTo[k] = 2 * TwoTo[k-1]
<1> DEFINE n == 4 * ByteBits
<1>1. n \in Nat /\ ByteBits \in Places /\ 0 \in Places
  BY FramebufferAssumption DEF Places
<1> HIDE DEF n
<1>2. ArePowers(TwoTo, n)
  <2>1. \E g : ArePowers(g, n)
    BY <1>1, PowersExist
  <2>2. TwoTo = CHOOSE g : ArePowers(g, n)
    BY DEF TwoTo, ArePowers, n
  <2> HIDE DEF ArePowers
  <2> QED
    BY <2>1, <2>2
<1>3. DOMAIN TwoTo = Places /\ TwoTo[0] = 1
      /\ \A k \in Places : k # 0 => TwoTo[k] = 2 * TwoTo[k-1] /\ k - 1 \in Places
  BY <1>1, <1>2 DEF ArePowers, Places, n
<1>4. \A k \in Places : TwoTo[k] \in Nat \ {0}
  <2> DEFINE Wrong == {k \in Places : TwoTo[k] \notin Nat \ {0}}
  <2> SUFFICES ASSUME Wrong # {} PROVE FALSE
    OBVIOUS
  <2>1. PICK k \in Wrong : \A l \in Wrong : k <= l
    <3>1. Wrong \in SUBSET Nat
      BY <1>1 DEF Places
    <3> HIDE DEF Wrong
    <3> QED
      BY <3>1, Smallest
  <2>2. k \in Places /\ k \in Nat /\ TwoTo[k] \notin Nat \ {0}
    BY DEF Places
  <2>3. k # 0 /\ k - 1 \in Places /\ TwoTo[k] = 2 * TwoTo[k-1] /\ ~(k <= k - 1)
    BY <1>3, <2>2
  <2>4. TwoTo[k-1] \in Nat \ {0}
    BY <2>1, <2>3
  <2> QED
    BY <2>2, <2>3, <2>4
<1> QED
  BY <1>1, <1>3, <1>4 DEF n

\* They grow.
LEMMA PowersGrow ==
  ASSUME NEW j \in Places, NEW k \in Places, j <= k
  PROVE  TwoTo[j] <= TwoTo[k]
<1> DEFINE Wrong == {l \in Places : j <= l /\ ~(TwoTo[j] <= TwoTo[l])}
<1> SUFFICES ASSUME Wrong # {} PROVE FALSE
  OBVIOUS
<1>1. \A l \in Places : l \in Nat
  BY Powers DEF Places
<1>2. PICK l \in Wrong : \A i \in Wrong : l <= i
  <2>1. Wrong \in SUBSET Nat
    BY <1>1
  <2> HIDE DEF Wrong
  <2> QED
    BY <2>1, Smallest
<1>3. l \in Places /\ l \in Nat /\ j \in Nat /\ j <= l /\ ~(TwoTo[j] <= TwoTo[l])
      /\ TwoTo[j] \in Nat /\ TwoTo[l] \in Nat
  BY <1>1, Powers
<1>4. l # j
  BY <1>3
<1>5. l # 0 /\ j <= l - 1 /\ ~(l <= l - 1)
  BY <1>3, <1>4
<1>6. l - 1 \in Places /\ TwoTo[l] = 2 * TwoTo[l-1] /\ TwoTo[l-1] \in Nat
  BY <1>3, <1>5, Powers
<1>7. TwoTo[j] <= TwoTo[l-1]
  BY <1>2, <1>5, <1>6
<1> QED
  BY <1>3, <1>6, <1>7

\* Halving a quotient is dividing by twice as much.
LEMMA Halved ==
  ASSUME NEW n \in Nat, NEW q \in Nat \ {0}
  PROVE  /\ n \div (2 * q) = (n \div q) \div 2 /\ n \div q \in Nat
         /\ n \div q = 2 * (n \div (2 * q)) + ((n \div q) % 2)
<1> DEFINE a == n \div q
           r == n % q
           b == a \div 2
           s == a % 2
           k == 2 * q
           t == s * q + r
<1>1. a \in Nat /\ r \in 0 .. q - 1 /\ n = a * q + r
  OBVIOUS
<1> HIDE DEF a, r
<1>2. b \in Nat /\ s \in 0 .. 1 /\ a = 2 * b + s
  BY <1>1
<1> HIDE DEF b, s
<1>3. s * q \in {0, q}
  BY <1>2
<1>4. t \in 0 .. k - 1 /\ k \in Nat \ {0}
  BY <1>1, <1>3
<1>5. n = b * k + t
  <2>1. a * q = (2 * b) * q + s * q
    BY <1>1, <1>2
  <2>2. (2 * b) * q = b * (2 * q)
    BY <1>2
  <2> QED
    BY <1>1, <1>2, <1>3, <2>1, <2>2
<1>6. (b * k + t) \div k = b
  <2> HIDE DEF k, t
  <2> QED
    BY <1>2, <1>4, DivMod
<1>7. n \div k = b
  BY <1>5, <1>6
<1> QED
  BY <1>1, <1>2, <1>7 DEF a, b, s

\* A number below a power has no bit from there on.
LEMMA BitsBelow ==
  ASSUME NEW w \in Places, NEW n \in Nat, n < TwoTo[w]
  PROVE  /\ Bits(n) \subseteq 0 .. w - 1 /\ n \div TwoTo[w] = 0
         /\ \A b \in Places : b \in Bits(n) <=> (n \div TwoTo[b]) % 2 = 1
<1>1. \A b \in Places : b \in Bits(n) <=> (n \div TwoTo[b]) % 2 = 1
  BY DEF Bits, Places
<1>2. ASSUME NEW b \in Places, w <= b PROVE n \div TwoTo[b] = 0
  <2> DEFINE k == TwoTo[b]
             h == TwoTo[w]
  <2>1. h <= k /\ h \in Nat /\ k \in Nat \ {0} /\ n < h
    BY <1>2, PowersGrow, Powers
  <2> HIDE DEF h, k
  <2>3. k \in Nat \ {0} /\ n \in 0 .. k - 1
    BY <2>1
  <2> HIDE DEF k
  <2>4. (0 * k + n) \div k = 0
    BY <2>3, DivMod
  <2> QED
    BY <2>3, <2>4 DEF k
<1>3. Bits(n) \subseteq Places
  BY DEF Bits, Places
<1>4. w \in Nat /\ \A b \in Places : b \in Nat
  BY Powers DEF Places
<1>5. ASSUME NEW b \in Bits(n) PROVE b < w /\ b \in Nat
  <2>1. b \in Places /\ b \in Nat /\ (n \div TwoTo[b]) % 2 = 1
    BY <1>1, <1>3, <1>4
  <2>2. 0 % 2 # 1
    OBVIOUS
  <2>3. ~(w <= b)
    BY <1>2, <2>1, <2>2
  <2> QED
    BY <1>4, <2>1, <2>3
<1>6. n \div TwoTo[w] = 0
  BY <1>2, <1>4
<1> QED
  BY <1>1, <1>4, <1>5, <1>6

\* Numbers below a power with the same bits are the same.
LEMMA BitsTell ==
  ASSUME NEW w \in Places, NEW m \in Nat, NEW n \in Nat, m < TwoTo[w], n < TwoTo[w],
         Bits(m) = Bits(n)
  PROVE  m = n
<1> DEFINE Same == {k \in Places : m \div TwoTo[k] = n \div TwoTo[k]}
<1>1. \A k \in Places : k \in Nat
  BY Powers DEF Places
<1>2. w \in Same
  BY BitsBelow
<1>3. PICK k \in Same : \A l \in Same : k <= l
  <2>1. Same \in SUBSET Nat
    BY <1>1
  <2> HIDE DEF Same
  <2> QED
    BY <1>2, <2>1, Smallest
<1>4. k \in Places /\ k \in Nat /\ m \div TwoTo[k] = n \div TwoTo[k]
  BY <1>1
<1>5. CASE k = 0
  BY <1>4, <1>5, Powers
<1>6. CASE k # 0
  <2> DEFINE q == TwoTo[k-1]
  <2>1. k - 1 \in Places /\ q \in Nat \ {0} /\ TwoTo[k] = 2 * q /\ ~(k <= k - 1)
    BY <1>4, <1>6, Powers
  <2>2. k - 1 \in Bits(m) <=> k - 1 \in Bits(n)
    OBVIOUS
  <2>3. (m \div q) % 2 = 1 <=> (n \div q) % 2 = 1
    BY <2>1, <2>2, BitsBelow
  <2> HIDE DEF q
  <2>4. /\ m \div q = 2 * (m \div (2 * q)) + ((m \div q) % 2) /\ m \div q \in Nat
        /\ n \div q = 2 * (n \div (2 * q)) + ((n \div q) % 2) /\ n \div q \in Nat
    BY <2>1, Halved
  <2>5. (m \div q) % 2 = (n \div q) % 2
    BY <2>3, <2>4
  <2>6. m \div q = n \div q
    BY <1>4, <2>1, <2>4, <2>5
  <2>7. k - 1 \in Same
    BY <2>1, <2>6 DEF q
  <2> QED
    BY <1>3, <2>1, <2>7
<1> QED
  BY <1>5, <1>6
-----------------------------------------------------------------------------
(* Shades.                                                                 *)

\* Half the divisor added before a division rounds to the nearest.
LEMMA Nearest ==
  ASSUME NEW F \in Nat \ {0}, NEW M \in Nat, NEW v \in 0 .. F, NEW s,
         s = (v * M + F \div 2) \div F
  PROVE  /\ s \in 0 .. M
         /\ s * F \in Nat /\ v * M \in Nat
         /\ 2 * (s * F - v * M) <= F /\ 2 * (v * M - s * F) <= F
<1> DEFINE x == v * M
           h == F \div 2
           r == (x + h) % F
<1>1. x \in Nat /\ x <= F * M /\ F * M \in Nat
  <2>1. x \in Nat /\ (F - v) * M \in Nat
    OBVIOUS
  <2>2. (F - v) * M = F * M - x
    OBVIOUS
  <2> HIDE DEF x
  <2>3. F * M \in Nat
    OBVIOUS
  <2> QED
    BY <2>1, <2>2, <2>3
<1>2. h \in Nat /\ 2 * h <= F /\ F <= 2 * h + 1
  OBVIOUS
<1> HIDE DEF x, h
<1>3. s = (x + h) \div F
  BY DEF x, h
<1>4. s \in Nat /\ r \in 0 .. F - 1 /\ x + h = s * F + r
  BY <1>1, <1>2, <1>3
<1> HIDE DEF r
<1> DEFINE y == s * F
<1>5. y \in Nat /\ x + h = y + r
  BY <1>4
<1>6. s <= M
  <2> SUFFICES ASSUME s >= M + 1 PROVE FALSE
    BY <1>4
  <2>1. (s - M) \in Nat \ {0}
    BY <1>4
  <2>2. F * (s - M) >= F
    BY <2>1, Gain
  <2>3. F * (s - M) = y - F * M
    BY <1>4
  <2> HIDE DEF y
  <2> QED
    BY <1>1, <1>2, <1>4, <1>5, <2>2, <2>3
<1> HIDE DEF y
<1>7. 2 * (y - x) <= F /\ 2 * (x - y) <= F
  BY <1>1, <1>2, <1>4, <1>5
<1> QED
  BY <1>1, <1>4, <1>5, <1>6, <1>7 DEF x, y

\* scale_component, for the sizes it is used with.
LEMMA Scaled ==
  ASSUME NEW size \in 1 .. ByteBits, NEW c \in Components
  PROVE  LET s == Scale(Colour[c], size)
             full == TwoTo[ByteBits] - 1
             max == TwoTo[size] - 1
         IN  /\ s \in Nat /\ s < TwoTo[size] /\ size \in Places
             /\ 2 * Abs(s * full - Colour[c] * max) <= full
<1> DEFINE F == TwoTo[ByteBits] - 1
           M == TwoTo[size] - 1
           v == Colour[c]
           s == Scale(v, size)
<1>1. size \in Places /\ size # 0 /\ ByteBits \in Places /\ ByteBits # 0
  BY FramebufferAssumption, Powers DEF Places
<1>2. TwoTo[ByteBits] \in Nat \ {0} /\ TwoTo[size] \in Nat \ {0}
      /\ TwoTo[ByteBits] = 2 * TwoTo[ByteBits - 1] /\ TwoTo[ByteBits - 1] \in Nat \ {0}
  BY <1>1, Powers
<1>3. F \in Nat \ {0} /\ M \in Nat
  BY <1>2
<1>4. v \in 0 .. F
  BY FramebufferAssumption DEF Components
<1>5. s = (v * M + F \div 2) \div F
  BY DEF Scale
<1>6. TwoTo[size] = M + 1
  BY <1>2
<1> HIDE DEF F, M, v, s
<1>7. /\ s \in 0 .. M /\ s * F \in Nat /\ v * M \in Nat
      /\ 2 * (s * F - v * M) <= F /\ 2 * (v * M - s * F) <= F
  BY <1>3, <1>4, <1>5, Nearest
<1>8. 2 * Abs(s * F - v * M) <= F
  BY <1>3, <1>7 DEF Abs
<1>9. s \in Nat /\ s < TwoTo[size]
  BY <1>3, <1>6, <1>7
<1> QED
  BY <1>1, <1>8, <1>9 DEF s, v, F, M
-----------------------------------------------------------------------------
(* Masks.                                                                  *)

\* What set_framebuffer_format takes for granted of a mode with masks of its own:
\* each is a run of bits, and no two overlap.
RegularMasks ==
  \A m \in Modes : m.format = "mask" =>
    \A c \in Components :
      /\ \E low, high \in Nat : m.masks[c] = low .. high
      /\ \A d \in Components : d # c => m.masks[c] \cap m.masks[d] = {}

\* A run of bits has its length for size and its first bit for shift.
LEMMA RunOfBits ==
  ASSUME NEW low \in Nat, NEW size \in Nat \ {0}, NEW mask, mask = low .. low + size - 1
  PROVE  Cardinality(mask) = size /\ MaskShift(mask) = low /\ IsFiniteSet(mask)
<1> DEFINE high == low + size - 1
<1>1. low \in Int /\ high \in Int /\ low <= high /\ high - low + 1 = size
  OBVIOUS
<1>2. mask \in SUBSET Nat /\ low \in mask /\ \A a \in mask : low <= a
  BY <1>1
<1>3. Cardinality(mask) = size /\ IsFiniteSet(mask)
  <2> HIDE DEF high
  <2>1. mask = low .. high
    BY DEF high
  <2> QED
    BY <1>1, <2>1, FS_Interval
<1>4. MaskShift(mask) \in mask /\ \A a \in mask : MaskShift(mask) <= a
  BY <1>2, Smallest
<1> QED
  BY <1>2, <1>3, <1>4

\* Components of whole bytes are apart.
LEMMA BytesApart ==
  ASSUME NEW j \in Nat, NEW k \in Nat, j # k
  PROVE  (j * ByteBits .. (j + 1) * ByteBits - 1) \cap (k * ByteBits .. (k + 1) * ByteBits - 1) = {}
<1>1. ByteBits \in Nat \ {0}
  BY FramebufferAssumption
<1>2. ASSUME NEW a \in Nat, NEW b \in Nat, a < b PROVE (a + 1) * ByteBits <= b * ByteBits
  <2>1. (b - a - 1) * ByteBits \in Nat
    BY <1>1, <1>2
  <2>2. (b - a - 1) * ByteBits = b * ByteBits - (a + 1) * ByteBits
    BY <1>1
  <2>3. b * ByteBits \in Nat /\ (a + 1) * ByteBits \in Nat
    BY <1>1
  <2> QED
    BY <2>1, <2>2, <2>3
<1>3. \A a, b \in Nat : a < b =>
        (a * ByteBits .. (a + 1) * ByteBits - 1) \cap (b * ByteBits .. (b + 1) * ByteBits - 1) = {}
  <2> SUFFICES ASSUME NEW a \in Nat, NEW b \in Nat, a < b,
                      NEW x \in a * ByteBits .. (a + 1) * ByteBits - 1, x \in b * ByteBits .. (b + 1) * ByteBits - 1
               PROVE  FALSE
    OBVIOUS
  <2>1. (a + 1) * ByteBits <= b * ByteBits /\ b * ByteBits \in Int /\ (a + 1) * ByteBits \in Int
    BY <1>1, <1>2
  <2>2. x \in Int /\ x <= (a + 1) * ByteBits - 1 /\ b * ByteBits <= x
    BY <1>1
  <2> QED
    BY <2>1, <2>2
<1>4. j < k \/ k < j
  OBVIOUS
<1> QED
  BY <1>3, <1>4

\* Of a mode the renderer accepts, each component has its own run of bits.
LEMMA Masks ==
  ASSUME RegularMasks, NEW m \in Modes, m.format # "none", Accepts(Describe(m)),
         NEW c \in Components
  PROVE  LET size == Describe(m).size[c]
             shift == Describe(m).shift[c]
             mask == MaskOf(m, c)
         IN  /\ size \in 1 .. ByteBits /\ shift \in Nat
             /\ mask = shift .. shift + size - 1
             /\ Cardinality(mask) = size /\ MaskShift(mask) = shift
             /\ shift + size <= 4 * ByteBits
             /\ \A d \in Components : d # c => mask \cap MaskOf(m, d) = {}
<1> DEFINE size == Describe(m).size[c]
           shift == Describe(m).shift[c]
           mask == MaskOf(m, c)
<1>1. /\ m.format \in {"rgb", "bgr", "mask", "blt"} /\ ByteBits \in Nat \ {0}
      /\ c \in {1, 2, 3} /\ Components = {1, 2, 3}
  BY FramebufferAssumption DEF Components
<1>2. size = CASE m.format \in {"rgb", "bgr"} -> ByteBits
               [] m.format = "mask" -> MaskSize(m.masks[c])
               [] m.format = "blt" -> 0
  BY DEF Describe, Format
<1>3. shift = CASE m.format = "rgb" -> (c - 1) * ByteBits
                [] m.format = "bgr" -> (3 - c) * ByteBits
                [] m.format = "mask" -> MaskShift(m.masks[c])
                [] m.format = "blt" -> 0
  BY DEF Describe, Format
<1>4. size \in 1 .. ByteBits /\ shift \in Nat /\ size + shift <= 4 * ByteBits
  BY Described DEF Accepts
<1> HIDE DEF size, shift
<1>5. /\ mask = shift .. shift + size - 1
      /\ \A d \in Components : d # c => mask \cap MaskOf(m, d) = {}
  <2>1. CASE m.format = "rgb"
    <3>1. \A d \in Components : /\ MaskOf(m, d) = (d - 1) * ByteBits .. ((d - 1) + 1) * ByteBits - 1
                                /\ d - 1 \in Nat
      BY <1>1, <2>1 DEF MaskOf
    <3>2. size = ByteBits /\ shift = (c - 1) * ByteBits
      BY <1>2, <1>3, <2>1
    <3>3. mask = shift .. shift + size - 1
      BY <1>1, <3>1, <3>2
    <3>4. ASSUME NEW d \in Components, d # c PROVE mask \cap MaskOf(m, d) = {}
      <4>1. c - 1 # d - 1
        BY <1>1, <3>4
      <4> QED
        BY <3>1, <4>1, BytesApart
    <3> QED
      BY <3>3, <3>4
  <2>2. CASE m.format = "bgr"
    <3>1. \A d \in Components : /\ MaskOf(m, d) = (3 - d) * ByteBits .. ((3 - d) + 1) * ByteBits - 1
                                /\ 3 - d \in Nat
      BY <1>1, <2>2 DEF MaskOf
    <3>2. size = ByteBits /\ shift = (3 - c) * ByteBits
      BY <1>2, <1>3, <2>2
    <3>3. mask = shift .. shift + size - 1
      BY <1>1, <3>1, <3>2
    <3>4. ASSUME NEW d \in Components, d # c PROVE mask \cap MaskOf(m, d) = {}
      <4>1. 3 - c # 3 - d
        BY <1>1, <3>4
      <4> QED
        BY <3>1, <4>1, BytesApart
    <3> QED
      BY <3>3, <3>4
  <2>3. CASE m.format = "mask"
    <3>1. \A d \in Components : MaskOf(m, d) = m.masks[d]
      BY <2>3 DEF MaskOf
    <3>2. size = Cardinality(mask) /\ shift = MaskShift(mask)
      BY <1>2, <1>3, <2>3, <3>1 DEF MaskSize
    <3>3. PICK low \in Nat, high \in Nat : mask = low .. high
      BY <2>3, <3>1 DEF RegularMasks
    <3>4. low <= high
      <4> SUFFICES ASSUME ~(low <= high) PROVE FALSE
        OBVIOUS
      <4>1. mask = {}
        BY <3>3
      <4>2. size = 0
        BY <3>2, <4>1, FS_EmptySet
      <4> QED
        BY <1>4, <4>2
    <3> DEFINE n == high - low + 1
    <3>5. n \in Nat \ {0} /\ mask = low .. low + n - 1
      BY <3>3, <3>4
    <3> HIDE DEF n, mask
    <3>6. Cardinality(mask) = n /\ MaskShift(mask) = low
      BY <3>5, RunOfBits
    <3>7. \A d \in Components : d # c => m.masks[c] \cap m.masks[d] = {}
      BY <2>3 DEF RegularMasks
    <3>8. \A d \in Components : d # c => mask \cap MaskOf(m, d) = {}
      BY <3>1, <3>7 DEF mask
    <3>9. mask = shift .. shift + size - 1
      BY <3>2, <3>5, <3>6
    <3> QED
      BY <3>8, <3>9 DEF mask
  <2>4. CASE m.format = "blt"
    BY <1>2, <1>4, <2>4
  <2> QED
    BY <1>1, <2>1, <2>2, <2>3, <2>4
<1> HIDE DEF mask
<1>6. Cardinality(mask) = size /\ MaskShift(mask) = shift
  <2>1. size \in Nat \ {0} /\ shift \in Nat /\ mask = shift .. shift + size - 1
    BY <1>1, <1>4, <1>5
  <2> QED
    BY <2>1, RunOfBits
<1> QED
  BY <1>1, <1>4, <1>5, <1>6 DEF size, shift, mask

\* A number is told by its bits wherever they are moved.
Moved(n, shift) == {b + shift : b \in Bits(n)}
LEMMA MovedBitsTell ==
  ASSUME NEW w \in Places, NEW m \in Nat, NEW n \in Nat, m < TwoTo[w], n < TwoTo[w],
         NEW shift \in Nat, Moved(m, shift) = Moved(n, shift)
  PROVE  m = n
<1>1. Bits(m) \subseteq Nat /\ Bits(n) \subseteq Nat
  BY Powers DEF Bits, Places
<1>2. \A a, b \in Nat : a + shift = b + shift => a = b
  OBVIOUS
<1>3. Bits(m) = Bits(n)
  BY <1>1, <1>2 DEF Moved
<1> QED
  BY <1>3, BitsTell

\* What pack_rgb makes of a component, and where it puts it.
Shade(m, c) == Scale(Colour[c], Describe(m).size[c])
Part(m, c) == {b + Describe(m).shift[c] : b \in Bits(Shade(m, c))}

\* Each component's bits lie in its mask, and no other's do.
LEMMA PartPlaced ==
  ASSUME RegularMasks, NEW m \in Modes, m.format # "none", Accepts(Describe(m)),
         NEW c \in Components
  PROVE  /\ Part(m, c) \subseteq MaskOf(m, c)
         /\ Part(m, c) \subseteq 0 .. 4 * ByteBits - 1
         /\ Pack(Describe(m)) \cap MaskOf(m, c) = Part(m, c)
<1>1. Pack(Describe(m)) = UNION {Part(m, d) : d \in Components}
  BY DEF Pack, Part, Shade
<1>2. ASSUME NEW d \in Components
      PROVE  /\ Part(m, d) \subseteq MaskOf(m, d)
             /\ Part(m, d) \subseteq 0 .. 4 * ByteBits - 1
  <2> DEFINE size == Describe(m).size[d]
             shift == Describe(m).shift[d]
             v == Shade(m, d)
  <2>1. /\ size \in 1 .. ByteBits /\ shift \in Nat /\ MaskOf(m, d) = shift .. shift + size - 1
        /\ shift + size <= 4 * ByteBits
    BY Masks
  <2>2. v \in Nat /\ v < TwoTo[size] /\ size \in Places
    BY <2>1, Scaled DEF Shade
  <2>3. Bits(v) \subseteq 0 .. size - 1
    BY <2>2, BitsBelow
  <2>4. 4 * ByteBits \in Nat /\ size \in Nat
    BY <2>1, FramebufferAssumption
  <2>5. Part(m, d) = {b + shift : b \in Bits(v)}
    BY DEF Part
  <2> HIDE DEF size, shift, v
  <2>6. ASSUME NEW b \in Bits(v)
        PROVE  b + shift \in shift .. shift + size - 1 /\ b + shift \in 0 .. 4 * ByteBits - 1
    <3>1. b \in Nat /\ b <= size - 1
      BY <2>3
    <3> QED
      BY <2>1, <2>4, <3>1
  <2> QED
    BY <2>1, <2>5, <2>6
<1>3. \A d \in Components : d # c => MaskOf(m, c) \cap MaskOf(m, d) = {}
  BY Masks
<1>4. Pack(Describe(m)) \cap MaskOf(m, c) = Part(m, c)
  BY <1>1, <1>2, <1>3
<1> QED
  BY <1>2, <1>4

\* A packed colour lies in the masks of the mode, and can be read back from
\* them to the nearest shade.
LEMMA Packed ==
  ASSUME RegularMasks, NEW m \in Modes, m.format # "none", Accepts(Describe(m))
  PROVE  /\ Pack(Describe(m)) \subseteq UNION {MaskOf(m, c) : c \in Components}
         /\ Pack(Describe(m)) \subseteq 0 .. 4 * ByteBits - 1
         /\ \A c \in Components :
              LET full == TwoTo[ByteBits] - 1
                  max == TwoTo[Cardinality(MaskOf(m, c))] - 1
              IN  2 * Abs(ValueOf(Pack(Describe(m)), MaskOf(m, c)) * full - Colour[c] * max) <= full
<1>1. Pack(Describe(m)) = UNION {Part(m, d) : d \in Components}
  BY DEF Pack, Part, Shade
<1>2. \A c \in Components : Part(m, c) \subseteq MaskOf(m, c) /\ Part(m, c) \subseteq 0 .. 4 * ByteBits - 1
  BY PartPlaced
<1>3. ASSUME NEW c \in Components
      PROVE  LET full == TwoTo[ByteBits] - 1
                 max == TwoTo[Cardinality(MaskOf(m, c))] - 1
             IN  2 * Abs(ValueOf(Pack(Describe(m)), MaskOf(m, c)) * full - Colour[c] * max) <= full
  <2> DEFINE size == Describe(m).size[c]
             shift == Describe(m).shift[c]
             mask == MaskOf(m, c)
             v == Scale(Colour[c], size)
             bits == Pack(Describe(m))
             Read(u) == {b + shift : b \in Bits(u)} = bits \cap mask
  <2>1. size \in 1 .. ByteBits /\ shift \in Nat /\ Cardinality(mask) = size /\ MaskShift(mask) = shift
    BY Masks
  <2>2. /\ v \in Nat /\ v < TwoTo[size] /\ size \in Places
        /\ 2 * Abs(v * (TwoTo[ByteBits] - 1) - Colour[c] * (TwoTo[size] - 1)) <= TwoTo[ByteBits] - 1
    BY <2>1, Scaled
  <2>3. Part(m, c) = {b + shift : b \in Bits(v)} /\ bits \cap mask = Part(m, c)
    BY PartPlaced DEF Part, Shade
  <2>4. ValueOf(bits, mask) = CHOOSE u \in 0 .. TwoTo[size] - 1 : Read(u)
    BY <2>1 DEF ValueOf
  <2> HIDE DEF size, shift, mask, v, bits
  <2>5. TwoTo[size] \in Nat
    BY <2>2, Powers
  <2>6. v \in 0 .. TwoTo[size] - 1 /\ Read(v)
    BY <2>2, <2>3, <2>5
  <2>7. ASSUME NEW u \in 0 .. TwoTo[size] - 1, Read(u) PROVE u = v
    <3>1. u \in Nat /\ u < TwoTo[size]
      BY <2>5
    <3>2. Moved(u, shift) = Moved(v, shift)
      BY <2>6, <2>7 DEF Moved
    <3> QED
      BY <2>1, <2>2, <3>1, <3>2, MovedBitsTell
  <2> HIDE DEF Read
  <2>8. ValueOf(bits, mask) = v
    BY <2>4, <2>6, <2>7
  <2>9. 2 * Abs(ValueOf(bits, mask) * (TwoTo[ByteBits] - 1)
                - Colour[c] * (TwoTo[Cardinality(mask)] - 1)) <= TwoTo[ByteBits] - 1
    BY <2>1, <2>2, <2>8
  <2> QED
    BY <2>9 DEF bits, mask
<1> QED
  BY <1>1, <1>2, <1>3
-----------------------------------------------------------------------------
(* Pixels keep the colour they are drawn in.                               *)

\* The bytes pack_rgb's pixel is written as, lowest first, are the pixel.
ByteOf(bits, k) == {b - k * ByteBits : b \in {a \in bits : a \div ByteBits = k}}
LEMMA BytesTogether ==
  ASSUME NEW bits, bits \subseteq 0 .. 4 * ByteBits - 1
  PROVE  UNION {{b + k * ByteBits : b \in ByteOf(bits, k)} : k \in 0 .. 3} = bits
<1>1. ByteBits \in Nat \ {0} /\ bits \subseteq Nat
  BY FramebufferAssumption
<1>2. ASSUME NEW k \in 0 .. 3, NEW b \in ByteOf(bits, k) PROVE b + k * ByteBits \in bits
  <2>1. PICK a \in bits : b = a - k * ByteBits
    BY DEF ByteOf
  <2>2. a \in Nat /\ k * ByteBits \in Nat
    BY <1>1
  <2>3. b + k * ByteBits = a
    BY <2>1, <2>2
  <2> QED
    BY <2>3
<1>3. ASSUME NEW a \in bits PROVE \E k \in 0 .. 3 : \E b \in ByteOf(bits, k) : a = b + k * ByteBits
  <2> DEFINE k == a \div ByteBits
  <2>1. a \in Nat /\ a <= 4 * ByteBits - 1 /\ k \in Nat /\ a % ByteBits \in Nat
        /\ a = k * ByteBits + (a % ByteBits)
    BY <1>1
  <2>2. k \in 0 .. 3
    <3> HIDE DEF k
    <3>1. SUFFICES ASSUME k - 4 >= 0 PROVE FALSE
      BY <2>1
    <3>2. ByteBits * (k - 4) >= 0 /\ ByteBits * (k - 4) = k * ByteBits - 4 * ByteBits
      BY <1>1, <2>1, <3>1
    <3>3. k * ByteBits \in Nat
      BY <1>1, <2>1
    <3> QED
      BY <1>1, <2>1, <3>2, <3>3
  <2>3. a - k * ByteBits \in ByteOf(bits, k)
    BY DEF ByteOf
  <2>4. k * ByteBits \in Nat
    BY <1>1, <2>1
  <2> HIDE DEF k
  <2>5. a = (a - k * ByteBits) + k * ByteBits
    BY <2>1, <2>4
  <2> QED
    BY <2>2, <2>3, <2>5
<1> DEFINE Raised(k) == {b + k * ByteBits : b \in ByteOf(bits, k)}
<1>4. ASSUME NEW a PROVE a \in bits <=> \E k \in 0 .. 3 : a \in Raised(k)
  BY <1>2, <1>3
<1> HIDE DEF Raised
<1>5. UNION {Raised(k) : k \in 0 .. 3} = bits
  BY <1>4
<1> QED
  BY <1>5 DEF Raised

\* Every byte written is the byte of the colour that belongs there.
Right(scr) == \A o \in DOMAIN scr : \A p \in OnDisplay(fb), k \in 0 .. 3 :
                o = AddressOf(fb, p) + k => scr[o] = ByteOf(Pack(fb), k)
\* And a pixel is written whole.
Whole(scr) == \A p \in OnDisplay(fb), j, k \in 0 .. 3 :
                AddressOf(fb, p) + j \in DOMAIN scr => AddressOf(fb, p) + k \in DOMAIN scr

\* put_pixel writes whole pixels in their colour: an address belongs to one
\* pixel and one byte of it.
LEMMA PlotPaints ==
  ASSUME Usable, NEW scr, NEW points, Right(scr), Whole(scr)
  PROVE  Right(Plot(fb, scr, points)) /\ Whole(Plot(fb, scr, points))
<1> DEFINE starts == {AddressOf(fb, p) : p \in points \cap OnDisplay(fb)}
           bytes == 0 .. (fb.bpp \div ByteBits) - 1
           k(o) == CHOOSE b \in bytes : o - b \in starts
           written == {o + b : o \in starts, b \in bytes}
           new == Plot(fb, scr, points)
<1>1. new = [o \in DOMAIN scr \cup written |-> IF o \in written THEN ByteOf(Pack(fb), k(o)) ELSE scr[o]]
  BY DEF Plot, ByteOf
<1> HIDE DEF starts, bytes, k, written, new
<1>2. bytes = 0 .. 3
  BY Described DEF Usable, bytes
<1>3. ASSUME NEW p \in OnDisplay(fb) PROVE AddressOf(fb, p) \in Int
  BY Described DEF Usable, AddressOf, OnDisplay
<1>4. ASSUME NEW p \in OnDisplay(fb), NEW j \in 0 .. 3, AddressOf(fb, p) + j \in written
      PROVE  p \in points /\ k(AddressOf(fb, p) + j) = j
  <2> DEFINE o == AddressOf(fb, p) + j
  <2>1. ASSUME NEW q \in OnDisplay(fb), NEW b \in 0 .. 3, o = AddressOf(fb, q) + b
        PROVE  q = p /\ b = j
    <3>1. PointOf(AddressOf(fb, p) + j) = p /\ PointOf(AddressOf(fb, q) + b) = q
      BY AddressParts
    <3>2. q = p
      BY <2>1, <3>1
    <3> QED
      BY <1>3, <2>1, <3>2
  <2>2. PICK s \in starts, b \in bytes : o = s + b
    BY <1>4 DEF written
  <2>3. PICK q \in points \cap OnDisplay(fb) : s = AddressOf(fb, q)
    BY DEF starts
  <2>4. q = p
    BY <1>2, <2>1, <2>2, <2>3
  <2>5. o - j \in starts /\ j \in bytes
    <3>1. o - j = AddressOf(fb, p)
      BY <1>3
    <3> QED
      BY <1>2, <2>3, <2>4, <3>1
  <2>6. k(o) \in bytes /\ o - k(o) \in starts
    BY <2>5 DEF k
  <2>7. PICK r \in points \cap OnDisplay(fb) : o - k(o) = AddressOf(fb, r)
    BY <2>6 DEF starts
  <2>8. o = AddressOf(fb, r) + k(o) /\ k(o) \in 0 .. 3
    <3>1. o \in Int /\ k(o) \in 0 .. 3
      BY <1>2, <1>3, <2>6
    <3> HIDE DEF o
    <3> QED
      BY <2>7, <3>1
  <2>9. k(o) = j
    BY <2>1, <2>7, <2>8
  <2> QED
    BY <2>3, <2>4, <2>9
<1>5. DOMAIN new = DOMAIN scr \cup written
  BY <1>1
<1>6. Right(new)
  <2> SUFFICES ASSUME NEW p \in OnDisplay(fb), NEW j \in 0 .. 3, AddressOf(fb, p) + j \in DOMAIN new
               PROVE  new[AddressOf(fb, p) + j] = ByteOf(Pack(fb), j)
    BY DEF Right
  <2>1. CASE AddressOf(fb, p) + j \in written
    BY <1>1, <1>4, <2>1
  <2>2. CASE AddressOf(fb, p) + j \notin written
    BY <1>1, <1>5, <2>2 DEF Right
  <2> QED
    BY <2>1, <2>2
<1>7. Whole(new)
  <2> SUFFICES ASSUME NEW p \in OnDisplay(fb), NEW i \in 0 .. 3, NEW j \in 0 .. 3,
                      AddressOf(fb, p) + i \in DOMAIN new
               PROVE  AddressOf(fb, p) + j \in DOMAIN new
    BY DEF Whole
  <2>1. CASE AddressOf(fb, p) + i \in written
    <3>1. AddressOf(fb, p) \in starts /\ j \in bytes
      BY <1>2, <1>4, <2>1 DEF starts
    <3> QED
      BY <1>5, <3>1 DEF written
  <2>2. CASE AddressOf(fb, p) + i \notin written
    BY <1>5, <2>2 DEF Whole
  <2> QED
    BY <2>1, <2>2
<1> QED
  BY <1>6, <1>7 DEF new

\* What a run keeps true of the colours: the renderer has checked the format it
\* draws with, and every pixel it has written is the colour packed, whole.
Painted ==
  /\ phase \in {"draw", "line", "done"} => Accepts(fb)
  /\ Right(screen) /\ Whole(screen)

\* So does a step that draws.
LEMMA PlotPainted ==
  ASSUME RunInv, Painted, phase \in {"draw", "line"}, phase' \in {"line", "done"},
         NEW points, screen' = Plot(fb, screen, points), UNCHANGED <<mode, fb, pixels>>
  PROVE  Painted'
<1>1. Usable
  BY DrawingUsable DEF RunInv
<1>2. Right(screen') /\ Whole(screen')
  BY <1>1, PlotPaints DEF Painted
<1>3. Right(screen)' <=> Right(screen')
  BY DEF Right, OnDisplay, AddressOf, ByteOf, Pack
<1>4. Whole(screen)' <=> Whole(screen')
  BY DEF Whole, OnDisplay, AddressOf
<1>5. Accepts(fb)'
  BY DEF Painted, Accepts
<1> QED
  BY <1>2, <1>3, <1>4, <1>5 DEF Painted

\* No other step writes, and the surface is moved only while it is blank.
LEMMA PaintedKept == ASSUME RunInv, Painted, [SplashNext]_splashVars PROVE Painted'
<1> USE DEF RunInv
<1>1. CASE LocateGop
  <2>1. DOMAIN screen' = {} /\ phase' = "init"
    BY <1>1 DEF LocateGop, Surface
  <2> QED
    BY <2>1 DEF Painted, Right, Whole
<1>2. CASE FramebufferInit
  <2>1. DOMAIN screen' = {} /\ (phase' = "draw" => Accepts(fb)) /\ phase' \in {"draw", "rejected"} /\ fb' = fb
    BY <1>2 DEF FramebufferInit, Surface
  <2> QED
    BY <2>1 DEF Painted, Right, Whole, Accepts
<1>3. CASE \E mapping \in Mappings : Rebase(mapping)
  <2>1. DOMAIN screen' = {} /\ phase = "draw" /\ phase' = "draw" /\ fb' = fb
    BY <1>3 DEF Rebase, Surface
  <2> QED
    BY <2>1 DEF Painted, Right, Whole, Accepts
<1>4. CASE \E d \in Drawings[mode] : FillRect(d) \/ FillRoundedRect(d) \/ FillDisc(d)
  BY <1>4, PlotPainted DEF FillRect, FillRoundedRect, FillDisc, Fill
<1>5. CASE \E d \in Drawings[mode] : LineBegin(d)
  <2>1. DOMAIN screen' = {} /\ phase = "draw" /\ phase' = "line" /\ fb' = fb
    BY <1>5 DEF LineBegin, Surface
  <2> QED
    BY <2>1 DEF Painted, Right, Whole, Accepts
<1>6. CASE LineStep
  BY <1>6, PlotPainted DEF LineStep
<1>7. CASE \E d \in Drawings[mode] : DrawBootSplash(d)
  <2>1. DOMAIN screen' = {} /\ phase = "draw" /\ fb' = fb
    BY <1>7 DEF DrawBootSplash, Surface
  <2> QED
    BY <2>1 DEF Painted, Right, Whole, Accepts
<1>8. CASE UNCHANGED splashVars
  BY <1>8 DEF splashVars, vars, Painted, Right, Whole, Accepts, OnDisplay, AddressOf, ByteOf, Pack
<1> QED
  BY <1>1, <1>2, <1>3, <1>4, <1>5, <1>6, <1>7, <1>8 DEF SplashNext, Next

\* framebuffer.c:31-66: in every mode whose masks are runs of bits apart, every
\* pixel written shows its colour to the nearest shade, and sets no other bit.
THEOREM ColoursTrue == ASSUME RegularMasks PROVE Spec => []ColourShown
<1>1. SplashInit => Painted
  BY DEF SplashInit, Init, Painted, Right, Whole
<1>2. RunInv /\ Painted => ColourShown
  <2> SUFFICES ASSUME RunInv, Painted, NEW p \in Written
               PROVE  Shown(AddressOf(fb, p)) = Pack(fb) /\ mode \in Modes /\ mode.format # "none"
                      /\ fb = Describe(mode) /\ Accepts(fb)
    BY Packed DEF ColourShown
  <2>1. PICK o \in DOMAIN screen : p = PointOf(o)
    BY DEF Written
  <2>2. phase \in {"line", "done"} /\ Usable /\ Accepts(fb) /\ Visible(o)
    BY DrawingUsable DEF RunInv, Surface, Types, Painted
  <2>3. PICK q \in OnDisplay(fb), j \in 0 .. 3 : o = AddressOf(fb, q) + j
    BY <2>2 DEF Visible
  <2>4. p = q
    BY <2>1, <2>2, <2>3, AddressParts
  <2>5. \A k \in 0 .. 3 : screen[AddressOf(fb, p) + k] = ByteOf(Pack(fb), k)
    BY <2>3, <2>4 DEF Painted, Right, Whole
  <2>6. Pack(fb) \subseteq 0 .. 4 * ByteBits - 1
    BY <2>2, Packed DEF Usable
  <2>7. Shown(AddressOf(fb, p)) = UNION {{b + k * ByteBits : b \in ByteOf(Pack(fb), k)} : k \in 0 .. 3}
    BY <2>5 DEF Shown, BytesPerPixel
  <2>8. Shown(AddressOf(fb, p)) = Pack(fb)
    BY <2>6, <2>7, BytesTogether
  <2> QED
    BY <2>2, <2>8 DEF Usable
<1>3. RunInv /\ Painted /\ [SplashNext]_splashVars => Painted'
  BY PaintedKept
<1> QED
  BY <1>1, <1>2, <1>3, RunSound, PTL DEF Spec
=============================================================================
