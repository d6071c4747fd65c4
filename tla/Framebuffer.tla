----------------------------- MODULE Framebuffer -----------------------------
(***************************************************************************)
(* The framebuffer renderer, kernel/src/framebuffer.c, together with the   *)
(* description of the display the UEFI loader derives from its graphics    *)
(* mode (boot/uefi/src/main.c).                                            *)
(*                                                                         *)
(* Video memory is a partial function from addresses to the set of bits    *)
(* that are 1: a byte never written is not in its domain.  A colour is  *)
(* a triple of components.  Drawing outside the display on the left or top *)
(* and sums beyond 2^32 do not occur in the one picture the kernel draws   *)
(* and are left out; drawing over its right and bottom edges does.         *)
(* Glyphs are rectangles to this model: the font is data.                  *)
(***************************************************************************)
EXTENDS Integers, FiniteSets, Sequences

CONSTANTS ByteBits,      \* bits of a byte, and of a colour component (8)
          MaxDimension,  \* AURELION_FRAMEBUFFER_MAX_DIMENSION
          Modes,         \* graphics modes a firmware may be in
          Drawings,      \* calls of the drawing functions, for each mode
          Mappings,      \* addresses the kernel may map the display at; 0: none
          Colour         \* what they are drawn in

VARIABLES phase,         \* "gop", "init", "draw", "line", "done", "rejected"
          mode,          \* the graphics mode
          fb,            \* boot_info's description of the display
          drawing,       \* the call being made
          pen,           \* x0, y0 and error of draw_thick_line
          pixels,        \* where the surface starts, 0 before it is set up
          screen         \* video memory

vars == <<phase, mode, fb, drawing, pen, pixels, screen>>

\* The drawing functions called, with their arguments.
Calls == [op : {"rect"}, x : Nat, y : Nat, w : Nat, h : Nat]
         \cup [op : {"rounded"}, x : Nat, y : Nat, w : Nat, h : Nat, r : Nat]
         \cup [op : {"disc"}, x : Nat, y : Nat, r : Nat]
         \cup [op : {"line"}, x : Nat, y : Nat, x1 : Nat, y1 : Nat, thickness : Nat]
         \cup [op : {"splash"}, progress : Nat]

\* 1 << k, within a pixel.
TwoTo[k \in 0 .. 4 * ByteBits] == IF k = 0 THEN 1 ELSE 2 * TwoTo[k-1]

ASSUME FramebufferAssumption ==
  /\ ByteBits \in Nat \ {0} /\ MaxDimension \in Nat /\ Mappings \subseteq Nat
  /\ \A c \in 1 .. 3 : Colour[c] \in 0 .. TwoTo[ByteBits] - 1
  /\ \A m \in Modes :
       /\ m.format \in {"rgb", "bgr", "mask", "blt", "none"}
       /\ {m.base, m.width, m.height, m.ppsl} \subseteq Nat
       /\ \A c \in 1 .. 3 : m.masks[c] \subseteq 0 .. 4 * ByteBits - 1
       /\ Drawings[m] \subseteq Calls

Components == 1 .. 3
BytesPerPixel == 4
Lesser(a, b) == IF a < b THEN a ELSE b
Abs(n) == IF n < 0 THEN -n ELSE n
NoFb == [address |-> 0, width |-> 0, height |-> 0, pitch |-> 0, bpp |-> 0,
         size |-> <<0, 0, 0>>, shift |-> <<0, 0, 0>>]
-----------------------------------------------------------------------------
(* What the loader makes of a graphics mode.                               *)

MaskSize(mask) == Cardinality(mask)
MaskShift(mask) == IF mask = {} THEN 0 ELSE CHOOSE b \in mask : \A a \in mask : b <= a

\* set_framebuffer_format; a mode without direct pixels keeps sizes of 0.
Format(m) ==
  [size |-> [c \in Components |-> CASE m.format \in {"rgb", "bgr"} -> ByteBits
                                    [] m.format = "mask" -> MaskSize(m.masks[c])
                                    [] m.format = "blt" -> 0],
   shift |-> [c \in Components |-> CASE m.format = "rgb" -> (c - 1) * ByteBits
                                     [] m.format = "bgr" -> (3 - c) * ByteBits
                                     [] m.format = "mask" -> MaskShift(m.masks[c])
                                     [] m.format = "blt" -> 0]]

Describe(m) ==
  [address |-> m.base, width |-> m.width, height |-> m.height,
   pitch |-> m.ppsl * BytesPerPixel, bpp |-> BytesPerPixel * ByteBits,
   size |-> Format(m).size, shift |-> Format(m).shift]

\* A plausible bug: a row not checked to hold the pixels of a line.
FitsSansPitch(f) ==
  /\ f.address # 0 /\ f.width # 0 /\ f.height # 0
  /\ f.width <= MaxDimension /\ f.height <= MaxDimension

\* The tests aurelion_framebuffer_init makes before it sets the surface up.
Fits(f) ==
  /\ f.address # 0 /\ f.width # 0 /\ f.height # 0
  /\ f.width <= MaxDimension /\ f.height <= MaxDimension
  /\ f.bpp \in {3 * ByteBits, 4 * ByteBits}
  /\ f.pitch >= f.width * (f.bpp \div ByteBits)

\* Those it makes afterwards.
Accepts(f) ==
  \A c \in Components :
    /\ f.size[c] \in 1 .. ByteBits
    /\ f.shift[c] < 4 * ByteBits
    /\ f.size[c] + f.shift[c] <= 4 * ByteBits
-----------------------------------------------------------------------------
(* Pixels.                                                                 *)

Bits(n) == {b \in 0 .. 4 * ByteBits : (n \div TwoTo[b]) % 2 = 1}

\* A plausible bug: truncation where the code rounds.
ScaleTruncated(value, size) == (value * (TwoTo[size] - 1)) \div (TwoTo[ByteBits] - 1)

\* scale_component: rounded to the nearest value size bits can hold.
Scale(value, size) ==
  LET max_value == TwoTo[size] - 1
      full == TwoTo[ByteBits] - 1
  IN  (value * max_value + full \div 2) \div full

\* pack_rgb, as the set of bits that are 1.
Pack(f) ==
  UNION {{b + f.shift[c] : b \in Bits(Scale(Colour[c], f.size[c]))} : c \in Components}

AddressOf(f, p) == pixels + p[2] * f.pitch + p[1] * (f.bpp \div ByteBits)
OnDisplay(f) == (0 .. f.width - 1) \X (0 .. f.height - 1)

\* put_pixel at each of a set of points.  Points off the display are dropped.
Plot(f, scr, points) ==
  LET starts == {AddressOf(f, p) : p \in points \cap OnDisplay(f)}
      bytes == 0 .. (f.bpp \div ByteBits) - 1
      byte(k) == {b - k * ByteBits : b \in {a \in Pack(f) : a \div ByteBits = k}}
      k(o) == CHOOSE b \in bytes : o - b \in starts
      written == {o + b : o \in starts, b \in bytes}
  IN  [o \in DOMAIN scr \cup written |-> IF o \in written THEN byte(k(o)) ELSE scr[o]]
-----------------------------------------------------------------------------
(* Shapes, as the points a function passes to put_pixel.                   *)

RectPoints(f, d) ==
  (d.x .. Lesser(f.width, d.x + d.w) - 1) \X (d.y .. Lesser(f.height, d.y + d.h) - 1)

InRounded(x, y, w, h, r) ==
  LET dx == x - (IF x < r THEN r ELSE w - r - 1)
      dy == y - (IF y < r THEN r ELSE h - r - 1)
  IN  \/ r = 0 \/ x \in r .. w - r - 1 \/ y \in r .. h - r - 1
      \/ dx * dx + dy * dy <= r * r

RoundedPoints(f, d) ==
  LET w == Lesser(d.w, f.width - d.x)
      h == Lesser(d.h, f.height - d.y)
      r == Lesser(d.r, Lesser(w \div 2, h \div 2))
  IN  IF d.x >= f.width \/ d.y >= f.height THEN {}
      ELSE {<<d.x + q[1], d.y + q[2]>> :
              q \in {q \in (0 .. w - 1) \X (0 .. h - 1) : InRounded(q[1], q[2], w, h, r)}}

\* A plausible bug: a bounding box one short on the right and at the bottom.
DiscPointsShort(f, x, y, r) ==
  {p \in ((IF x > r THEN x - r ELSE 0) .. Lesser(f.width, x + r) - 1) \X
         ((IF y > r THEN y - r ELSE 0) .. Lesser(f.height, y + r) - 1) :
     (p[1] - x) * (p[1] - x) + (p[2] - y) * (p[2] - y) <= r * r}

DiscPoints(f, x, y, r) ==
  {p \in ((IF x > r THEN x - r ELSE 0) .. Lesser(f.width, x + r + 1) - 1) \X
         ((IF y > r THEN y - r ELSE 0) .. Lesser(f.height, y + r + 1) - 1) :
     (p[1] - x) * (p[1] - x) + (p[2] - y) * (p[2] - y) <= r * r}
-----------------------------------------------------------------------------
Init ==
  /\ mode \in Modes
  /\ phase = "gop" /\ fb = NoFb
  /\ drawing = [op |-> "none"]
  /\ pen = [x |-> 0, y |-> 0, error |-> 0]
  /\ pixels = 0
  /\ screen = [o \in {} |-> {}]

\* The loader describes the mode in boot_info; without a mode it stays zero.
LocateGop ==
  /\ phase = "gop"
  /\ phase' = "init"
  /\ fb' = IF mode.format = "none" THEN NoFb ELSE Describe(mode)
  /\ UNCHANGED <<mode, drawing, pen, pixels, screen>>

FramebufferInit ==
  /\ phase = "init"
  /\ phase' = IF Fits(fb) /\ Accepts(fb) THEN "draw" ELSE "rejected"
  /\ pixels' = IF Fits(fb) THEN fb.address ELSE 0
  /\ UNCHANGED <<mode, fb, drawing, pen, screen>>

\* The kernel moves the surface to where it has mapped the display.
Rebase(mapping) ==
  /\ phase = "draw" /\ pixels = fb.address
  /\ mapping # 0 /\ pixels' = mapping
  /\ UNCHANGED <<phase, mode, fb, drawing, pen, screen>>

Fill(d, points) ==
  /\ phase = "draw"
  /\ phase' = "done" /\ drawing' = d
  /\ screen' = Plot(fb, screen, points)
  /\ UNCHANGED <<mode, fb, pen, pixels>>

FillRect(d) == d.op = "rect" /\ Fill(d, RectPoints(fb, d))
FillRoundedRect(d) == d.op = "rounded" /\ Fill(d, RoundedPoints(fb, d))
FillDisc(d) == d.op = "disc" /\ Fill(d, DiscPoints(fb, d.x, d.y, d.r))

\* draw_thick_line up to its loop.
LineBegin(d) ==
  /\ phase = "draw" /\ d.op = "line"
  /\ phase' = "line" /\ drawing' = d
  /\ pen' = [x |-> d.x, y |-> d.y, error |-> Abs(d.x1 - d.x) - Abs(d.y1 - d.y)]
  /\ UNCHANGED <<mode, fb, pixels, screen>>

\* A plausible bug: the second test made with the error the first one changed.
AdvanceStale(d, p) ==
  LET dx == Abs(d.x1 - d.x)
      dy == -Abs(d.y1 - d.y)
      mid == IF 2 * p.error >= dy THEN p.error + dy ELSE p.error
  IN  [x |-> IF 2 * p.error >= dy THEN p.x + (IF d.x < d.x1 THEN 1 ELSE -1) ELSE p.x,
       y |-> IF 2 * mid <= dx THEN p.y + (IF d.y < d.y1 THEN 1 ELSE -1) ELSE p.y,
       error |-> IF 2 * mid <= dx THEN mid + dx ELSE mid]

\* A plausible bug: the pen kept on the display, instead of the pixels it draws.
AdvanceClipped(d, p) ==
  LET dx == Abs(d.x1 - d.x)
      dy == -Abs(d.y1 - d.y)
      across == 2 * p.error >= dy
      down == 2 * p.error <= dx
      x == IF across THEN p.x + (IF d.x < d.x1 THEN 1 ELSE -1) ELSE p.x
      y == IF down THEN p.y + (IF d.y < d.y1 THEN 1 ELSE -1) ELSE p.y
  IN  [x |-> IF x \in 0 .. fb.width - 1 THEN x ELSE p.x,
       y |-> IF y \in 0 .. fb.height - 1 THEN y ELSE p.y,
       error |-> p.error + (IF across THEN dy ELSE 0) + (IF down THEN dx ELSE 0)]

\* One turn of its loop: both tests use the error at the start of the turn.
Advance(d, p) ==
  LET dx == Abs(d.x1 - d.x)
      dy == -Abs(d.y1 - d.y)
      across == 2 * p.error >= dy
      down == 2 * p.error <= dx
  IN  [x |-> IF across THEN p.x + (IF d.x < d.x1 THEN 1 ELSE -1) ELSE p.x,
       y |-> IF down THEN p.y + (IF d.y < d.y1 THEN 1 ELSE -1) ELSE p.y,
       error |-> p.error + (IF across THEN dy ELSE 0) + (IF down THEN dx ELSE 0)]

\* The disc is drawn before the end is tested, so the last point has one too.
LineStep ==
  /\ phase = "line"
  /\ screen' = Plot(fb, screen, DiscPoints(fb, pen.x, pen.y, drawing.thickness \div 2))
  /\ IF pen.x = drawing.x1 /\ pen.y = drawing.y1
     THEN phase' = "done" /\ UNCHANGED pen
     ELSE pen' = Advance(drawing, pen) /\ UNCHANGED phase
  /\ UNCHANGED <<mode, fb, drawing, pixels>>

Next == \/ LocateGop \/ FramebufferInit
        \/ \E mapping \in Mappings : Rebase(mapping)
        \/ \E d \in Drawings[mode] : \/ FillRect(d) \/ FillRoundedRect(d)
                               \/ FillDisc(d) \/ LineBegin(d)
        \/ LineStep

-----------------------------------------------------------------------------
\* The pixels that have been written.
PointOf(o) == <<((o - pixels) % fb.pitch) \div BytesPerPixel, (o - pixels) \div fb.pitch>>
Written == {PointOf(o) : o \in DOMAIN screen}

TypeOK ==
  /\ phase \in {"gop", "init", "draw", "line", "done", "rejected"}
  /\ mode \in Modes
  /\ drawing.op = "none" \/ drawing \in Drawings[mode]
  /\ pen \in [x : Int, y : Int, error : Int]
  /\ pixels \in {0, mode.base} \cup Mappings
  /\ \A o \in DOMAIN screen : o \in Nat /\ screen[o] \subseteq 0 .. ByteBits - 1

\* Whatever the mode and the drawing, no byte is written but those of visible
\* pixels: none beyond the display, none in the padding of its rows.
OnlyVisible ==
  \A o \in DOMAIN screen :
    /\ o >= pixels /\ (o - pixels) \div (mode.ppsl * BytesPerPixel) < mode.height
    /\ (o - pixels) % (mode.ppsl * BytesPerPixel) < mode.width * BytesPerPixel

\* Video memory holds bytes, and only where pixels are.
Inv == TypeOK /\ OnlyVisible

\* Every pixel written shows the colour in the bits the display's mode gives
\* each component, to the nearest shade, and sets no other bit.
MaskOf(m, c) == CASE m.format = "rgb" -> (c-1) * ByteBits .. c * ByteBits - 1
                  [] m.format = "bgr" -> (3-c) * ByteBits .. (4-c) * ByteBits - 1
                  [] m.format = "mask" -> m.masks[c]
Shown(o) == UNION {{b + k * ByteBits : b \in screen[o + k]} : k \in 0 .. BytesPerPixel - 1}
ValueOf(bits, mask) ==
  CHOOSE v \in 0 .. TwoTo[Cardinality(mask)] - 1 :
    {b + MaskShift(mask) : b \in Bits(v)} = bits \cap mask
ColourShown ==
  \A p \in Written :
    LET bits == Shown(AddressOf(fb, p)) IN
      /\ bits \subseteq UNION {MaskOf(mode, c) : c \in Components}
      /\ \A c \in Components :
           LET full == TwoTo[ByteBits] - 1
               max == TwoTo[Cardinality(MaskOf(mode, c))] - 1
           IN  2 * Abs(ValueOf(bits, MaskOf(mode, c)) * full - Colour[c] * max) <= full

\* A finished shape covers exactly the points of the plane it is named for, cut
\* at the edges of the display.
Plane(d) ==
  CASE d.op = "rect" ->
         {p \in OnDisplay(fb) : p[1] >= d.x /\ p[1] - d.x < d.w /\ p[2] >= d.y /\ p[2] - d.y < d.h}
    [] d.op = "disc" ->
         {p \in OnDisplay(fb) : (p[1]-d.x) * (p[1]-d.x) + (p[2]-d.y) * (p[2]-d.y) <= d.r * d.r}
PlainExact ==
  phase = "done" /\ drawing.op \in {"rect", "disc"} => Written = Plane(drawing)

\* A rounded rectangle within the display is its own mirror image both ways,
\* and has every point that lies within its radius of the inner rectangle.
RoundedEven ==
  phase = "done" /\ drawing.op = "rounded" =>
    LET d == drawing
        whole == d.x + d.w <= fb.width /\ d.y + d.h <= fb.height
    IN  /\ whole => \A p \in Written : /\ <<2 * d.x + d.w - 1 - p[1], p[2]>> \in Written
                                       /\ <<p[1], 2 * d.y + d.h - 1 - p[2]>> \in Written
        /\ whole /\ 2 * d.r < d.w /\ 2 * d.r < d.h =>
             Written = {p \in OnDisplay(fb) :
                          \E a \in d.x + d.r .. d.x + d.w - d.r - 1,
                             b \in d.y + d.r .. d.y + d.h - d.r - 1 :
                            (p[1]-a) * (p[1]-a) + (p[2]-b) * (p[2]-b) <= d.r * d.r}

\* Every finished shape is the one its function is named for.
ShapeExact == PlainExact /\ RoundedEven

\* The pen never strays from the ideal line by more than half a pixel along
\* its minor axis, nor from the box its ends span.
LineStraight ==
  phase = "line" =>
    LET d == drawing
        dx == d.x1 - d.x
        dy == d.y1 - d.y
        major == IF Abs(dx) > Abs(dy) THEN Abs(dx) ELSE Abs(dy)
    IN  /\ 2 * Abs(dx * (pen.y - d.y) - dy * (pen.x - d.x)) <= major
        /\ pen.x \in (Lesser(d.x, d.x1) .. Lesser(d.x, d.x1) + Abs(dx))
        /\ pen.y \in (Lesser(d.y, d.y1) .. Lesser(d.y, d.y1) + Abs(dy))

\* Every drawing ends: the line's exact test for its end is always met.
DrawingEnds == <>(phase \in {"done", "rejected"})
=============================================================================
