---------------------------- MODULE MCFramebuffer ----------------------------
(***************************************************************************)
(* Bytes of two bits, so pixels of eight; displays of up to seven by six   *)
(* pixels, one of them with padded rows and one whose rows are too short.  *)
(* The splash is drawn on displays of every size around those at which its *)
(* layout changes.                                                         *)
(***************************************************************************)
EXTENDS Splash

Mode(format, masks, width, height, ppsl) ==
  [base |-> 16, format |-> format, masks |-> masks, width |-> width,
   height |-> height, ppsl |-> ppsl]
Packed == <<{5, 6}, {2, 3, 4}, {0, 1}>>    \* green has a bit too many
Narrow == <<{3, 4}, {2}, {0, 1}>>
NoMasks == <<{}, {}, {}>>

SmallModes ==
  {Mode("rgb", NoMasks, 7, 6, 7), Mode("bgr", NoMasks, 6, 6, 8),
   Mode("mask", Narrow, 6, 6, 6), Mode("mask", Packed, 6, 6, 6),
   Mode("blt", NoMasks, 6, 6, 6), Mode("none", NoMasks, 6, 6, 6),
   Mode("rgb", NoMasks, 6, 6, 5), Mode("rgb", NoMasks, 2000, 6, 2000)}

\* Rectangles, discs and lines in and over the right and bottom edges.
Shapes ==
  {[op |-> "rect", x |-> x, y |-> y, w |-> w, h |-> h] :
     x \in {0, 4, 6}, y \in {0, 5}, w \in {0, 1, 3}, h \in {1, 2}}
  \cup {[op |-> "rounded", x |-> x, y |-> y, w |-> w, h |-> h, r |-> r] :
     x \in {0, 2, 6}, y \in {0, 1}, w \in {1, 4, 5}, h \in {4, 5}, r \in {0, 1, 2, 4}}
  \cup {[op |-> "disc", x |-> x, y |-> y, r |-> r] :
     x \in 0 .. 5, y \in {0, 2, 5}, r \in 0 .. 2}
  \cup {[op |-> "line", x |-> x, y |-> y, x1 |-> u, y1 |-> v, thickness |-> t] :
     x \in {0, 2, 5}, y \in {0, 1, 4}, u \in {0, 1, 2, 3, 4, 5, 7}, v \in {0, 2, 5}, t \in {1, 2}}

Displays == {200, 219, 220, 240, 287, 288, 297, 298, 299, 300, 336, 357, 358, 376, 480,
             600, 767, 768, 801, 1024, 1999}
LargeModes == {Mode("rgb", NoMasks, w, h, w) : w, h \in Displays}
Splashes == {[op |-> "splash", progress |-> p] : p \in 0 .. 5}

McModes == SmallModes \cup LargeModes
McDrawings == [m \in McModes |-> IF m \in LargeModes THEN Splashes ELSE Shapes]
McMappings == {0, 64}
McColour == <<3, 2, 1>>
=============================================================================
