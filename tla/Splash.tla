------------------------------- MODULE Splash -------------------------------
(***************************************************************************)
(* The boot splash, aurelion_framebuffer_draw_boot_splash: where it places *)
(* what it draws on a display of any size.  A picture is the sequence of   *)
(* the calls it makes, as records; the drawing functions themselves are    *)
(* Framebuffer's.  A text stands for the rectangles of its glyphs and has  *)
(* their extent: the font is data.  The code's differences are unsigned;   *)
(* here they are integers, and SplashLaidOut says that none is negative.   *)
(***************************************************************************)
EXTENDS Framebuffer

VARIABLE calls           \* the calls the splash has made

splashVars == <<vars, calls>>

Greater(a, b) == IF a > b THEN a ELSE b

\* How many letters the texts of the splash have.
ASSUME SplashAssumption ==
  /\ Len("AURELIAN") = 8 /\ Len("PRISM BOOT CANVAS") = 17 /\ Len("AURELION 0.0.1") = 14
  /\ Len("PREPARING PRISM UI") = 18 /\ Len("VALIDATING BOOT ABI") = 19
  /\ Len("STARTING PLATFORM SERVICES") = 26 /\ Len("BOOT SEQUENCE COMPLETE") = 22
-----------------------------------------------------------------------------
Rounded(x, y, w, h, r, colour) ==
  [op |-> "rounded", x |-> x, y |-> y, w |-> w, h |-> h, r |-> r, colour |-> colour]
Disc(x, y, r) == [op |-> "disc", x |-> x, y |-> y, r |-> r]
Line(x, y, x1, y1, thickness) ==
  [op |-> "line", x |-> x, y |-> y, x1 |-> x1, y1 |-> y1, thickness |-> thickness]

\* A plausible bug: the gap after the last letter taken for part of the text.
TextWidthGap(text, scale) == 6 * scale * Len(text)

TextWidth(text, scale) == IF text = "" THEN 0 ELSE 6 * scale * Len(text) - scale

\* draw_text: each letter is five columns of seven rows, at six columns' pace.
DrawText(x, y, text, scale) ==
  [op |-> "text", x |-> x, y |-> y, text |-> text,
   w |-> ((Len(text) - 1) * 6 + 5) * scale, h |-> 7 * scale]

DrawCentered(center, y, text, scale) ==
  LET half == TextWidth(text, scale) \div 2
  IN  DrawText(IF center > half THEN center - half ELSE 0, y, text, scale)
-----------------------------------------------------------------------------
\* The background at a point: three components, cut to bytes.
Background(f, x, y) ==
  LET horizontal == (x * 30) \div Greater(f.width, 1)
      vertical == (y * 24) \div Greater(f.height, 1)
      glow == IF x > f.width \div 2
              THEN ((x - f.width \div 2) * 19) \div Greater(f.width, 1) ELSE 0
  IN  <<(11 + vertical \div 3) % 256,
        (18 + horizontal \div 2 + vertical \div 4) % 256,
        (43 + horizontal + glow) % 256>>

Card(f) ==
  LET w == Lesser(IF f.width > 48 THEN f.width - 48 ELSE f.width, 720)
      h == Lesser(IF f.height > 40 THEN f.height - 40 ELSE f.height, 336)
  IN  [x |-> (f.width - w) \div 2, y |-> (f.height - h) \div 2, w |-> w, h |-> h]

TooSmall(card) == card.w < 240 \/ card.h < 180

Backdrop(f, c) ==
  <<[op |-> "background", x |-> 0, y |-> 0, w |-> f.width, h |-> f.height],
    Disc(c.x + 72, c.y + 54, 46), Disc(c.x + c.w - 80, c.y + c.h - 52, 58),
    Rounded(c.x + 8, c.y + 12, c.w, c.h, 28, "shadow"),
    Rounded(c.x, c.y, c.w, c.h, 28, "card"),
    Rounded(c.x + 1, c.y + 1, c.w - 2, 2, 1, "edge")>>

Logo(x, y) ==
  <<Line(x - 42, y + 38, x, y - 42, 12), Line(x, y - 42, x + 42, y + 38, 12),
    Line(x - 23, y + 8, x + 23, y + 8, 9)>>

Rails(c, progress) ==
  LET w == (c.w - 96) \div 4
      rail(i) == Rounded(c.x + 36 + i * (w + 8), c.y + c.h - 82, w, 7, 3,
                         IF i < progress THEN "cyan" ELSE "dim")
  IN  [n \in 1 .. 4 |-> rail(n - 1)]

Caption(progress) ==
  CASE progress = 0 -> "PREPARING PRISM UI"
    [] progress = 1 -> "VALIDATING BOOT ABI"
    [] progress \in 2 .. 3 -> "STARTING PLATFORM SERVICES"
    [] progress = 4 -> "BOOT SEQUENCE COMPLETE"

\* What is drawn on the card, in the order it is drawn.
Content(c, progress) ==
  LET center == c.x + c.w \div 2
  IN  Logo(center, c.y + c.h \div 4)
      \o <<DrawCentered(center, c.y + c.h \div 2 - 20, "AURELIAN", 5),
           DrawCentered(center, c.y + c.h \div 2 + 24, "PRISM BOOT CANVAS", 2)>>
      \o Rails(c, progress)
      \o <<DrawCentered(center, c.y + c.h - 82 + 26, Caption(progress), 2),
           DrawCentered(center, c.y + c.h - 28, "AURELION 0.0.1", 1)>>

\* The background is drawn on every display, the rest where there is room.
DrawBootSplash(d) ==
  /\ phase = "draw" /\ d.op = "splash" /\ pixels # 0
  /\ phase' = "done" /\ drawing' = d
  /\ calls' = IF TooSmall(Card(fb)) THEN <<Backdrop(fb, Card(fb))[1]>>
              ELSE Backdrop(fb, Card(fb)) \o Content(Card(fb), Lesser(d.progress, 4))
  /\ UNCHANGED <<mode, fb, pen, pixels, screen>>
-----------------------------------------------------------------------------
SplashInit == Init /\ calls = <<>>
SplashNext == \/ Next /\ UNCHANGED calls
              \/ \E d \in Drawings[mode] : DrawBootSplash(d)

Spec == SplashInit /\ [][SplashNext]_splashVars
\* One processor draws until it is done.
FairSpec == Spec /\ WF_splashVars(SplashNext)
-----------------------------------------------------------------------------
\* The rectangle of points a call reaches.
Box(d) ==
  CASE d.op \in {"background", "rounded", "text"} -> [x |-> d.x, y |-> d.y, w |-> d.w, h |-> d.h]
    [] d.op = "disc" ->
         [x |-> d.x - d.r, y |-> d.y - d.r, w |-> 2 * d.r + 1, h |-> 2 * d.r + 1]
    [] d.op = "line" ->
         LET r == d.thickness \div 2
         IN  [x |-> Lesser(d.x, d.x1) - r, y |-> Lesser(d.y, d.y1) - r,
              w |-> Abs(d.x1 - d.x) + 2 * r + 1, h |-> Abs(d.y1 - d.y) + 2 * r + 1]
Within(a, b) == /\ a.x >= b.x /\ a.x + a.w <= b.x + b.w
                /\ a.y >= b.y /\ a.y + a.h <= b.y + b.h
Apart(a, b) == \/ a.x + a.w <= b.x \/ b.x + b.w <= a.x
               \/ a.y + a.h <= b.y \/ b.y + b.h <= a.y

\* On a display of any size no coordinate is negative and only a text can pass
\* the edge of the display, on the right.
Displayed ==
  \A i \in DOMAIN calls :
    LET b == Box(calls[i]) IN
      /\ b.x >= 0 /\ b.y >= 0 /\ b.y + b.h <= fb.height
      /\ calls[i].op = "text" \/ b.x + b.w <= fb.width

\* On a display of at least 358 by 298 all of it fits: texts, rails and logo lie
\* on the card, are not drawn over one another (but for the strokes of the logo
\* itself), and each text is in the middle of the card to within a pixel.
Legible ==
  fb.width >= 358 /\ fb.height >= 298 =>
    \A i \in DOMAIN calls : i > Len(Backdrop(fb, Card(fb))) =>
      LET d == calls[i] IN
        /\ Within(Box(d), Card(fb))
        /\ d.op = "text" => Abs(2 * d.x + d.w - 2 * Card(fb).x - Card(fb).w) <= 2
        /\ \A k \in DOMAIN calls : k > i /\ {d.op, calls[k].op} # {"line"} =>
             Apart(Box(d), Box(calls[k]))

\* Nothing of the gradient wraps: it never darkens to the right or downwards.
Smooth ==
  \A x, u \in {0, fb.width \div 2, fb.width - 1}, y, v \in {0, fb.height \div 2, fb.height - 1} :
    x <= u /\ y <= v =>
      \A c \in Components : Background(fb, x, y)[c] <= Background(fb, u, v)[c]

\* framebuffer.c:356-456: the splash is laid out as it should be on whatever
\* display it is drawn, and as many rails are lit as stages are complete.
SplashLaidOut ==
  phase = "done" /\ drawing.op = "splash" =>
    /\ Displayed /\ Legible /\ Smooth
    /\ ~TooSmall(Card(fb)) => Cardinality({i \in DOMAIN calls :
         calls[i].op = "rounded" /\ calls[i].colour = "cyan"}) = Lesser(drawing.progress, 4)
=============================================================================
