---------------------------- MODULE Framebuffer ----------------------------
(***************************************************************************)
(* src/fb.c: the linear framebuffer that the boot loader's video mode      *)
(* gives, the back buffer in front of it, and what is drawn on them.       *)
(*                                                                         *)
(* Memory is a function from byte offsets to colours: a pixel's colour is  *)
(* at the offset of its first byte, and an offset nothing was stored at is *)
(* not in the domain.  A colour is a number; how fb_rgb mixes it is left   *)
(* out, and so is the font, whose characters are little rectangles.        *)
(***************************************************************************)
EXTENDS Integers

CONSTANTS
  Modes,             \* the video modes a boot loader may have set
  BACKBUFFER_BYTES   \* FB_BACKBUFFER_MAX_BYTES

ASSUME ModesAssumption ==
  \A m \in Modes :
    /\ m \in [w : Nat \ {0}, h : Nat \ {0}, bpp : {16, 24, 32}, pitch : Nat]
    /\ m.pitch >= m.w * (m.bpp \div 8)

\* What is in the memories before anything is drawn.
FIRMWARE == -1
BLACK == -2

VARIABLES
  mode,    \* g_w, g_h, g_bpp, g_pitch
  front,   \* the framebuffer, which is on the screen
  back     \* g_backbuffer

framebuffer == <<mode, front, back>>

Pixels == (0..mode.w-1) \X (0..mode.h-1)
bytes_per_pixel == mode.bpp \div 8

\* fb_select_backbuffer: the mode's pixels fit in the back buffer.
g_use_backbuffer == mode.w * mode.h * bytes_per_pixel <= BACKBUFFER_BYTES
g_draw_pitch == IF g_use_backbuffer THEN mode.w * bytes_per_pixel ELSE mode.pitch

Offset(pitch, x, y) == y * pitch + x * bytes_per_pixel
Offsets(pitch) == {Offset(pitch, p[1], p[2]) : p \in Pixels}

fb_init_from_multiboot ==
  /\ mode \in Modes
  /\ front = [o \in Offsets(mode.pitch) |-> FIRMWARE]
  /\ back = IF g_use_backbuffer THEN [o \in Offsets(g_draw_pitch) |-> BLACK] ELSE << >>

\* g_draw.
g_draw == IF g_use_backbuffer THEN back ELSE front

Store(memory, points, color) ==
  LET offsets == {Offset(g_draw_pitch, p[1], p[2]) : p \in points}
  IN  [o \in DOMAIN memory \cup offsets |-> IF o \in offsets THEN color ELSE memory[o]]

\* fb_put_pixel for each of some points in one colour; one beside the screen is skipped.
fb_put_pixel(memory, points, color) == Store(memory, points \cap Pixels, color)

\* Defective variant: what is cut off at the left or the top is added at the other end.
ClippedKeepsSize(place, size, limit) ==
  LET from == IF place < 0 THEN 0 ELSE place
  IN  from..(IF from + size > limit THEN limit ELSE from + size) - 1

\* What is left of a length that starts at place between 0 and limit.
Clipped(place, size, limit) ==
  LET from == IF place < 0 THEN 0 ELSE place
      length == IF place < 0 THEN size + place ELSE size
  IN  from..(IF from + length > limit THEN limit ELSE from + length) - 1

fb_fill_rect(memory, x, y, w, h, color) ==
  IF w <= 0 \/ h <= 0 THEN memory
  ELSE Store(memory, Clipped(x, w, mode.w) \X Clipped(y, h, mode.h), color)

Distance(a, b) == IF a < b THEN b - a ELSE a - b

\* The points of the loop in fb_line, the error term with each.
LinePoints(x0, y0, x1, y1) ==
  LET dx == Distance(x0, x1)
      dy == -Distance(y0, y1)
      sx == IF x0 < x1 THEN 1 ELSE -1
      sy == IF y0 < y1 THEN 1 ELSE -1
      point[n \in 0..dx-dy] ==
        IF n = 0 THEN [x |-> x0, y |-> y0, err |-> dx + dy]
        ELSE LET p == point[n - 1]
                 right == 2 * p.err >= dy
                 down == 2 * p.err <= dx
             IN  [x |-> IF right THEN p.x + sx ELSE p.x,
                  y |-> IF down THEN p.y + sy ELSE p.y,
                  err |-> p.err + (IF right THEN dy ELSE 0) + (IF down THEN dx ELSE 0)]
      last == CHOOSE n \in 0..dx-dy :
                /\ point[n].x = x1 /\ point[n].y = y1
                /\ \A k \in 0..n-1 : point[k].x # x1 \/ point[k].y # y1
  IN  {<<point[n].x, point[n].y>> : n \in 0..last}

fb_line(memory, x0, y0, x1, y1, color) ==
  fb_put_pixel(memory, LinePoints(x0, y0, x1, y1), color)

\* fb_present: each row of the back buffer is copied to its place on the screen.
fb_present ==
  LET row(o) == CHOOSE y \in 0..mode.h-1 : o - y * mode.pitch \in 0..mode.w * bytes_per_pixel - 1
      source(o) == row(o) * g_draw_pitch + (o - row(o) * mode.pitch)
  IN  IF ~g_use_backbuffer THEN front
      ELSE [o \in DOMAIN front \cup Offsets(mode.pitch) |->
              IF o \in Offsets(mode.pitch) THEN back[source(o)] ELSE front[o]]

\* What the screen shows at a pixel.
Shown(x, y) == front[Offset(mode.pitch, x, y)]
=============================================================================
