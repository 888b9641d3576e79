---------------------------- MODULE ScreenProofs ----------------------------
(***************************************************************************)
(* For every screen size, row length and font of ScreenAssumption: the     *)
(* stores of the console stay inside the frame buffer and the cursor's     *)
(* line on the screen, and no older text is left where the next one goes.  *)
(* The last follows the picture: what each operation leaves at x, y.       *)
(***************************************************************************)
EXTENDS Screen, TLAPS

\* A writer whose memory is as long as its frame buffer, and whose characters fit.
Sound(w) ==
  /\ w.info \in Infos /\ w \in FrameBufferWriter(w.info)
  /\ ~w.stray

Placed(w) ==
  /\ w.y_pos + scaled(w) <= w.info.height
  /\ w.x_pos <= w.info.width

\* Same style: what the operations that draw leave alone.
SameStyle(v, w) ==
  /\ v.info = w.info /\ v.scale = w.scale
  /\ v.text_color = w.text_color /\ v.bg_color = w.bg_color

Moved(w, x, y) == [w EXCEPT !.x_pos = x, !.y_pos = y]

\* The inductive invariant: beyond the three properties, which scale each stage of _start
\* has set, and that the cursor is still at the origin when the scale grows.
IInv ==
  /\ TypeOK /\ StoresInside /\ LineOnScreen
  /\ pc \in {"init", "cleared", "ready"} => writer.scale = 2
  /\ pc = "welcome" => writer.scale = 3
  /\ pc \in {"init", "cleared"} => writer.x_pos = 0 /\ writer.y_pos = 0
  /\ todo # <<>> => pc \in {"welcome", "ready"}

\* The numbers and texts of the assumption.
LEMMA ScreenSizes ==
  /\ FONT \in Nat \ {0}
  /\ Texts \subseteq Seq(Chars) /\ Welcome \in Seq(Chars)
  /\ \A i \in Infos :
       /\ i.width \in Nat /\ i.height \in Nat /\ i.stride \in Nat
       /\ i.width >= 3 * FONT /\ i.height >= 3 * FONT /\ i.stride >= i.width
  BY ScreenAssumption, Zenon

-----------------------------------------------------------------------------
\* A column and a row of the screen address a word of the frame buffer.
LEMMA CellInside ==
  ASSUME NEW x \in Nat, NEW y \in Nat, NEW width \in Nat, NEW height \in Nat, NEW stride \in Nat,
         x < width, y < height, width <= stride
  PROVE  /\ y * stride + x \in 0 .. height * stride - 1
<1>1. y * stride \in Nat
  OBVIOUS
<1>2. (y + 1) * stride = y * stride + stride
  OBVIOUS
<1>3. (height - (y + 1)) * stride >= 0
  <2>1. height - (y + 1) \in Nat
    OBVIOUS
  <2> QED
    BY <2>1
<1>4. (height - (y + 1)) * stride = height * stride - (y + 1) * stride
  OBVIOUS
<1>5. height * stride \in Nat
  OBVIOUS
<1> QED
  BY <1>1, <1>2, <1>3, <1>4, <1>5

\* What scroll_up reads lies in the frame buffer.
LEMMA CopyInside ==
  ASSUME NEW height \in Nat, NEW stride \in Nat, NEW sh \in Nat, sh <= height,
         NEW a \in Nat, a < (height - sh) * stride
  PROVE  a + stride * sh \in 0 .. height * stride - 1
<1>1. (height - sh) * stride = height * stride - stride * sh
  OBVIOUS
<1>2. stride * sh \in Nat /\ height * stride \in Nat
  OBVIOUS
<1> QED
  BY <1>1, <1>2

\* The conversion for RGB screens answers a colour of the palette.
LEMMA ConvertColor ==
  ASSUME NEW w, NEW color \in Colors
  PROVE  convert_color(w, color) \in Colors
  BY DEF convert_color, Colors, BLACK, WHITE, BLUE, RED

\* A store of colours at words of the frame buffer keeps the writer sound.
LEMMA StoreSound ==
  ASSUME NEW w, Sound(w), NEW px, DOMAIN px \subseteq DOMAIN w.fb,
         \A a \in DOMAIN px : px[a] \in Colors
  PROVE  /\ Sound(Store(w, px)) /\ SameStyle(Store(w, px), w)
         /\ Store(w, px).x_pos = w.x_pos /\ Store(w, px).y_pos = w.y_pos
<1> DEFINE new == [a \in DOMAIN w.fb |-> IF a \in DOMAIN px THEN px[a] ELSE w.fb[a]]
<1>1. new \in Picture(w.info)
  BY Zenon DEF Sound, FrameBufferWriter, Picture
<1>3. Store(w, px) = [w EXCEPT !.fb = new, !.stray = @ \/ ~(DOMAIN px \subseteq DOMAIN w.fb)]
  BY DEF Store
<1>4. (w.stray \/ ~(DOMAIN px \subseteq DOMAIN w.fb)) = FALSE
  BY DEF Sound
<1> HIDE DEF new
<1> QED
  BY <1>1, <1>3, <1>4, Zenon DEF Sound, FrameBufferWriter, SameStyle

\* The words of a rectangle of the screen are words of the frame buffer.
LEMMA RectangleInside ==
  ASSUME NEW w, Sound(w), NEW xs, NEW ys, xs \subseteq Columns(w), ys \subseteq Rows(w)
  PROVE  {At(w, x, y) : x \in xs, y \in ys} \subseteq DOMAIN w.fb
<1> SUFFICES ASSUME NEW x \in xs, NEW y \in ys
             PROVE  At(w, x, y) \in DOMAIN w.fb
  OBVIOUS
<1>1. w.info.width \in Nat /\ w.info.height \in Nat /\ w.info.stride \in Nat
      /\ w.info.width <= w.info.stride
  BY ScreenSizes DEF Sound, FrameBufferWriter
<1>2. x \in Nat /\ y \in Nat /\ x < w.info.width /\ y < w.info.height
  BY <1>1 DEF Columns, Rows
<1>3. At(w, x, y) \in 0 .. w.info.height * w.info.stride - 1
  BY <1>1, <1>2, CellInside DEF At
<1> QED
  BY <1>3, Zenon DEF Sound, FrameBufferWriter, Picture

\* Moving the cursor changes nothing else.
LEMMA MoveSound ==
  ASSUME NEW w, Sound(w), NEW x \in Nat, NEW y \in Nat
  PROVE  /\ Sound(Moved(w, x, y)) /\ SameStyle(Moved(w, x, y), w)
         /\ Moved(w, x, y).x_pos = x /\ Moved(w, x, y).y_pos = y
<1> DEFINE u == [w EXCEPT !.x_pos = x]
           v == [u EXCEPT !.y_pos = y]
<1>1. u \in FrameBufferWriter(w.info) /\ u.fb = w.fb /\ u.stray = w.stray /\ SameStyle(u, w)
      /\ u.x_pos = x
  BY DEF Sound, FrameBufferWriter, SameStyle
<1> HIDE DEF u
<1>2. v \in FrameBufferWriter(w.info) /\ v.fb = u.fb /\ v.stray = u.stray /\ SameStyle(v, u)
      /\ v.x_pos = u.x_pos /\ v.y_pos = y
  BY <1>1 DEF FrameBufferWriter, SameStyle
<1>3. v = Moved(w, x, y)
  BY DEF u, Moved
<1> HIDE DEF v
<1>4. Sound(v) /\ SameStyle(v, w) /\ v.x_pos = x /\ v.y_pos = y
  BY <1>1, <1>2 DEF Sound, SameStyle
<1> QED
  BY <1>3, <1>4

\* clear: the cells it fills are words of the frame buffer, the cursor goes home.
LEMMA ClearSound ==
  ASSUME NEW w, Sound(w), NEW color \in Colors
  PROVE  /\ Sound(clear(w, color)) /\ SameStyle(clear(w, color), w)
         /\ clear(w, color).x_pos = 0 /\ clear(w, color).y_pos = 0
<1> DEFINE xs == Columns(w)
           ys == Rows(w)
           cells == {At(w, x, y) : x \in xs, y \in ys}
           px == [a \in cells |-> convert_color(w, color)]
           v == Store(w, px)
<1>1. cells \subseteq DOMAIN w.fb
  <2>1. xs \subseteq Columns(w) /\ ys \subseteq Rows(w)
    OBVIOUS
  <2> HIDE DEF xs, ys
  <2> QED
    BY <2>1, RectangleInside
<1>2. \A a \in DOMAIN px : px[a] \in Colors
  BY ConvertColor
<1>3. DOMAIN px \subseteq DOMAIN w.fb
  BY <1>1
<1>4. clear(w, color) = Moved(v, 0, 0)
  BY DEF clear, Moved
<1> HIDE DEF px
<1>5. Sound(v) /\ SameStyle(v, w)
  BY <1>2, <1>3, StoreSound
<1> HIDE DEF v
<1> QED
  BY <1>4, <1>5, MoveSound DEF SameStyle

\* scroll_up: a character is no higher than the screen, so it copies and fills exactly the
\* words of the frame buffer.
LEMMA ScrollSound ==
  ASSUME NEW w, Sound(w), scaled(w) <= w.info.height
  PROVE  /\ Sound(scroll_up(w)) /\ SameStyle(scroll_up(w), w)
         /\ scroll_up(w).x_pos = w.x_pos /\ scroll_up(w).y_pos = w.y_pos
<1> DEFINE copy_len == (w.info.height - scaled(w)) * w.info.stride
           words == 0 .. w.info.height * w.info.stride - 1
           px == [a \in words |->
                    IF a < copy_len THEN w.fb[a + w.info.stride * scaled(w)] ELSE w.bg_color]
<1>1. w.info.height \in Nat /\ w.info.stride \in Nat /\ w.scale \in Nat /\ w.bg_color \in Colors
  BY ScreenSizes DEF Sound, FrameBufferWriter
<1>2. scaled(w) \in Nat
  BY <1>1, ScreenSizes DEF scaled
<1>3. DOMAIN w.fb = words /\ \A a \in words : w.fb[a] \in Colors
  BY Zenon DEF Sound, FrameBufferWriter, Picture
<1>4. ASSUME NEW a \in words
      PROVE  px[a] \in Colors
  <2>1. a \in Nat
    BY <1>1
  <2>2. a < copy_len => a + w.info.stride * scaled(w) \in words
    BY <1>1, <1>2, <2>1, CopyInside
  <2> HIDE DEF words, copy_len
  <2> QED
    BY <1>1, <1>3, <2>2
<1>5. DOMAIN px = words
  OBVIOUS
<1>6. scroll_up(w) = Store(w, px)
  BY DEF scroll_up
<1> HIDE DEF px, words
<1>7. DOMAIN px \subseteq DOMAIN w.fb /\ \A a \in DOMAIN px : px[a] \in Colors
  BY <1>3, <1>4, <1>5
<1> QED
  BY <1>6, <1>7, StoreSound

\* new_line: the line stays on the screen, because it moves down only if the next one fits.
LEMMA NewLineSound ==
  ASSUME NEW w, Sound(w), Placed(w)
  PROVE  /\ Sound(new_line(w)) /\ SameStyle(new_line(w), w) /\ Placed(new_line(w))
         /\ new_line(w).x_pos = 0
<1> DEFINE v == [w EXCEPT !.x_pos = 0, !.y_pos = @ + scaled(w)]
<1>1. w.info.width \in Nat /\ w.info.height \in Nat /\ w.scale \in Nat
      /\ w.y_pos \in Nat /\ w.x_pos \in Nat
  BY ScreenSizes DEF Sound, FrameBufferWriter
<1>2. scaled(w) \in Nat
  BY <1>1, ScreenSizes DEF scaled
<1>3. /\ Sound(v) /\ SameStyle(v, w) /\ v.x_pos = 0 /\ v.y_pos = w.y_pos + scaled(w)
  <2>1. v = Moved(w, 0, w.y_pos + scaled(w))
    BY DEF Moved
  <2>2. w.y_pos + scaled(w) \in Nat
    BY <1>1, <1>2
  <2> HIDE DEF v
  <2> QED
    BY <2>1, <2>2, MoveSound, SMT, SMTT(60)
<1>4. scaled(v) = scaled(w)
  BY <1>3 DEF scaled, SameStyle
<1>5. new_line(w) = IF v.y_pos + scaled(w) > v.info.height
                    THEN [scroll_up(v) EXCEPT !.y_pos = @ - scaled(w)] ELSE v
  BY DEF new_line
<1> HIDE DEF v
<1>6. CASE v.y_pos + scaled(w) > v.info.height
  <2>1. scaled(v) <= v.info.height
    BY <1>1, <1>2, <1>3, <1>4 DEF Placed, SameStyle
  <2> DEFINE u == scroll_up(v)
  <2>2. Sound(u) /\ SameStyle(u, v) /\ u.x_pos = 0 /\ u.y_pos = w.y_pos + scaled(w)
    BY <1>3, <2>1, ScrollSound
  <2>3. new_line(w) = [u EXCEPT !.y_pos = @ - scaled(w)]
    BY <1>5, <1>6
  <2> HIDE DEF u
  <2>4. u.y_pos - scaled(w) = w.y_pos
    BY <1>1, <1>2, <2>2
  <2>5. Sound(new_line(w)) /\ SameStyle(new_line(w), w)
        /\ new_line(w).x_pos = 0 /\ new_line(w).y_pos = w.y_pos
    BY <1>1, <1>3, <2>2, <2>3, <2>4 DEF Sound, FrameBufferWriter, SameStyle
  <2> QED
    BY <1>1, <2>5 DEF Placed, SameStyle, scaled
<1>7. CASE ~(v.y_pos + scaled(w) > v.info.height)
  <2>1. new_line(w) = v
    BY <1>5, <1>7
  <2>2. Placed(v)
    BY <1>1, <1>2, <1>3, <1>4, <1>7 DEF Placed, SameStyle
  <2> QED
    BY <1>3, <2>1, <2>2
<1> QED
  BY <1>6, <1>7

\* draw_char clips to the screen, so it stores inside the frame buffer.
LEMMA DrawSound ==
  ASSUME NEW w, Sound(w), NEW x, NEW y, NEW b
  PROVE  /\ Sound(draw_char(w, x, y, b)) /\ SameStyle(draw_char(w, x, y, b), w)
         /\ draw_char(w, x, y, b).x_pos = w.x_pos /\ draw_char(w, x, y, b).y_pos = w.y_pos
<1> DEFINE xs == Columns(w) \cap (x .. x + scaled(w) - 1)
           ys == Rows(w) \cap (y .. y + scaled(w) - 1)
           cell == {At(w, dx, dy) : dx \in xs, dy \in ys}
           bit(a) == <<((a % w.info.stride) - x) \div w.scale,
                       ((a \div w.info.stride) - y) \div w.scale>>
           px == [a \in cell |-> IF bit(a) \in Glyph[b] THEN w.text_color ELSE w.bg_color]
<1>1. xs \subseteq Columns(w) /\ ys \subseteq Rows(w)
  OBVIOUS
<1> HIDE DEF xs, ys
<1>2. cell \subseteq DOMAIN w.fb
  BY <1>1, RectangleInside
<1>3. w.text_color \in Colors /\ w.bg_color \in Colors
  BY DEF Sound, FrameBufferWriter
<1> HIDE DEF bit, cell
<1>4. DOMAIN px \subseteq DOMAIN w.fb /\ \A a \in DOMAIN px : px[a] \in Colors
  BY <1>2, <1>3
<1>5. draw_char(w, x, y, b) = IF HasGlyph(b) THEN Store(w, px) ELSE w
  BY DEF draw_char, xs, ys, cell, bit
<1> HIDE DEF px
<1>6. CASE HasGlyph(b)
  BY <1>4, <1>5, <1>6, StoreSound
<1>7. CASE ~HasGlyph(b)
  BY <1>5, <1>7 DEF SameStyle
<1> QED
  BY <1>6, <1>7

\* fill_remainder blanks a rectangle of the screen and feeds.
LEMMA FillSound ==
  ASSUME NEW w, Sound(w), Placed(w)
  PROVE  /\ Sound(fill_remainder(w)) /\ SameStyle(fill_remainder(w), w)
         /\ Placed(fill_remainder(w))
<1> DEFINE xs == w.x_pos .. w.info.width - 1
           ys == Rows(w) \cap (w.y_pos .. w.y_pos + scaled(w) - 1)
           rest == {At(w, dx, dy) : dx \in xs, dy \in ys}
           px == [a \in rest |-> w.bg_color]
           v == Store(w, px)
<1>1. w.x_pos \in Nat /\ w.info.width \in Nat /\ w.bg_color \in Colors
  BY ScreenSizes DEF Sound, FrameBufferWriter
<1>2. xs \subseteq Columns(w) /\ ys \subseteq Rows(w)
  BY <1>1 DEF Columns
<1>3. fill_remainder(w) = new_line(v)
  BY DEF fill_remainder
<1> HIDE DEF xs, ys
<1>4. rest \subseteq DOMAIN w.fb
  BY <1>2, RectangleInside
<1> HIDE DEF rest
<1>5. DOMAIN px \subseteq DOMAIN w.fb /\ \A a \in DOMAIN px : px[a] \in Colors
  BY <1>1, <1>4
<1> HIDE DEF px
<1>6. Sound(v) /\ SameStyle(v, w) /\ v.x_pos = w.x_pos /\ v.y_pos = w.y_pos
  BY <1>5, StoreSound
<1> HIDE DEF v
<1>7. Placed(v)
  BY <1>6 DEF Placed, SameStyle, scaled
<1> QED
  BY <1>3, <1>6, <1>7, NewLineSound DEF SameStyle

\* write_byte: when the character does not fit on the line it fits on the next.
LEMMA WriteByteSound ==
  ASSUME NEW w, Sound(w), Placed(w), NEW b, scaled(w) <= w.info.width
  PROVE  Sound(write_byte(w, b)) /\ SameStyle(write_byte(w, b), w) /\ Placed(write_byte(w, b))
<1>1. CASE b = NEWLINE
  BY <1>1, FillSound DEF write_byte
<1>2. CASE b # NEWLINE
  <2> DEFINE v == IF w.x_pos + scaled(w) > w.info.width THEN new_line(w) ELSE w
             u == draw_char(v, v.x_pos, v.y_pos, b)
  <2>1. w.info.width \in Nat /\ w.scale \in Nat /\ w.x_pos \in Nat
    BY ScreenSizes DEF Sound, FrameBufferWriter
  <2>2. scaled(w) \in Nat
    BY <2>1, ScreenSizes DEF scaled
  <2>3. write_byte(w, b) = [u EXCEPT !.x_pos = @ + scaled(w)]
    BY <1>2 DEF write_byte
  <2>4. Sound(v) /\ SameStyle(v, w) /\ Placed(v) /\ v.x_pos + scaled(w) <= w.info.width
    BY <2>1, <2>2, NewLineSound DEF SameStyle
  <2> HIDE DEF v
  <2>5. Sound(u) /\ SameStyle(u, v) /\ u.x_pos = v.x_pos /\ u.y_pos = v.y_pos
    BY <2>4, DrawSound
  <2> HIDE DEF u
  <2>6. u.x_pos + scaled(w) \in Nat
    BY <2>2, <2>5 DEF Sound, FrameBufferWriter
  <2>7. /\ Sound(write_byte(w, b)) /\ SameStyle(write_byte(w, b), u)
        /\ write_byte(w, b).x_pos = u.x_pos + scaled(w) /\ write_byte(w, b).y_pos = u.y_pos
    BY <2>3, <2>5, <2>6 DEF Sound, FrameBufferWriter, SameStyle
  <2> QED
    BY <2>4, <2>5, <2>7 DEF Placed, SameStyle, scaled
<1> QED
  BY <1>1, <1>2

-----------------------------------------------------------------------------
(* What the operations do to the picture. *)

Pixel(w, x, y) == w.fb[At(w, x, y)]

\* A word of the frame buffer is in one row and one column.
LEMMA RowMajor ==
  ASSUME NEW s \in Nat, NEW x \in Nat, NEW y \in Nat, NEW u \in Nat, NEW v \in Nat, x < s, u < s
  PROVE  /\ y * s + x = v * s + u => x = u /\ y = v
         /\ y * s + x < v * s <=> y < v
<1>1. ASSUME NEW a \in Nat, NEW b \in Nat, a < b, NEW c \in Nat, NEW d \in Nat, c < s
      PROVE  a * s + c < b * s + d
  <2>1. b - (a + 1) \in Nat
    BY <1>1
  <2>2. (b - (a + 1)) * s >= 0
    BY <2>1
  <2>3. (b - (a + 1)) * s = b * s - a * s - s
    BY <1>1
  <2>4. a * s \in Nat /\ b * s \in Nat
    BY <1>1
  <2> QED BY ONLY <1>1, <2>2, <2>3, <2>4, s \in Nat
<1>2. y < v => y * s + x < v * s
  <2>1. v * s + 0 = v * s
    OBVIOUS
  <2> QED BY <1>1, <2>1
<1>3. v < y => v * s + u < y * s + x
  BY <1>1
<1>4. y < v => y * s + x < v * s + u
  BY <1>1
<1>5. y * s \in Nat /\ v * s \in Nat
  OBVIOUS
<1>6. ~(y < v) => ~(y * s + x < v * s)
  <2>1. v < y => v * s < y * s + x
    BY <1>3, <1>5
  <2>2. v = y => ~(y * s + x < v * s)
    BY <1>5
  <2> QED BY <1>5, <2>1, <2>2
<1>7. y * s + x = v * s + u => y = v
  BY <1>3, <1>4, <1>5
<1>8. y = v => (y * s + x = v * s + u => x = u)
  BY <1>5
<1> QED BY <1>2, <1>6, <1>7, <1>8

\* Division undoes the addressing of a row and a column.
LEMMA Quotient ==
  ASSUME NEW s \in Nat, NEW x \in Nat, NEW y \in Nat, x < s
  PROVE  (y * s + x) % s = x /\ (y * s + x) \div s = y
<1> DEFINE a == y * s + x
           q == a \div s
           r == a % s
<1>1. s > 0 /\ a \in Nat
  OBVIOUS
<1>2. a = y * s + x
  OBVIOUS
<1> HIDE DEF a
<1>3. q \in Nat /\ r \in Nat /\ r < s /\ a = s * q + r
  BY <1>1
<1> HIDE DEF q, r
<1>4. s * q = q * s
  BY <1>3
<1>5. y * s + x = q * s + r
  BY <1>2, <1>3, <1>4
<1>6. x = r /\ y = q
  BY <1>3, <1>5, RowMajor
<1> QED BY <1>6 DEF a, q, r

\* The numbers of a sound writer.
LEMMA Geometry ==
  ASSUME NEW w, Sound(w)
  PROVE  /\ w.info.width \in Nat /\ w.info.height \in Nat /\ w.info.stride \in Nat
         /\ w.info.width <= w.info.stride
         /\ w.x_pos \in Nat /\ w.y_pos \in Nat /\ w.scale \in Nat /\ scaled(w) \in Nat
         /\ w.text_color \in Colors /\ w.bg_color \in Colors
         /\ DOMAIN w.fb = 0 .. w.info.height * w.info.stride - 1
         /\ \A x \in Columns(w) : x \in Nat /\ x < w.info.width
         /\ \A y \in Rows(w) : y \in Nat /\ y < w.info.height
<1>1. /\ w.info.width \in Nat /\ w.info.height \in Nat /\ w.info.stride \in Nat
      /\ w.info.width <= w.info.stride
  BY ScreenSizes DEF Sound
<1>2. /\ w.x_pos \in Nat /\ w.y_pos \in Nat /\ w.scale \in Nat
      /\ w.text_color \in Colors /\ w.bg_color \in Colors
      /\ DOMAIN w.fb = 0 .. w.info.height * w.info.stride - 1
  BY DEF Sound, FrameBufferWriter, Picture
<1>3. scaled(w) \in Nat
  BY <1>2, ScreenSizes DEF scaled
<1> QED BY <1>1, <1>2, <1>3, SMT, SMTT(60) DEF Columns, Rows

\* A pixel is a word of the frame buffer.
LEMMA PixelStored ==
  ASSUME NEW w, Sound(w), NEW x \in Columns(w), NEW y \in Rows(w)
  PROVE  At(w, x, y) \in DOMAIN w.fb
  BY Geometry, CellInside, Zenon DEF At

\* A store to a rectangle changes the pixels of that rectangle.
LEMMA StorePixel ==
  ASSUME NEW w, Sound(w), NEW xs, NEW ys, xs \subseteq Columns(w), ys \subseteq Rows(w),
         NEW px, DOMAIN px = {At(w, u, v) : u \in xs, v \in ys},
         NEW x \in Columns(w), NEW y \in Rows(w)
  PROVE  Pixel(Store(w, px), x, y) =
           IF x \in xs /\ y \in ys THEN px[At(w, x, y)] ELSE Pixel(w, x, y)
<1> DEFINE a == At(w, x, y)
           new == [b \in DOMAIN w.fb |-> IF b \in DOMAIN px THEN px[b] ELSE w.fb[b]]
<1>1. Store(w, px).fb = new /\ Store(w, px).info = w.info
  <2>1. Store(w, px) = [w EXCEPT !.fb = new, !.stray = @ \/ ~(DOMAIN px \subseteq DOMAIN w.fb)]
    BY DEF Store
  <2> HIDE DEF new
  <2> QED BY <2>1 DEF Sound, FrameBufferWriter
<1>2. a \in DOMAIN w.fb
  BY PixelStored
<1>3. a \in DOMAIN px <=> x \in xs /\ y \in ys
  <2>1. ASSUME NEW u \in xs, NEW v \in ys, a = At(w, u, v) PROVE x = u /\ y = v
    <3>1. u \in Nat /\ v \in Nat /\ x \in Nat /\ y \in Nat /\ w.info.stride \in Nat
          /\ x < w.info.stride /\ u < w.info.stride
      BY Geometry, SMT, SMTT(60)
    <3> QED BY <2>1, <3>1, RowMajor, SMT, SMTT(60) DEF At
  <2> QED BY <2>1
<1>4. Pixel(Store(w, px), x, y) = new[a]
  BY <1>1 DEF Pixel, At
<1> HIDE DEF a
<1>5. new[a] = IF a \in DOMAIN px THEN px[a] ELSE w.fb[a]
  BY <1>2
<1> QED BY <1>3, <1>4, <1>5 DEF Pixel, a

\* draw_char paints the part of the cell that is on the screen, a point of the glyph per
\* scale by scale pixels.
Drawn(w, x0, y0, b, x, y) ==
  IF HasGlyph(b) /\ x \in x0 .. x0 + scaled(w) - 1 /\ y \in y0 .. y0 + scaled(w) - 1
  THEN IF <<(x - x0) \div w.scale, (y - y0) \div w.scale>> \in Glyph[b]
       THEN w.text_color ELSE w.bg_color
  ELSE Pixel(w, x, y)

LEMMA DrawPixel ==
  ASSUME NEW w, Sound(w), NEW x0 \in Nat, NEW y0 \in Nat, NEW b, NEW x \in Columns(w), NEW y \in Rows(w)
  PROVE  Pixel(draw_char(w, x0, y0, b), x, y) = Drawn(w, x0, y0, b, x, y)
<1> DEFINE xs == Columns(w) \cap (x0 .. x0 + scaled(w) - 1)
           ys == Rows(w) \cap (y0 .. y0 + scaled(w) - 1)
           cell == {At(w, dx, dy) : dx \in xs, dy \in ys}
           bit(a) == <<((a % w.info.stride) - x0) \div w.scale,
                       ((a \div w.info.stride) - y0) \div w.scale>>
           px == [a \in cell |-> IF bit(a) \in Glyph[b] THEN w.text_color ELSE w.bg_color]
<1>1. draw_char(w, x0, y0, b) = IF HasGlyph(b) THEN Store(w, px) ELSE w
  BY DEF draw_char
<1>2. xs \subseteq Columns(w) /\ ys \subseteq Rows(w)
      /\ (x \in xs <=> x \in x0 .. x0 + scaled(w) - 1) /\ (y \in ys <=> y \in y0 .. y0 + scaled(w) - 1)
  OBVIOUS
<1>3. bit(At(w, x, y)) = <<(x - x0) \div w.scale, (y - y0) \div w.scale>>
  <2>1. x \in Nat /\ y \in Nat /\ w.info.stride \in Nat /\ x < w.info.stride
    BY Geometry, SMT, SMTT(60)
  <2>2. At(w, x, y) % w.info.stride = x /\ At(w, x, y) \div w.info.stride = y
    BY <2>1, Quotient, Zenon DEF At
  <2> QED BY <2>2
<1> HIDE DEF xs, ys, bit
<1>4. DOMAIN px = {At(w, u, v) : u \in xs, v \in ys}
  OBVIOUS
<1>5. x \in xs /\ y \in ys => px[At(w, x, y)] = IF bit(At(w, x, y)) \in Glyph[b] THEN w.text_color ELSE w.bg_color
  OBVIOUS
<1> HIDE DEF px, cell
<1>6. Pixel(Store(w, px), x, y) = IF x \in xs /\ y \in ys THEN px[At(w, x, y)] ELSE Pixel(w, x, y)
  BY <1>2, <1>4, StorePixel, SMT, SMTT(60)
<1> QED BY <1>1, <1>2, <1>3, <1>5, <1>6 DEF Drawn

\* scroll_up moves the picture up by a line and leaves the background below it.
LEMMA ScrollPixel ==
  ASSUME NEW w, Sound(w), scaled(w) <= w.info.height, NEW x \in Columns(w), NEW y \in Rows(w)
  PROVE  Pixel(scroll_up(w), x, y) =
           IF y + scaled(w) < w.info.height THEN Pixel(w, x, y + scaled(w)) ELSE w.bg_color
<1> DEFINE h == w.info.height
           m == w.info.stride
           sh == scaled(w)
           a == At(w, x, y)
           words == 0 .. h * m - 1
           copy_len == (h - sh) * m
           px == [c \in words |-> IF c < copy_len THEN w.fb[c + m * sh] ELSE w.bg_color]
           new == [c \in DOMAIN w.fb |-> IF c \in DOMAIN px THEN px[c] ELSE w.fb[c]]
<1>1. /\ h \in Nat /\ m \in Nat /\ sh \in Nat /\ x \in Nat /\ y \in Nat /\ x < m /\ y < h
      /\ DOMAIN w.fb = words
  BY Geometry, SMT, SMTT(60)
<1>2. scroll_up(w) = Store(w, px)
  BY DEF scroll_up
<1>3. Store(w, px).fb = new /\ Store(w, px).info = w.info
  <2>1. Store(w, px) = [w EXCEPT !.fb = new, !.stray = @ \/ ~(DOMAIN px \subseteq DOMAIN w.fb)]
    BY DEF Store
  <2> HIDE DEF new
  <2> QED BY <2>1, Zenon DEF Sound, FrameBufferWriter
<1>4. a \in words
  BY <1>1, PixelStored, Zenon
<1>5. a < copy_len <=> y + sh < h
  <2>1. h - sh \in Nat
    BY <1>1
  <2>2. a < copy_len <=> y < h - sh
    <3>1. a = y * m + x
      BY DEF At
    <3> HIDE DEF sh, h, a, m
    <3> QED BY <1>1, <2>1, <3>1, RowMajor
  <2> HIDE DEF sh, h, a, copy_len
  <2> QED BY <1>1, <2>2
<1>6. a + m * sh = At(w, x, y + sh)
  <2>1. (y + sh) * m = y * m + m * sh
    BY ONLY <1>1
  <2>2. y * m \in Nat /\ m * sh \in Nat
    BY ONLY <1>1, SMT, SMTT(60)
  <2> HIDE DEF sh
  <2> QED BY <1>1, <2>1, <2>2, SMT, SMTT(60) DEF At
<1>7. Pixel(scroll_up(w), x, y) = new[a]
  BY <1>2, <1>3, Zenon DEF Pixel, At
<1> HIDE DEF a, words, copy_len, sh
<1>8. new[a] = px[a]
  BY <1>1, <1>4
<1>9. px[a] = IF a < copy_len THEN w.fb[a + m * sh] ELSE w.bg_color
  BY <1>4
<1> HIDE DEF px, new
<1> QED BY <1>5, <1>6, <1>7, <1>8, <1>9 DEF Pixel, sh

\* No line fits below the one the cursor is on.
Full(w) == w.y_pos + scaled(w) + scaled(w) > w.info.height

\* new_line goes down a line, or has the picture go up one.
LEMMA FeedPixel ==
  ASSUME NEW w, Sound(w), Placed(w)
  PROVE  /\ ~Full(w) => /\ new_line(w).y_pos = w.y_pos + scaled(w)
                        /\ \A x, y : Pixel(new_line(w), x, y) = Pixel(w, x, y)
         /\ Full(w) => /\ new_line(w).y_pos = w.y_pos
                       /\ \A x \in Columns(w), y \in Rows(w) :
                            Pixel(new_line(w), x, y) =
                              IF y + scaled(w) < w.info.height THEN Pixel(w, x, y + scaled(w)) ELSE w.bg_color
<1> DEFINE v == [w EXCEPT !.x_pos = 0, !.y_pos = @ + scaled(w)]
<1>1. w.info.height \in Nat /\ w.y_pos \in Nat /\ scaled(w) \in Nat
  BY Geometry
<1>2. /\ Sound(v) /\ SameStyle(v, w) /\ v.y_pos = w.y_pos + scaled(w) /\ v.fb = w.fb
  <2>1. v = Moved(w, 0, w.y_pos + scaled(w))
    BY DEF Moved
  <2>2. w.y_pos + scaled(w) \in Nat
    BY <1>1
  <2>3. v.fb = w.fb
    BY DEF Sound, FrameBufferWriter
  <2> HIDE DEF v
  <2> QED BY <2>1, <2>2, <2>3, MoveSound, SMT, SMTT(60)
<1>3. new_line(w) = IF v.y_pos + scaled(w) > v.info.height
                    THEN [scroll_up(v) EXCEPT !.y_pos = @ - scaled(w)] ELSE v
  BY DEF new_line
<1> HIDE DEF v
<1>4. scaled(v) = scaled(w) /\ v.info = w.info /\ v.bg_color = w.bg_color /\ Columns(v) = Columns(w) /\ Rows(v) = Rows(w)
      /\ \A x, y : Pixel(v, x, y) = Pixel(w, x, y)
  BY <1>2 DEF scaled, SameStyle, Columns, Rows, Pixel, At
<1>5. CASE ~Full(w)
  <2>1. new_line(w) = v
    BY <1>2, <1>3, <1>4, <1>5, SMT, SMTT(60) DEF Full
  <2> QED BY <1>2, <1>4, <1>5, <2>1
<1>6. CASE Full(w)
  <2> DEFINE u == scroll_up(v)
  <2>1. scaled(v) <= v.info.height
    BY <1>1, <1>4 DEF Placed
  <2>2. Sound(u) /\ SameStyle(u, v) /\ u.y_pos = w.y_pos + scaled(w)
    BY <1>2, <2>1, ScrollSound, Zenon
  <2>3. \A x \in Columns(w), y \in Rows(w) :
          Pixel(u, x, y) = IF y + scaled(w) < w.info.height THEN Pixel(w, x, y + scaled(w)) ELSE w.bg_color
    BY <1>2, <1>4, <2>1, ScrollPixel
  <2>4. new_line(w) = [u EXCEPT !.y_pos = @ - scaled(w)]
    BY <1>2, <1>3, <1>4, <1>6 DEF Full
  <2> HIDE DEF u
  <2>5. new_line(w).y_pos = u.y_pos - scaled(w) /\ new_line(w).fb = u.fb /\ new_line(w).info = u.info
    BY <2>2, <2>4 DEF Sound, FrameBufferWriter
  <2>6. u.y_pos - scaled(w) = w.y_pos
    BY <1>1, <2>2
  <2>7. \A x, y : Pixel(new_line(w), x, y) = Pixel(u, x, y)
    BY <2>5, SMT, SMTT(60) DEF Pixel, At
  <2> QED BY <1>6, <2>3, <2>5, <2>6, <2>7, SMT, SMTT(60)
<1> QED BY <1>5, <1>6

\* fill_remainder feeds a writer whose line is blank from the cursor on.
LEMMA FillPixel ==
  ASSUME NEW w, Sound(w), Placed(w)
  PROVE  \E v : /\ fill_remainder(w) = new_line(v)
                /\ Sound(v) /\ Placed(v) /\ SameStyle(v, w) /\ v.x_pos = w.x_pos /\ v.y_pos = w.y_pos
                /\ \A x \in Columns(w), y \in Rows(w) :
                     Pixel(v, x, y) = IF x >= w.x_pos /\ y >= w.y_pos /\ y < w.y_pos + scaled(w)
                                      THEN w.bg_color ELSE Pixel(w, x, y)
<1> DEFINE xs == w.x_pos .. w.info.width - 1
           ys == Rows(w) \cap (w.y_pos .. w.y_pos + scaled(w) - 1)
           rest == {At(w, dx, dy) : dx \in xs, dy \in ys}
           px == [a \in rest |-> w.bg_color]
           v == Store(w, px)
<1>1. w.x_pos \in Nat /\ w.y_pos \in Nat /\ scaled(w) \in Nat /\ w.info.width \in Nat /\ w.bg_color \in Colors
      /\ w.info.height \in Nat
  BY Geometry, SMT, SMTT(60)
<1>2. xs \subseteq Columns(w) /\ ys \subseteq Rows(w)
  BY <1>1, SMT, SMTT(60) DEF Columns
<1>3. /\ \A x \in Columns(w) : x \in xs <=> x >= w.x_pos
      /\ \A y \in Rows(w) : y \in ys <=> y >= w.y_pos /\ y < w.y_pos + scaled(w)
  BY <1>1 DEF Columns, Rows
<1>4. fill_remainder(w) = new_line(v)
  BY DEF fill_remainder
<1> HIDE DEF xs, ys
<1>5. rest \subseteq DOMAIN w.fb
  BY <1>2, RectangleInside
<1>6. DOMAIN px = {At(w, dx, dy) : dx \in xs, dy \in ys} /\ \A x \in xs, y \in ys : px[At(w, x, y)] = w.bg_color
  OBVIOUS
<1>7. DOMAIN px \subseteq DOMAIN w.fb /\ \A a \in DOMAIN px : px[a] \in Colors
  <2> HIDE DEF rest
  <2> QED BY <1>1, <1>5, SMT, SMTT(60)
<1> HIDE DEF rest, px
<1>8. Sound(v) /\ SameStyle(v, w) /\ v.x_pos = w.x_pos /\ v.y_pos = w.y_pos
  BY <1>7, StoreSound
<1>9. \A x \in Columns(w), y \in Rows(w) :
        Pixel(v, x, y) = IF x \in xs /\ y \in ys THEN px[At(w, x, y)] ELSE Pixel(w, x, y)
  BY <1>2, <1>6, StorePixel, SMT, SMTT(60)
<1> HIDE DEF v
<1>10. Placed(v)
  BY <1>8 DEF Placed, SameStyle, scaled
<1> QED BY <1>3, <1>4, <1>6, <1>8, <1>9, <1>10, SMT, SMTT(60)

\* write_byte draws a character where the cursor is, on the next line when this one is full.
Wrapped(w) == IF w.x_pos + scaled(w) > w.info.width THEN new_line(w) ELSE w

Writes(n, v, w, b) ==
  /\ Sound(v) /\ SameStyle(v, w) /\ Placed(v) /\ v.x_pos + scaled(w) <= w.info.width
  /\ n.x_pos = v.x_pos + scaled(w) /\ n.y_pos = v.y_pos
  /\ \A x, y : Pixel(n, x, y) = Pixel(draw_char(v, v.x_pos, v.y_pos, b), x, y)

LEMMA WritePixel ==
  ASSUME NEW w, Sound(w), Placed(w), NEW b, b # NEWLINE, scaled(w) <= w.info.width
  PROVE  Writes(write_byte(w, b), Wrapped(w), w, b)
<1> DEFINE v == Wrapped(w)
           u == draw_char(v, v.x_pos, v.y_pos, b)
<1>1. write_byte(w, b) = [u EXCEPT !.x_pos = @ + scaled(w)]
  BY SMT, SMTT(60) DEF write_byte, Wrapped
<1>2. Sound(v) /\ SameStyle(v, w) /\ Placed(v) /\ v.x_pos + scaled(w) <= w.info.width
  <2>1. w.info.width \in Nat /\ scaled(w) \in Nat /\ w.x_pos \in Nat
    BY Geometry
  <2> QED BY <2>1, NewLineSound DEF SameStyle, Wrapped
<1> HIDE DEF v
<1>3. Sound(u) /\ u.x_pos = v.x_pos /\ u.y_pos = v.y_pos
  BY <1>2, DrawSound
<1> HIDE DEF u
<1>4. write_byte(w, b).x_pos = u.x_pos + scaled(w) /\ write_byte(w, b).y_pos = u.y_pos
      /\ write_byte(w, b).fb = u.fb /\ write_byte(w, b).info = u.info
  BY <1>1, <1>3, SMT, SMTT(60) DEF Sound, FrameBufferWriter
<1>5. \A x, y : Pixel(write_byte(w, b), x, y) = Pixel(u, x, y)
  BY <1>4 DEF Pixel, At
<1> QED BY <1>2, <1>3, <1>4, <1>5, Zenon DEF v, u, Writes

\* clear paints the whole screen.
LEMMA ClearPixel ==
  ASSUME NEW w, Sound(w), NEW color \in Colors, NEW x \in Columns(w), NEW y \in Rows(w)
  PROVE  Pixel(clear(w, color), x, y) = convert_color(w, color)
<1> DEFINE k == convert_color(w, color)
           xs == Columns(w)
           ys == Rows(w)
           cells == {At(w, u, v) : u \in xs, v \in ys}
           px == [a \in cells |-> k]
           v == Store(w, px)
<1>1. clear(w, color) = [v EXCEPT !.x_pos = 0, !.y_pos = 0]
  BY DEF clear
<1>2. xs \subseteq Columns(w) /\ ys \subseteq Rows(w) /\ x \in xs /\ y \in ys
  OBVIOUS
<1> HIDE DEF xs, ys, k
<1>3. DOMAIN px = {At(w, p, q) : p \in xs, q \in ys} /\ px[At(w, x, y)] = k
  BY <1>2
<1>4. DOMAIN px \subseteq DOMAIN w.fb
  <2>1. cells \subseteq DOMAIN w.fb
    BY <1>2, RectangleInside, SMT, SMTT(60)
  <2> QED BY <2>1
<1>5. \A a \in DOMAIN px : px[a] \in Colors
  <2>1. k \in Colors
    BY ConvertColor DEF k
  <2> QED BY <2>1
<1> HIDE DEF px, cells
<1>6. Sound(v) /\ SameStyle(v, w)
  BY <1>4, <1>5, StoreSound
<1>7. Pixel(v, x, y) = k
  BY <1>2, <1>3, StorePixel
<1> HIDE DEF v
<1>8. clear(w, color).fb = v.fb /\ clear(w, color).info = v.info
  BY <1>1, <1>6 DEF Sound, FrameBufferWriter
<1> QED BY <1>7, <1>8 DEF Pixel, At, k

\* No pixel has the given colour; no pixel right of the cursor or below its line has that of
\* the text.
Without(w, color) == \A x \in Columns(w), y \in Rows(w) : Pixel(w, x, y) # color
Clean(w) ==
  \A x \in Columns(w), y \in Rows(w) :
    (y >= w.y_pos + scaled(w) \/ (y >= w.y_pos /\ x >= w.x_pos)) => Pixel(w, x, y) # w.text_color

\* A line feed brings in the background only.
LEMMA FeedClean ==
  ASSUME NEW w, Sound(w), Placed(w)
  PROVE  /\ Clean(w) /\ w.bg_color # w.text_color => Clean(new_line(w))
         /\ \A color : Without(w, color) /\ w.bg_color # color => Without(new_line(w), color)
<1> DEFINE n == new_line(w)
<1>1. Sound(n) /\ SameStyle(n, w) /\ n.x_pos = 0
  BY NewLineSound
<1>2. /\ ~Full(w) => n.y_pos = w.y_pos + scaled(w) /\ \A x, y : Pixel(n, x, y) = Pixel(w, x, y)
      /\ Full(w) => /\ n.y_pos = w.y_pos
                    /\ \A x \in Columns(w), y \in Rows(w) :
                         Pixel(n, x, y) =
                           IF y + scaled(w) < w.info.height THEN Pixel(w, x, y + scaled(w)) ELSE w.bg_color
  BY FeedPixel
<1> HIDE DEF n
<1>3. /\ scaled(n) = scaled(w) /\ Columns(n) = Columns(w) /\ Rows(n) = Rows(w)
      /\ n.text_color = w.text_color
  BY <1>1 DEF scaled, SameStyle, Columns, Rows
<1>4. w.info.height \in Nat /\ w.y_pos \in Nat /\ scaled(w) \in Nat /\ w.x_pos \in Nat
  BY Geometry
<1>5. ASSUME NEW y \in Rows(w), y + scaled(w) < w.info.height PROVE y + scaled(w) \in Rows(w)
  BY <1>4, <1>5, SMT, SMTT(60) DEF Rows
<1>6. ASSUME Clean(w), w.bg_color # w.text_color, NEW x \in Columns(w), NEW y \in Rows(w),
             y >= n.y_pos + scaled(w) \/ (y >= n.y_pos /\ x >= n.x_pos)
      PROVE  Pixel(n, x, y) # w.text_color
  <2>1. y \in Nat /\ x \in Nat
    BY Geometry, SMT, SMTT(60)
  <2>2. y >= n.y_pos
    BY <1>2, <1>4, <1>6, <2>1, SMT, SMTT(60)
  <2>3. CASE ~Full(w)
    <3>1. y >= w.y_pos + scaled(w)
      BY <1>2, <2>2, <2>3, SMT, SMTT(60)
    <3> QED BY <1>2, <1>6, <2>3, <3>1, SMT, SMTT(60) DEF Clean
  <2>4. CASE Full(w) /\ y + scaled(w) < w.info.height
    <3>1. y + scaled(w) >= w.y_pos + scaled(w)
      BY <1>2, <1>4, <2>1, <2>2, <2>4, SMT, SMTT(60)
    <3>2. y + scaled(w) \in Rows(w)
      BY <1>5, <2>4
    <3>3. Pixel(w, x, y + scaled(w)) # w.text_color
      BY <1>6, <3>1, <3>2 DEF Clean
    <3> QED BY <1>2, <2>4, <3>3, SMT, SMTT(60)
  <2>5. CASE Full(w) /\ ~(y + scaled(w) < w.info.height)
    BY <1>2, <1>6, <2>5, SMT, SMTT(60)
  <2> QED BY <2>3, <2>4, <2>5, SMT, SMTT(60)
<1>7. ASSUME NEW color, Without(w, color), w.bg_color # color, NEW x \in Columns(w), NEW y \in Rows(w)
      PROVE  Pixel(n, x, y) # color
  BY <1>2, <1>5, <1>7 DEF Without
<1>8. Clean(w) /\ w.bg_color # w.text_color => Clean(n)
  BY <1>3, <1>6 DEF Clean
<1>9. \A color : Without(w, color) /\ w.bg_color # color => Without(n, color)
  BY <1>3, <1>7 DEF Without
<1> QED BY <1>8, <1>9 DEF n

\* Writing a character uses the two colours of the writer, and draws left of the new cursor.
LEMMA WriteClean ==
  ASSUME NEW w, Sound(w), Placed(w), NEW b, scaled(w) <= w.info.width
  PROVE  /\ Clean(w) /\ w.bg_color # w.text_color => Clean(write_byte(w, b))
         /\ \A color : Without(w, color) /\ w.bg_color # color /\ w.text_color # color =>
              Without(write_byte(w, b), color)
<1>1. w.info.height \in Nat /\ w.y_pos \in Nat /\ scaled(w) \in Nat /\ w.x_pos \in Nat
  BY Geometry, SMT, SMTT(60)
<1>2. CASE b = NEWLINE
  <2>1. PICK v : /\ fill_remainder(w) = new_line(v)
                 /\ Sound(v) /\ Placed(v) /\ SameStyle(v, w) /\ v.x_pos = w.x_pos /\ v.y_pos = w.y_pos
                 /\ \A x \in Columns(w), y \in Rows(w) :
                      Pixel(v, x, y) = IF x >= w.x_pos /\ y >= w.y_pos /\ y < w.y_pos + scaled(w)
                                       THEN w.bg_color ELSE Pixel(w, x, y)
    BY FillPixel
  <2>2. write_byte(w, b) = new_line(v)
    BY <1>2, <2>1 DEF write_byte
  <2>3. /\ scaled(v) = scaled(w) /\ Columns(v) = Columns(w) /\ Rows(v) = Rows(w)
        /\ v.text_color = w.text_color /\ v.bg_color = w.bg_color
    BY <2>1, SMT, SMTT(60) DEF scaled, SameStyle, Columns, Rows
  <2>4. Clean(w) /\ w.bg_color # w.text_color => Clean(v)
    BY <2>1, <2>3, SMT, SMTT(60) DEF Clean
  <2>5. \A color : Without(w, color) /\ w.bg_color # color => Without(v, color)
    BY <2>1, <2>3, SMT, SMTT(60) DEF Without
  <2> QED BY <2>1, <2>2, <2>3, <2>4, <2>5, FeedClean, SMT, SMTT(60)
<1>3. CASE b # NEWLINE
  <2> DEFINE v == Wrapped(w)
             n == write_byte(w, b)
  <2>1. /\ Sound(v) /\ SameStyle(v, w) /\ v.x_pos + scaled(w) <= w.info.width
        /\ n.x_pos = v.x_pos + scaled(w) /\ n.y_pos = v.y_pos
        /\ \A x, y : Pixel(n, x, y) = Pixel(draw_char(v, v.x_pos, v.y_pos, b), x, y)
    <3>1. Writes(n, v, w, b)
      BY <1>3, WritePixel, Zenon
    <3> HIDE DEF v, n
    <3> QED BY <3>1 DEF Writes
  <2>2. /\ Clean(w) /\ w.bg_color # w.text_color => Clean(v)
        /\ \A color : Without(w, color) /\ w.bg_color # color => Without(v, color)
    BY FeedClean DEF Wrapped
  <2>3. SameStyle(n, w)
    BY WriteByteSound
  <2> HIDE DEF v, n
  <2>4. /\ scaled(v) = scaled(w) /\ Columns(v) = Columns(w) /\ Rows(v) = Rows(w)
        /\ v.text_color = w.text_color /\ v.bg_color = w.bg_color
        /\ scaled(n) = scaled(w) /\ Columns(n) = Columns(w) /\ Rows(n) = Rows(w)
        /\ n.text_color = w.text_color
    BY <2>1, <2>3, Zenon DEF scaled, SameStyle, Columns, Rows
  <2>5. v.x_pos \in Nat /\ v.y_pos \in Nat
    BY <2>1, Geometry
  <2>6. ASSUME NEW x \in Columns(w), NEW y \in Rows(w)
        PROVE  Pixel(n, x, y) =
                 IF HasGlyph(b) /\ x \in v.x_pos .. v.x_pos + scaled(w) - 1 /\ y \in v.y_pos .. v.y_pos + scaled(w) - 1
                 THEN IF <<(x - v.x_pos) \div v.scale, (y - v.y_pos) \div v.scale>> \in Glyph[b]
                      THEN w.text_color ELSE w.bg_color
                 ELSE Pixel(v, x, y)
    <3>1. x \in Columns(v) /\ y \in Rows(v)
      BY <2>4
    <3>2. Pixel(draw_char(v, v.x_pos, v.y_pos, b), x, y) = Drawn(v, v.x_pos, v.y_pos, b, x, y)
      BY <2>1, <2>5, <3>1, DrawPixel, ZenonT(40)
    <3>3. Pixel(n, x, y) = Pixel(draw_char(v, v.x_pos, v.y_pos, b), x, y)
      BY <2>1
    <3> QED BY ONLY <2>4, <3>2, <3>3, Zenon DEF Drawn
  <2>7. ASSUME Clean(v), NEW x \in Columns(w), NEW y \in Rows(w),
               y >= n.y_pos + scaled(w) \/ (y >= n.y_pos /\ x >= n.x_pos)
        PROVE  Pixel(n, x, y) # w.text_color
    <3>1. y \in Nat /\ x \in Nat
      BY Geometry
    <3>2. /\ ~(x \in v.x_pos .. v.x_pos + scaled(w) - 1 /\ y \in v.y_pos .. v.y_pos + scaled(w) - 1)
          /\ y >= v.y_pos + scaled(w) \/ (y >= v.y_pos /\ x >= v.x_pos)
      BY <1>1, <2>1, <2>5, <2>7, <3>1
    <3>3. Pixel(n, x, y) = Pixel(v, x, y)
      BY <2>6, <3>2, Zenon
    <3> QED BY <2>4, <2>7, <3>2, <3>3 DEF Clean
  <2>8. Clean(v) => Clean(n)
    BY <2>4, <2>7, SMT, SMTT(60) DEF Clean
  <2>9. \A color : Without(v, color) /\ w.bg_color # color /\ w.text_color # color => Without(n, color)
    <3>1. \A x \in Columns(w), y \in Rows(w) : Pixel(n, x, y) \in {w.text_color, w.bg_color, Pixel(v, x, y)}
      BY <2>6, Zenon
    <3> QED BY <2>4, <3>1 DEF Without
  <2>10. /\ Clean(w) /\ w.bg_color # w.text_color => Clean(n)
         /\ \A color : Without(w, color) /\ w.bg_color # color /\ w.text_color # color => Without(n, color)
    BY <2>2, <2>8, <2>9, SMT, SMTT(60)
  <2> QED BY <2>10, SMT, SMTT(60) DEF n
<1> QED BY <1>2, <1>3

-----------------------------------------------------------------------------
\* The invariant holds at power-on.
LEMMA InitIInv == Init => IInv
<1> SUFFICES ASSUME Init PROVE IInv
  OBVIOUS
<1>1. PICK i \in Infos :
        writer = [info |-> i, x_pos |-> 0, y_pos |-> 0, scale |-> 0,
                  text_color |-> BLACK, bg_color |-> BLACK,
                  fb |-> [a \in 0 .. i.height * i.stride - 1 |-> BLACK], stray |-> FALSE]
  BY Zenon DEF Init
<1>2. writer.fb \in Picture(i) /\ writer.info = i /\ BLACK \in Colors
  BY <1>1 DEF Picture, Colors
<1>3. writer \in FrameBufferWriter(i)
  BY <1>1, <1>2, SMT, SMTT(60) DEF FrameBufferWriter
<1> QED
  BY <1>1, <1>2, <1>3 DEF Init, IInv, TypeOK, StoresInside, LineOnScreen

\* Writing a character keeps the invariant at both scales.
LEMMA WriteKeepsIInv ==
  ASSUME IInv, pc \in {"welcome", "ready"}, NEW b, writer' = write_byte(writer, b),
         pc' = pc, top' = top, todo' \in Seq(Chars)
  PROVE  IInv'
<1>1. writer.info \in Infos /\ writer.scale \in {2, 3} /\ writer.info.width \in Nat
  BY ScreenSizes DEF IInv, TypeOK, FrameBufferWriter
<1>2. scaled(writer) <= writer.info.width
  BY <1>1, ScreenSizes, SMT, SMTT(60) DEF scaled
<1>3. Sound(writer) /\ Placed(writer)
  BY DEF IInv, TypeOK, StoresInside, LineOnScreen, Sound, Placed
<1>4. Sound(writer') /\ SameStyle(writer', writer) /\ Placed(writer')
  BY <1>2, <1>3, WriteByteSound
<1>5. TypeOK' /\ StoresInside'
  BY <1>4 DEF IInv, TypeOK, StoresInside, Sound
<1>6. LineOnScreen'
  BY <1>4 DEF LineOnScreen, Placed
<1> QED
  BY <1>4, <1>5, <1>6 DEF IInv, SameStyle

\* A change of style keeps the memory and the cursor.
LEMMA StyleSound ==
  ASSUME NEW w, Sound(w), NEW n \in {2, 3}, NEW color \in Colors
  PROVE  /\ Sound(set_scale(w, n)) /\ set_scale(w, n).scale = n
         /\ Sound(set_text_color(w, color)) /\ set_text_color(w, color).scale = w.scale
         /\ Sound(set_background_color(w, color)) /\ set_background_color(w, color).scale = w.scale
         /\ \A v \in {set_scale(w, n), set_text_color(w, color), set_background_color(w, color)} :
              v.info = w.info /\ v.x_pos = w.x_pos /\ v.y_pos = w.y_pos
<1>1. convert_color(w, color) \in Colors
  BY ConvertColor
<1> DEFINE c == convert_color(w, color)
<1> HIDE DEF c
<1>2. /\ Sound(set_scale(w, n)) /\ set_scale(w, n).scale = n /\ set_scale(w, n).info = w.info
      /\ set_scale(w, n).x_pos = w.x_pos /\ set_scale(w, n).y_pos = w.y_pos
  BY DEF set_scale, Sound, FrameBufferWriter
<1>3. /\ Sound([w EXCEPT !.text_color = c]) /\ [w EXCEPT !.text_color = c].scale = w.scale
      /\ [w EXCEPT !.text_color = c].info = w.info /\ [w EXCEPT !.text_color = c].x_pos = w.x_pos
      /\ [w EXCEPT !.text_color = c].y_pos = w.y_pos
  BY <1>1 DEF Sound, FrameBufferWriter, c
<1>4. /\ Sound([w EXCEPT !.bg_color = c]) /\ [w EXCEPT !.bg_color = c].scale = w.scale
      /\ [w EXCEPT !.bg_color = c].info = w.info /\ [w EXCEPT !.bg_color = c].x_pos = w.x_pos
      /\ [w EXCEPT !.bg_color = c].y_pos = w.y_pos
  BY <1>1 DEF Sound, FrameBufferWriter, c
<1>5. set_text_color(w, color) = [w EXCEPT !.text_color = c]
      /\ set_background_color(w, color) = [w EXCEPT !.bg_color = c]
  BY SMT, SMTT(60) DEF set_text_color, set_background_color, c
<1> QED
  BY <1>2, <1>3, <1>4, <1>5

\* Every step keeps the invariant: the scale grows only while the cursor is at the origin.
LEMMA NextIInv == IInv /\ [Next]_vars => IInv'
<1> SUFFICES ASSUME IInv, [Next]_vars PROVE IInv'
  OBVIOUS
<1> USE DEF IInv
<1>0. Sound(writer) /\ WHITE \in Colors /\ BLUE \in Colors /\ RED \in Colors
      /\ writer.info \in Infos
  BY DEF TypeOK, StoresInside, Sound, Colors, FrameBufferWriter
<1>i. /\ writer.info.width \in Nat /\ writer.info.height \in Nat /\ FONT \in Nat
      /\ 3 * FONT <= writer.info.height /\ 2 * FONT <= writer.info.height
  BY <1>0, ScreenSizes, SMT, SMTT(60)
<1>1. CASE init
  <2>1. /\ writer' \in FrameBufferWriter(writer.info) /\ writer'.fb = writer.fb /\ writer'.stray = writer.stray
        /\ writer'.info = writer.info /\ writer'.scale = 2
        /\ writer'.x_pos = 0 /\ writer'.y_pos = 0
    BY <1>0, <1>1, SMT, SMTT(60) DEF init, Sound, FrameBufferWriter
  <2>2. LineOnScreen'
    BY <1>i, <2>1 DEF LineOnScreen, scaled
  <2> QED
    BY <1>1, <2>1, <2>2, SMT, SMTT(60) DEF init, TypeOK, StoresInside
<1>2. CASE clear_screen
  <2>1. Sound(writer') /\ SameStyle(writer', writer) /\ writer'.x_pos = 0 /\ writer'.y_pos = 0
    BY <1>0, <1>2, ClearSound, Zenon DEF clear_screen
  <2>2. writer.scale = 2
    BY <1>2 DEF clear_screen
  <2>3. LineOnScreen'
    BY <1>i, <2>1, <2>2 DEF LineOnScreen, scaled, SameStyle
  <2> QED
    BY <1>2, <2>1, <2>2, <2>3 DEF clear_screen, TypeOK, StoresInside, Sound, SameStyle
<1>3. CASE welcome_style
  <2> DEFINE v == set_scale(writer, 3)
  <2>1. Sound(v) /\ v.scale = 3 /\ v.info = writer.info /\ v.x_pos = 0 /\ v.y_pos = 0
    BY <1>0, <1>3, StyleSound DEF welcome_style
  <2>2. writer' = set_text_color(v, RED)
    BY <1>3 DEF welcome_style
  <2> HIDE DEF v
  <2>3. Sound(writer') /\ writer'.scale = 3 /\ writer'.info = writer.info
        /\ writer'.x_pos = 0 /\ writer'.y_pos = 0
    BY <1>0, <2>1, <2>2, StyleSound, Zenon
  <2>4. LineOnScreen'
    BY <1>i, <2>3 DEF LineOnScreen, scaled
  <2>5. todo' \in Seq(Chars)
    BY <1>3, ScreenSizes DEF welcome_style
  <2> QED
    BY <1>3, <2>3, <2>4, <2>5, SMT, SMTT(60) DEF welcome_style, TypeOK, StoresInside, Sound
<1>4. CASE reset_style
  <2> DEFINE v == set_text_color(writer, WHITE)
             u == set_scale(v, 2)
  <2>1. Sound(v) /\ v.info = writer.info /\ v.x_pos = writer.x_pos /\ v.y_pos = writer.y_pos
    BY <1>0, StyleSound, Zenon
  <2>2. writer' = set_background_color(u, BLUE)
    BY <1>4, SMT, SMTT(60) DEF reset_style
  <2> HIDE DEF v
  <2>3. Sound(u) /\ u.scale = 2 /\ u.info = writer.info
        /\ u.x_pos = writer.x_pos /\ u.y_pos = writer.y_pos
    BY <1>0, <2>1, StyleSound
  <2> HIDE DEF u
  <2>4. Sound(writer') /\ writer'.scale = 2 /\ writer'.info = writer.info
        /\ writer'.x_pos = writer.x_pos /\ writer'.y_pos = writer.y_pos
    BY <1>0, <2>2, <2>3, StyleSound, ZenonT(40)
  <2>5. writer.y_pos \in Nat /\ writer.scale = 3
    BY <1>4 DEF reset_style, TypeOK, FrameBufferWriter
  <2>6. LineOnScreen'
    <3>1. /\ writer.y_pos + FONT * writer.scale <= writer.info.height
          /\ writer.x_pos <= writer.info.width
      <4>1. pc # "start"
        BY <1>4 DEF reset_style
      <4> QED BY <1>i, <4>1, Zenon DEF LineOnScreen, scaled
    <3>2. PICK y \in Nat : y = writer.y_pos
      BY <2>5, Zenon
    <3>3. PICK h \in Nat : h = writer.info.height
      BY <1>0, ScreenAssumption, Zenon DEF Sound
    <3>4. y + FONT * 3 <= h /\ FONT \in Nat
      BY <2>5, <3>1, <3>2, <3>3, ScreenAssumption, Zenon
    <3>5. y + FONT * 2 <= h
      BY ONLY <3>4, y \in Nat, h \in Nat, SMT, SMTT(60)
    <3> QED BY <2>4, <3>1, <3>2, <3>3, <3>5, Zenon DEF LineOnScreen, scaled
  <2> QED
    BY <1>4, <2>4, <2>5, <2>6 DEF reset_style, TypeOK, StoresInside, Sound
<1>5. CASE write_str
  <2>1. todo \in Seq(Chars) /\ todo # <<>> /\ todo' = Tail(todo)
    BY <1>5 DEF write_str, TypeOK
  <2>2. todo' \in Seq(Chars)
    BY <2>1, SMT, SMTT(60)
  <2> QED
    BY <1>5, <2>1, <2>2, WriteKeepsIInv, SMT, SMTT(60) DEF write_str
<1>6. ASSUME NEW s \in Texts, _print(s) PROVE IInv'
  <2>1. s \in Seq(Chars)
    BY ScreenSizes, SMT, SMTT(60)
  <2> QED
    BY <1>6, <2>1, SMT, SMTT(60) DEF _print, TypeOK, StoresInside, LineOnScreen
<1>7. ASSUME NEW c \in Chars, print_char(c) PROVE IInv'
  BY <1>7, WriteKeepsIInv, SMT, SMTT(60) DEF print_char, TypeOK
<1>8. CASE UNCHANGED vars
  BY <1>8 DEF vars, TypeOK, StoresInside, LineOnScreen
<1> QED
  BY <1>1, <1>2, <1>3, <1>4, <1>5, <1>6, <1>7, <1>8 DEF Next

\* The inductive invariant holds in every reachable state.
THEOREM ScreenInvariance == Spec => []IInv
  BY InitIInv, NextIInv, PTL DEF Spec

\* The frame buffer keeps its length and holds colours of the palette only.
THEOREM ScreenTypeCorrect == Spec => []TypeOK
<1>1. IInv => TypeOK
  BY SMT, SMTT(60) DEF IInv
<1> QED
  BY <1>1, ScreenInvariance, PTL

\* On every screen of the assumption, no store of the console leaves the frame buffer.
THEOREM ScreenStoresInside == Spec => []StoresInside
<1>1. IInv => StoresInside
  BY SMT, SMTT(60) DEF IInv
<1> QED
  BY <1>1, ScreenInvariance, PTL

\* On every screen of the assumption, the cursor's line is wholly visible.
THEOREM ScreenLineOnScreen == Spec => []LineOnScreen
<1>1. IInv => LineOnScreen
  BY SMT, SMTT(60) DEF IInv
<1> QED
  BY <1>1, ScreenInvariance, PTL

-----------------------------------------------------------------------------
(* Nothing of an older text is left where the next characters go. *)

\* White, the colour of the text from reset_style on, is not drawn before it and is never
\* the background.
Inked ==
  /\ writer.bg_color # WHITE
  /\ pc # "ready" => Without(writer, WHITE)
  /\ pc = "welcome" => writer.text_color # WHITE
  /\ pc = "ready" => writer.text_color = WHITE /\ Clean(writer)

\* The three colours of _start, as either format stores them.
LEMMA Palette ==
  ASSUME NEW w
  PROVE  /\ convert_color(w, WHITE) = WHITE
         /\ convert_color(w, BLUE) # WHITE /\ convert_color(w, RED) # WHITE
         /\ BLUE # WHITE /\ BLACK # WHITE
  BY SMT, SMTT(60) DEF convert_color, WHITE, BLUE, RED, BLACK

\* The picture depends on the memory and the length of a row.
LEMMA SamePicture ==
  ASSUME NEW v, NEW w, v.fb = w.fb, v.info = w.info
  PROVE  /\ \A color : Without(w, color) => Without(v, color)
         /\ \A x, y : Pixel(v, x, y) = Pixel(w, x, y)
         /\ Columns(v) = Columns(w) /\ Rows(v) = Rows(w)
  BY DEF Without, Columns, Rows, Pixel, At

\* reset_style changes the style alone.
LEMMA ResetStyle ==
  ASSUME Sound(writer), reset_style
  PROVE  /\ writer'.fb = writer.fb /\ writer'.info = writer.info
         /\ writer'.text_color = WHITE /\ writer'.bg_color # WHITE /\ writer'.scale = 2
         /\ writer'.x_pos = writer.x_pos /\ writer'.y_pos = writer.y_pos
<1> DEFINE v == set_text_color(writer, WHITE)
           u == set_scale(v, 2)
           color == convert_color(u, BLUE)
<1>1. writer' = [u EXCEPT !.bg_color = color] /\ color # WHITE
  BY Palette DEF reset_style, set_background_color
<1>2. v = [writer EXCEPT !.text_color = WHITE]
  BY Palette DEF set_text_color
<1> HIDE DEF v, color
<1>3. /\ v \in FrameBufferWriter(writer.info) /\ v.fb = writer.fb /\ v.text_color = WHITE
      /\ v.x_pos = writer.x_pos /\ v.y_pos = writer.y_pos /\ v.info = writer.info
  BY <1>2 DEF Sound, FrameBufferWriter, Colors
<1>4. /\ u \in FrameBufferWriter(writer.info) /\ u.fb = v.fb /\ u.text_color = v.text_color
      /\ u.x_pos = v.x_pos /\ u.y_pos = v.y_pos /\ u.scale = 2 /\ u.info = v.info
  BY <1>3 DEF set_scale, FrameBufferWriter
<1> HIDE DEF u
<1>5. /\ writer'.fb = u.fb /\ writer'.info = u.info /\ writer'.text_color = u.text_color
      /\ writer'.bg_color = color /\ writer'.scale = u.scale
      /\ writer'.x_pos = u.x_pos /\ writer'.y_pos = u.y_pos
  BY <1>1, <1>4 DEF FrameBufferWriter
<1> QED BY <1>1, <1>3, <1>4, <1>5, SMT, SMTT(60)

\* Power-on: a black screen.
LEMMA InitInked == Init => Inked
<1> SUFFICES ASSUME Init PROVE Inked
  OBVIOUS
<1>1. PICK i \in Infos :
        writer = [info |-> i, x_pos |-> 0, y_pos |-> 0, scale |-> 0,
                  text_color |-> BLACK, bg_color |-> BLACK,
                  fb |-> [a \in 0 .. i.height * i.stride - 1 |-> BLACK], stray |-> FALSE]
  BY Zenon DEF Init
<1>2. Sound(writer)
  BY InitIInv DEF IInv, TypeOK, StoresInside, Sound
<1>3. ASSUME NEW x \in Columns(writer), NEW y \in Rows(writer) PROVE Pixel(writer, x, y) = BLACK
  <2> DEFINE a == At(writer, x, y)
  <2>1. a \in DOMAIN writer.fb
    BY <1>2, PixelStored, Zenon
  <2> HIDE DEF a
  <2>2. writer.fb[a] = BLACK
    BY <1>1, <2>1, SMT, SMTT(60)
  <2> QED BY <2>2 DEF a, Pixel
<1>4. writer.bg_color = BLACK /\ pc = "start"
  BY <1>1, SMT, SMTT(60) DEF Init
<1> QED BY <1>3, <1>4, Palette, SMT, SMTT(60) DEF Inked, Without

\* Writing a character keeps it.
LEMMA WriteInked ==
  ASSUME IInv, Inked, pc \in {"welcome", "ready"}, NEW b, writer' = write_byte(writer, b), pc' = pc
  PROVE  Inked'
<1>1. writer.info \in Infos /\ writer.scale \in {2, 3} /\ writer.info.width \in Nat
  BY ScreenSizes, SMT, SMTT(60) DEF IInv, TypeOK, FrameBufferWriter
<1>2. scaled(writer) <= writer.info.width
  BY <1>1, ScreenSizes, SMT, SMTT(60) DEF scaled
<1>3. Sound(writer) /\ Placed(writer)
  BY DEF IInv, TypeOK, StoresInside, LineOnScreen, Sound, Placed
<1>4. SameStyle(writer', writer)
  BY <1>2, <1>3, WriteByteSound, SMT, SMTT(60)
<1>5. /\ Clean(writer) /\ writer.bg_color # writer.text_color => Clean(writer')
      /\ Without(writer, WHITE) /\ writer.bg_color # WHITE /\ writer.text_color # WHITE => Without(writer', WHITE)
  BY <1>2, <1>3, WriteClean, SMT, SMTT(60)
<1> QED BY <1>4, <1>5, SMT, SMTT(60) DEF Inked, SameStyle

\* Every step keeps it.
LEMMA NextInked == IInv /\ Inked /\ [Next]_vars => Inked'
<1> SUFFICES ASSUME IInv, Inked, [Next]_vars PROVE Inked'
  OBVIOUS
<1>0. Sound(writer)
  BY SMT, SMTT(60) DEF IInv, TypeOK, StoresInside, Sound
<1>1. CASE init
  <2>1. /\ writer'.fb = writer.fb /\ writer'.info = writer.info /\ writer'.bg_color = BLUE
        /\ pc = "start" /\ pc' = "init"
    BY <1>1, Zenon DEF init
  <2>2. Without(writer', WHITE)
    BY <2>1, SamePicture, SMT, SMTT(60) DEF Inked
  <2> QED BY <2>1, <2>2, Palette DEF Inked
<1>2. CASE clear_screen
  <2>1. writer' = clear(writer, BLUE) /\ pc = "init" /\ pc' = "cleared" /\ BLUE \in Colors
    BY <1>2 DEF clear_screen, Colors
  <2>2. SameStyle(writer', writer)
    BY <1>0, <2>1, ClearSound
  <2>3. ASSUME NEW x \in Columns(writer), NEW y \in Rows(writer)
        PROVE  Pixel(writer', x, y) = convert_color(writer, BLUE)
    BY <1>0, <2>1, ClearPixel, SMT, SMTT(60)
  <2>4. Columns(writer') = Columns(writer) /\ Rows(writer') = Rows(writer)
    BY <2>2 DEF SameStyle, Columns, Rows
  <2>5. Without(writer', WHITE)
    BY <2>3, <2>4, Palette DEF Without
  <2> QED BY <2>1, <2>2, <2>5 DEF Inked, SameStyle
<1>3. CASE welcome_style
  <2> DEFINE v == set_scale(writer, 3)
             color == convert_color(v, RED)
  <2>1. writer' = [v EXCEPT !.text_color = color] /\ pc = "cleared" /\ pc' = "welcome"
    BY <1>3 DEF welcome_style, set_text_color
  <2>2. color # WHITE
    BY Palette
  <2>3. v.fb = writer.fb /\ v.info = writer.info /\ v.bg_color = writer.bg_color
        /\ v \in FrameBufferWriter(writer.info)
    BY <1>0 DEF set_scale, Sound, FrameBufferWriter
  <2> HIDE DEF v, color
  <2>4. writer'.fb = writer.fb /\ writer'.info = writer.info /\ writer'.bg_color = writer.bg_color
        /\ writer'.text_color = color
    BY <2>1, <2>3 DEF FrameBufferWriter
  <2>5. Without(writer', WHITE)
    BY <2>1, <2>4, SamePicture, Zenon DEF Inked
  <2> QED BY <2>1, <2>2, <2>4, <2>5 DEF Inked
<1>4. CASE reset_style
  <2>1. /\ writer'.fb = writer.fb /\ writer'.info = writer.info
        /\ writer'.text_color = WHITE /\ writer'.bg_color # WHITE
        /\ pc = "welcome" /\ pc' = "ready"
    BY <1>0, <1>4, ResetStyle, Zenon DEF reset_style
  <2>2. Without(writer', WHITE)
    BY <2>1, SamePicture, SMT, SMTT(60) DEF Inked
  <2>3. Clean(writer')
    BY <2>1, <2>2, SMT, SMTT(60) DEF Clean, Without
  <2> QED BY <2>1, <2>3, Zenon DEF Inked
<1>5. CASE write_str
  BY <1>5, WriteInked DEF write_str, IInv
<1>6. ASSUME NEW s \in Texts, _print(s) PROVE Inked'
  BY <1>6 DEF _print, Inked
<1>7. ASSUME NEW c \in Chars, print_char(c) PROVE Inked'
  BY <1>7, WriteInked DEF print_char
<1>8. CASE UNCHANGED vars
  BY <1>8 DEF vars, Inked
<1> QED BY <1>1, <1>2, <1>3, <1>4, <1>5, <1>6, <1>7, <1>8, SMT, SMTT(60) DEF Next

\* It holds in every reachable state.
THEOREM ScreenInked == Spec => [](IInv /\ Inked)
<1>1. Init => IInv /\ Inked
  BY InitIInv, InitInked
<1>2. (IInv /\ Inked) /\ [Next]_vars => (IInv /\ Inked)'
  BY NextIInv, NextInked
<1> QED BY <1>1, <1>2, PTL DEF Spec

\* On every screen of the assumption, whatever is printed, the place where the next
\* characters go shows nothing of an older text.
THEOREM ScreenNoStaleText == Spec => []NoStaleText
<1>1. Inked => NoStaleText
  BY DEF Inked, Clean, NoStaleText, Pixel
<1> QED BY <1>1, ScreenInked, PTL
=============================================================================
