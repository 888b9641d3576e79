-------------------------- MODULE ScreenPageProofs --------------------------
(***************************************************************************)
(* For every screen of ScreenAssumption, the picture of the console, read  *)
(* as characters, is the page of a text console: from what each operation  *)
(* leaves at a pixel (ScreenProofs) to what a cell of the page shows, then *)
(* to the page and its line feeds.                                         *)
(***************************************************************************)
EXTENDS ScreenProofs

-----------------------------------------------------------------------------
(* The picture read as a page of characters. *)

\* How many lines of a height fit.
LEMMA Fits ==
  ASSUME NEW n \in Nat, NEW s \in Nat, NEW h \in Nat, s > 0
  PROVE  n * s <= h <=> n <= h \div s
<1> DEFINE q == h \div s
           r == h % s
<1>1. q \in Nat /\ r \in Nat /\ r < s /\ h = s * q + r
  OBVIOUS
<1> HIDE DEF q, r
<1>2. s * q = q * s /\ q * s \in Nat /\ n * s \in Nat
  BY <1>1
<1>3. q * s + r < n * s <=> q < n
  BY <1>1, RowMajor
<1> QED BY <1>1, <1>2, <1>3 DEF q

\* A line that fits lies in the height.
LEMMA LineInside ==
  ASSUME NEW r \in Nat, NEW s \in Nat, NEW h \in Nat, s > 0, r < h \div s, NEW j \in 0 .. s - 1
  PROVE  r * s \in Nat /\ r * s + j < h /\ (r + 1) * s = r * s + s
<1>1. h \div s \in Nat
  OBVIOUS
<1>2. (r + 1) * s <= h
  BY <1>1, Fits
<1>3. (r + 1) * s = r * s + s /\ r * s \in Nat
  OBVIOUS
<1> QED BY <1>2, <1>3

\* The pixels of a point of a glyph, in a cell n pixels a point.
LEMMA PointInside ==
  ASSUME NEW n \in Nat, n > 0, NEW p \in 0 .. FONT - 1, NEW i \in 0 .. n - 1
  PROVE  p * n + i \in 0 .. FONT * n - 1 /\ (p * n + i) \div n = p
<1>1. FONT \in Nat
  BY ScreenSizes
<1>2. p \in Nat /\ i \in Nat /\ p < FONT /\ i < n
  BY <1>1
<1>3. p * n + i \in 0 .. FONT * n - 1
  BY <1>1, <1>2, CellInside
<1>4. (p * n + i) \div n = p
  BY <1>2, Quotient
<1> QED BY <1>3, <1>4

\* The points of the cell at x, y all of whose pixels have the colour of the text.
Points == (0 .. FONT - 1) \X (0 .. FONT - 1)
Tile(w, x, y) ==
  {p \in Points :
     \A sx, sy \in 0 .. w.scale - 1 :
       w.fb[At(w, x + p[1] * w.scale + sx, y + p[2] * w.scale + sy)] = w.text_color}

LEMMA TilePoint ==
  ASSUME NEW w, NEW x \in Nat, NEW y \in Nat, w.scale \in Nat, NEW p \in Points
  PROVE  p \in Tile(w, x, y) <=>
           \A sx, sy \in 0 .. w.scale - 1 :
             Pixel(w, x + (p[1] * w.scale + sx), y + (p[2] * w.scale + sy)) = w.text_color
<1> DEFINE n == w.scale
<1>1. p[1] \in Nat /\ p[2] \in Nat
  <2>1. p[1] \in 0 .. FONT - 1 /\ p[2] \in 0 .. FONT - 1
    BY DEF Points
  <2> QED BY <2>1
<1>2. p[1] * n \in Nat /\ p[2] * n \in Nat
  BY <1>1
<1>3. ASSUME NEW a \in Nat, NEW b \in Nat, NEW c \in Nat PROVE a + b + c = a + (b + c)
  OBVIOUS
<1>4. ASSUME NEW sx \in 0 .. n - 1, NEW sy \in 0 .. n - 1
      PROVE  /\ x + p[1] * n + sx = x + (p[1] * n + sx) /\ y + p[2] * n + sy = y + (p[2] * n + sy)
  BY <1>2, <1>3
<1> QED BY <1>4 DEF Tile, Pixel

\* What the pixels of a cell may have in common: with another cell, that none is of the
\* text, and that those of a shape are.
SamePixels(v, x, y, w, x2, y2) ==
  \A i, j \in 0 .. scaled(w) - 1 : Pixel(v, x + i, y + j) = Pixel(w, x2 + i, y2 + j)
NoText(w, x, y) == \A i, j \in 0 .. scaled(w) - 1 : Pixel(w, x + i, y + j) # w.text_color
Inscribed(w, x, y, shape) ==
  \A i, j \in 0 .. scaled(w) - 1 :
    Pixel(w, x + i, y + j) = IF <<i \div w.scale, j \div w.scale>> \in shape THEN w.text_color ELSE w.bg_color

\* Cells with the same pixels show the same.
LEMMA SameTile ==
  ASSUME NEW v, NEW w, SameStyle(v, w), w.scale \in Nat, w.scale > 0,
         NEW x \in Nat, NEW y \in Nat, NEW x2 \in Nat, NEW y2 \in Nat,
         SamePixels(v, x, y, w, x2, y2)
  PROVE  Tile(v, x, y) = Tile(w, x2, y2)
<1>1. v.scale = w.scale /\ v.text_color = w.text_color
  BY DEF SameStyle
<1>2. ASSUME NEW p \in Points PROVE p \in Tile(v, x, y) <=> p \in Tile(w, x2, y2)
  <2>1. p[1] \in 0 .. FONT - 1 /\ p[2] \in 0 .. FONT - 1
    BY DEF Points
  <2>2. ASSUME NEW sx \in 0 .. w.scale - 1, NEW sy \in 0 .. w.scale - 1
        PROVE  Pixel(v, x + (p[1] * w.scale + sx), y + (p[2] * w.scale + sy))
                 = Pixel(w, x2 + (p[1] * w.scale + sx), y2 + (p[2] * w.scale + sy))
    <3>1. p[1] * w.scale + sx \in 0 .. scaled(w) - 1 /\ p[2] * w.scale + sy \in 0 .. scaled(w) - 1
      BY <2>1, PointInside DEF scaled
    <3> QED BY <3>1 DEF SamePixels
  <2>3. /\ p \in Tile(v, x, y) <=>
             \A sx, sy \in 0 .. w.scale - 1 :
               Pixel(v, x + (p[1] * w.scale + sx), y + (p[2] * w.scale + sy)) = w.text_color
        /\ p \in Tile(w, x2, y2) <=>
             \A sx, sy \in 0 .. w.scale - 1 :
               Pixel(w, x2 + (p[1] * w.scale + sx), y2 + (p[2] * w.scale + sy)) = w.text_color
    BY <1>1, TilePoint, SMT, SMTT(60)
  <2> QED BY <2>2, <2>3
<1>3. Tile(v, x, y) \subseteq Points /\ Tile(w, x2, y2) \subseteq Points
  BY DEF Tile
<1> QED BY <1>2, <1>3

\* A cell without a pixel of the text shows nothing.
LEMMA BlankTile ==
  ASSUME NEW w, w.scale \in Nat, w.scale > 0, NEW x \in Nat, NEW y \in Nat,
         NoText(w, x, y)
  PROVE  Tile(w, x, y) = {}
<1>1. ASSUME NEW p \in Points PROVE p \notin Tile(w, x, y)
  <2>1. p[1] \in 0 .. FONT - 1 /\ p[2] \in 0 .. FONT - 1
    BY DEF Points
  <2>2. 0 \in 0 .. w.scale - 1
    OBVIOUS
  <2>3. p[1] * w.scale + 0 \in 0 .. scaled(w) - 1 /\ p[2] * w.scale + 0 \in 0 .. scaled(w) - 1
    BY <2>1, <2>2, PointInside, Zenon DEF scaled
  <2>4. Pixel(w, x + (p[1] * w.scale + 0), y + (p[2] * w.scale + 0)) # w.text_color
    BY <2>3 DEF NoText
  <2> QED BY <2>2, <2>4, TilePoint
<1>2. Tile(w, x, y) \subseteq Points
  BY DEF Tile
<1> QED BY <1>1, <1>2

\* A cell with a glyph drawn in it shows the glyph.
LEMMA DrawnTile ==
  ASSUME NEW w, w.scale \in Nat, w.scale > 0, NEW x \in Nat, NEW y \in Nat, NEW shape, shape \subseteq Points,
         w.bg_color # w.text_color, Inscribed(w, x, y, shape)
  PROVE  Tile(w, x, y) = shape
<1>1. ASSUME NEW p \in Points PROVE p \in Tile(w, x, y) <=> p \in shape
  <2>1. p[1] \in 0 .. FONT - 1 /\ p[2] \in 0 .. FONT - 1 /\ p = <<p[1], p[2]>>
    BY DEF Points
  <2>2. ASSUME NEW sx \in 0 .. w.scale - 1, NEW sy \in 0 .. w.scale - 1
        PROVE  Pixel(w, x + (p[1] * w.scale + sx), y + (p[2] * w.scale + sy)) = w.text_color <=> p \in shape
    <3> DEFINE i == p[1] * w.scale + sx
               j == p[2] * w.scale + sy
    <3>1. i \in 0 .. scaled(w) - 1 /\ j \in 0 .. scaled(w) - 1 /\ i \div w.scale = p[1] /\ j \div w.scale = p[2]
      BY <2>1, PointInside DEF scaled
    <3> HIDE DEF i, j
    <3>2. Pixel(w, x + i, y + j) = IF <<i \div w.scale, j \div w.scale>> \in shape THEN w.text_color ELSE w.bg_color
      BY <3>1 DEF Inscribed
    <3>3. <<i \div w.scale, j \div w.scale>> = p
      BY <2>1, <3>1
    <3>4. Pixel(w, x + i, y + j) = w.text_color <=> p \in shape
      BY <3>2, <3>3
    <3> QED BY <3>4 DEF i, j
  <2>3. 0 \in 0 .. w.scale - 1
    OBVIOUS
  <2> QED BY <2>2, <2>3, TilePoint
<1>2. Tile(w, x, y) \subseteq Points
  BY SMT, SMTT(60) DEF Tile
<1> QED BY <1>1, <1>2

\* The page of a writer whose first line is at t, and the cell of line r and column c, both
\* from 0.
Lines(w, t) == (w.info.height - t) \div scaled(w)
Cols(w) == w.info.width \div scaled(w)
Shown(w, t, r, c) == Tile(w, c * scaled(w), t + r * scaled(w))

\* A writer between two characters, with its cursor on line k and column m of the page.
Settled(w, t, k, m) ==
  /\ Sound(w) /\ Placed(w) /\ Clean(w) /\ w.text_color # w.bg_color /\ w.scale > 0
  /\ t \in Nat /\ k \in Nat /\ m \in Nat
  /\ w.y_pos = t + k * scaled(w) /\ w.x_pos = m * scaled(w)

\* The cursor is on the page; the lines and columns of the page, in pixels, are on the screen.
LEMMA PageBounds ==
  ASSUME NEW w, NEW t, NEW k, NEW m, Settled(w, t, k, m)
  PROVE  /\ scaled(w) \in Nat /\ scaled(w) > 0 /\ w.info.height - t \in Nat
         /\ Lines(w, t) \in Nat /\ Cols(w) \in Nat
         /\ k < Lines(w, t) /\ m <= Cols(w)
         /\ Full(w) <=> k + 1 = Lines(w, t)
         /\ w.x_pos + scaled(w) > w.info.width <=> m = Cols(w)
         /\ k = (w.y_pos - t) \div scaled(w) /\ m = w.x_pos \div scaled(w)
<1> DEFINE s == scaled(w)
           h == w.info.height - t
           d == w.info.width
<1>1. /\ d \in Nat /\ w.info.height \in Nat /\ s \in Nat /\ w.scale \in Nat /\ w.scale > 0
      /\ t \in Nat /\ k \in Nat /\ m \in Nat
      /\ w.y_pos = t + k * s /\ w.x_pos = m * s /\ w.y_pos + s <= w.info.height /\ w.x_pos <= d
  BY Geometry DEF Settled, Placed
<1>2. s > 0
  <2>1. FONT \in Nat /\ FONT > 0
    <3>1. FONT \in Nat \ {0}
      BY ScreenAssumption, Zenon
    <3> QED BY <3>1
  <2>2. ASSUME NEW a \in Nat, a > 0, NEW b \in Nat, b > 0 PROVE a * b > 0
    BY <2>2
  <2> QED BY <1>1, <2>1, <2>2 DEF scaled
<1> HIDE DEF s, d
<1>3. /\ k * s \in Nat /\ m * s \in Nat
      /\ (k + 1) * s = k * s + s /\ (k + 2) * s = k * s + s + s /\ (m + 1) * s = m * s + s
  BY <1>1
<1>4. h \in Nat /\ (k + 1) * s <= h
  BY ONLY <1>1, <1>3, SMT, SMTT(60)
<1>5. (k + 2) * s <= h <=> ~Full(w)
  BY <1>1, <1>3 DEF Full, s
<1> HIDE DEF h
<1>6. h \div s \in Nat /\ d \div s \in Nat
  BY <1>1, <1>2, <1>4, SMT, SMTT(60)
<1>7. k + 1 <= h \div s /\ (~Full(w) <=> k + 2 <= h \div s)
  BY <1>1, <1>2, <1>4, <1>5, Fits, SMT, SMTT(60)
<1>8. m <= d \div s /\ ((m + 1) * s <= d <=> m + 1 <= d \div s)
  BY <1>1, <1>2, Fits, SMT, SMTT(60)
<1>9. w.x_pos + s > d <=> ~((m + 1) * s <= d)
  BY ONLY <1>1, <1>3, SMT, SMTT(60)
<1>10. (k * s + 0) \div s = k /\ (m * s + 0) \div s = m
  BY <1>1, <1>2, Quotient, SMT, SMTT(60)
<1>11. w.y_pos - t = k * s + 0 /\ w.x_pos = m * s + 0
  BY ONLY <1>1, <1>3, SMT, SMTT(60)
<1>12. Full(w) <=> k + 1 = h \div s
  BY ONLY <1>1, <1>6, <1>7, SMT, SMTT(60)
<1>13. w.x_pos + s > d <=> m = d \div s
  BY ONLY <1>1, <1>6, <1>8, <1>9, SMT, SMTT(60)
<1>14. Lines(w, t) = h \div s /\ Cols(w) = d \div s
  BY DEF Lines, Cols, h, d, s
<1>15. k = (w.y_pos - t) \div s /\ m = w.x_pos \div s
  BY <1>10, <1>11, SMT, SMTT(60)
<1> QED BY <1>1, <1>2, <1>4, <1>6, <1>7, <1>8, <1>12, <1>13, <1>14, <1>15, SMT, SMTT(60) DEF s, h, d

\* The pixels of a cell of the page.
LEMMA CellPixels ==
  ASSUME NEW w, NEW t, NEW k, NEW m, Settled(w, t, k, m),
         NEW r \in Nat, r < Lines(w, t), NEW c \in Nat, c < Cols(w)
  PROVE  /\ c * scaled(w) \in Nat /\ t + r * scaled(w) \in Nat
         /\ \A i, j \in 0 .. scaled(w) - 1 :
              c * scaled(w) + i \in Columns(w) /\ t + r * scaled(w) + j \in Rows(w)
<1> DEFINE s == scaled(w)
           h == w.info.height - t
           d == w.info.width
<1>1. /\ s \in Nat /\ s > 0 /\ h \in Nat /\ d \in Nat /\ t \in Nat /\ w.info.height \in Nat
  BY PageBounds, Geometry, Zenon DEF Settled
<1>2. r < h \div s /\ c < d \div s
  BY DEF Lines, Cols
<1>3. w.info.height = h + t
  BY <1>1
<1> HIDE DEF s, h, d
<1>4. r * s \in Nat /\ c * s \in Nat
  BY <1>1
<1>5. ASSUME NEW i \in 0 .. s - 1, NEW j \in 0 .. s - 1 PROVE c * s + i < d /\ r * s + j < h
  BY <1>1, <1>2, LineInside
<1>6. ASSUME NEW i \in 0 .. s - 1, NEW j \in 0 .. s - 1
      PROVE  c * s + i \in 0 .. d - 1 /\ t + r * s + j \in 0 .. w.info.height - 1
  BY <1>1, <1>3, <1>4, <1>5, SMT, SMTT(60)
<1>7. t + r * s \in Nat
  BY <1>1, <1>4, SMT, SMTT(60)
<1> QED BY <1>4, <1>6, <1>7 DEF s, d, Columns, Rows

\* A line feed of the screen is one of the page: the lines stay, or go up by one.
LEMMA FeedPage ==
  ASSUME NEW w, NEW t, NEW k, NEW m, Settled(w, t, k, m)
  PROVE  /\ Settled(new_line(w), t, IF Full(w) THEN k ELSE k + 1, 0)
         /\ SameStyle(new_line(w), w)
         /\ \A r \in 0 .. Lines(w, t) - 1, c \in 0 .. Cols(w) - 1 :
              /\ ~Full(w) => Shown(new_line(w), t, r, c) = Shown(w, t, r, c)
              /\ Full(w) /\ r + 1 < Lines(w, t) => Shown(new_line(w), t, r, c) = Shown(w, t, r + 1, c)
              /\ Full(w) /\ r + 1 = Lines(w, t) => Shown(new_line(w), t, r, c) = {}
<1> DEFINE n == new_line(w)
           s == scaled(w)
<1>1. /\ Sound(w) /\ Placed(w) /\ Clean(w) /\ w.text_color # w.bg_color /\ w.scale > 0
      /\ t \in Nat /\ k \in Nat /\ m \in Nat /\ w.y_pos = t + k * s /\ w.x_pos = m * s
  BY DEF Settled
<1>2. /\ s \in Nat /\ s > 0 /\ w.info.height - t \in Nat /\ Lines(w, t) \in Nat /\ Cols(w) \in Nat
      /\ k < Lines(w, t) /\ (Full(w) <=> k + 1 = Lines(w, t)) /\ w.scale \in Nat
  BY <1>1, PageBounds, Geometry, Zenon
<1>3. Sound(n) /\ SameStyle(n, w) /\ Placed(n) /\ n.x_pos = 0 /\ Clean(n)
  BY <1>1, NewLineSound, FeedClean, Zenon
<1>4. /\ ~Full(w) => n.y_pos = w.y_pos + s /\ \A x, y : Pixel(n, x, y) = Pixel(w, x, y)
      /\ Full(w) => /\ n.y_pos = w.y_pos
                    /\ \A x \in Columns(w), y \in Rows(w) :
                         Pixel(n, x, y) = IF y + s < w.info.height THEN Pixel(w, x, y + s) ELSE w.bg_color
  BY <1>1, FeedPixel
<1> HIDE DEF n
<1>5. scaled(n) = s /\ n.scale = w.scale /\ n.text_color = w.text_color /\ n.bg_color = w.bg_color
  BY <1>3, SMT, SMTT(60) DEF SameStyle, scaled
<1>6. Settled(n, t, IF Full(w) THEN k ELSE k + 1, 0)
  <2> HIDE DEF s
  <2>1. (k + 1) * s = k * s + s /\ k * s \in Nat /\ 0 * s = 0
    BY <1>1, <1>2, SMT, SMTT(60)
  <2>2. ~Full(w) => n.y_pos = t + (k + 1) * s
    BY <1>1, <1>2, <1>4, <2>1, SMT, SMTT(60)
  <2>3. Full(w) => n.y_pos = t + k * s
    BY <1>1, <1>4, Zenon
  <2> QED BY <1>1, <1>3, <1>5, <2>1, <2>2, <2>3, SMT, SMTT(60) DEF Settled
<1>7. ASSUME NEW r \in 0 .. Lines(w, t) - 1, NEW c \in 0 .. Cols(w) - 1
      PROVE  /\ ~Full(w) => Shown(n, t, r, c) = Shown(w, t, r, c)
             /\ Full(w) /\ r + 1 < Lines(w, t) => Shown(n, t, r, c) = Shown(w, t, r + 1, c)
             /\ Full(w) /\ r + 1 = Lines(w, t) => Shown(n, t, r, c) = {}
  <2> DEFINE x == c * s
             y == t + r * s
             z == t + (r + 1) * s
  <2>1. r \in Nat /\ c \in Nat /\ r < Lines(w, t) /\ c < Cols(w)
    BY <1>2
  <2>2. x \in Nat /\ y \in Nat /\ \A i, j \in 0 .. s - 1 : x + i \in Columns(w) /\ y + j \in Rows(w)
    BY <2>1, CellPixels, SMT, SMTT(60)
  <2>3. r + 1 < Lines(w, t) => z \in Nat /\ \A j \in 0 .. s - 1 : z + j \in Rows(w)
    <3>1. r + 1 \in Nat
      BY <2>1, SMT, SMTT(60)
    <3> QED BY <1>2, <2>1, <3>1, CellPixels
  <2>4. /\ Shown(n, t, r, c) = Tile(n, x, y) /\ Shown(w, t, r, c) = Tile(w, x, y)
        /\ Shown(w, t, r + 1, c) = Tile(w, x, z)
    BY <1>5, SMT, SMTT(60) DEF Shown
  <2>5. z = y + s
    <3> HIDE DEF s
    <3>1. (r + 1) * s = r * s + s /\ r * s \in Nat
      BY <1>2, <2>1, SMT, SMTT(60)
    <3> QED BY <1>1, <1>2, <3>1, SMT, SMTT(60)
  <2>6. \A j \in 0 .. s - 1 : y + s + j = z + j /\ y + j + s = z + j
    <3> HIDE DEF s, y, z
    <3> QED BY <1>2, <2>2, <2>5, SMT, SMTT(60)
  <2> HIDE DEF x, y, z
  <2>7. CASE ~Full(w)
    <3>1. SamePixels(n, x, y, w, x, y)
      BY <1>4, <2>7, Zenon DEF SamePixels
    <3>2. Tile(n, x, y) = Tile(w, x, y)
      BY <1>1, <1>2, <1>3, <2>2, <3>1, SameTile, SMT, SMTT(60)
    <3> QED BY <2>4, <2>7, <3>2, SMT, SMTT(60)
  <2>8. CASE Full(w) /\ r + 1 < Lines(w, t)
    <3>1. ASSUME NEW i \in 0 .. s - 1, NEW j \in 0 .. s - 1
          PROVE  Pixel(n, x + i, y + j) = Pixel(w, x + i, z + j)
      <4>1. z + j < w.info.height
        BY <1>1, <2>3, <2>8, Geometry, Zenon
      <4> QED BY <1>4, <2>2, <2>6, <2>8, <4>1, SMT, SMTT(60)
    <3>2. SamePixels(n, x, y, w, x, z)
      BY <3>1, SMT, SMTT(60) DEF SamePixels
    <3>3. Tile(n, x, y) = Tile(w, x, z)
      BY <1>1, <1>2, <1>3, <2>2, <2>3, <2>8, <3>2, SameTile, SMT, SMTT(60)
    <3> QED BY <1>2, <2>1, <2>4, <2>8, <3>3
  <2>9. CASE Full(w) /\ r + 1 = Lines(w, t)
    <3>1. r = k
      BY <1>1, <1>2, <2>1, <2>9
    <3>2. y = n.y_pos
      BY <1>1, <1>4, <2>9, <3>1 DEF y
    <3>3. ASSUME NEW i \in 0 .. s - 1, NEW j \in 0 .. s - 1
          PROVE  Pixel(n, x + i, y + j) # n.text_color
      <4>1. Columns(n) = Columns(w) /\ Rows(n) = Rows(w)
        BY <1>3 DEF SameStyle, Columns, Rows
      <4>2. x + i \in Columns(n) /\ y + j \in Rows(n)
        BY <2>2, <4>1, Zenon
      <4>3. y + j >= n.y_pos /\ x + i >= n.x_pos
        BY <1>2, <1>3, <2>2, <3>2, SMT, SMTT(60)
      <4> QED BY <1>3, <4>2, <4>3, SMT, SMTT(60) DEF Clean
    <3>4. NoText(n, x, y)
      BY <1>5, <3>3, SMT, SMTT(60) DEF NoText
    <3>5. Tile(n, x, y) = {}
      BY <1>1, <1>2, <1>5, <2>2, <3>4, BlankTile, SMT, SMTT(60)
    <3> QED BY <1>2, <2>1, <2>4, <2>9, <3>5
  <2> QED BY <1>2, <2>1, <2>7, <2>8, <2>9, Zenon
<1> QED BY <1>3, <1>6, <1>7, SMT, SMTT(60) DEF n

\* Lines do not overlap.
LEMMA OnLine ==
  ASSUME NEW s \in Nat, NEW r \in Nat, NEW k \in Nat, NEW j \in 0 .. s - 1
  PROVE  /\ r * s + j >= k * s <=> r >= k
         /\ r * s + j < k * s + s <=> r <= k
         /\ r * s \in Nat /\ k * s \in Nat
<1>1. j \in Nat /\ j < s
  OBVIOUS
<1>2. (r * s + j < k * s <=> r < k) /\ (r * s + j < (k + 1) * s <=> r < k + 1)
  BY <1>1, RowMajor
<1>3. (k + 1) * s = k * s + s /\ r * s \in Nat /\ k * s \in Nat
  OBVIOUS
<1> QED BY ONLY <1>1, <1>2, <1>3, r \in Nat, k \in Nat, s \in Nat

\* Blanking the line from the cursor on does not change the page.
LEMMA FillPage ==
  ASSUME NEW w, NEW t, NEW k, NEW m, Settled(w, t, k, m)
  PROVE  \E v : /\ fill_remainder(w) = new_line(v) /\ Settled(v, t, k, m) /\ SameStyle(v, w)
                /\ \A r \in 0 .. Lines(w, t) - 1, c \in 0 .. Cols(w) - 1 :
                     Shown(v, t, r, c) = Shown(w, t, r, c)
<1> DEFINE s == scaled(w)
<1>1. /\ Sound(w) /\ Placed(w) /\ Clean(w) /\ w.text_color # w.bg_color /\ w.scale > 0
      /\ t \in Nat /\ k \in Nat /\ m \in Nat /\ w.y_pos = t + k * s /\ w.x_pos = m * s
  BY DEF Settled
<1>2. s \in Nat /\ s > 0 /\ Lines(w, t) \in Nat /\ Cols(w) \in Nat /\ w.scale \in Nat
  BY <1>1, PageBounds, Geometry, Zenon
<1>3. PICK v : /\ fill_remainder(w) = new_line(v)
               /\ Sound(v) /\ Placed(v) /\ SameStyle(v, w) /\ v.x_pos = w.x_pos /\ v.y_pos = w.y_pos
               /\ \A x \in Columns(w), y \in Rows(w) :
                    Pixel(v, x, y) = IF x >= w.x_pos /\ y >= w.y_pos /\ y < w.y_pos + scaled(w)
                                     THEN w.bg_color ELSE Pixel(w, x, y)
  BY <1>1, FillPixel, SMT, SMTT(60)
<1>4. /\ scaled(v) = s /\ v.scale = w.scale /\ v.text_color = w.text_color /\ v.bg_color = w.bg_color
      /\ Columns(v) = Columns(w) /\ Rows(v) = Rows(w)
  BY <1>3, SMT, SMTT(60) DEF SameStyle, scaled, Columns, Rows
<1>5. Clean(v)
  BY <1>1, <1>3, <1>4, SMT, SMTT(60) DEF Clean
<1>6. Settled(v, t, k, m)
  BY <1>1, <1>3, <1>4, <1>5, SMT, SMTT(60) DEF Settled
<1>7. ASSUME NEW r \in 0 .. Lines(w, t) - 1, NEW c \in 0 .. Cols(w) - 1
      PROVE  Shown(v, t, r, c) = Shown(w, t, r, c)
  <2> DEFINE x == c * s
             y == t + r * s
  <2>1. r \in Nat /\ c \in Nat /\ r < Lines(w, t) /\ c < Cols(w)
    BY <1>2, SMT, SMTT(60)
  <2>2. x \in Nat /\ y \in Nat /\ \A i, j \in 0 .. s - 1 : x + i \in Columns(w) /\ y + j \in Rows(w)
    BY <2>1, CellPixels
  <2>3. Shown(v, t, r, c) = Tile(v, x, y) /\ Shown(w, t, r, c) = Tile(w, x, y)
    BY <1>4, SMT, SMTT(60) DEF Shown
  <2>4. ASSUME NEW i \in 0 .. s - 1, NEW j \in 0 .. s - 1
        PROVE  /\ x + i >= w.x_pos <=> c >= m
               /\ y + j >= w.y_pos <=> r >= k
               /\ y + j < w.y_pos + s <=> r <= k
    <3> HIDE DEF s
    <3>1. /\ c * s + i >= m * s <=> c >= m
          /\ c * s \in Nat /\ m * s \in Nat
      BY <1>1, <1>2, <2>1, OnLine, SMT, SMTT(60)
    <3>2. /\ r * s + j >= k * s <=> r >= k
          /\ r * s + j < k * s + s <=> r <= k
          /\ r * s \in Nat /\ k * s \in Nat
      BY <1>1, <1>2, <2>1, OnLine, SMT, SMTT(60)
    <3> QED BY <1>1, <1>2, <3>1, <3>2, SMT, SMTT(60)
  <2> HIDE DEF x, y
  <2>5. CASE r = k /\ c >= m
    <3>1. ASSUME NEW i \in 0 .. s - 1, NEW j \in 0 .. s - 1
          PROVE  Pixel(v, x + i, y + j) # w.text_color /\ Pixel(w, x + i, y + j) # w.text_color
      <4>1. x + i >= w.x_pos /\ y + j >= w.y_pos /\ y + j < w.y_pos + s
        BY <2>1, <2>4, <2>5, SMT, SMTT(60)
      <4>2. x + i \in Columns(w) /\ y + j \in Rows(w)
        BY <2>2
      <4> QED BY <1>1, <1>3, <4>1, <4>2, SMT, SMTT(60) DEF Clean
    <3>2. NoText(v, x, y) /\ NoText(w, x, y)
      BY <1>4, <3>1, SMT, SMTT(60) DEF NoText
    <3>3. Tile(v, x, y) = {} /\ Tile(w, x, y) = {}
      BY <1>1, <1>2, <1>4, <2>2, <3>2, BlankTile, SMT, SMTT(60)
    <3> QED BY <2>3, <3>3, SMT, SMTT(60)
  <2>6. CASE ~(r = k /\ c >= m)
    <3>1. ASSUME NEW i \in 0 .. s - 1, NEW j \in 0 .. s - 1
          PROVE  Pixel(v, x + i, y + j) = Pixel(w, x + i, y + j)
      <4>1. ~(x + i >= w.x_pos /\ y + j >= w.y_pos /\ y + j < w.y_pos + s)
        BY <1>1, <2>1, <2>4, <2>6, SMT, SMTT(60)
      <4>2. x + i \in Columns(w) /\ y + j \in Rows(w)
        BY <2>2
      <4> QED BY <1>3, <4>1, <4>2, SMT, SMTT(60)
    <3>2. SamePixels(v, x, y, w, x, y)
      BY <3>1, Zenon DEF SamePixels
    <3>3. Tile(v, x, y) = Tile(w, x, y)
      BY <1>1, <1>2, <1>3, <2>2, <3>2, SameTile, SMT, SMTT(60)
    <3> QED BY <2>3, <3>3, SMT, SMTT(60)
  <2> QED BY <2>5, <2>6
<1> QED BY <1>3, <1>6, <1>7

\* What a character shows: one without a glyph leaves the empty cell it finds.
ShapeOf(b) == IF HasGlyph(b) THEN Glyph[b] ELSE {}

\* What is left of a writer after it has drawn a character at its cursor.
Draws(n, w, b) ==
  /\ Sound(n) /\ Placed(n) /\ SameStyle(n, w) /\ Clean(n)
  /\ n.x_pos = w.x_pos + scaled(w) /\ n.y_pos = w.y_pos
  /\ \A x \in Columns(w), y \in Rows(w) : Pixel(n, x, y) = Drawn(w, w.x_pos, w.y_pos, b, x, y)

\* A writer's page with the cell of line k and column m filled.
Fills(n, w, t, k, m, b) ==
  \A r \in 0 .. Lines(w, t) - 1, c \in 0 .. Cols(w) - 1 :
    Shown(n, t, r, c) = IF r = k /\ c = m THEN ShapeOf(b) ELSE Shown(w, t, r, c)

\* Drawing at the cursor fills its cell and leaves the others.
LEMMA DrawPage ==
  ASSUME NEW w, NEW t, NEW k, NEW m, Settled(w, t, k, m), m < Cols(w), NEW b \in 0 .. 255,
         NEW n, Draws(n, w, b)
  PROVE  Settled(n, t, k, m + 1) /\ Fills(n, w, t, k, m, b)
<1> SUFFICES ASSUME Sound(n), Placed(n), SameStyle(n, w), Clean(n),
                    n.x_pos = w.x_pos + scaled(w), n.y_pos = w.y_pos,
                    \A x \in Columns(w), y \in Rows(w) :
                      Pixel(n, x, y) = Drawn(w, w.x_pos, w.y_pos, b, x, y)
             PROVE  /\ Settled(n, t, k, m + 1)
                    /\ \A r \in 0 .. Lines(w, t) - 1, c \in 0 .. Cols(w) - 1 :
                         Shown(n, t, r, c) = IF r = k /\ c = m THEN ShapeOf(b) ELSE Shown(w, t, r, c)
  BY Zenon DEF Draws, Fills
<1> DEFINE s == scaled(w)
<1>1. /\ Sound(w) /\ Placed(w) /\ Clean(w) /\ w.text_color # w.bg_color /\ w.scale > 0
      /\ t \in Nat /\ k \in Nat /\ m \in Nat /\ w.y_pos = t + k * s /\ w.x_pos = m * s
  BY DEF Settled
<1>2. s \in Nat /\ s > 0 /\ Lines(w, t) \in Nat /\ Cols(w) \in Nat /\ w.scale \in Nat
      /\ w.x_pos \in Nat /\ w.y_pos \in Nat
  BY <1>1, PageBounds, Geometry, Zenon
<1>4. /\ scaled(n) = s /\ n.scale = w.scale /\ n.text_color = w.text_color /\ n.bg_color = w.bg_color
  BY Zenon DEF SameStyle, scaled
<1>6. Settled(n, t, k, m + 1)
  <2>1. n.x_pos = (m + 1) * s
    <3> HIDE DEF s
    <3> QED BY <1>1, <1>2, SMT, SMTT(60) DEF s
  <2> QED BY <1>1, <1>4, <2>1, SMT, SMTT(60) DEF Settled
<1>7. ASSUME NEW r \in 0 .. Lines(w, t) - 1, NEW c \in 0 .. Cols(w) - 1
      PROVE  Shown(n, t, r, c) = IF r = k /\ c = m THEN ShapeOf(b) ELSE Shown(w, t, r, c)
  <2> DEFINE x == c * s
             y == t + r * s
  <2>1. r \in Nat /\ c \in Nat /\ r < Lines(w, t) /\ c < Cols(w)
    BY <1>2, SMT, SMTT(60)
  <2>2. x \in Nat /\ y \in Nat /\ \A i, j \in 0 .. s - 1 : x + i \in Columns(w) /\ y + j \in Rows(w)
    BY <2>1, CellPixels
  <2>3. Shown(n, t, r, c) = Tile(n, x, y) /\ Shown(w, t, r, c) = Tile(w, x, y)
    BY <1>4, Zenon DEF Shown
  <2>4. ASSUME NEW i \in 0 .. s - 1, NEW j \in 0 .. s - 1
        PROVE  x + i \in w.x_pos .. w.x_pos + s - 1 /\ y + j \in w.y_pos .. w.y_pos + s - 1 <=> r = k /\ c = m
    <3> HIDE DEF s
    <3>1. /\ c * s + i >= m * s <=> c >= m
          /\ c * s + i < m * s + s <=> c <= m
          /\ c * s \in Nat /\ m * s \in Nat
      BY <1>1, <1>2, <2>1, OnLine, ZenonT(40)
    <3>2. /\ r * s + j >= k * s <=> r >= k
          /\ r * s + j < k * s + s <=> r <= k
          /\ r * s \in Nat /\ k * s \in Nat
      BY <1>1, <1>2, <2>1, OnLine, ZenonT(40)
    <3> QED BY <1>1, <1>2, <2>1, <3>1, <3>2, SMT, SMTT(60)
  <2>5. r = k /\ c = m => x = w.x_pos /\ y = w.y_pos
    BY <1>1, Zenon
  <2> HIDE DEF x, y
  <2>6. CASE r = k /\ c = m /\ HasGlyph(b)
    <3> DEFINE shape == Glyph[b]
    <3>1. shape \subseteq Points
      <4>1. Glyph \in [0 .. 127 -> SUBSET Points]
        BY ScreenAssumption, Zenon DEF Points
      <4>2. b \in 0 .. 127
        BY <2>6, SMT, SMTT(60) DEF HasGlyph
      <4> HIDE DEF Points
      <4> QED BY ONLY <4>1, <4>2, SMT, SMTT(60)
    <3> HIDE DEF shape
    <3>2. ASSUME NEW i \in 0 .. s - 1, NEW j \in 0 .. s - 1
          PROVE  Pixel(n, x + i, y + j) =
                   IF <<i \div w.scale, j \div w.scale>> \in shape THEN w.text_color ELSE w.bg_color
      <4>1. Pixel(n, x + i, y + j) = Drawn(w, w.x_pos, w.y_pos, b, x + i, y + j)
        BY <2>2, SMT, SMTT(60)
      <4>2. (x + i) - w.x_pos = i /\ (y + j) - w.y_pos = j
        BY <1>2, <2>2, <2>5, <2>6, SMT, SMTT(60)
      <4>3. HasGlyph(b) /\ x + i \in w.x_pos .. w.x_pos + s - 1 /\ y + j \in w.y_pos .. w.y_pos + s - 1
        BY <2>4, <2>6, ZenonT(40)
      <4> QED BY <4>1, <4>2, <4>3, Zenon DEF Drawn, shape
    <3>3. Inscribed(n, x, y, shape)
      BY <1>4, <3>2, ZenonT(40) DEF Inscribed
    <3>4. Tile(n, x, y) = shape
      BY <1>1, <1>2, <1>4, <2>2, <3>1, <3>3, DrawnTile, Zenon
    <3> QED BY <2>3, <2>6, <3>4, Zenon DEF ShapeOf, shape
  <2>7. CASE ~(r = k /\ c = m /\ HasGlyph(b))
    <3>1. ASSUME NEW i \in 0 .. s - 1, NEW j \in 0 .. s - 1
          PROVE  Pixel(n, x + i, y + j) = Pixel(w, x + i, y + j)
      <4>1. Pixel(n, x + i, y + j) = Drawn(w, w.x_pos, w.y_pos, b, x + i, y + j)
        BY <2>2
      <4>2. ~(HasGlyph(b) /\ x + i \in w.x_pos .. w.x_pos + s - 1 /\ y + j \in w.y_pos .. w.y_pos + s - 1)
        BY <2>4, <2>7, Zenon
      <4> QED BY <4>1, <4>2, Zenon DEF Drawn
    <3>2. SamePixels(n, x, y, w, x, y)
      BY <3>1, SMT, SMTT(60) DEF SamePixels
    <3>3. Tile(n, x, y) = Tile(w, x, y)
      <4>1. x \in Nat /\ y \in Nat /\ w.scale \in Nat /\ w.scale > 0
        BY <1>1, <1>2, <2>2, Zenon
      <4> HIDE DEF x, y
      <4> QED BY <3>2, <4>1, SameTile
    <3>4. ASSUME r = k, c = m PROVE Tile(w, x, y) = {}
      <4>1. ASSUME NEW i \in 0 .. s - 1, NEW j \in 0 .. s - 1 PROVE Pixel(w, x + i, y + j) # w.text_color
        <5>1. x + i >= w.x_pos /\ y + j >= w.y_pos
          BY <1>2, <2>2, <2>5, <3>4, SMT, SMTT(60)
        <5> QED BY <1>1, <2>2, <5>1, SMT, SMTT(60) DEF Clean
      <4>2. NoText(w, x, y)
        BY <4>1 DEF NoText
      <4> QED BY <1>1, <1>2, <2>2, <4>2, BlankTile, Zenon
    <3> QED BY <2>3, <2>7, <3>3, <3>4, Zenon DEF ShapeOf
  <2> QED BY <2>6, <2>7
<1> QED BY <1>6, <1>7

\* The page of a writer, as the lines of a text console.
PageOf(w, t) == [r \in 1 .. Lines(w, t) |-> [c \in 1 .. Cols(w) |-> Shown(w, t, r - 1, c - 1)]]

\* A page after a line feed from line r, and the line the cursor is then on.
Feed(p, r) == IF r < Len(p) THEN p ELSE Append(Tail(p), T!EmptyLine(Len(p[1])))
FeedRow(p, r) == IF r < Len(p) THEN r + 1 ELSE r

\* A page with a cell changed.
SetCell(p, r, c, shape) == [p EXCEPT ![r][c] = shape]

LEMMA PageSize ==
  ASSUME NEW w, NEW t, NEW k, NEW m, Settled(w, t, k, m)
  PROVE  /\ Len(PageOf(w, t)) = Lines(w, t) /\ PageOf(w, t) \in Seq(Seq(SUBSET Points))
         /\ \A r \in 1 .. Lines(w, t) : Len(PageOf(w, t)[r]) = Cols(w)
         /\ \A r \in 1 .. Lines(w, t), c \in 1 .. Cols(w) : PageOf(w, t)[r][c] = Shown(w, t, r - 1, c - 1)
         /\ k + 1 \in 1 .. Lines(w, t)
<1>1. Lines(w, t) \in Nat /\ Cols(w) \in Nat /\ k \in Nat /\ k < Lines(w, t)
  BY PageBounds, Zenon DEF Settled
<1>2. ASSUME NEW r, NEW c PROVE Shown(w, t, r, c) \in SUBSET Points
  BY DEF Shown, Tile
<1> DEFINE line(r) == [c \in 1 .. Cols(w) |-> Shown(w, t, r - 1, c - 1)]
<1>3. ASSUME NEW r PROVE line(r) \in Seq(SUBSET Points) /\ Len(line(r)) = Cols(w)
  BY <1>1, <1>2
<1>4. PageOf(w, t) = [r \in 1 .. Lines(w, t) |-> line(r)]
  BY DEF PageOf
<1>5. \A r, c : c \in 1 .. Cols(w) => line(r)[c] = Shown(w, t, r - 1, c - 1)
  OBVIOUS
<1> HIDE DEF line
<1>6. /\ Len(PageOf(w, t)) = Lines(w, t) /\ PageOf(w, t) \in Seq(Seq(SUBSET Points))
      /\ \A r \in 1 .. Lines(w, t) : PageOf(w, t)[r] = line(r)
  BY <1>1, <1>3, <1>4, SMT, SMTT(60)
<1>7. k + 1 \in 1 .. Lines(w, t)
  BY <1>1
<1>8. \A r \in 1 .. Lines(w, t) : Len(PageOf(w, t)[r]) = Cols(w)
  BY <1>3, <1>6, Zenon
<1>9. \A r \in 1 .. Lines(w, t), c \in 1 .. Cols(w) : PageOf(w, t)[r][c] = Shown(w, t, r - 1, c - 1)
  BY <1>5, <1>6, Zenon
<1> QED BY <1>6, <1>7, <1>8, <1>9, Zenon

\* A page of n lines of d cells; pages of one size that show the same are the same.
Table(p, n, d) ==
  /\ p \in Seq(Seq(SUBSET Points)) /\ Len(p) = n /\ n \in Nat /\ d \in Nat
  /\ \A r \in 1 .. n : Len(p[r]) = d
Alike(p, q, n, d) == \A r \in 1 .. n, c \in 1 .. d : p[r][c] = q[r][c]

LEMMA SamePage ==
  ASSUME NEW p, NEW q, NEW n, NEW d, Table(p, n, d), Table(q, n, d), Alike(p, q, n, d)
  PROVE  p = q
<1>1. n \in Nat /\ d \in Nat /\ p \in Seq(Seq(SUBSET Points)) /\ q \in Seq(Seq(SUBSET Points))
      /\ Len(p) = n /\ Len(q) = n
  BY Zenon DEF Table
<1>2. ASSUME NEW r \in 1 .. n PROVE p[r] = q[r]
  <2>1. Len(p[r]) = d /\ Len(q[r]) = d
    BY Zenon DEF Table
  <2>2. p[r] \in Seq(SUBSET Points) /\ q[r] \in Seq(SUBSET Points)
    BY <1>1
  <2>3. \A c \in 1 .. d : p[r][c] = q[r][c]
    BY Zenon DEF Alike
  <2> DEFINE a == p[r]
             b == q[r]
  <2> HIDE DEF a, b
  <2>4. a = b
    BY <2>1, <2>2, <2>3 DEF a, b
  <2> QED BY <2>4 DEF a, b
<1> QED BY <1>1, <1>2

\* A line feed of the screen is one of the console.
LEMMA FeedIsFeed ==
  ASSUME NEW w, NEW t, NEW k, NEW m, Settled(w, t, k, m)
  PROVE  /\ PageOf(new_line(w), t) = Feed(PageOf(w, t), k + 1)
         /\ Settled(new_line(w), t, FeedRow(PageOf(w, t), k + 1) - 1, 0)
<1> DEFINE n == new_line(w)
           p == PageOf(w, t)
           q == PageOf(n, t)
           f == Feed(p, k + 1)
           L == Lines(w, t)
           C == Cols(w)
<1>1. /\ Settled(n, t, IF Full(w) THEN k ELSE k + 1, 0) /\ SameStyle(n, w)
      /\ \A r \in 0 .. L - 1, c \in 0 .. C - 1 :
           /\ ~Full(w) => Shown(n, t, r, c) = Shown(w, t, r, c)
           /\ Full(w) /\ r + 1 < L => Shown(n, t, r, c) = Shown(w, t, r + 1, c)
           /\ Full(w) /\ r + 1 = L => Shown(n, t, r, c) = {}
  BY FeedPage, Zenon
<1>2. L \in Nat /\ C \in Nat /\ k \in Nat /\ k < L /\ (Full(w) <=> k + 1 = L)
  BY PageBounds, Zenon DEF Settled
<1> HIDE DEF n
<1>3. Lines(n, t) = L /\ Cols(n) = C
  BY <1>1, Zenon DEF SameStyle, Lines, Cols, scaled
<1>4. /\ Len(p) = L /\ p \in Seq(Seq(SUBSET Points))
      /\ \A r \in 1 .. L : Len(p[r]) = C
      /\ \A r \in 1 .. L, c \in 1 .. C : p[r][c] = Shown(w, t, r - 1, c - 1)
  BY PageSize, ZenonT(40)
<1>5. /\ Len(q) = L /\ q \in Seq(Seq(SUBSET Points))
      /\ \A r \in 1 .. L : Len(q[r]) = C
      /\ \A r \in 1 .. L, c \in 1 .. C : q[r][c] = Shown(n, t, r - 1, c - 1)
  BY <1>1, <1>3, PageSize, SMT, SMTT(60)
<1> HIDE DEF p, q, L, C
<1>6. Settled(n, t, FeedRow(p, k + 1) - 1, 0)
  <2>1. FeedRow(p, k + 1) - 1 = IF Full(w) THEN k ELSE k + 1
    BY <1>2, <1>4 DEF FeedRow
  <2> QED BY <1>1, <2>1
<1>7. ASSUME ~Full(w) PROVE f = q
  <2>1. f = p
    BY <1>2, <1>4, <1>7 DEF Feed
  <2>2. ASSUME NEW r \in 1 .. L, NEW c \in 1 .. C PROVE p[r][c] = q[r][c]
    <3>1. r - 1 \in 0 .. L - 1 /\ c - 1 \in 0 .. C - 1
      BY <1>2
    <3> QED BY <1>1, <1>4, <1>5, <1>7, <3>1, SMT, SMTT(60)
  <2>3. Table(p, L, C) /\ Table(q, L, C) /\ Alike(p, q, L, C)
    BY <1>2, <1>4, <1>5, <2>2, Zenon DEF Table, Alike
  <2>4. p = q
    BY <2>3, SamePage, SMT, SMTT(60)
  <2> QED BY <2>1, <2>4
<1>8. ASSUME Full(w) PROVE f = q
  <2> DEFINE e == [c \in 1 .. C |-> {}]
  <2>1. e \in Seq(SUBSET Points) /\ Len(e) = C /\ \A c \in 1 .. C : e[c] = {}
    BY <1>2, SMT, SMTT(60)
  <2>2. f = Append(Tail(p), e)
    <3>1. Len(p[1]) = C
      BY <1>2, <1>4
    <3> QED BY <1>2, <1>4, <1>8, <3>1, SMT, SMTT(60) DEF Feed, T!EmptyLine
  <2> HIDE DEF e, f
  <2>3. /\ f \in Seq(Seq(SUBSET Points)) /\ Len(f) = L
        /\ \A r \in 1 .. L : f[r] = IF r < L THEN p[r + 1] ELSE e
    <3>1. Len(p) > 0 /\ p # <<>>
      BY <1>2, <1>4
    <3>2. Tail(p) \in Seq(Seq(SUBSET Points)) /\ Len(Tail(p)) = L - 1
          /\ \A r \in 1 .. L - 1 : Tail(p)[r] = p[r + 1]
      BY <1>4, <3>1, SMT, SMTT(60)
    <3> DEFINE g == Tail(p)
    <3> HIDE DEF g
    <3>3. /\ Append(g, e) \in Seq(Seq(SUBSET Points)) /\ Len(Append(g, e)) = L
          /\ \A r \in 1 .. L : Append(g, e)[r] = IF r < L THEN g[r] ELSE e
      BY <1>2, <2>1, <3>2, SMT, SMTT(60) DEF g
    <3> QED BY <1>2, <2>2, <3>2, <3>3, SMT, SMTT(60) DEF g
  <2>4. ASSUME NEW r \in 1 .. L PROVE Len(f[r]) = C
    <3>1. r < L => r + 1 \in 1 .. L
      BY <1>2
    <3>2. f[r] = IF r < L THEN p[r + 1] ELSE e
      BY <2>3, Zenon
    <3>3. CASE r < L
      BY <1>4, <3>1, <3>2, <3>3, SMT, SMTT(60)
    <3>4. CASE ~(r < L)
      BY <2>1, <3>2, <3>4, SMT, SMTT(60)
    <3> QED BY <3>3, <3>4
  <2>5. ASSUME NEW r \in 1 .. L, NEW c \in 1 .. C PROVE f[r][c] = q[r][c]
    <3>1. r - 1 \in 0 .. L - 1 /\ c - 1 \in 0 .. C - 1 /\ r - 1 + 1 = r /\ r + 1 - 1 = r
      BY <1>2, SMT, SMTT(60)
    <3>2. CASE r < L
      <4>1. r + 1 \in 1 .. L
        BY <1>2, <3>2, SMT, SMTT(60)
      <4>2. p[r + 1][c] = Shown(w, t, r, c - 1)
        BY <1>4, <3>1, <4>1, SMT, SMTT(60)
      <4>3. q[r][c] = Shown(w, t, r, c - 1)
        <5>1. Shown(n, t, r - 1, c - 1) = Shown(w, t, r - 1 + 1, c - 1)
          BY <1>1, <1>8, <3>1, <3>2
        <5> QED BY <1>5, <3>1, <5>1
      <4> QED BY <2>3, <3>2, <4>2, <4>3, SMT, SMTT(60)
    <3>3. CASE r = L
      <4>1. q[r][c] = {}
        BY <1>1, <1>5, <1>8, <3>1, <3>3, SMT, SMTT(60)
      <4> QED BY <1>2, <2>1, <2>3, <3>3, <4>1
    <3> QED BY <1>2, <3>2, <3>3
  <2>6. Table(f, L, C) /\ Table(q, L, C) /\ Alike(f, q, L, C)
    BY <1>2, <1>5, <2>3, <2>4, <2>5, Zenon DEF Table, Alike
  <2> QED BY <2>6, SamePage, SMT, SMTT(60)
<1>9. f = q
  BY <1>7, <1>8
<1> QED BY <1>6, <1>9 DEF n, p, q, f

\* A character drawn at the cursor is put at the console's.
LEMMA PutIsPut ==
  ASSUME NEW w, NEW t, NEW k, NEW m, Settled(w, t, k, m), m < Cols(w), NEW b \in 0 .. 255,
         NEW n, Draws(n, w, b)
  PROVE  /\ Settled(n, t, k, m + 1)
         /\ PageOf(n, t) = SetCell(PageOf(w, t), k + 1, m + 1, ShapeOf(b))
<1> DEFINE p == PageOf(w, t)
           q == PageOf(n, t)
           shape == ShapeOf(b)
           line == [p[k + 1] EXCEPT ![m + 1] = shape]
           f == [p EXCEPT ![k + 1] = line]
           L == Lines(w, t)
           C == Cols(w)
<1>1. /\ Settled(n, t, k, m + 1)
      /\ \A r \in 0 .. L - 1, c \in 0 .. C - 1 :
           Shown(n, t, r, c) = IF r = k /\ c = m THEN shape ELSE Shown(w, t, r, c)
  <2>1. Settled(n, t, k, m + 1) /\ Fills(n, w, t, k, m, b)
    BY DrawPage, Zenon
  <2> QED BY <2>1, Zenon DEF Fills
<1>2. L \in Nat /\ C \in Nat /\ k \in Nat /\ m \in Nat /\ k < L /\ m < C
  BY PageBounds, Zenon DEF Settled
<1>3. Lines(n, t) = L /\ Cols(n) = C
  BY DEF Draws, SameStyle, Lines, Cols, scaled
<1>4. /\ Len(p) = L /\ p \in Seq(Seq(SUBSET Points))
      /\ \A r \in 1 .. L : Len(p[r]) = C
      /\ \A r \in 1 .. L, c \in 1 .. C : p[r][c] = Shown(w, t, r - 1, c - 1)
  BY PageSize, Zenon
<1>5. /\ Len(q) = L /\ q \in Seq(Seq(SUBSET Points))
      /\ \A r \in 1 .. L : Len(q[r]) = C
      /\ \A r \in 1 .. L, c \in 1 .. C : q[r][c] = Shown(n, t, r - 1, c - 1)
  <2>1. Settled(n, t, k, m + 1)
    BY <1>1, Zenon
  <2>2. /\ Len(q) = Lines(n, t) /\ q \in Seq(Seq(SUBSET Points))
        /\ \A r \in 1 .. Lines(n, t) : Len(q[r]) = Cols(n)
        /\ \A r \in 1 .. Lines(n, t), c \in 1 .. Cols(n) : q[r][c] = Shown(n, t, r - 1, c - 1)
    BY <2>1, PageSize, Zenon
  <2> HIDE DEF q, L, C
  <2> QED BY <1>3, <2>2, Zenon
<1>6. shape \in SUBSET Points
  <2>1. k \in 0 .. L - 1 /\ m \in 0 .. C - 1
    BY <1>2
  <2>2. Shown(n, t, k, m) = shape
    BY <1>1, <2>1
  <2> QED BY <2>2 DEF Shown, Tile
<1>7. SetCell(p, k + 1, m + 1, shape) = f
  BY Zenon DEF SetCell
<1> HIDE DEF p, q, L, C, shape
<1>8. k + 1 \in 1 .. L /\ m + 1 \in 1 .. C
  BY <1>2, SMT, SMTT(60)
<1>9. /\ line \in Seq(SUBSET Points) /\ Len(line) = C
      /\ \A c \in 1 .. C : line[c] = IF c = m + 1 THEN shape ELSE p[k + 1][c]
  <2> DEFINE a == p[k + 1]
  <2>1. a \in Seq(SUBSET Points) /\ Len(a) = C
    BY <1>4, <1>8, SMT, SMTT(60)
  <2> HIDE DEF a
  <2>2. [a EXCEPT ![m + 1] = shape] \in Seq(SUBSET Points) /\ Len([a EXCEPT ![m + 1] = shape]) = C
        /\ \A c \in 1 .. C : [a EXCEPT ![m + 1] = shape][c] = IF c = m + 1 THEN shape ELSE a[c]
    BY <1>2, <1>6, <1>8, <2>1, SMT, SMTT(60)
  <2> QED BY <2>2, SMT, SMTT(60) DEF a
<1> HIDE DEF line
<1>10. /\ f \in Seq(Seq(SUBSET Points)) /\ Len(f) = L
       /\ \A r \in 1 .. L : f[r] = IF r = k + 1 THEN line ELSE p[r]
  BY <1>2, <1>4, <1>8, <1>9, SMT, SMTT(60)
<1> HIDE DEF f
<1>11. ASSUME NEW r \in 1 .. L PROVE Len(f[r]) = C
  <2>1. CASE r = k + 1
    BY <1>9, <1>10, <2>1, Zenon
  <2>2. CASE r # k + 1
    BY <1>4, <1>10, <2>2, ZenonT(40)
  <2> QED BY <2>1, <2>2, Zenon
<1>12. ASSUME NEW r \in 1 .. L, NEW c \in 1 .. C PROVE f[r][c] = q[r][c]
  <2>1. r - 1 \in 0 .. L - 1 /\ c - 1 \in 0 .. C - 1 /\ (r - 1 = k <=> r = k + 1) /\ (c - 1 = m <=> c = m + 1)
    BY <1>2
  <2>2. q[r][c] = IF r = k + 1 /\ c = m + 1 THEN shape ELSE p[r][c]
    <3>1. Shown(n, t, r - 1, c - 1) = IF r - 1 = k /\ c - 1 = m THEN shape ELSE Shown(w, t, r - 1, c - 1)
      BY <1>1, <2>1, Zenon
    <3>2. q[r][c] = Shown(n, t, r - 1, c - 1) /\ p[r][c] = Shown(w, t, r - 1, c - 1)
      BY <1>4, <1>5, Zenon
    <3> QED BY <2>1, <3>1, <3>2, Zenon
  <2>3. CASE r = k + 1
    BY <1>9, <1>10, <2>2, <2>3, Zenon
  <2>4. CASE r # k + 1
    BY <1>10, <2>2, <2>4, SMT, SMTT(60)
  <2> QED BY <2>3, <2>4
<1>13. Table(f, L, C) /\ Table(q, L, C) /\ Alike(f, q, L, C)
  BY <1>2, <1>5, <1>10, <1>11, <1>12, Zenon DEF Table, Alike
<1>14. f = q
  BY <1>13, SamePage, Zenon
<1> QED BY <1>1, <1>7, <1>14, Zenon DEF p, q, shape

\* write_byte on a page: a newline feeds, another character is put, after a feed when the
\* line is full.
LEMMA WriteNewline ==
  ASSUME NEW w, NEW t, NEW k, NEW m, Settled(w, t, k, m)
  PROVE  /\ PageOf(write_byte(w, NEWLINE), t) = Feed(PageOf(w, t), k + 1)
         /\ Settled(write_byte(w, NEWLINE), t, FeedRow(PageOf(w, t), k + 1) - 1, 0)
<1>1. PICK v : /\ fill_remainder(w) = new_line(v) /\ Settled(v, t, k, m) /\ SameStyle(v, w)
               /\ \A r \in 0 .. Lines(w, t) - 1, c \in 0 .. Cols(w) - 1 :
                    Shown(v, t, r, c) = Shown(w, t, r, c)
  BY FillPage
<1>2. write_byte(w, NEWLINE) = new_line(v)
  BY <1>1, Zenon DEF write_byte
<1>3. Lines(v, t) = Lines(w, t) /\ Cols(v) = Cols(w)
  BY <1>1, Zenon DEF SameStyle, Lines, Cols, scaled
<1>4. Lines(w, t) \in Nat /\ Cols(w) \in Nat
  BY PageBounds, Zenon
<1>5. PageOf(v, t) = PageOf(w, t)
  <2>1. ASSUME NEW r \in 1 .. Lines(w, t), NEW c \in 1 .. Cols(w)
        PROVE  Shown(v, t, r - 1, c - 1) = Shown(w, t, r - 1, c - 1)
    <3>1. r - 1 \in 0 .. Lines(w, t) - 1 /\ c - 1 \in 0 .. Cols(w) - 1
      BY <1>4, SMT, SMTT(60)
    <3> QED BY <1>1, <3>1
  <2>2. ASSUME NEW r \in 1 .. Lines(w, t)
        PROVE  [c \in 1 .. Cols(w) |-> Shown(v, t, r - 1, c - 1)] = [c \in 1 .. Cols(w) |-> Shown(w, t, r - 1, c - 1)]
    BY <2>1
  <2> QED BY <1>3, <2>2, Zenon DEF PageOf
<1> QED BY <1>1, <1>2, <1>5, FeedIsFeed, SMT, SMTT(60)

LEMMA WriteDraws ==
  ASSUME NEW w, NEW t, NEW k, NEW m, Settled(w, t, k, m), NEW b \in 0 .. 255, b # NEWLINE,
         scaled(w) <= w.info.width
  PROVE  Draws(write_byte(w, b), Wrapped(w), b)
<1> DEFINE v == Wrapped(w)
           n == write_byte(w, b)
<1>1. Sound(w) /\ Placed(w) /\ Clean(w) /\ w.text_color # w.bg_color
  BY DEF Settled
<1>2. /\ Sound(v) /\ SameStyle(v, w)
      /\ n.x_pos = v.x_pos + scaled(w) /\ n.y_pos = v.y_pos
      /\ \A x, y : Pixel(n, x, y) = Pixel(draw_char(v, v.x_pos, v.y_pos, b), x, y)
  <2>1. Writes(n, v, w, b)
    BY <1>1, WritePixel, Zenon
  <2> HIDE DEF v, n
  <2> QED BY <2>1, Zenon DEF Writes
<1>3. Sound(n) /\ SameStyle(n, w) /\ Placed(n)
  BY <1>1, WriteByteSound, Zenon
<1>4. Clean(n)
  BY <1>1, WriteClean, Zenon
<1> HIDE DEF v, n
<1>5. scaled(v) = scaled(w) /\ SameStyle(n, v)
  BY <1>2, <1>3, Zenon DEF scaled, SameStyle
<1>6. v.x_pos \in Nat /\ v.y_pos \in Nat
  BY <1>2, Geometry, Zenon
<1>7. ASSUME NEW x \in Columns(v), NEW y \in Rows(v) PROVE Pixel(n, x, y) = Drawn(v, v.x_pos, v.y_pos, b, x, y)
  BY <1>2, <1>6, DrawPixel, SMT, SMTT(60)
<1> QED BY <1>2, <1>3, <1>4, <1>5, <1>7, Zenon DEF Draws, v, n

\* A settled writer with a given page.
Leaves(n, t, k, m, page) == Settled(n, t, k, m) /\ PageOf(n, t) = page

LEMMA WriteGlyph ==
  ASSUME NEW w, NEW t, NEW k, NEW m, Settled(w, t, k, m), NEW b \in 0 .. 255, b # NEWLINE,
         scaled(w) <= w.info.width
  PROVE  /\ m < Cols(w) =>
              Leaves(write_byte(w, b), t, k, m + 1, SetCell(PageOf(w, t), k + 1, m + 1, ShapeOf(b)))
         /\ m = Cols(w) =>
              Leaves(write_byte(w, b), t, FeedRow(PageOf(w, t), k + 1) - 1, 1,
                     SetCell(Feed(PageOf(w, t), k + 1), FeedRow(PageOf(w, t), k + 1), 1, ShapeOf(b)))
<1> DEFINE v == Wrapped(w)
           n == write_byte(w, b)
           p == PageOf(w, t)
           l == FeedRow(p, k + 1) - 1
<1>1. Draws(n, v, b)
  BY WriteDraws, ZenonT(40)
<1>2. k \in Nat /\ m \in Nat /\ Cols(w) \in Nat /\ m <= Cols(w) /\ (w.x_pos + scaled(w) > w.info.width <=> m = Cols(w))
  BY PageBounds, Zenon DEF Settled
<1>3. ASSUME m < Cols(w) PROVE Settled(n, t, k, m + 1) /\ PageOf(n, t) = SetCell(p, k + 1, m + 1, ShapeOf(b))
  <2>1. v = w
    BY <1>2, <1>3 DEF Wrapped
  <2> QED BY <1>1, <1>3, <2>1, PutIsPut, SMT, SMTT(60)
<1>4. ASSUME m = Cols(w)
      PROVE  /\ Settled(n, t, l, 1)
             /\ PageOf(n, t) = SetCell(Feed(p, k + 1), FeedRow(p, k + 1), 1, ShapeOf(b))
  <2>1. v = new_line(w)
    BY <1>2, <1>4, Zenon DEF Wrapped
  <2>2. PageOf(v, t) = Feed(p, k + 1) /\ Settled(v, t, l, 0)
    BY <2>1, FeedIsFeed, SMT, SMTT(60)
  <2>3. FeedRow(p, k + 1) = l + 1
    <3>1. Len(p) \in Nat
      BY PageSize, PageBounds, Zenon
    <3> QED BY <1>2, <3>1, SMT, SMTT(60) DEF FeedRow
  <2>4. 0 < Cols(v)
    <3>1. Cols(v) = Cols(w)
      BY <2>1, NewLineSound DEF Settled, SameStyle, Cols, scaled
    <3>2. scaled(w) \in Nat /\ scaled(w) > 0
      BY PageBounds, Zenon
    <3>3. w.info.width \in Nat
      BY Geometry, Zenon DEF Settled
    <3>4. 1 * scaled(w) <= w.info.width
      BY <3>2, SMT, SMTT(60)
    <3>5. 1 <= Cols(w)
      BY <3>2, <3>3, <3>4, Fits, ZenonT(40) DEF Cols
    <3> QED BY <1>2, <3>1, <3>5
  <2> HIDE DEF l, v, n, p
  <2>5. Settled(n, t, l, 0 + 1) /\ PageOf(n, t) = SetCell(PageOf(v, t), l + 1, 0 + 1, ShapeOf(b))
    BY <1>1, <2>2, <2>4, PutIsPut, SMT, SMTT(60)
  <2> QED BY <2>2, <2>3, <2>5, SMT, SMTT(60)
<1> QED BY <1>3, <1>4, Zenon DEF Leaves, n, p, l

-----------------------------------------------------------------------------
(* The console is a text console. *)

\* The cursor is on the grid of the page that starts at t.
Aligned(w, t) ==
  \E k, m \in Nat : w.y_pos = t + k * scaled(w) /\ w.x_pos = m * scaled(w)

\* From reset_style on the cursor stays on the grid that starts on its line; the newline that
\* ends the welcome text brings it to the left edge, whatever the larger scale left.
Grid ==
  /\ pc = "ready" => Aligned(writer, top)
  /\ pc = "welcome" => IF todo = <<>> THEN writer.x_pos = 0 ELSE as_u8(todo[Len(todo)]) = NEWLINE

\* What the refinement mapping reads off a settled writer, before and after a step.
LEMMA ReadPage ==
  ASSUME pc = "ready", NEW k, NEW m, Settled(writer, top, k, m)
  PROVE  PageShown = PageOf(writer, top) /\ RowShown = k + 1 /\ ColumnShown = m
<1>1. PageShown = PageOf(writer, top)
  BY Zenon DEF PageShown, PageOf, PageRows, PageColumns, CellAt, Lines, Cols, Shown, Tile, Points
<1>2. k = (writer.y_pos - top) \div scaled(writer) /\ m = writer.x_pos \div scaled(writer) /\ k \in Nat
  BY PageBounds, Zenon DEF Settled
<1>3. RowShown = 1 + k /\ ColumnShown = m
  BY <1>2, Zenon DEF RowShown, ColumnShown
<1> QED BY <1>1, <1>2, <1>3

LEMMA ReadNext ==
  ASSUME pc' = "ready", NEW k, NEW m, Settled(writer', top', k, m)
  PROVE  /\ PageShown' = PageOf(writer', top') /\ RowShown' = k + 1 /\ ColumnShown' = m
         /\ Grid'
<1>1. PageShown' = PageOf(writer', top')
  BY Zenon DEF PageShown, PageOf, PageRows, PageColumns, CellAt, Lines, Cols, Shown, Tile, Points
<1>2. k = (writer'.y_pos - top') \div scaled(writer') /\ m = writer'.x_pos \div scaled(writer') /\ k \in Nat
  BY PageBounds, Zenon DEF Settled
<1>3. RowShown' = 1 + k /\ ColumnShown' = m
  BY <1>2, Zenon DEF RowShown, ColumnShown
<1>4. Aligned(writer', top')
  BY Zenon DEF Settled, Aligned
<1>5. Grid'
  BY <1>4 DEF Grid
<1> QED BY <1>1, <1>2, <1>3, <1>5, SMT, SMTT(60)

\* Once the console is ready its writer is settled.
LEMMA ReadySettled ==
  ASSUME IInv, Inked, Grid, pc = "ready"
  PROVE  /\ \E k, m : Settled(writer, top, k, m)
         /\ scaled(writer) <= writer.info.width
<1>1. Sound(writer) /\ Placed(writer) /\ writer.scale = 2 /\ top \in Nat /\ writer.info \in Infos
  BY Zenon DEF IInv, TypeOK, StoresInside, LineOnScreen, Sound, Placed
<1>2. Clean(writer) /\ writer.text_color # writer.bg_color
  BY DEF Inked
<1>3. PICK k, m \in Nat : writer.y_pos = top + k * scaled(writer) /\ writer.x_pos = m * scaled(writer)
  BY Zenon DEF Grid, Aligned
<1>4. Settled(writer, top, k, m)
  BY <1>1, <1>2, <1>3, SMT, SMTT(60) DEF Settled
<1>5. scaled(writer) <= writer.info.width
  <2>1. FONT \in Nat
    BY ScreenAssumption, Zenon
  <2>2. writer.info.width \in Nat /\ writer.info.width >= 3 * FONT
    BY <1>1, ScreenAssumption, Zenon
  <2> QED BY <1>1, <2>1, <2>2 DEF scaled
<1> QED BY <1>4, <1>5, Zenon

\* What is put is a shape of the console.
LEMMA ShapeOfChar ==
  ASSUME NEW c \in Chars
  PROVE  as_u8(c) \in 0 .. 255 /\ ShapeOf(as_u8(c)) \in Shapes
<1>1. c \in Nat
  <2>1. Chars \subseteq Nat
    BY ScreenAssumption, Zenon
  <2> QED BY <2>1
<1> DEFINE b == as_u8(c)
<1>2. b \in 0 .. 255
  BY <1>1 DEF as_u8
<1>3. b \in {as_u8(a) : a \in Chars}
  OBVIOUS
<1> HIDE DEF b
<1>4. HasGlyph(b) => b \in 0 .. 127
  BY <1>2 DEF HasGlyph
<1>5. ShapeOf(b) \in Shapes
  BY <1>3, <1>4, Zenon DEF ShapeOf, Shapes
<1> QED BY <1>2, <1>5 DEF b

\* A character written once the console is ready is a step of the text console.
LEMMA WriteRefines ==
  ASSUME IInv, Inked, Grid, pc = "ready", pc' = "ready", top' = top,
         NEW c \in Chars, writer' = write_byte(writer, as_u8(c))
  PROVE  Grid' /\ T!Next
<1>1. PICK k, m : Settled(writer, top, k, m)
  BY ReadySettled
<1>2. PICK b : b = as_u8(c)
  BY SMT, SMTT(60)
<1>3. b \in 0 .. 255 /\ ShapeOf(b) \in Shapes /\ writer' = write_byte(writer, b)
      /\ scaled(writer) <= writer.info.width
  BY <1>2, ShapeOfChar, ReadySettled, Zenon
<1>4. PICK p : p = PageOf(writer, top)
  OBVIOUS
<1>5. PageShown = p /\ RowShown = k + 1 /\ ColumnShown = m
  BY <1>1, <1>4, ReadPage, Zenon
<1>6. /\ Len(p) = Lines(writer, top) /\ Len(p[k + 1]) = Cols(writer) /\ k \in Nat /\ m \in Nat
      /\ m <= Cols(writer) /\ Cols(writer) \in Nat /\ Len(p) > 0 /\ Len(p) \in Nat
  <2>1. /\ Len(p) = Lines(writer, top) /\ Len(p[k + 1]) = Cols(writer)
    BY <1>1, <1>4, PageSize, Zenon
  <2>2. /\ k < Lines(writer, top) /\ Lines(writer, top) \in Nat /\ m <= Cols(writer)
        /\ Cols(writer) \in Nat /\ k \in Nat /\ m \in Nat
    BY <1>1, PageBounds, Zenon DEF Settled
  <2> QED BY <2>1, <2>2
<1>7. PageShown # T!Off
  BY <1>5, <1>6 DEF T!Off
<1>8. T!Fed = Feed(p, k + 1) /\ T!FedRow = FeedRow(p, k + 1)
  BY <1>5, Zenon DEF T!Fed, T!FedRow, Feed, FeedRow
<1>9. FeedRow(p, k + 1) - 1 + 1 = FeedRow(p, k + 1)
  BY <1>6 DEF FeedRow
<1>10. CASE b = NEWLINE
  <2>1. PageOf(writer', top') = Feed(p, k + 1) /\ Settled(writer', top', FeedRow(p, k + 1) - 1, 0)
    BY <1>1, <1>3, <1>4, <1>10, WriteNewline, SMT, SMTT(60)
  <2>2. PageShown' = Feed(p, k + 1) /\ RowShown' = FeedRow(p, k + 1) /\ ColumnShown' = 0 /\ Grid'
    BY <1>9, <2>1, ReadNext
  <2>3. T!LineFeed
    BY <1>7, <1>8, <2>2, Zenon DEF T!LineFeed
  <2> QED BY <2>2, <2>3, Zenon DEF T!Next
<1>11. CASE b # NEWLINE /\ m < Cols(writer)
  <2>1. PageOf(writer', top') = SetCell(p, k + 1, m + 1, ShapeOf(b)) /\ Settled(writer', top', k, m + 1)
    <3>1. Leaves(write_byte(writer, b), top, k, m + 1, SetCell(PageOf(writer, top), k + 1, m + 1, ShapeOf(b)))
      BY <1>1, <1>3, <1>11, WriteGlyph, Zenon
    <3> QED BY <1>3, <1>4, <3>1, Zenon DEF Leaves
  <2>2. PageShown' = SetCell(p, k + 1, m + 1, ShapeOf(b)) /\ RowShown' = k + 1 /\ ColumnShown' = m + 1 /\ Grid'
    BY <2>1, ReadNext
  <2>3. T!Put(ShapeOf(b))
    BY <1>5, <1>6, <1>7, <1>11, <2>2, Zenon DEF T!Put, SetCell
  <2> QED BY <1>3, <2>2, <2>3, Zenon DEF T!Next
<1>12. CASE b # NEWLINE /\ m = Cols(writer)
  <2>1. /\ PageOf(writer', top') = SetCell(Feed(p, k + 1), FeedRow(p, k + 1), 1, ShapeOf(b))
        /\ Settled(writer', top', FeedRow(p, k + 1) - 1, 1)
    <3>1. Leaves(write_byte(writer, b), top, FeedRow(PageOf(writer, top), k + 1) - 1, 1,
                 SetCell(Feed(PageOf(writer, top), k + 1), FeedRow(PageOf(writer, top), k + 1), 1, ShapeOf(b)))
      BY <1>1, <1>3, <1>12, WriteGlyph, Zenon
    <3> QED BY <1>3, <1>4, <3>1, Zenon DEF Leaves
  <2>2. /\ PageShown' = SetCell(Feed(p, k + 1), FeedRow(p, k + 1), 1, ShapeOf(b))
        /\ RowShown' = FeedRow(p, k + 1) /\ ColumnShown' = 1 /\ Grid'
    BY <1>9, <2>1, ReadNext, SMT, SMTT(60)
  <2>3. T!PutWrapped(ShapeOf(b))
    BY <1>5, <1>6, <1>7, <1>8, <1>12, <2>2, Zenon DEF T!PutWrapped, SetCell
  <2> QED BY <1>3, <2>2, <2>3, Zenon DEF T!Next
<1>13. m < Cols(writer) \/ m = Cols(writer)
  BY <1>6
<1> QED BY <1>10, <1>11, <1>12, <1>13, Zenon

\* reset_style opens the console on an empty page.
LEMMA ResetRefines ==
  ASSUME IInv, Inked, Grid, IInv', Inked', reset_style
  PROVE  Grid' /\ T!Open
<1>1. Sound(writer)
  BY Zenon DEF IInv, TypeOK, StoresInside, Sound
<1>2. /\ writer'.fb = writer.fb /\ writer'.info = writer.info
      /\ writer'.text_color = WHITE /\ writer'.bg_color # WHITE /\ writer'.scale = 2
      /\ writer'.x_pos = writer.x_pos /\ writer'.y_pos = writer.y_pos
      /\ pc = "welcome" /\ pc' = "ready" /\ todo = <<>> /\ top' = writer.y_pos
  BY <1>1, ResetStyle, Zenon DEF reset_style
<1>3. /\ Sound(writer') /\ Placed(writer') /\ Clean(writer') /\ writer.x_pos = 0 /\ top' \in Nat
  BY <1>2, Zenon DEF IInv, TypeOK, StoresInside, LineOnScreen, Sound, Placed, Inked, Grid
<1>4. Without(writer', WHITE)
  BY <1>2, SamePicture DEF Inked
<1>5. PICK w, t : w = writer' /\ t = top'
  OBVIOUS
<1>6. Settled(w, t, 0, 0)
  <2>1. scaled(w) \in Nat
    BY <1>3, <1>5, Geometry
  <2>2. 0 * scaled(w) = 0
    BY <2>1
  <2>3. w.x_pos = 0 /\ w.y_pos = t /\ t \in Nat /\ w.scale > 0 /\ w.text_color # w.bg_color
    BY <1>2, <1>3, <1>5, SMT, SMTT(60)
  <2>4. t = t + 0
    BY <2>3, SMT, SMTT(60)
  <2> QED BY <1>3, <1>5, <2>2, <2>3, <2>4, Zenon DEF Settled
<1>7. PageShown' = PageOf(w, t) /\ RowShown' = 0 + 1 /\ ColumnShown' = 0 /\ Grid'
  BY <1>2, <1>5, <1>6, ReadNext, Zenon
<1>8. Lines(w, t) \in Nat /\ 0 < Lines(w, t) /\ Cols(w) \in Nat
  BY <1>6, PageBounds
<1>9. ASSUME NEW r \in 1 .. Lines(w, t), NEW c \in 1 .. Cols(w) PROVE Shown(w, t, r - 1, c - 1) = {}
  <2> DEFINE x == (c - 1) * scaled(w)
             y == t + (r - 1) * scaled(w)
  <2>1. r - 1 \in Nat /\ c - 1 \in Nat /\ r - 1 < Lines(w, t) /\ c - 1 < Cols(w)
    BY <1>8, SMT, SMTT(60)
  <2>2. x \in Nat /\ y \in Nat /\ \A i, j \in 0 .. scaled(w) - 1 : x + i \in Columns(w) /\ y + j \in Rows(w)
    BY <1>6, <2>1, CellPixels, Zenon
  <2> HIDE DEF x, y
  <2>3. NoText(w, x, y)
    BY <1>2, <1>4, <1>5, <2>2, Zenon DEF NoText, Without
  <2>4. w.scale \in Nat /\ w.scale > 0
    BY <1>2, <1>5
  <2>5. Tile(w, x, y) = {}
    BY <2>2, <2>3, <2>4, BlankTile, SMT, SMTT(60)
  <2> QED BY <2>5, Zenon DEF Shown, x, y
<1>10. PICK p : p = PageOf(w, t)
  BY SMT, SMTT(60)
<1>11. Len(p) = Lines(w, t) /\ Len(p[1]) = Cols(w)
  BY <1>6, <1>8, <1>10, PageSize, SMT, SMTT(60)
<1>12. p = [r \in 1 .. Lines(w, t) |-> T!EmptyLine(Cols(w))]
  BY <1>9, <1>10 DEF PageOf, T!EmptyLine
<1>13. p # <<>>
  BY <1>8, <1>11, SMT, SMTT(60)
<1>14. PageShown' = p /\ PageShown = T!Off /\ RowShown' = 1
  BY <1>2, <1>7, <1>10 DEF PageShown, T!Off
<1>15. p = [r \in 1 .. Len(p) |-> T!EmptyLine(Len(p[1]))] /\ p # T!Off
  BY <1>11, <1>12, <1>13, Zenon DEF T!Off
<1>16. T!Open
  BY <1>7, <1>14, <1>15, Zenon DEF T!Open
<1> QED BY <1>7, <1>16

\* The last character of a text that is not at its end is that of the rest.
LEMMA LastOfTail ==
  ASSUME NEW S, NEW s \in Seq(S), s # <<>>
  PROVE  /\ Tail(s) = <<>> => Head(s) = s[Len(s)]
         /\ Tail(s) # <<>> => Tail(s)[Len(Tail(s))] = s[Len(s)]
<1>1. PICK u : u = Tail(s)
  BY Zenon
<1>2. /\ Len(s) \in Nat /\ Len(s) >= 1 /\ Head(s) = s[1] /\ u \in Seq(S)
      /\ Len(u) = Len(s) - 1 /\ \A i \in 1 .. Len(s) - 1 : u[i] = s[i + 1]
  BY <1>1
<1>3. ASSUME u = <<>> PROVE Head(s) = s[Len(s)]
  <2>1. Len(u) = 0
    BY <1>3
  <2>2. Len(s) = 1
    BY <1>2, <2>1
  <2> QED BY <1>2, <2>2
<1>4. ASSUME u # <<>> PROVE u[Len(u)] = s[Len(s)]
  <2>1. Len(u) # 0
    BY <1>2, <1>4
  <2>2. Len(s) - 1 \in 1 .. Len(s) - 1 /\ Len(s) - 1 + 1 = Len(s)
    BY <1>2, <2>1
  <2> QED BY <1>2, <2>2
<1> QED BY <1>1, <1>3, <1>4

\* A newline brings the cursor to the left edge.
LEMMA NewlineReturns ==
  ASSUME NEW w, Sound(w), Placed(w)
  PROVE  write_byte(w, NEWLINE).x_pos = 0
<1>1. PICK v : fill_remainder(w) = new_line(v) /\ Sound(v) /\ Placed(v)
  BY FillPixel
<1>2. write_byte(w, NEWLINE) = new_line(v)
  BY <1>1 DEF write_byte
<1> QED BY <1>1, <1>2, NewLineSound, Zenon

\* Every step keeps the grid, and is a step of the text console or leaves it as it is.
LEMMA NextRefines == IInv /\ Inked /\ Grid /\ [Next]_vars => Grid' /\ [T!Next]_(T!vars)
<1> SUFFICES ASSUME IInv, Inked, Grid, [Next]_vars PROVE Grid' /\ [T!Next]_(T!vars)
  OBVIOUS
<1>1. IInv' /\ Inked'
  BY NextIInv, NextInked
<1>2. pc # "ready" /\ pc' # "ready" => UNCHANGED T!vars
  BY Zenon DEF T!vars, PageShown, RowShown, ColumnShown
<1>3. CASE init \/ clear_screen
  <2>1. pc \in {"start", "init"} /\ pc' \in {"init", "cleared"}
    BY <1>3 DEF init, clear_screen
  <2> QED BY <1>2, <2>1, Zenon DEF Grid
<1>4. CASE welcome_style
  <2>1. pc = "cleared" /\ pc' = "welcome" /\ todo' = Welcome
    BY <1>4 DEF welcome_style
  <2>2. Welcome # <<>> /\ as_u8(Welcome[Len(Welcome)]) = NEWLINE
    BY ScreenAssumption, Zenon
  <2> QED BY <1>2, <2>1, <2>2 DEF Grid
<1>5. CASE reset_style
  BY <1>1, <1>5, ResetRefines, Zenon DEF T!Next
<1>6. CASE write_str
  <2>1. /\ todo # <<>> /\ writer' = write_byte(writer, as_u8(Head(todo))) /\ todo' = Tail(todo)
        /\ pc' = pc /\ top' = top /\ pc \in {"welcome", "ready"} /\ todo \in Seq(Chars)
    BY <1>6 DEF write_str, IInv, TypeOK
  <2>2. Head(todo) \in Chars
    BY <2>1
  <2>3. CASE pc = "ready"
    BY <2>1, <2>2, <2>3, WriteRefines
  <2>4. CASE pc = "welcome"
    <3>1. as_u8(todo[Len(todo)]) = NEWLINE
      BY <2>1, <2>4 DEF Grid
    <3>2. ASSUME Tail(todo) = <<>> PROVE writer'.x_pos = 0
      <4>1. as_u8(Head(todo)) = NEWLINE
        BY <2>1, <3>1, <3>2, LastOfTail, SMT, SMTT(60)
      <4>2. Sound(writer) /\ Placed(writer)
        BY <2>4 DEF IInv, TypeOK, StoresInside, LineOnScreen, Sound, Placed
      <4> QED BY <2>1, <4>1, <4>2, NewlineReturns
    <3>3. ASSUME Tail(todo) # <<>> PROVE as_u8(todo'[Len(todo')]) = NEWLINE
      BY <2>1, <3>1, <3>3, LastOfTail, SMT, SMTT(60)
    <3>4. Grid'
      BY <2>1, <2>4, <3>2, <3>3, SMT, SMTT(60) DEF Grid
    <3> QED BY <1>2, <2>1, <2>4, <3>4
  <2> QED BY <2>1, <2>3, <2>4
<1>7. ASSUME NEW s \in Texts, _print(s) PROVE Grid' /\ [T!Next]_(T!vars)
  <2>1. writer' = writer /\ pc' = pc /\ top' = top /\ pc = "ready"
    BY <1>7, SMT, SMTT(60) DEF _print
  <2>2. UNCHANGED T!vars
    BY <2>1 DEF T!vars, PageShown, RowShown, ColumnShown, PageRows, PageColumns, CellAt
  <2> QED BY <2>1, <2>2 DEF Grid
<1>8. ASSUME NEW c \in Chars, print_char(c) PROVE Grid' /\ [T!Next]_(T!vars)
  <2>1. pc = "ready" /\ pc' = "ready" /\ top' = top /\ writer' = write_byte(writer, as_u8(c))
    BY <1>8 DEF print_char
  <2> QED BY <2>1, WriteRefines
<1>9. CASE UNCHANGED vars
  <2>1. UNCHANGED T!vars
    BY <1>9 DEF vars, T!vars, PageShown, RowShown, ColumnShown, PageRows, PageColumns, CellAt
  <2> QED BY <1>9, <2>1, Zenon DEF vars, Grid
<1> QED BY <1>3, <1>4, <1>5, <1>6, <1>7, <1>8, <1>9, Zenon DEF Next

\* On every screen of the assumption, what reset_style, print! and the system call write
\* leave on it, read as characters, is the page of a text console: characters fill it from
\* left to right, a full line goes on on the next, and a full page loses its top line.
THEOREM ScreenRefinement == Spec => ImplementsTerminal
<1>1. Init => IInv /\ Inked /\ Grid
  BY InitIInv, InitInked, Zenon DEF Init, Grid
<1>2. IInv /\ Inked /\ Grid /\ [Next]_vars => (IInv /\ Inked /\ Grid)' /\ [T!Next]_(T!vars)
  BY NextIInv, NextInked, NextRefines, SMT, SMTT(60)
<1>3. Init => T!Init
  BY DEF Init, T!Init, T!Off, PageShown, RowShown, ColumnShown
<1> QED BY <1>1, <1>2, <1>3, PTL DEF Spec, ImplementsTerminal, T!Spec
=============================================================================
