------------------------------- MODULE Screen -------------------------------
(***************************************************************************)
(* The frame buffer console (src/kernel/src/screen.rs) as _start and the   *)
(* system calls use it: the cursor, scale and colours of the writer, and   *)
(* every word of the frame buffer.  A colour is the three bytes of its     *)
(* word, highest first.  WRITER is held with interrupts off, so a call is  *)
(* one step, and a longer text one step per character.                     *)
(***************************************************************************)
EXTENDS Integers, Sequences

CONSTANTS FONT,     \* FONT_WIDTH and FONT_HEIGHT (8 in the code)
          Infos,    \* the frame buffers the firmware may offer
          Glyph,    \* BASIC_FONTS: code below 128 -> lit <<column, row>>
          Chars,    \* the characters that are printed
          Texts,    \* the strings the kernel prints
          Welcome   \* the first of them

VARIABLES writer,   \* the FrameBufferWriter, with the memory it writes to
          pc,       \* how far _start has come
          todo,     \* what write_str has still to write
          top       \* history: the line that reset_style left the cursor on

vars == <<writer, pc, todo, top>>

BLACK == <<0, 0, 0>>
WHITE == <<255, 255, 255>>
BLUE == <<0, 0, 255>>
RED == <<255, 0, 0>>
Colors == {BLACK, WHITE, BLUE, RED}

NEWLINE == 10
as_u8(c) == c % 256
HasGlyph(b) == b < 128

(***************************************************************************)
(* A row of the firmware's mode is at least as long as it is wide, and the *)
(* largest character the kernel draws, of scale 3, fits on the screen.  A  *)
(* glyph lies in its cell, and println! ends the welcome line.             *)
(***************************************************************************)
ASSUME ScreenAssumption ==
  /\ FONT \in Nat \ {0}
  /\ Chars \subseteq Nat /\ Texts \subseteq Seq(Chars) /\ Welcome \in Seq(Chars)
  /\ Welcome # <<>> /\ as_u8(Welcome[Len(Welcome)]) = NEWLINE
  /\ Glyph \in [0 .. 127 -> SUBSET ((0 .. FONT - 1) \X (0 .. FONT - 1))]
  /\ \A i \in Infos :
       /\ i.width \in Nat /\ i.height \in Nat /\ i.stride \in Nat
       /\ i.width >= 3 * FONT /\ i.height >= 3 * FONT /\ i.stride >= i.width
       /\ i.format \in {"RGB", "BGR"}

-----------------------------------------------------------------------------
(* The operations of FrameBufferWriter: each takes a writer and answers it. *)

scaled(w) == FONT * w.scale
At(w, x, y) == y * w.info.stride + x
Columns(w) == 0 .. w.info.width - 1
Rows(w) == 0 .. w.info.height - 1

convert_color(w, color) ==
  IF w.info.format = "RGB" THEN <<color[3], color[2], color[1]>> ELSE color

set_scale(w, scale) == [w EXCEPT !.scale = scale]
set_text_color(w, color) == [w EXCEPT !.text_color = convert_color(w, color)]
set_background_color(w, color) == [w EXCEPT !.bg_color = convert_color(w, color)]

\* Memory after the words px are stored; stray records a store outside the frame buffer.
Store(w, px) ==
  [w EXCEPT !.fb = [a \in DOMAIN w.fb |-> IF a \in DOMAIN px THEN px[a] ELSE w.fb[a]],
            !.stray = @ \/ ~(DOMAIN px \subseteq DOMAIN w.fb)]

clear(w, color) ==
  LET px == [a \in {At(w, x, y) : x \in Columns(w), y \in Rows(w)} |-> convert_color(w, color)]
  IN  [Store(w, px) EXCEPT !.x_pos = 0, !.y_pos = 0]

\* mutant: the rows are taken to be as long as the screen is wide
ScrollByWidth(w) ==
  LET copy_len == (w.info.height - scaled(w)) * w.info.width
      px == [a \in 0 .. w.info.height * w.info.width - 1 |->
               IF a < copy_len THEN w.fb[a + w.info.width * scaled(w)] ELSE w.bg_color]
  IN  Store(w, px)

\* mutant: the last line is not blanked
ScrollKeepsBottom(w) ==
  LET copy_len == (w.info.height - scaled(w)) * w.info.stride
  IN  Store(w, [a \in 0 .. copy_len - 1 |-> w.fb[a + w.info.stride * scaled(w)]])

\* mutant: the copy goes one row further
ScrollPastEnd(w) ==
  LET copy_len == (w.info.height - scaled(w) + 1) * w.info.stride
      px == [a \in 0 .. (w.info.height + 1) * w.info.stride - 1 |->
               IF a < copy_len /\ a + w.info.stride * scaled(w) \in DOMAIN w.fb
               THEN w.fb[a + w.info.stride * scaled(w)] ELSE w.bg_color]
  IN  Store(w, px)

\* All words of the buffer, the padding of the rows included.  height - scaled does not
\* wrap: a character is no higher than the screen.
scroll_up(w) ==
  LET copy_len == (w.info.height - scaled(w)) * w.info.stride
      px == [a \in 0 .. w.info.height * w.info.stride - 1 |->
               IF a < copy_len THEN w.fb[a + w.info.stride * scaled(w)] ELSE w.bg_color]
  IN  Store(w, px)

\* mutant: the test leaves out the height of the new line
NewLineChecksTop(w) ==
  LET v == [w EXCEPT !.x_pos = 0, !.y_pos = @ + scaled(w)]
  IN  IF v.y_pos > v.info.height
      THEN [scroll_up(v) EXCEPT !.y_pos = @ - scaled(w)] ELSE v

new_line(w) ==
  LET v == [w EXCEPT !.x_pos = 0, !.y_pos = @ + scaled(w)]
  IN  IF v.y_pos + scaled(w) > v.info.height
      THEN [scroll_up(v) EXCEPT !.y_pos = @ - scaled(w)] ELSE v

\* The part of a character's cell at x, y that is on the screen; a character without a
\* glyph leaves its cell as it is.
draw_char(w, x, y, b) ==
  LET cell == {At(w, dx, dy) : dx \in Columns(w) \cap (x .. x + scaled(w) - 1),
                               dy \in Rows(w) \cap (y .. y + scaled(w) - 1)}
      bit(a) == <<((a % w.info.stride) - x) \div w.scale, ((a \div w.info.stride) - y) \div w.scale>>
      px == [a \in cell |-> IF bit(a) \in Glyph[b] THEN w.text_color ELSE w.bg_color]
  IN  IF HasGlyph(b) THEN Store(w, px) ELSE w

\* Blanks the line from the cursor on, then feeds.
fill_remainder(w) ==
  LET rest == {At(w, dx, dy) : dx \in w.x_pos .. w.info.width - 1,
                               dy \in Rows(w) \cap (w.y_pos .. w.y_pos + scaled(w) - 1)}
  IN  new_line(Store(w, [a \in rest |-> w.bg_color]))

write_byte(w, b) ==
  IF b = NEWLINE THEN fill_remainder(w)
  ELSE LET v == IF w.x_pos + scaled(w) > w.info.width THEN new_line(w) ELSE w
       IN  [draw_char(v, v.x_pos, v.y_pos, b) EXCEPT !.x_pos = @ + scaled(w)]

-----------------------------------------------------------------------------
(* _start and the callers of the console. *)

\* What the firmware left in the frame buffer is black here.
Init ==
  /\ \E i \in Infos :
       writer = [info |-> i, x_pos |-> 0, y_pos |-> 0, scale |-> 0,
                 text_color |-> BLACK, bg_color |-> BLACK,
                 fb |-> [a \in 0 .. i.height * i.stride - 1 |-> BLACK], stray |-> FALSE]
  /\ pc = "start" /\ todo = <<>> /\ top = 0

\* WRITER is None until here.
init ==
  /\ pc = "start" /\ pc' = "init"
  /\ writer' = [info |-> writer.info, x_pos |-> 0, y_pos |-> 0, scale |-> 2,
                text_color |-> WHITE, bg_color |-> BLUE, fb |-> writer.fb, stray |-> writer.stray]
  /\ UNCHANGED <<todo, top>>

clear_screen ==
  /\ pc = "init" /\ pc' = "cleared"
  /\ writer' = clear(writer, BLUE)
  /\ UNCHANGED <<todo, top>>

welcome_style ==
  /\ pc = "cleared" /\ pc' = "welcome"
  /\ writer' = set_text_color(set_scale(writer, 3), RED)
  /\ todo' = Welcome /\ top' = top

reset_style ==
  /\ pc = "welcome" /\ todo = <<>> /\ pc' = "ready"
  /\ writer' = set_background_color(set_scale(set_text_color(writer, WHITE), 2), BLUE)
  /\ top' = writer.y_pos /\ todo' = todo

\* _print: write_fmt takes the lock once and writes the pieces of the text.
_print(s) ==
  /\ pc = "ready" /\ todo = <<>> /\ todo' = s
  /\ UNCHANGED <<writer, pc, top>>

write_str ==
  /\ todo # <<>>
  /\ writer' = write_byte(writer, as_u8(Head(todo))) /\ todo' = Tail(todo)
  /\ UNCHANGED <<pc, top>>

\* The system call write prints its characters one by one.
print_char(c) ==
  /\ pc = "ready" /\ todo = <<>>
  /\ writer' = write_byte(writer, as_u8(c))
  /\ UNCHANGED <<pc, todo, top>>

Next ==
  \/ init \/ clear_screen \/ welcome_style \/ reset_style \/ write_str
  \/ \E s \in Texts : _print(s)
  \/ \E c \in Chars : print_char(c)

Spec == Init /\ [][Next]_vars

-----------------------------------------------------------------------------
\* Type invariant.
Picture(i) == [0 .. i.height * i.stride - 1 -> Colors]
FrameBufferWriter(i) ==
  [info : {i}, x_pos : Nat, y_pos : Nat, scale : {0, 2, 3}, text_color : Colors,
   bg_color : Colors, fb : Picture(i), stray : BOOLEAN]
TypeOK ==
  /\ writer.info \in Infos /\ writer \in FrameBufferWriter(writer.info)
  /\ pc \in {"start", "init", "cleared", "welcome", "ready"}
  /\ todo \in Seq(Chars) /\ top \in Nat

\* No store of clear, scroll_up, draw_char or fill_remainder falls outside the frame buffer,
\* whatever is printed and however long its rows are: they go through raw pointers.
StoresInside == ~writer.stray

\* The line the cursor is on lies wholly on the screen, also after the welcome line of
\* scale 3 and the smaller scale that reset_style sets: new_line never leaves it where
\* draw_char would clip a character away.
LineOnScreen ==
  pc # "start" =>
    /\ writer.y_pos + scaled(writer) <= writer.info.height
    /\ writer.x_pos <= writer.info.width

\* Nothing is left of an older text right of the cursor or below its line, where the next
\* characters go: wrapping does not blank the end of a line, and a character without a
\* glyph blanks nothing.
NoStaleText ==
  pc = "ready" =>
    \A x \in Columns(writer), y \in Rows(writer) :
      (y >= writer.y_pos + scaled(writer) \/ (y >= writer.y_pos /\ x >= writer.x_pos)) =>
         writer.fb[At(writer, x, y)] # writer.text_color

\* The pixels from the line where reset_style left the cursor on, read as characters, are
\* the page of a text console: write_byte, new_line and scroll_up together implement it.
CellAt(r, c) ==
  {p \in (0 .. FONT - 1) \X (0 .. FONT - 1) :
     \A sx, sy \in 0 .. writer.scale - 1 :
       writer.fb[At(writer, c * scaled(writer) + p[1] * writer.scale + sx,
                            top + r * scaled(writer) + p[2] * writer.scale + sy)]
         = writer.text_color}
PageRows == (writer.info.height - top) \div scaled(writer)
PageColumns == writer.info.width \div scaled(writer)
PageShown ==
  IF pc # "ready" THEN <<>>
  ELSE [r \in 1 .. PageRows |-> [c \in 1 .. PageColumns |-> CellAt(r - 1, c - 1)]]
RowShown == IF pc # "ready" THEN 1 ELSE 1 + (writer.y_pos - top) \div scaled(writer)
ColumnShown == IF pc # "ready" THEN 0 ELSE writer.x_pos \div scaled(writer)

Shapes == {Glyph[b] : b \in {as_u8(c) : c \in Chars} \cap 0 .. 127} \cup {{}}
T == INSTANCE Terminal WITH Shapes <- Shapes, Blank <- {},
       page <- PageShown, row <- RowShown, col <- ColumnShown
ImplementsTerminal == T!Spec

\* What is printed can be told from its background.
Legible == pc \in {"welcome", "ready"} => writer.text_color # writer.bg_color
=============================================================================
