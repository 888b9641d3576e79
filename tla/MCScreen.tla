------------------------------ MODULE MCScreen ------------------------------
(* Screen with characters of 2 by 2 pixels: a screen of two and a bit by two and a bit   *)
(* characters of scale 2 with padded rows, one without padding on which the welcome line *)
(* itself scrolls, and one as small as the assumption allows.                            *)
EXTENDS Screen

MCInfos ==
  {[width |-> 9, height |-> 15, stride |-> 10, format |-> "BGR"],
   [width |-> 8, height |-> 9, stride |-> 8, format |-> "RGB"],
   [width |-> 6, height |-> 6, stride |-> 7, format |-> "BGR"]}
RGBInfos == {[width |-> 9, height |-> 15, stride |-> 9, format |-> "RGB"]}

\* A has a glyph without symmetry, B another; the other codes below 128 are blank.
MCGlyph ==
  [b \in 0 .. 127 |-> CASE b = 65 -> {<<0, 0>>, <<1, 0>>, <<0, 1>>}
                        [] b = 66 -> {<<1, 0>>}
                        [] OTHER -> {}]

\* A, newline, e acute (no glyph), and l with stroke, whose low byte is that of B
MCChars == {65, 10, 233, 322}
MCTexts == {<<65, 10>>, <<65, 65, 10, 233>>}
MCWelcome == <<65, 65, 10>>
=============================================================================
