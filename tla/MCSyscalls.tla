----------------------------- MODULE MCSyscalls -----------------------------
(* Syscalls for a program that prints ASCII, two-byte characters and       *)
(* halves of them, and passes NULL, overlapping and unmapped addresses.    *)
EXTENDS Syscalls

Whole == <<195, 169>>       \* U+00E9
Wide == <<197, 130>>        \* U+0142, above 255

MCBufs == {<<>>, <<97>>, <<98, 10>>, Whole, Wide, <<195>>, <<169>>}
MCVectors == {<<>>, << <<97>>, <<98, 10>> >>, << <<195>>, <<169>> >>, << <<>>, Whole, <<97>> >>}
MCBases == {<<5, 0>>, <<0, 9>>}
MCCanonical == {<<5, 0>>}
=============================================================================
