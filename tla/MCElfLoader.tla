----------------------------- MODULE MCElfLoader -----------------------------
(***************************************************************************)
(* Small programs for ElfLoader: pages of two bytes and words of one, a    *)
(* PIE based at page 2, the pool at pages 8-9, a stack of the 32 words     *)
(* that setup_user_stack reserves.                                         *)
(***************************************************************************)
EXTENDS ElfLoader

Load_(offset, vaddr, filesz, memsz, write, exec) ==
  [load |-> TRUE, offset |-> offset, vaddr |-> vaddr, filesz |-> filesz, memsz |-> memsz,
   write |-> write, exec |-> exec]
Note_ == [load |-> FALSE, offset |-> 0, vaddr |-> 0, filesz |-> 3, memsz |-> 3,
          write |-> FALSE, exec |-> FALSE]

Program(pie, entry, headers) == [pie |-> pie, entry |-> entry, phoff |-> 1, headers |-> headers]

Kernel_ == [first |-> 50, last |-> 51]
Pool_ == [first |-> 8, last |-> 9]
Brk_ == [first |-> 12, last |-> 13]
Stack_ == [first |-> 30, last |-> 45]

\* Text and data at all small offsets of each other, with and without bss, sharing a page
\* when gap makes them.
PieOf(textlen, gap, filesz, bss) ==
  Program(TRUE, 1,
    <<Load_(0, 0, textlen, textlen, FALSE, TRUE), Note_,
      Load_(textlen, textlen + gap, filesz, filesz + bss, TRUE, FALSE)>>)

Pies == {PieOf(t, g, f, b) : t \in 2 .. 4, g \in 0 .. 3, f \in 0 .. 3, b \in 0 .. 2}

\* An empty segment, one that reaches the pool, a static program on the stack, and a
\* segment that is longer in the file than in memory.
Odd ==
  {Program(TRUE, 1, <<Load_(0, 0, 2, 2, FALSE, TRUE), Load_(2, 4, 0, 0, TRUE, FALSE)>>),
   Program(TRUE, 1, <<Load_(0, 0, 2, 14, TRUE, TRUE)>>),
   Program(FALSE, 5, <<Load_(0, 4, 3, 4, FALSE, TRUE), Load_(3, 60, 1, 1, TRUE, FALSE)>>),
   Program(TRUE, 1, <<Load_(0, 0, 3, 2, FALSE, TRUE)>>)}

MCPrograms == Pies \cup Odd

\* Read-only text, then data that starts on the text's last page.
SharingPrograms == {PieOf(3, 0, 2, 0)}

\* A static executable linked at page 2.
StaticPrograms == {Program(FALSE, 5, <<Load_(0, 4, 3, 3, FALSE, TRUE)>>)}
=============================================================================
