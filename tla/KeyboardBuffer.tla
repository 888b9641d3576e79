--------------------------- MODULE KeyboardBuffer ---------------------------
(***************************************************************************)
(* The ring of scancodes of src/kernel/src/interrupts.rs.  The keyboard    *)
(* handler adds with interrupts already off, pop_scancode turns them off   *)
(* around its critical section, so each operation is one step.  head = tail*)
(* means empty, so one slot always stays unused.                           *)
(***************************************************************************)
EXTENDS Integers, Sequences

CONSTANTS BUFFER_SIZE,   \* slots of the ring (64 in the code)
          Scancodes,     \* the bytes port 0x60 may deliver
          None           \* pop_scancode's answer when the ring is empty

ASSUME BufferAssumption ==
  /\ BUFFER_SIZE \in Nat \ {0}
  /\ 0 \in Scancodes           \* the ring is zero-initialised

VARIABLES buffer, head, tail,
          popped               \* the latest answer of pop_scancode

kbvars == <<buffer, head, tail, popped>>

KbInit ==
  /\ buffer = [i \in 0 .. BUFFER_SIZE - 1 |-> 0]
  /\ head = 0 /\ tail = 0
  /\ popped = None

\* mutant: the ring is only full when every slot is taken
AddNoGap(s) ==
  /\ buffer' = [buffer EXCEPT ![head] = s]
  /\ head' = (head + 1) % BUFFER_SIZE
  /\ UNCHANGED <<tail, popped>>

add_scancode(s) ==
  LET next_head == (head + 1) % BUFFER_SIZE
  IN  /\ IF next_head # tail
         THEN buffer' = [buffer EXCEPT ![head] = s] /\ head' = next_head
         ELSE UNCHANGED <<buffer, head>>
      /\ UNCHANGED <<tail, popped>>

pop_scancode ==
  /\ IF head = tail
     THEN popped' = None /\ UNCHANGED tail
     ELSE popped' = buffer[tail] /\ tail' = (tail + 1) % BUFFER_SIZE
  /\ UNCHANGED <<buffer, head>>

KbNext == pop_scancode \/ \E s \in Scancodes : add_scancode(s)

KbSpec == KbInit /\ [][KbNext]_kbvars

-----------------------------------------------------------------------------
\* Type invariant: both indices stay inside the array.
KbTypeOK ==
  /\ buffer \in [0 .. BUFFER_SIZE - 1 -> Scancodes]
  /\ head \in 0 .. BUFFER_SIZE - 1
  /\ tail \in 0 .. BUFFER_SIZE - 1
  /\ popped \in Scancodes \cup {None}

\* The waiting scancodes, oldest first.
Waiting == [i \in 1 .. (head - tail) % BUFFER_SIZE |-> buffer[(tail + i - 1) % BUFFER_SIZE]]

Fifo == INSTANCE BoundedFifo
          WITH Capacity <- BUFFER_SIZE - 1, Items <- Scancodes, queue <- Waiting

\* The ring is a bounded FIFO of BUFFER_SIZE - 1 scancodes: an add to a full ring drops
\* the new scancode and touches nothing that waits, wherever the indices have wrapped to.
ImplementsFifo == Fifo!Spec
=============================================================================
