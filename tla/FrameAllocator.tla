--------------------------- MODULE FrameAllocator ---------------------------
(***************************************************************************)
(* What a physical frame allocator promises its callers: once it has been  *)
(* given its frames it hands each of them out at most once, never anything *)
(* else, and says None only when none is left.  Nothing in the kernel ever *)
(* gives a frame back.                                                     *)
(*                                                                         *)
(* Abstract specification of the FrameAllocator trait of the x86_64 crate  *)
(* as the kernel's bitmap allocator (Pmm) provides it.                     *)
(***************************************************************************)
CONSTANTS Addresses,   \* physical addresses a frame may have
          None         \* the answer "no frame left"

VARIABLES granted,     \* TRUE once the allocator owns its frames
          free,        \* addresses of the frames it may still hand out
          result       \* what the latest allocate_frame returned

vars == <<granted, free, result>>

Init == granted = FALSE /\ free = {} /\ result = None

\* The allocator is given its frames, once.
Grant ==
  /\ ~granted
  /\ granted' = TRUE
  /\ free' \in SUBSET Addresses
  /\ UNCHANGED result

Allocate ==
  \E a \in free :
    /\ result' = a
    /\ free' = free \ {a}
    /\ UNCHANGED granted

Exhausted ==
  /\ free = {}
  /\ result' = None
  /\ UNCHANGED <<granted, free>>

Next == Grant \/ Allocate \/ Exhausted

Spec == Init /\ [][Next]_vars
=============================================================================
