------------------------------- MODULE MCPmm -------------------------------
(* Pmm on machines of up to two bitmap pages: three adjacent regions, each   *)
(* conventional (7) or loader data (2), optionally after an unreported hole. *)
EXTENDS Pmm

HUGE == 16 * PAGE_SIZE     \* max_phys_memory is rounded up to this (2 MiB in the code)
Lengths == {1, 2, 13}      \* pages per region
Holes == {0, 1}            \* pages below the first region

Regions == {7, 2} \X Lengths

MCMap(hole, r) ==
  LET start[i \in 1 .. 3] == IF i = 1 THEN hole ELSE start[i - 1] + r[i - 1][2]
  IN  [i \in 1 .. 3 |-> [type_ |-> r[i][1], phys_start |-> start[i] * PAGE_SIZE,
                         page_count |-> r[i][2]]]

MCBoot(map) ==
  LET end == map[3].phys_start + map[3].page_count * PAGE_SIZE
  IN  [memory_map |-> map, max_phys_memory |-> ((end + HUGE - 1) \div HUGE) * HUGE]

MCBootInfos == {MCBoot(MCMap(h, r)) : h \in Holes, r \in [1 .. 3 -> Regions]}
=============================================================================
