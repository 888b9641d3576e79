------------------------------- MODULE MCBoot -------------------------------
(* Boot on machines with a device region at varying heights, so that the   *)
(* pool suffices or runs dry in each of the mapping loops, and on machines *)
(* with too little memory for one of the loader's allocations.             *)
EXTENDS Boot

MCKernel == <<[virt |-> 480, pages |-> 1, writable |-> FALSE],
              [virt |-> 481, pages |-> 2, writable |-> TRUE]>>

Rip == 2                            \* where the loader runs
Tops == {32, 47, 95, 160}           \* the end of memory, with the device region
Screens == {1, 5}                   \* pages of the screen
EnoughRam == 31                     \* pages of low memory
ScarceRam == {10, 22, 25, 26, 27}   \* the pool, a segment, the map, ... does not fit

MCMem(ram, top) ==
  [f \in (0 .. ram - 1) \cup {top - 1} |->
     IF f >= ram THEN 0
     ELSE IF f = Rip THEN LOADER_CODE
     ELSE IF f = ram - 1 THEN BOOT_SERVICES_DATA ELSE CONVENTIONAL]

MCMachine(ram, top, n, d) ==
  [mem |-> MCMem(ram, top), top |-> top, rip |-> Rip, fb_phys |-> top - 1, fb_pages |-> n,
   top_down |-> d]

MCMachines ==
  {MCMachine(EnoughRam, top, n, d) : top \in Tops, n \in Screens, d \in BOOLEAN}
  \cup {MCMachine(ram, 32, 1, d) : ram \in ScarceRam, d \in BOOLEAN}
=============================================================================
