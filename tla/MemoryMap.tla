----------------------------- MODULE MemoryMap -----------------------------
(***************************************************************************)
(* What the boot loader and the kernel's frame allocator share: the UEFI   *)
(* memory map and the part of shared::BootInfo that describes it.  Boot    *)
(* shows that what the loader hands over is WellFormed, Pmm assumes it.    *)
(***************************************************************************)
EXTENDS Integers, Sequences

CONSTANT PAGE_SIZE    \* bytes per frame (4096 in the code)

CONVENTIONAL == 7

MemoryDescriptor == [type_ : Nat, phys_start : Nat, page_count : Nat]

FramesFrom(start_addr, page_count) ==
  {start_addr \div PAGE_SIZE + i : i \in 0 .. page_count - 1}

FramesOf(desc) == FramesFrom(desc.phys_start, desc.page_count)

(***************************************************************************)
(* Descriptors are page aligned, do not overlap and end below              *)
(* max_phys_memory, and there is at least one page of memory.              *)
(***************************************************************************)
WellFormed(b) ==
  /\ b.memory_map \in Seq(MemoryDescriptor)
  /\ b.max_phys_memory \in Nat
  /\ b.max_phys_memory >= PAGE_SIZE
  /\ \A i \in DOMAIN b.memory_map :
       LET d == b.memory_map[i] IN
       /\ d.phys_start % PAGE_SIZE = 0
       /\ d.phys_start + d.page_count * PAGE_SIZE <= b.max_phys_memory
       /\ \A j \in DOMAIN b.memory_map \ {i} :
            FramesOf(d) \cap FramesOf(b.memory_map[j]) = {}
=============================================================================
