----------------------------- MODULE UserMemory -----------------------------
(***************************************************************************)
(* The memory system calls of src/kernel/src/syscalls.rs: brk, mmap and    *)
(* the stubs munmap, mprotect and madvise.  mmap advances a cursor through *)
(* a pool that the ELF loader mapped in advance, brk moves the break over  *)
(* a heap that it mapped in advance.  Addresses and lengths are machine    *)
(* words: their sums wrap at U64.                                          *)
(***************************************************************************)
EXTENDS Integers, Sequences

CONSTANTS PAGE_SIZE,                 \* 0x1000
          U64,                       \* 2^64
          MMAP_START, MMAP_END,      \* the pool the loader maps
          HEAP_START, HEAP_END,      \* the heap the loader maps; brk starts at HEAP_START
          Addrs, Lengths,            \* the arguments the user program passes
          MaxBlocks                  \* bound on the blocks taken from the pool

ASSUME UserMemoryAssumption ==
  /\ PAGE_SIZE \in Nat \ {0} /\ U64 \in Nat \ {0}
  /\ MMAP_START \in Nat /\ MMAP_END \in Nat
  /\ U64 % PAGE_SIZE = 0 /\ MMAP_START % PAGE_SIZE = 0
  /\ MMAP_START <= MMAP_END /\ MMAP_END < U64
  /\ HEAP_START \in Nat /\ HEAP_END \in Nat /\ HEAP_START <= HEAP_END /\ HEAP_END < U64
  /\ Addrs \subseteq 0 .. U64 - 1 /\ Lengths \subseteq 0 .. U64 - 1
  /\ MaxBlocks \in Nat

VARIABLES CURRENT_BRK, MMAP_NEXT,
          result,      \* the value of the latest call
          blocks       \* the non-empty blocks taken from the pool, in order

memory_vars == <<CURRENT_BRK, MMAP_NEXT, result, blocks>>

MemoryInit ==
  /\ CURRENT_BRK = HEAP_START /\ MMAP_NEXT = MMAP_START
  /\ result = 0 /\ blocks = <<>>

ENOMEM == -12

\* u64 as i64
as_i64(x) == IF 2 * x < U64 THEN x ELSE x - U64

\* All three branches for a non-zero address (in range, below the break, above it)
\* accept the address.
sys_brk(addr) ==
  /\ CURRENT_BRK' = IF addr = 0 THEN CURRENT_BRK ELSE addr
  /\ result' = as_i64(CURRENT_BRK')
  /\ UNCHANGED <<MMAP_NEXT, blocks>>

\* mutant: the length is rounded down
AlignDown(length) == (length \div PAGE_SIZE) * PAGE_SIZE

\* (length + 0xFFF) & !0xFFF, in 64 bits
aligned_len(length) == (((length + PAGE_SIZE - 1) % U64) \div PAGE_SIZE) * PAGE_SIZE

\* An address of a page or more is taken as a fixed mapping.
mmap_fixed(addr, length) ==
  /\ addr # 0 /\ addr >= PAGE_SIZE
  /\ result' = as_i64(addr)
  /\ UNCHANGED <<CURRENT_BRK, MMAP_NEXT, blocks>>

\* The bound: a length that wraps can move the cursor back, so the pool may never fill up.
RoomFor(length) == length = 0 \/ Len(blocks) < MaxBlocks

\* mutant: the room left is checked before the block is added
MmapChecksCursor(addr, length) ==
  /\ ~(addr # 0 /\ addr >= PAGE_SIZE)
  /\ \/ /\ MMAP_NEXT > MMAP_END
        /\ result' = ENOMEM
        /\ UNCHANGED <<MMAP_NEXT, blocks>>
     \/ /\ MMAP_NEXT <= MMAP_END
        /\ MMAP_NEXT' = (MMAP_NEXT + aligned_len(length)) % U64
        /\ result' = as_i64(MMAP_NEXT)
        /\ RoomFor(length)
        /\ blocks' = IF length = 0 THEN blocks
                     ELSE Append(blocks, [start |-> MMAP_NEXT, len |-> length])
  /\ UNCHANGED CURRENT_BRK

mmap_pool(addr, length) ==
  LET next == (MMAP_NEXT + aligned_len(length)) % U64
  IN  /\ ~(addr # 0 /\ addr >= PAGE_SIZE)
      /\ \/ /\ next > MMAP_END
            /\ result' = ENOMEM
            /\ UNCHANGED <<MMAP_NEXT, blocks>>
         \/ /\ next <= MMAP_END
            /\ MMAP_NEXT' = next
            /\ result' = as_i64(MMAP_NEXT)
            /\ RoomFor(length)
            /\ blocks' = IF length = 0 THEN blocks
                         ELSE Append(blocks, [start |-> MMAP_NEXT, len |-> length])
      /\ UNCHANGED CURRENT_BRK

\* flags and prot are ignored
sys_mmap(addr, length) == mmap_fixed(addr, length) \/ mmap_pool(addr, length)

\* munmap, mprotect and madvise answer 0 and do nothing.
sys_munmap(addr, length) ==
  /\ result' = 0
  /\ UNCHANGED <<CURRENT_BRK, MMAP_NEXT, blocks>>

MemoryNext ==
  \/ \E addr \in Addrs : sys_brk(addr)
  \/ \E addr \in Addrs, length \in Lengths : sys_mmap(addr, length) \/ sys_munmap(addr, length)

MemorySpec == MemoryInit /\ [][MemoryNext]_memory_vars

-----------------------------------------------------------------------------
\* Type invariant: the cursor never passes the end of the pool.
MemoryTypeOK ==
  /\ CURRENT_BRK \in 0 .. U64 - 1 /\ MMAP_NEXT \in 0 .. MMAP_END
  /\ result \in Int
  /\ blocks \in Seq([start : 0 .. MMAP_END, len : Lengths])

\* sys_mmap's sums, of the length and a page and of the cursor and the aligned length, wrap
\* for a block that reaches the last page of the 64-bit range.  No check stops them.
Wraps(block) == block.start + block.len + PAGE_SIZE - 1 >= U64
NoWrap(i, j) == \A k \in i .. j : ~Wraps(blocks[k])

\* Two blocks that mmap takes from the pool share no byte, and each starts on a page of
\* its own: MMAP_NEXT moves past the whole block that sys_mmap answers, whatever lengths
\* wrapped before the first of the two or at the second.
PoolBlocksDisjoint ==
  /\ \A i \in 1 .. Len(blocks) : blocks[i].start % PAGE_SIZE = 0
  /\ \A i, j \in 1 .. Len(blocks) :
       i < j /\ NoWrap(i, j - 1) => blocks[i].start + blocks[i].len <= blocks[j].start

\* A block whose sums do not wrap ends inside the pool that the ELF loader mapped, even
\* after one that wrapped, and until one wraps the blocks start inside it too.
BlocksInPool ==
  \A i \in 1 .. Len(blocks) :
    /\ ~Wraps(blocks[i]) => blocks[i].start + blocks[i].len <= MMAP_END
    /\ NoWrap(1, i - 1) => MMAP_START <= blocks[i].start

\* Every block taken from the pool lies in the range that the ELF loader mapped, as the
\* comment on sys_mmap says: it "returns addresses from a pre-allocated pool".
AddressesFromPool ==
  \A i \in 1 .. Len(blocks) :
    /\ MMAP_START <= blocks[i].start
    /\ blocks[i].start + blocks[i].len <= MMAP_END

\* A break that brk grants is one the loader mapped the heap for: FEATURES.md says of brk
\* and mmap "Heap/Mmap pool pre-mapped".
BreakIsPremapped == CURRENT_BRK <= HEAP_END
=============================================================================
