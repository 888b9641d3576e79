------------------------------ MODULE ElfLoader ------------------------------
(***************************************************************************)
(* How the kernel builds the address space of the user program, from       *)
(* init_heap to enter_userspace: src/kernel/src/heap_allocator.rs and      *)
(* src/kernel/src/elf_loader.rs.  Each loop maps one page or copies one    *)
(* page's worth of bytes per step; every expect() on the way panics.  The  *)
(* frame allocator answers the lowest free frame (module Pmm); map_to and  *)
(* translate_page of the x86_64 crate are external, with the three lower   *)
(* levels of page tables folded into one.                                  *)
(***************************************************************************)
EXTENDS Integers, Sequences

CONSTANTS PAGE_SIZE,        \* bytes of a page (4096)
          WORD_SIZE,        \* bytes of a word (8)
          TABLE_PAGES,      \* pages that one page table covers (512)
          USER_BASE_ADDR,   \* where a PIE is loaded
          KernelHeap, Pool, BrkHeap, Stack,   \* page ranges, [first, last]
          BootPages,        \* pages the bootloader left mapped
          FrameCounts,      \* numbers of frames the allocator may have to give
          Programs          \* the user programs: [pie, entry, phoff, headers]

PageRange == [first : Nat, last : Nat]
Header == [load : BOOLEAN, offset : Nat, vaddr : Nat, filesz : Nat, memsz : Nat,
           write : BOOLEAN, exec : BOOLEAN]

ASSUME ElfLoaderAssumption ==
  /\ PAGE_SIZE \in Nat \ {0} /\ TABLE_PAGES \in Nat \ {0} /\ USER_BASE_ADDR \in Nat
  /\ {KernelHeap, Pool, BrkHeap, Stack} \subseteq PageRange
  /\ BootPages \subseteq Nat /\ FrameCounts \subseteq Nat
  /\ Programs \subseteq [pie : BOOLEAN, entry : Nat, phoff : Nat, headers : Seq(Header)]

\* KERNEL_HEAP_START is in the upper half of the address space.
ASSUME LayoutAssumption == \A r \in {Pool, BrkHeap, Stack} : r.last < KernelHeap.first

\* 256 bytes are reserved below the stack's top, and the stack pointer is aligned to 16.
STACK_WORDS == 32
stack_top == (Stack.last + 1) * PAGE_SIZE
sp == LET low == stack_top - STACK_WORDS * WORD_SIZE IN low - (low % (2 * WORD_SIZE))

\* The reserved words are on the stack, and no word crosses the end of a page.
ASSUME StackAssumption ==
  /\ WORD_SIZE \in Nat \ {0} /\ PAGE_SIZE % WORD_SIZE = 0
  /\ Stack.first * PAGE_SIZE <= sp

VARIABLES prog, free,
          pt,               \* page -> [frame, flags]
          tables,           \* index of a page table -> [frame, flags of its entry]
          mem,              \* frame -> offset -> byte
          phase, task, page, copied

vars == <<prog, free, pt, tables, mem, phase, task, page, copied>>
space == <<free, pt, tables, mem>>

\* Bytes: the offset in the ELF file they come from, or one of
ZERO == -1
JUNK == -2
StackByte(n) == -3 - n      \* byte n of the words that setup_user_stack stores

\* The frames of the pages and the page tables that the boot loader made are not among
\* those the allocator gives.
BootFrame(p) == -1 - 2 * p
BootTableFrame(t) == -2 - 2 * t

Offsets == 0 .. PAGE_SIZE - 1
PageOf(addr) == addr \div PAGE_SIZE
TableOf(p) == p \div TABLE_PAGES

Min(S) == CHOOSE x \in S : \A y \in S : x <= y
Put(f, k, v) == [x \in DOMAIN f \cup {k} |-> IF x = k THEN v ELSE f[x]]

-----------------------------------------------------------------------------
\* The loops that map pages: the range, the flags ("W" writable, "U" user accessible,
\* "NX" no execute; all are PRESENT), whether a mapped page is skipped, whether the new
\* page is zeroed, and the program header whose bytes are copied afterwards (or 0).
Task(range, flags, skip, zero, header) ==
  [first |-> range.first, last |-> range.last, flags |-> flags, skip |-> skip,
   zero |-> zero, header |-> header]

init_heap == Task(KernelHeap, {"W"}, FALSE, FALSE, 0)

base_addr == IF prog.pie THEN USER_BASE_ADDR ELSE 0

\* Headers other than LOAD and empty segments map nothing.
SegmentRange(ph) ==
  LET vaddr == base_addr + ph.vaddr
  IN  IF ph.load /\ ph.memsz # 0
      THEN [first |-> PageOf(vaddr), last |-> PageOf(vaddr + ph.memsz - 1)]
      ELSE [first |-> 1, last |-> 0]

\* mutant: every segment is mapped executable
SegmentFlagsExec(ph) == {"U"} \cup (IF ph.write THEN {"W"} ELSE {})

page_flags(ph) ==
  {"U"} \cup (IF ph.write THEN {"W"} ELSE {}) \cup (IF ph.exec THEN {} ELSE {"NX"})

\* mutant: the frames are not zeroed
SegmentNotZeroed(i) ==
  Task(SegmentRange(prog.headers[i]), page_flags(prog.headers[i]), TRUE, FALSE, i)

load_segment(i) ==
  Task(SegmentRange(prog.headers[i]), page_flags(prog.headers[i]), TRUE, TRUE, i)

\* mutant: the pool is mapped read-only
PoolFlagsReadOnly == {"U", "NX"}

pool_flags == {"U", "W", "NX"}

map_pool == Task(Pool, pool_flags, TRUE, TRUE, 0)
map_heap == Task(BrkHeap, pool_flags, TRUE, TRUE, 0)
map_stack == Task(Stack, {"U", "W", "NX"}, FALSE, TRUE, 0)

\* _start: init_heap, load_user_elf, setup_user_stack
Plan ==
  <<init_heap>> \o [i \in 1 .. Len(prog.headers) |-> load_segment(i)]
                \o <<map_pool, map_heap, map_stack>>

Init ==
  /\ prog \in Programs
  /\ \E n \in FrameCounts : free = 0 .. n - 1
  /\ pt = [p \in BootPages |-> [frame |-> BootFrame(p), flags |-> {"W"}]]
  /\ tables = [t \in {TableOf(p) : p \in BootPages} |->
                 [frame |-> BootTableFrame(t), flags |-> {"W"}]]
  /\ mem = [f \in free \cup {BootFrame(p) : p \in BootPages} |-> [o \in Offsets |-> JUNK]]
  /\ phase = "map" /\ task = 1 /\ page = KernelHeap.first /\ copied = 0

-----------------------------------------------------------------------------
T == Plan[task]
Mapping == phase = "map" /\ page <= T.last

panic == phase' = "panicked" /\ UNCHANGED <<prog, task, page, copied>>

\* translate_page(page).is_ok()
page_skipped ==
  /\ Mapping /\ T.skip /\ page \in DOMAIN pt
  /\ page' = page + 1
  /\ UNCHANGED <<prog, space, phase, task, copied>>

Wanted == Mapping /\ ~(T.skip /\ page \in DOMAIN pt)
TableMissing == TableOf(page) \notin DOMAIN tables

\* allocate_frame() has a frame for the page, and then one for a table that map_to needs.
EnoughFrames == free # {} /\ (TableMissing => free \ {Min(free)} # {})

\* One of the two calls answers None.
out_of_frames ==
  /\ Wanted
  /\ ~EnoughFrames
  /\ free' = {}
  /\ panic /\ UNCHANGED <<pt, tables, mem>>

\* The frame for the page is taken first, then one for the missing table; the flags of a
\* table's entry collect those of the pages below it.
TakeFrames ==
  LET t == TableOf(page)
      rest == free \ {Min(free)}
      parent == T.flags \cap {"W", "U"}
  IN  /\ EnoughFrames
      /\ free' = IF TableMissing THEN rest \ {Min(rest)} ELSE rest
      /\ tables' = IF TableMissing
                   THEN Put(tables, t, [frame |-> Min(rest), flags |-> parent])
                   ELSE Put(tables, t, [frame |-> tables[t].frame,
                                        flags |-> tables[t].flags \cup parent])

\* map_to: PageAlreadyMapped
already_mapped ==
  /\ Wanted /\ TakeFrames /\ page \in DOMAIN pt
  /\ panic /\ UNCHANGED <<pt, mem>>

\* mutant: the page's frame is not taken from the allocator
MapKeepsFrameFree ==
  /\ Wanted /\ TakeFrames /\ page \notin DOMAIN pt
  /\ pt' = Put(pt, page, [frame |-> 0, flags |-> T.flags])
  /\ mem' = IF T.zero THEN [mem EXCEPT ![Min(free)] = [o \in Offsets |-> ZERO]] ELSE mem
  /\ page' = page + 1
  /\ UNCHANGED <<prog, phase, task, copied>>

map_page ==
  /\ Wanted /\ TakeFrames /\ page \notin DOMAIN pt
  /\ pt' = Put(pt, page, [frame |-> Min(free), flags |-> T.flags])
  /\ mem' = IF T.zero THEN [mem EXCEPT ![Min(free)] = [o \in Offsets |-> ZERO]] ELSE mem
  /\ page' = page + 1
  /\ UNCHANGED <<prog, phase, task, copied>>

Segment == prog.headers[T.header]
NextTask == phase' = "map" /\ task' = task + 1 /\ page' = Plan[task + 1].first

range_mapped ==
  /\ phase = "map" /\ page > T.last
  /\ \/ /\ T.header # 0 /\ T.first <= T.last /\ Segment.filesz > 0
        /\ phase' = "copy" /\ UNCHANGED <<task, page>>
     \/ /\ ~(T.header # 0 /\ T.first <= T.last /\ Segment.filesz > 0)
        /\ task < Len(Plan) /\ NextTask
     \/ /\ task = Len(Plan) /\ phase' = "arguments" /\ UNCHANGED <<task, page>>
  /\ copied' = 0
  /\ UNCHANGED <<prog, space>>

current_vaddr == base_addr + Segment.vaddr + copied
Copying == phase = "copy" /\ copied < Segment.filesz

\* mutant: a page too few by one byte
CopyStalls ==
  LET page_offset == current_vaddr % PAGE_SIZE
      n == Min({PAGE_SIZE - page_offset - 1, Segment.filesz - copied})
  IN  /\ Copying /\ PageOf(current_vaddr) \in DOMAIN pt
      /\ mem' = [mem EXCEPT ![pt[PageOf(current_vaddr)].frame] =
                   [o \in Offsets |-> IF o \in page_offset .. page_offset + n - 1
                                      THEN Segment.offset + copied + (o - page_offset) ELSE @[o]]]
      /\ copied' = copied + n
      /\ UNCHANGED <<prog, free, pt, tables, phase, task, page>>

\* mutant: the offset in the first page is forgotten
CopyFromPageStart ==
  LET n == Min({PAGE_SIZE, Segment.filesz - copied})
  IN  /\ Copying /\ PageOf(current_vaddr) \in DOMAIN pt
      /\ mem' = [mem EXCEPT ![pt[PageOf(current_vaddr)].frame] =
                   [o \in Offsets |-> IF o < n THEN Segment.offset + copied + o ELSE @[o]]]
      /\ copied' = copied + n
      /\ UNCHANGED <<prog, free, pt, tables, phase, task, page>>

copy_page ==
  LET page_offset == current_vaddr % PAGE_SIZE
      bytes_in_page == Min({PAGE_SIZE - page_offset, Segment.filesz - copied})
  IN  /\ Copying /\ PageOf(current_vaddr) \in DOMAIN pt
      /\ mem' = [mem EXCEPT ![pt[PageOf(current_vaddr)].frame] =
                   [o \in Offsets |->
                      IF o \in page_offset .. page_offset + bytes_in_page - 1
                      THEN Segment.offset + copied + (o - page_offset) ELSE @[o]]]
      /\ copied' = copied + bytes_in_page
      /\ UNCHANGED <<prog, free, pt, tables, phase, task, page>>

\* translate_page(page).expect("Page should be mapped")
page_missing ==
  /\ Copying /\ PageOf(current_vaddr) \notin DOMAIN pt
  /\ panic /\ UNCHANGED space

segment_copied ==
  /\ phase = "copy" /\ copied >= Segment.filesz
  /\ NextTask
  /\ UNCHANGED <<prog, space, copied>>

-----------------------------------------------------------------------------
AT_NULL == 0
AT_PHDR == 3
AT_PHENT == 4
AT_PHNUM == 5
AT_PAGESZ == 6
AT_BASE == 7
AT_ENTRY == 9
AT_RANDOM == 25

phdr_addr == base_addr + prog.phoff
entry_addr == base_addr + prog.entry

\* mutant: the end of envp is not written
StackWordsNoEnvp ==
  <<0, 0, AT_PHDR, phdr_addr, AT_PHENT, 56, AT_PHNUM, Len(prog.headers),
    AT_PAGESZ, PAGE_SIZE, AT_BASE, 0, AT_ENTRY, entry_addr,
    AT_RANDOM, sp + 30 * WORD_SIZE, AT_NULL, 0>>

\* argc, the ends of argv and envp, and the auxiliary vector.  AT_RANDOM points to the last
\* two reserved words, sp + 240.
StackWords ==
  <<0, 0, 0, AT_PHDR, phdr_addr, AT_PHENT, 56, AT_PHNUM, Len(prog.headers),
    AT_PAGESZ, PAGE_SIZE, AT_BASE, 0, AT_ENTRY, entry_addr,
    AT_RANDOM, sp + 30 * WORD_SIZE, AT_NULL, 0>>

Arguments == 0 .. Len(StackWords) * WORD_SIZE - 1

\* The bytes that write_to_stack stores at an offset of a frame: those whose page is mapped
\* to it.  A page that translate_page does not find is passed over.
write_to_stack(frame, offset) ==
  {n \in Arguments : /\ (sp + n) % PAGE_SIZE = offset
                     /\ PageOf(sp + n) \in DOMAIN pt
                     /\ pt[PageOf(sp + n)].frame = frame}

setup_user_stack ==
  /\ phase = "arguments" /\ phase' = "enter"
  /\ mem' = [f \in DOMAIN mem |-> [o \in Offsets |->
               IF write_to_stack(f, o) = {} THEN mem[f][o]
               ELSE StackByte(CHOOSE n \in write_to_stack(f, o) : TRUE)]]
  /\ UNCHANGED <<prog, free, pt, tables, task, page, copied>>

enter_userspace ==
  /\ phase = "enter" /\ phase' = "user"
  /\ UNCHANGED <<prog, space, task, page, copied>>

Running == phase \in {"user", "panicked"} /\ UNCHANGED vars

Load ==
  \/ page_skipped \/ out_of_frames \/ already_mapped \/ map_page \/ range_mapped
  \/ copy_page \/ page_missing \/ segment_copied \/ setup_user_stack \/ enter_userspace

Next == Load \/ Running

Spec == Init /\ [][Next]_vars
FairSpec == Spec /\ WF_vars(Load)

-----------------------------------------------------------------------------
Loaded == phase \in {"arguments", "enter", "user"}

Pages(range) == range.first .. range.last
Loadable == {i \in 1 .. Len(prog.headers) : prog.headers[i].load /\ prog.headers[i].memsz # 0}
SegmentPages(i) == Pages(SegmentRange(prog.headers[i]))
ImagePages == UNION {SegmentPages(i) : i \in Loadable}

\* What the MMU grants: a page's own flags and those of the tables above it.
Allows(p, flag) == flag \in pt[p].flags /\ flag \in tables[TableOf(p)].flags
Executable(p) == "NX" \notin pt[p].flags
UserByte(addr) == mem[pt[PageOf(addr)].frame][addr % PAGE_SIZE]

\* Type invariant.
TypeOK ==
  /\ prog \in Programs
  /\ mem \in [DOMAIN mem -> [Offsets -> Int]]
  /\ free \subseteq DOMAIN mem
  /\ \A p \in DOMAIN pt : pt[p].frame \in DOMAIN mem /\ pt[p].flags \subseteq {"W", "U", "NX"}
  /\ \A t \in DOMAIN tables : tables[t].flags \subseteq {"W", "U"}
  /\ phase \in {"map", "copy", "arguments", "enter", "user", "panicked"}
  /\ task \in 1 .. Len(Plan) /\ page \in Nat
  /\ copied \in Nat

\* The program's memory is the image its headers describe: each segment's file bytes at
\* their addresses and zeros after them, also where two segments share a page and the
\* second finds it mapped by the first.
ImageLoaded ==
  Loaded =>
    \A i \in Loadable : LET ph == prog.headers[i]
                        IN  \A k \in 0 .. ph.memsz - 1 :
                              UserByte(base_addr + ph.vaddr + k) =
                                IF k < ph.filesz THEN ph.offset + k ELSE ZERO

\* User code can only reach pages that the loader made for it, and never a byte that was
\* in a frame before: every such frame is zeroed before the user program runs.
NoStaleBytes ==
  \A p \in DOMAIN pt :
    Allows(p, "U") =>
      /\ p \in ImagePages \cup Pages(Pool) \cup Pages(BrkHeap) \cup Pages(Stack)
      /\ \A o \in Offsets : mem[pt[p].frame][o] # JUNK

\* copy_page's expect("Page should be mapped") does not fail for a program whose segments
\* are as the ELF format has them, no longer in the file than in memory.
CopyFindsPage ==
  Copying /\ (\A i \in Loadable : prog.headers[i].filesz <= prog.headers[i].memsz)
    => PageOf(current_vaddr) \in DOMAIN pt

\* A frame has one use: a page, a page table or none yet.
FramesExclusive ==
  /\ \A p, q \in DOMAIN pt : p # q => pt[p].frame # pt[q].frame
  /\ \A t, u \in DOMAIN tables : t # u => tables[t].frame # tables[u].frame
  /\ \A p \in DOMAIN pt : /\ pt[p].frame \notin free
                         /\ \A t \in DOMAIN tables : pt[p].frame # tables[t].frame
  /\ \A t \in DOMAIN tables : tables[t].frame \notin free

\* A page that was not mapped before the image has the rights of the first segment, in the
\* order of the headers, that uses it, whatever pages were mapped under the same page tables
\* before it and whatever segments use the page after it: load_segment skips a mapped page.
SegmentRights ==
  Loaded =>
    \A i \in Loadable : \A p \in SegmentPages(i) \ (BootPages \cup Pages(KernelHeap)) :
      (\A j \in Loadable : j < i => p \notin SegmentPages(j)) =>
        /\ Allows(p, "U")
        /\ Allows(p, "W") <=> prog.headers[i].write
        /\ Executable(p) <=> prog.headers[i].exec

\* Every page of a writable segment is writable: load_segment's comment says "If the
\* segment is writable, add the WRITABLE flag".
WritableSegments ==
  Loaded =>
    \A i \in Loadable : prog.headers[i].write => \A p \in SegmentPages(i) : Allows(p, "W")

\* What a page of the pool, the heap or the stack holds at an offset once it is mapped.
Fresh(p, o) ==
  LET n == p * PAGE_SIZE + o - sp
  IN  IF phase \in {"enter", "user"} /\ n \in Arguments THEN StackByte(n) ELSE ZERO

\* The mmap pool, the brk heap and the stack are ready when the program starts: mapped for
\* user code, writable, not executable and all zeros but for the words of setup_user_stack,
\* each byte of which is at its address, provided the image leaves them alone.
RangesReady ==
  Loaded =>
    \A p \in (Pages(Pool) \cup Pages(BrkHeap) \cup Pages(Stack)) \ (ImagePages \cup BootPages) :
      /\ Allows(p, "U") /\ Allows(p, "W") /\ ~Executable(p)
      /\ \A o \in Offsets : mem[pt[p].frame][o] = Fresh(p, o)

\* The mmap pool and the brk heap are there for user code, wherever the boot loader ran:
\* FEATURES.md says of brk and mmap "Heap/Mmap pool pre-mapped".
PremappedForUser ==
  Loaded => \A p \in (Pages(Pool) \cup Pages(BrkHeap)) \ ImagePages : Allows(p, "U") /\ Allows(p, "W")

\* The word that user code reads, w words above the stack pointer: zero, one of those that
\* setup_user_stack stored, or neither.
UserWord(w) ==
  LET byte(j) == UserByte(sp + w * WORD_SIZE + j)
      stored == {v \in 1 .. Len(StackWords) :
                   \A j \in 0 .. WORD_SIZE - 1 : byte(j) = StackByte((v - 1) * WORD_SIZE + j)}
  IN  IF \A j \in 0 .. WORD_SIZE - 1 : byte(j) = ZERO THEN 0
      ELSE IF stored = {} THEN JUNK ELSE StackWords[CHOOSE v \in stored : TRUE]

\* What the C library finds: the value of the auxiliary vector's entry for a key, after
\* argc, argv and envp, up to the first AT_NULL.
AuxvPairs == {i \in 0 .. (STACK_WORDS - 3) \div 2 - 1 :
                \A j \in 0 .. i : UserWord(3 + 2 * j) # AT_NULL}
Auxv(key) == {UserWord(4 + 2 * i) : i \in {i \in AuxvPairs : UserWord(3 + 2 * i) = key}}

\* The vector is well formed: each entry that musl needs is found once with its value, and
\* AT_RANDOM points to 16 bytes of the reserved area that hold zeros ("we'll just point to a
\* zeros area").
AuxvFound ==
  phase \in {"enter", "user"} =>
    /\ Auxv(AT_PHDR) = {phdr_addr} /\ Auxv(AT_PHNUM) = {Len(prog.headers)}
    /\ Auxv(AT_ENTRY) = {entry_addr} /\ Auxv(AT_PAGESZ) = {PAGE_SIZE}
    /\ Auxv(AT_RANDOM) # {}
    /\ \A addr \in Auxv(AT_RANDOM) : \A j \in 0 .. 2 * WORD_SIZE - 1 :
         sp <= addr + j /\ addr + j < stack_top /\ UserByte(addr + j) = ZERO

\* AT_PHDR is the address of the program headers in memory, as setup_user_stack says of it:
\* "address of program headers (crucial for base calculation!)".
PhdrInMemory ==
  phase = "user" => /\ PageOf(phdr_addr) \in DOMAIN pt
                    /\ UserByte(phdr_addr) = prog.phoff

\* The loader always comes to an end.
Terminates == <>(phase \in {"user", "panicked"})
=============================================================================
