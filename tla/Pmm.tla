-------------------------------- MODULE Pmm --------------------------------
(***************************************************************************)
(* The kernel's physical memory manager (src/kernel/src/pmm.rs): a bitmap, *)
(* one bit per physical frame, packed into machine words and stored in the *)
(* first conventional region of the UEFI memory map that can hold it.      *)
(* Every operation runs with the PMM mutex held and interrupts off, so     *)
(* each is one step.  There is no operation that frees a frame.            *)
(***************************************************************************)
EXTENDS MemoryMap

CONSTANTS
  WORD_BYTES,   \* bytes per bitmap word (8 in the code)
  BootInfos     \* what the boot loader may hand over: memory map and max_phys_memory

WORD_BITS == 8 * WORD_BYTES

(***************************************************************************)
(* The boot loader hands over a well-formed map (Boot: HandoverWellFormed).*)
(***************************************************************************)
ASSUME PmmAssumption ==
  /\ PAGE_SIZE \in Nat \ {0}
  /\ WORD_BYTES \in Nat \ {0}
  /\ \A b \in BootInfos : WellFormed(b)

VARIABLES
  boot,               \* the BootInfo this machine booted with
  phase,              \* "uninit", "ready" or "panic"
  total_frames,
  bitmap_size_u64,
  bitmap_start_addr,
  bitmap,             \* word index -> set of bits that are 1
  result,             \* the latest answer of allocate_frame
  handed              \* history: the frames handed out, in order

vars == <<boot, phase, total_frames, bitmap_size_u64, bitmap_start_addr,
          bitmap, result, handed>>

None == -1
Bits == 0 .. WORD_BITS - 1
div_ceil(a, b) == (a + b - 1) \div b
Least(S) == CHOOSE x \in S : \A y \in S : x <= y

-----------------------------------------------------------------------------
(* The bitmap operations: a frame is bit frame % 64 of word frame / 64. *)

mark_used(bm, frames) ==
  [w \in DOMAIN bm |->
     bm[w] \cup {f % WORD_BITS : f \in {g \in frames : g \div WORD_BITS = w}}]

mark_free(bm, frames) ==
  [w \in DOMAIN bm |->
     bm[w] \ {f % WORD_BITS : f \in {g \in frames : g \div WORD_BITS = w}}]

\* mark_region_free skips what lies beyond total_frames; mark_region_used does not.
mark_region_used(bm, start_addr, page_count) ==
  mark_used(bm, FramesFrom(start_addr, page_count))

mark_regions_free(bm, descs, total) ==
  mark_free(bm, {f \in UNION {FramesOf(d) : d \in descs} : f < total})

-----------------------------------------------------------------------------
(* init_internal *)

Conventional(b) == {i \in DOMAIN b.memory_map : b.memory_map[i].type_ = CONVENTIONAL}

BitmapWords(b) == div_ceil(b.max_phys_memory \div PAGE_SIZE, WORD_BITS)
BitmapBytes(b) == BitmapWords(b) * WORD_BYTES

\* mutant: the last, partly used page of the bitmap is not counted
BitmapPagesFloor(b) == BitmapBytes(b) \div PAGE_SIZE

BitmapPages(b) == div_ceil(BitmapBytes(b), PAGE_SIZE)

\* mutant: any conventional region will do
BitmapHomesAnySize(b) ==
  {i \in Conventional(b) : b.memory_map[i].phys_start # 0}

\* The regions that can hold the bitmap; the first one in map order is taken.
BitmapHomes(b) ==
  {i \in Conventional(b) :
     /\ b.memory_map[i].phys_start # 0
     /\ b.memory_map[i].page_count * PAGE_SIZE >= BitmapBytes(b)}

BitmapAddr(b) == b.memory_map[Least(BitmapHomes(b))].phys_start

\* All ones, conventional regions cleared, the bitmap's own pages and frame 0 set again.
InitialBitmap(b) ==
  LET total == b.max_phys_memory \div PAGE_SIZE
      ones  == [w \in 0 .. BitmapWords(b) - 1 |-> Bits]
      freed == mark_regions_free(ones, {b.memory_map[i] : i \in Conventional(b)}, total)
  IN  mark_used(mark_region_used(freed, BitmapAddr(b), BitmapPages(b)), {0})

Init ==
  /\ boot \in BootInfos
  /\ phase = "uninit"
  /\ total_frames = 0 /\ bitmap_size_u64 = 0 /\ bitmap_start_addr = 0
  /\ bitmap = [w \in {} |-> {}]
  /\ result = None
  /\ handed = <<>>

init ==
  /\ phase = "uninit" /\ BitmapHomes(boot) # {}
  /\ phase' = "ready"
  /\ total_frames' = boot.max_phys_memory \div PAGE_SIZE
  /\ bitmap_size_u64' = BitmapWords(boot)
  /\ bitmap_start_addr' = BitmapAddr(boot)
  /\ bitmap' = InitialBitmap(boot)
  /\ UNCHANGED <<boot, result, handed>>

\* panic!("PMM: Critical - No RAM for Bitmap!"), after the two sizes were stored
init_panics ==
  /\ phase = "uninit" /\ BitmapHomes(boot) = {}
  /\ phase' = "panic"
  /\ total_frames' = boot.max_phys_memory \div PAGE_SIZE
  /\ bitmap_size_u64' = BitmapWords(boot)
  /\ UNCHANGED <<boot, bitmap_start_addr, bitmap, result, handed>>

-----------------------------------------------------------------------------
(* allocate_frame: the lowest zero bit of the first word that has one. *)

NotFull == {w \in 0 .. bitmap_size_u64 - 1 : bitmap[w] # Bits}

FirstZero == LET idx == Least(NotFull)
             IN  idx * WORD_BITS + Least(Bits \ bitmap[idx])

\* mutant: the frame is returned without being marked
AllocateUnmarked ==
  /\ phase # "panic"
  /\ NotFull # {} /\ FirstZero < total_frames
  /\ result' = FirstZero * PAGE_SIZE
  /\ handed' = Append(handed, FirstZero)
  /\ UNCHANGED <<boot, phase, total_frames, bitmap_size_u64, bitmap_start_addr, bitmap>>

allocate_frame ==
  /\ phase # "panic"
  /\ NotFull # {} /\ FirstZero < total_frames
  /\ bitmap' = mark_used(bitmap, {FirstZero})
  /\ result' = FirstZero * PAGE_SIZE
  /\ handed' = Append(handed, FirstZero)
  /\ UNCHANGED <<boot, phase, total_frames, bitmap_size_u64, bitmap_start_addr>>

allocate_frame_fails ==
  /\ phase # "panic"
  /\ NotFull # {} => FirstZero >= total_frames
  /\ result' = None
  /\ UNCHANGED <<boot, phase, total_frames, bitmap_size_u64, bitmap_start_addr, bitmap, handed>>

\* panic_handler_impl ends in a loop of hlt
hlt_loop == phase = "panic" /\ UNCHANGED vars

Next == init \/ init_panics \/ allocate_frame \/ allocate_frame_fails \/ hlt_loop

Spec == Init /\ [][Next]_vars

-----------------------------------------------------------------------------
(* Properties *)

Used(f) == f % WORD_BITS \in bitmap[f \div WORD_BITS]

\* The frames that hold at least one byte of the bitmap, from its address and size alone.
BitmapFrames ==
  LET first == bitmap_start_addr
      end   == bitmap_start_addr + bitmap_size_u64 * WORD_BYTES
  IN  {f \in 0 .. end \div PAGE_SIZE : f * PAGE_SIZE < end /\ (f + 1) * PAGE_SIZE > first}

ConventionalFrames == UNION {FramesOf(boot.memory_map[i]) : i \in Conventional(boot)}

Usable == ConventionalFrames \ (BitmapFrames \cup {0})

HandedSet == {handed[i] : i \in DOMAIN handed}

\* Type invariant: the bitmap has bitmap_size_u64 words of WORD_BITS bits, and answers
\* of allocate_frame are frame addresses below total_frames.
TypeOK ==
  /\ boot \in BootInfos
  /\ phase \in {"uninit", "ready", "panic"}
  /\ total_frames \in Nat /\ bitmap_size_u64 \in Nat /\ bitmap_start_addr \in Nat
  /\ phase = "ready" => bitmap \in [0 .. bitmap_size_u64 - 1 -> SUBSET Bits]
  /\ result = None \/ result \in Nat
  /\ handed \in Seq(Nat)

\* allocate_frame never returns the same frame twice: callers of map_to take a frame as
\* exclusively theirs, and zero it.
HandedOutOnce ==
  \A i, j \in DOMAIN handed : handed[i] = handed[j] => i = j

\* Every frame handed out is conventional memory, is not frame 0 and holds no byte of
\* the bitmap itself: init_internal reserved the right pages.
OnlyUsableHandedOut == HandedSet \subseteq Usable

\* The bitmap, which init_internal fills with ones while it still needs the memory map
\* (loader data), lies in a single conventional region and overwrites nothing else.
BitmapInOneRegion ==
  phase = "ready" =>
    \E i \in Conventional(boot) : BitmapFrames \subseteq FramesOf(boot.memory_map[i])

\* After init, allocate_frame answers None only when every usable frame is gone: neither
\* the word scan nor the early "Out of bounds" return gives up on one.
NoneMeansExhausted ==
  (phase = "ready" /\ (NotFull # {} => FirstZero >= total_frames)) => HandedSet = Usable

\* Addresses of the frames whose bit is zero.
FreeAddresses ==
  IF phase = "ready"
  THEN {f * PAGE_SIZE : f \in {g \in 0 .. total_frames - 1 : ~Used(g)}}
  ELSE {}

Abstract == INSTANCE FrameAllocator
              WITH Addresses <- Nat, granted <- (phase = "ready"), free <- FreeAddresses

\* The bitmap implements the abstract frame allocator.
ImplementsFrameAllocator == Abstract!Spec
=============================================================================
