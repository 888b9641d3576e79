# A TLA+ development for the cat kernel

The repository is a small x86_64 operating system in Rust: a UEFI boot loader, a
kernel that runs one user program in ring 3, and a crate both share.  This
directory holds TLA+ models of its parts, TLC runs over small instances, and TLAPS
proofs for every value of the constants.

## The system and its parts

| Part | Source | State | Modelled in |
|---|---|---|---|
| UEFI boot loader | `uefi_boot/src/main.rs` | page-table pool, PML4, BootInfo | `Boot` |
| Memory map of the hand-over | `shared/src/lib.rs` | descriptors, end of memory | `MemoryMap` |
| Physical memory manager | `kernel/src/pmm.rs` | bitmap, sizes | `Pmm` |
| Page-table mapper | `kernel/src/pml4.rs` | none of its own | external, in `Boot` and `ElfLoader` |
| Kernel heap | `kernel/src/heap_allocator.rs` | external allocator behind a lock | its mapping, in `ElfLoader` |
| ELF loader, user address space | `kernel/src/elf_loader.rs` | page tables, memory | `ElfLoader` |
| GDT/TSS | `kernel/src/gdt.rs` | descriptor table | order of the descriptors, in `SyscallEntry` |
| System call entry | `kernel/src/syscalls.rs` | MSRs, TEMP_RSP, kernel stack | `SyscallEntry` |
| brk, mmap, munmap | `kernel/src/syscalls.rs` | CURRENT_BRK, MMAP_NEXT | `UserMemory` |
| Other system calls | `kernel/src/syscalls.rs` | SEED, FS/GS base, user memory | `Syscalls` |
| Interrupts | `kernel/src/interrupts.rs` | IDT, PIC masks, TICKS | `Interrupts` |
| Keyboard ring | `kernel/src/interrupts.rs` | buffer, head, tail | `KeyboardBuffer` |
| Frame buffer console | `kernel/src/screen.rs` | cursor, colours, pixels | `Screen` |
| Console locks, panic handler | `kernel/src/writer.rs`, `shared/src/serial.rs`, `shared/src/panic.rs` | SERIAL1, WRITER | `ConsoleLocks` |

They meet in `_start` (`kernel/src/main.rs`), in this order: screen, GDT, IDT, PICs,
PMM, mapper, PIT, kernel heap, system call MSRs, user ELF, user stack, `iretq`.
There is one CPU.  The boot loader clears IF and nothing sets it until `iretq` loads
RFLAGS 0x202, so kernel code runs uninterrupted; SFMASK clears IF at `syscall`, gates
clear it at interrupts.  Concurrency is therefore between user code, the devices and
the handlers, between the instructions of the system call stub and the outside, and
between any code and the exceptions and panics that IF does not mask.

Three modules state what another part relies on.  `MemoryMap` defines `WellFormed`:
`Boot` shows it of what the loader hands over, `Pmm` assumes it.  `Interrupts` extends
`KeyboardBuffer`.  `ElfLoader` takes frames the way `FrameAllocator` grants them, each
once and until none is left, and starts with pages that `Boot` leaves mapped.

## Modules

**`Boot`, `MCBoot`.**  `main` of the boot loader stage by stage: the kernel file, the
pool, the PML4, the segments, the stack, the memory map, the direct map, the identity
window, the screen, BootInfo, the exit from boot services.  The mapping loops take one
page per step through `map_to`, which creates tables of three levels from the pool and
leaves those it made when the pool runs dry.  Between any two steps the firmware may
allocate or free a page of its own.  Memory is counted in pages.  `Owned` pairs each
frame the kernel starts on with its use.

**`FrameAllocator`, `Pmm`, `MCPmm`.**  `Pmm` keeps the code's fields; the bitmap is a
function from word index to the set of bits that are 1.  `init` is `init_internal` as a
whole, `init_panics` its early panic, `allocate_frame` and `allocate_frame_fails` the two
outcomes of the scan.  All run with the lock held and interrupts off, hence as one step.
`handed` is a history variable.  `FrameAllocator` is the abstract promise: a set of free
addresses is granted once and shrinks by the address answered.

**`ElfLoader`, `MCElfLoader`.**  `Plan` is the list of page ranges mapped between
`init_heap` and `enter_userspace`.  Each step maps or skips one page, or copies one page's
bytes.  Memory is kept by the byte; a byte is the file offset it came from, zero, junk
that was in the frame before, or the n-th byte that `setup_user_stack` stores (`StackByte`).
The words for the program go through the page tables into the frames (`write_to_stack`), and
the auxiliary vector is read back from there (`UserWord`, `Auxv`).  Page tables are one level
(three in the machine), with the flags of the parent entry that `map_to` accumulates.  Every
`expect` is an action that panics; `page_missing` is `expect("Page should be mapped")` of the
copy loop.

**`UserMemory`.**  `sys_brk`, `sys_mmap` (fixed and pool branch) and the calls that do
nothing, with sums modulo `U64`.  `blocks` is a history variable; `Wraps` marks the blocks
whose sums wrapped.

**`SyscallEntry`.**  `Code` is the instruction sequence of `syscall_entry`; there is one
action per kind of instruction, over symbolic register contents, so a property can ask whose
value a register holds.  `interrupt` may strike wherever IF is set.  The Rust handler is
bound by its calling convention only: it may change every caller-saved register and its
part of the stack.

**`Syscalls`, `MCSyscalls`.**  `handle_syscall` and every call it dispatches to except those
of `UserMemory`; a call is one step.  Text is a sequence of bytes, and `from_utf8`, `chars`
and `print_char` do what the code's conversions do, for characters of one and two bytes.
Answers by pointer go to 4-byte cells of user memory; an unmapped cell is a page fault, which
halts.  `sent` and `random` are history variables.

**`Interrupts`** extends `KeyboardBuffer` with the CPU (`mode`, saved `frames`, `iflag`),
the master PIC (`mask`, `irr`, `isr`), the keyboard controller (`kbc`), boot steps, user
code and system calls.  `keyboard_handler` is two steps, the port read with the enqueue
and the end of interrupt, because the controller may raise its line in between.  The
devices and the CPU's delivery rule are external.  COM1 stands for the lines that the
code leaves masked.

**`BoundedFifo`, `KeyboardBuffer`.**  The ring with its unused slot, and the queue of
`BUFFER_SIZE - 1` entries it implements through the refinement mapping `Waiting`.

**`Terminal`, `Screen`, `MCScreen`.**  `Screen` has one operator per method of
`FrameBufferWriter`, over the writer and every word of the frame buffer, and the callers in the
order of `_start`.  `stray` records a store outside of the buffer.  `Terminal` is the page of
characters that the pixels below the welcome line are read back to (`PageShown`).

**`ConsoleLocks`.**  Each piece of code that prints is the sequence of what it does to
`SERIAL1` and `WRITER`; `stack` holds the contexts on the CPU, the running one last.
Exceptions cut in between any two steps once the IDT is loaded, panics where the code
has an `expect`.  `found` and `stolen` are history variables.

`mutant` comments mark definitions that are deliberately wrong versions of a later
one; no specification uses them.  Each property is violated when its mutant stands in.

## Runs

| Run | Result | What it shows |
|---|---|---|
| `boot` | pass, 136498 states | The kernel is entered only with exactly the address space it needs, although two loops drop errors of `map_to`. No frame has two uses, none in use is offered as free, and the memory map, read after the end of memory was fixed, still fits it. |
| `pmm` | pass, 3838 | Each usable frame is handed out once, nothing else is, `None` means none is left, and the bitmap sits in one conventional region. It implements `FrameAllocator`. |
| `elf_loader` | pass, 28109 | The image is exact, frames are exclusive, nothing stale is reachable, each page has the rights of the first segment that uses it, the ranges promised to the program are mapped and zero but for the words on the stack, the auxiliary vector in memory parses, loading terminates. |
| `syscall_entry` | pass, 538 | Arguments, registers, user stack and selectors are right across system calls. |
| `syscall_entry_align` | violation | RSP is 8 modulo 16 at `call {handler}`. |
| `user_memory` | pass, 43322 | For all lengths of the bound, wrapping ones included: pool blocks start on pages, are disjoint unless the first of two or one between them wrapped, and end inside the pool unless they wrapped themselves. |
| `syscalls` | pass, 22386 | ASCII output is shown and sent once and in order however it is divided over calls, the serial port carries UTF-8 only, random bytes are one stream, the structures that stubs fill are exact. |
| `interrupts` | pass, 12400 | Handlers interrupt user code only. The PIC is never blocked by a returned handler, only lines with a gate are delivered, no key is stuck once the PICs are initialised with an empty controller. Pending keys and ticks are served. |
| `keyboard_buffer` | pass, 2592 | The ring implements `BoundedFifo`. |
| `screen` | pass, 37776 | No store leaves the frame buffer, the cursor's line is on the screen, no old text is left where new text goes. The console implements `Terminal`. |
| `screen_rgb` | violation | On an RGB screen the welcome line has the colour of its background. |
| `console_locks` | pass, 1973 | Only an exception handler that found SERIAL1 taken ever waits, code that lost SERIAL1 to `force_unlock` never runs again, a panic gets its message out, an exception that finds SERIAL1 free is reported. |

The two violations are recorded as findings in `PROJECT.json`, with the line each contradicts.

### Further configurations

These state something a comment or document says, or a premise of a run taken away, and TLC
violates each.  They mark where the properties above end.

| Configuration, module | Property | What TLC shows |
|---|---|---|
| `UserMemoryWrap.cfg`, `UserMemory` | `AddressesFromPool` | With lengths near 2^64 a sum wraps and the block is not in the pool ("returns addresses from a pre-allocated pool", `syscalls.rs:369`). |
| `UserMemoryBreak.cfg`, `UserMemory` | `BreakIsPremapped` | `brk` goes beyond the mapped heap ("Heap/Mmap pool pre-mapped", `FEATURES.md:50`). |
| `ElfLoaderSharing.cfg`, `MCElfLoader` | `WritableSegments` | A writable segment that shares a page with read-only text is read-only there ("If the segment is writable, add the WRITABLE flag", `elf_loader.rs:198`). |
| `ElfLoaderStatic.cfg`, `MCElfLoader` | `PhdrInMemory` | AT_PHDR is wrong for a static executable ("address of program headers", `elf_loader.rs:564`). |
| `ElfLoaderBootPage.cfg`, `MCElfLoader` | `PremappedForUser` | A heap page that the boot loader left mapped is skipped and stays out of reach of user code. |
| `BootHhdm.cfg`, `MCBoot` | `HhdmMapped` | "HHDM mapped successfully!" (`uefi_boot/src/main.rs:292`) is logged although the pool ran dry. The loader panics later, in the screen's loop. |
| `InterruptsEarlyKey.cfg`, `Interrupts` | `KeyboardOpen` | A byte that waits in the controller when the PICs are initialised leaves the keyboard silent ("Mở IRQ 0 (timer) và IRQ 1 (keyboard)", `interrupts.rs:261`). |
| `ConsoleLocksFault.cfg`, `ConsoleLocks` | `NeverSpins` | An exception that cuts a print short waits for SERIAL1 for ever ("This is CRITICAL to prevent deadlocks", `serial.rs:36`). |

`syscall_entry_align` concerns every system call.  The embedded program `user_space/hello` is a
PIE whose LOAD segments share no page, so the loader's first two cases do not touch it;
`user_space/hello_simple` is static, linked at 0x400000 with its headers at file offset 64, and
would be handed AT_PHDR 0x40.  The two memory cases depend on the calls a program makes.

### Bounds and why they are enough

- `Boot.cfg`: pages are the unit (`PAGE_SIZE` 1), tables have 4 entries and the pool 19 pages, so
  that memory ends of 32 to 160 pages let the pool suffice or run dry in the loops of the direct
  map, the window and the screen, also inside one `map_to`.  Low memory of 10 to 31 pages makes
  each allocation after the kernel file's fail on some machine.  The firmware acts at most 3 times
  (`MaxEvents`) and answers the lowest or the highest run.
- `Pmm.cfg`: pages of 3 bytes and words of 8 bits, so that bitmaps end inside a page and span
  two pages; `max_phys_memory` is a multiple of 16 pages (`HUGE`, 2 MiB in the boot loader), so the
  last word is always whole, in the model as in the machine (the proof covers the other case);
  three regions of 1, 2 or 13 pages, each conventional or not, after a hole of 0 or 1 page.  Maps
  without room for the bitmap occur.
- `MCElfLoader`: pages of 2 bytes; text of 2 to 4 bytes, data at gaps 0 to 3 with up to 3
  file bytes and up to 2 of bss, so every case of shared, adjacent and separate pages occurs; an
  empty segment, an image that reaches the pool, a static program on the stack's page, a segment
  longer in the file than in memory; and frame supplies that end in the loop of every range.
  `BootPages` has a page of the heap and one that no range uses.  A word is one byte and the stack 16
  pages, so that the 32 reserved words fill it and the stored ones cross pages.
- `SyscallEntry.cfg`: `MaxCalls` 2, so that the second call starts from what the first left
  in TEMP_RSP and on the stack; the stub's 16 pushes fit in 20 words, and nothing depends on how
  many words are left below them.
- `UserMemory.cfg`: a pool of four pages of four bytes in a 64-byte address space; lengths
  below, at and above a page, too long, and so long that the sum with the cursor or with a page wraps.
  Wrapping moves the cursor back, so the blocks are bounded (`MaxBlocks` 5); empty ones are not recorded.
- `Syscalls.cfg`: `MaxCalls` 3, so that a call follows any two others; buffers with ASCII, two-byte
  characters below and above U+00FF and halves of one; pointers that are NULL, overlap or end outside
  of the 40 cells.  The generator of `getrandom` has modulus 256; its arithmetic is the same.
- `Interrupts.cfg`: 3 slots, at most 4 keys (`MaxKeys`), more than the ring takes; TICKS wraps
  at 2 (`TickModulus`).  The firmware's mask is arbitrary.
- `KeyboardBuffer.cfg`: 4 slots, 3 scancodes; indices wrap any number of times.
- `Screen.cfg`: characters of 2 by 2 pixels (`FONT`) and three screens: with padded rows and
  a remainder in both directions, without padding and so low that the welcome line scrolls, and the
  smallest the assumption allows.  Text is unbounded; the states are finite.
- `ConsoleLocks.cfg`: `MaxDepth` 4: a program or `_start`, a system call or an exception, and two
  more that cut those short.  The theorems are for every depth.

### Fairness

`Interrupts!FairSpec`: weak fairness of the boot code, of system calls, of the handlers and of
delivery.  The kernel never waits for anything, and the CPU takes an offered interrupt at the next
instruction boundary (`UserRuns`), so these are what one running CPU gives.  Nothing is assumed of
the user program or the devices.  A PIT period is taken to be longer than a handler: at most one
edge falls between two steps of other code (`ran`).  `ElfLoader!FairSpec`: the loader's
sequential code keeps running.  `ConsoleLocks!FairSpec`: the context on top of the stack keeps
running (`Run`); a context that spins gets no help, and nothing makes faults or panics happen or stop.

## Proofs

All theorems are for every value of the constants that the named assumptions allow.  In each
module the invariant holds initially, every action keeps it (one lemma or step per action), and
it implies the properties.  Every safety property that a passing run checks is a theorem, and so are the
three refinements.

- `KernelProofs`, frames (from `PmmAssumption`: page-aligned, disjoint descriptors below
  `max_phys_memory`): `PmmTypeCorrect`, `PmmNoDoubleAllocation`, `PmmOnlyUsable`,
  `PmmBitmapInOneRegion`, `PmmNoneMeansExhausted`, `PmmRefinement`.  That no frame is handed out twice
  is not inductive: it needs that a frame handed out has its bit set.  The inductive invariant `IInv`
  says that the zero bits below `total_frames` are exactly the usable frames not handed out.
  `init` establishes it by arithmetic on rounding (`DivCeil`, `BitmapCover`, `InitialBits`);
  allocation keeps it because the frame and the (word, bit) pair determine each other (`FrameBits`).
- `KernelProofs`, console locks (from `ConsoleLocksAssumption`, for every depth of nesting):
  `LocksTypeCorrect`, `LocksOnlyHandlersWait`, `LocksStolenNeverRuns`.  Code that takes one lock at
  a time, writes and releases it is closed under concatenation (`Joined`), so it is enough to look at
  the pieces.  `Shape` says which code may lie where on the stack, `Owners` that the owner of a
  lock, and whoever lost it, is between taking and releasing it.
- `TrapProofs`, interrupts (from `InterruptsAssumption` and `BufferAssumption`, for every number of keys,
  ring size and mask the firmware leaves): `KbTypeCorrect` and the refinement `KbRefinement` of the
  ring by itself, whose main lemmas say that an add appends to `Waiting` unless it is full, and a pop
  removes its head, across the wrap; `RingInSystem`, the same refinement for the whole machine;
  `InterruptsTypeCorrect`, `HandlersFindLocksFree`, `PicNeverBlocked`, `VectorsHandled`,
  `KeyboardServed`.  `Control` makes IF, the saved contexts, the in-service bits, the gates and the
  masks functions of what the CPU executes, and adds that a keyboard request is not pending again
  before its byte is read.
- `TrapProofs`, system calls (from `SyscallsAssumption`, for all buffers, vectors, pointers, generators and
  numbers of calls): `CallsTypeCorrect`, `CallsAsciiShownOnce`, `CallsSerialIsUtf8`,
  `CallsRandomIsOneStream`, `CallsStructsExact`.  The text of a program lies between lines of the kernel and
  is divided over calls as it likes, so the invariant is about what is left without those lines.  `Outputs` says that the text
  on the serial port is UTF-8, and that text and `sent` agree while all that was acknowledged is ASCII;
  `Stream` that `SEED` is the last seed of one stream and `random` its bytes.  The argument is by induction on texts,
  vectors and seeds: `TextCat` (the text of two outputs in a row is the two texts in a row), `Utf8Cat` (valid
  text after valid text is valid), `WritevShown` (a vector shows what its buffers show, and its total counts
  them), `SeedsContinue` (a stream resumed from its last seed is the longer stream).  Since the prover
  cannot instantiate the library's induction rules, `Induct` states induction with a set in place of a
  predicate, from the well-foundedness of the natural numbers; the same lemma gives the recursive
  functions of the model their values (`SeedsExist`, `UptoExists`, `DoneExists`).  `Stored` is what a call
  that answers by pointer does to memory, and `StoredExact` compares it with each structure.
- `SyscallProofs`, `syscall_entry` (from `SyscallEntryAssumption`, for every size of the kernel stack,
  stack pointer of user code and number of calls): `EntryTypeCorrect`, `EntryRegistersPreserved`,
  `EntryArgumentsDelivered`, `EntryUserStackUntouched`, `EntrySelectorsMatchGdt`.  None is inductive:
  what comes back is decided by what is on the kernel stack forty instructions earlier.  The invariant
  has one part per stretch of the stub, indexed by the instruction: `Saving` (the words pushed so far are
  the user's), `Moving` (an argument is in place before its register is lost; the frame stays),
  `Restoring` (the registers popped so far are the user's) and `Back` (user code until it runs on).
- `SyscallProofs`, the pool of `mmap` (from `UserMemoryAssumption`, for all addresses and lengths, also
  those whose sums wrap): `UserMemoryTypeCorrect`, `MmapBlocksDisjoint`, `MmapBlocksInPool`.  The
  invariant adds that the cursor is page aligned, not past the end of the pool, and past every block since
  which no sum has wrapped.  A sum that wraps puts the cursor back to a page boundary below the end of
  the pool (`CursorStep`, `AlignedLen`); the properties keep what is true of blocks from there on, and
  `UserMemoryWrap.cfg` shows what is lost.
- `ElfLoaderProofs` (from `ElfLoaderAssumption`, for every program and layout):
  `LoaderTypeCorrect`, `LoaderFramesExclusive`, `LoaderNoStaleBytes`, `LoaderCopyFindsPage`.  The
  invariant adds that the free frames are those above the ones given, that the pages a loop has passed
  are mapped (`Passed`), and that a page with the user flag is cleared even while its table's flags
  still keep user code out (`Cleared`): a later page may add the user flag to that table.
  `LoaderCopyFindsPage` is for programs whose segments are no longer in the file than in memory,
  which the ELF format demands and the loader does not test.
- `ElfLoaderProofs`, what the program finds (also from `LayoutAssumption`: the kernel's heap is above
  all that user code uses, and `StackAssumption`: the reserved words fit on the stack):
  `LoaderSegmentRights`, `LoaderRangesReady`, `LoaderAuxvFound`, `LoaderImageLoaded`.  `Ledger` says
  which range of the plan mapped each page and so with which flags, `AllPassed` that ranges already
  done are mapped, `Zeroed` that only `setup_user_stack` writes to pool, heap and stack after they were
  cleared, and each byte to its address (`StackBytes`).  `StackOwn` says that the stack's pages are no
  segment's, no other range's and not the boot loader's, because their loop panics at a mapped page
  instead of skipping it: so the words fall on no byte of the image, and they and the zeros around them
  are what the program reads back (`WordRead`).  `Content` follows the bytes: what `copied` says of the
  segment in work is in memory, the segments before it are whole, the rest is zero, also on pages that
  two segments share.  `LoaderImageLoaded` has the hypothesis `Conforming`: no segment longer in the
  file than in memory, no byte in two segments, no segment on a page that the boot loader or the
  kernel's heap has taken.
- `BootSpaceProofs` and `BootProofs` (from `BootAssumption`, for every machine, kernel, pool and number
  of firmware allocations): `BootOneUsePerFrame`, `BootOwnedReserved`, `BootHandoverWellFormed`,
  `BootNothingOwnedIsFree`, `BootOwnedInDirectMap`, `BootAddressSpaceComplete`.  That no frame has two uses
  needs to know where frames come from: `Apart` says that what is left of the pool is loader data and
  unused, `OwnedReserved` that every frame in use is loader data, so a conventional frame of the firmware
  is new.  `Mapped` shows that the tables one `map_to` makes lie in different frames of the pool, also
  when it runs dry between two of them, because the levels above each missing one are counted
  differently (`Ranks`).  `SlotBelow` keeps the other ranges off the pages of the stack.  `Handover` ties
  `max_phys_addr` to the end of memory, which no allocation moves, and the map handed over to the last one.
  `Space` says of each loop which pages it has mapped so far, or that the pool is dry.  A dry pool is
  harmless because no table exists in the screen's slot until its loop starts (`NoTables`): the first page of
  the screen then needs one, and that loop panics.
- `ScreenProofs` (from `ScreenAssumption`: rows at least as long as the screen is wide, a character of
  scale 3 fits, a glyph stays in its cell, the welcome text ends with the newline that `println!`
  adds): `ScreenTypeCorrect`, `ScreenStoresInside`, `ScreenLineOnScreen`, `ScreenNoStaleText`.  The
  invariant adds the scale that each stage of `_start` has set, and that the cursor is at the origin
  when the scale grows; without that the first line of scale 3 could hang over the bottom.  `Inked` adds
  that white is on no pixel before `reset_style` selects it, and never the background: what the
  welcome text leaves is never in the colour of the text that follows.
- `ScreenPageProofs` (from the same): `ScreenRefinement`, that the pixels implement `Terminal`.  A
  writer between two characters is `Settled` on a line and a column of the page; `Grid` says that it
  always is from `reset_style` on.  The lemmas follow `write_byte` down to the pixels and up again: a line
  feed moves or shifts whole lines of cells (`FeedIsFeed`), a character fills the cell of the
  cursor and no other (`PutIsPut`), and the two in the order of `write_byte` are what `Terminal` does.

Only model-checked is liveness (`KeysRead`, `TickServed`, `Terminates`, `PanicSpeaks`,
`ExceptionReported`), which the prover does not handle.

## What the models take for granted

- The PIC latches edges, as the emulator does that `run-uefi.sh` starts.  On an 8259 that needs the
  line to stay high, a system call longer than half a PIT period would make a spurious IRQ 7.
- `ElfLoader`: the embedded file parses, and its program headers lie inside of it.
- `Syscalls`: pointers to text and to random bytes are mapped.
- `Boot`: the four address ranges use different top-level slots, which holds while physical memory
  ends below 32 TiB, and the linker script keeps the kernel's segments apart.
- `ConsoleLocks`: exceptions before `init_idt`, which the firmware's IDT receives, are left out, and
  so is a second double fault, which would reuse the stack of the first.

## Not modelled

- `SafeLockedHeap::alloc` and `dealloc` wrap the external `linked_list_allocator`; the kernel
  allocates nothing yet.
- `process_relocations` and `relocate_dynamic_segment` in `elf_loader.rs`, and `is_canonical` and
  `align_up` in `shared/src/helpers.rs`, have no caller.
- The breakpoint handler: its gate has DPL 0, so `int3` in ring 3 is a general protection fault,
  and the kernel executes none.
- The TSS appears only as the stack an interrupt from ring 3 switches to; loading segment registers
  has no state the properties tell apart.
- `pml4.rs` wraps CR3 in the external `OffsetPageTable`.  What `map_to` does is in `Boot` and
  `ElfLoader`, and that the tables lie in the direct map, as it requires, is `OwnedInDirectMap`.
- The bytes on the serial wire, the wording of messages, and the font's shapes.
