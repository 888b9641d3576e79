-------------------------------- MODULE Boot --------------------------------
(***************************************************************************)
(* The UEFI boot loader (src/uefi_boot/src/main.rs): it reads the kernel,  *)
(* builds the page tables the kernel starts with, leaves the firmware and  *)
(* jumps.  Page tables and stack frames come from a bump allocator over a  *)
(* fixed pool; everything else comes from the firmware.  Addresses are     *)
(* counted in pages.                                                       *)
(***************************************************************************)
EXTENDS MemoryMap, FiniteSets

CONSTANTS
  ENTRIES,               \* entries of a page table (512), also pages of a huge page
  PAGE_TABLE_POOL_SIZE,  \* pages of the bump allocator's pool (1024)
  KERNEL_BASE,           \* the first page of the kernel image
  HHDM_OFFSET,           \* the page where physical memory is mapped
  FRAMEBUFFER_VIRT_BASE, \* the page where the screen is mapped
  STACK_PAGES,           \* pages of the kernel stack (5)
  WINDOW,                \* pages of loader code that are identity mapped (512)
  FILE_PAGES,            \* pages of the kernel file
  Kernel,                \* the loadable segments of the kernel file
  Machines,              \* memory, loader position, screen and firmware
  MaxEvents              \* bound: allocations of the firmware itself

LOADER_CODE == 1
LOADER_DATA == 2
BOOT_SERVICES_DATA == 4

Frames(n, s) == s .. s + n - 1
STACK_TOP == KERNEL_BASE - 1
SegmentPages(s) == Frames(Kernel[s].pages, Kernel[s].virt)
StackPages == Frames(STACK_PAGES, STACK_TOP - STACK_PAGES)
Slot(page) == page \div (ENTRIES * ENTRIES * ENTRIES)

(***************************************************************************)
(* The linker script page-aligns the segments and keeps them apart, above  *)
(* KERNEL_BASE.  The four address ranges use different top-level slots     *)
(* (0, 256.., 320.., 511) as long as physical memory ends below 32 TiB and *)
(* the screen is page aligned and smaller than a slot.                     *)
(***************************************************************************)
ASSUME BootAssumption ==
  /\ PAGE_SIZE = 1
  /\ ENTRIES \in Nat \ {0, 1}
  /\ PAGE_TABLE_POOL_SIZE \in Nat \ {0}
  /\ STACK_PAGES \in Nat \ {0}
  /\ WINDOW \in Nat \ {0} /\ FILE_PAGES \in Nat \ {0}
  /\ KERNEL_BASE \in Nat /\ KERNEL_BASE > STACK_PAGES
  /\ HHDM_OFFSET \in Nat /\ HHDM_OFFSET % (ENTRIES * ENTRIES * ENTRIES) = 0
  /\ FRAMEBUFFER_VIRT_BASE \in Nat
  /\ MaxEvents \in Nat
  /\ Kernel \in Seq([virt : Nat, pages : Nat \ {0}, writable : BOOLEAN])
  /\ \A s \in DOMAIN Kernel :
       /\ Kernel[s].virt >= KERNEL_BASE
       /\ \A t \in DOMAIN Kernel \ {s} : SegmentPages(s) \cap SegmentPages(t) = {}
  /\ \A m \in Machines :
       /\ {m.rip, m.fb_phys, m.top} \subseteq Nat /\ m.fb_pages \in Nat \ {0}
       /\ \A f \in DOMAIN m.mem : f \in Nat /\ f < m.top /\ m.mem[f] \in 0 .. 15
       /\ m.top - 1 \in DOMAIN m.mem
       /\ m.rip \in DOMAIN m.mem /\ m.mem[m.rip] = LOADER_CODE
       /\ Slot(m.rip + WINDOW) < Slot(HHDM_OFFSET)
       /\ Slot(HHDM_OFFSET + m.top + ENTRIES) < Slot(FRAMEBUFFER_VIRT_BASE)
       /\ Slot(FRAMEBUFFER_VIRT_BASE + m.fb_pages) < Slot(STACK_TOP - STACK_PAGES)

VARIABLES
  machine,          \* the machine that boots
  mem,              \* the type the firmware gives each frame of memory
  pc,               \* the stage main is in
  i,                \* the next page, or huge page, of a mapping loop
  frame_allocator,  \* BumpAllocator: the next frame and the end of the pool
  mapper,           \* tables and mappings reachable from the PML4
  image,            \* physical start of the segments loaded so far
  data,             \* what the loader has written to frames of the image
  max_phys_addr,
  boot_info,        \* the hand-over, and the frames it lives in
  events            \* firmware allocations so far

vars == <<machine, mem, pc, i, frame_allocator, mapper, image, data,
          max_phys_addr, boot_info, events>>

None == -1
Updated(f, S, v) == [x \in DOMAIN f \cup S |-> IF x \in S THEN v ELSE f[x]]
MaxOf(S) == CHOOSE x \in S : \A y \in S : y <= x

-----------------------------------------------------------------------------
(* The firmware. *)

(***************************************************************************)
(* allocate_pages(AnyPages, kind, n) answers with a run of conventional    *)
(* frames, the lowest or the highest one, as the firmware at hand prefers. *)
(* There is no answer when no run is long enough.                          *)
(***************************************************************************)
Runs(n) ==
  {s \in DOMAIN mem : \A f \in Frames(n, s) : f \in DOMAIN mem /\ mem[f] = CONVENTIONAL}

allocate_pages(n) ==
  {s \in Runs(n) : \A r \in Runs(n) : IF machine.top_down THEN r <= s ELSE s <= r}

(***************************************************************************)
(* get_memory_map: one descriptor per maximal run of frames of one type,   *)
(* in the order of their addresses.                                        *)
(***************************************************************************)
Regions(m) ==
  {[type_ |-> m[s], phys_start |-> s,
    page_count |-> MaxOf({n \in 1 .. Cardinality(DOMAIN m) :
                            \A f \in Frames(n, s) : f \in DOMAIN m /\ m[f] = m[s]})] :
     s \in {f \in DOMAIN m : f - 1 \notin DOMAIN m \/ m[f - 1] # m[f]}}

Descriptors(m) ==
  [k \in 1 .. Cardinality(Regions(m)) |->
     CHOOSE d \in Regions(m) :
       Cardinality({c \in Regions(m) : c.phys_start < d.phys_start}) = k - 1]

(* An event handler of the firmware allocates a page of its own, or frees one. *)
firmware ==
  /\ pc \notin {"entered", "panic"} /\ events < MaxEvents
  /\ \/ \E f \in allocate_pages(1) : mem' = [mem EXCEPT ![f] = BOOT_SERVICES_DATA]
     \/ \E f \in {g \in DOMAIN mem : mem[g] = BOOT_SERVICES_DATA} :
          mem' = [mem EXCEPT ![f] = CONVENTIONAL]
  /\ events' = events + 1
  /\ UNCHANGED <<machine, pc, i, frame_allocator, mapper, image, data,
                 max_phys_addr, boot_info>>

panic ==
  /\ pc' = "panic"
  /\ UNCHANGED <<machine, mem, i, frame_allocator, mapper, image, data,
                 max_phys_addr, boot_info, events>>

-----------------------------------------------------------------------------
(* The bump allocator and the page tables. *)

(* The frame allocate_frame returns; the caller then takes it. *)
allocate_frame(fa) == IF fa.next >= fa.end THEN None ELSE fa.next

\* mutant: the allocator does not advance past the frame it returned
BumpStandsStill(fa, n) == fa

Taken(fa, n) == [next |-> fa.next + n, end |-> fa.end]

(* The table of a level (3, 2 or 1) that a page's translation goes through. *)
Power(l) == IF l = 3 THEN ENTRIES * ENTRIES * ENTRIES
            ELSE IF l = 2 THEN ENTRIES * ENTRIES ELSE ENTRIES
TableOf(page, l) == <<l, page \div Power(l)>>

(* How many of the levels 3, 2 and 1 a set holds. *)
Count(S) == (IF 3 \in S THEN 1 ELSE 0) + (IF 2 \in S THEN 1 ELSE 0) + (IF 1 \in S THEN 1 ELSE 0)

(***************************************************************************)
(* Mapper::map_to.  Missing tables are created from the top down, each in  *)
(* a frame of the pool; when the pool runs dry the tables made so far stay *)
(* and the call fails.  It also fails when the entry is in use, or when a  *)
(* 4 KiB page lies in a huge page.                                         *)
(***************************************************************************)
map_to(mp, fa, page, huge, entry) ==
  LET big     == page \div ENTRIES
      levels  == IF huge \/ big \in DOMAIN mp.huge THEN {3, 2} ELSE {3, 2, 1}
      missing == {l \in levels : TableOf(page, l) \notin DOMAIN mp.tables}
      above(l) == Count({u \in missing : u > l})
      made    == {l \in missing : allocate_frame(Taken(fa, above(l))) # None}
      unused  == IF huge THEN big \notin DOMAIN mp.huge /\ <<1, big>> \notin DOMAIN mp.tables
                 ELSE page \notin DOMAIN mp.pages /\ big \notin DOMAIN mp.huge
      ok      == made = missing /\ unused
      new     == {TableOf(page, l) : l \in made}
  IN  [ok |-> ok,
       fa |-> Taken(fa, Count(made)),
       mp |-> [tables |-> [t \in DOMAIN mp.tables \cup new |->
                             IF t \in new THEN allocate_frame(Taken(fa, above(t[1])))
                             ELSE mp.tables[t]],
               pages |-> IF ok /\ ~huge THEN Updated(mp.pages, {page}, entry) ELSE mp.pages,
               huge |-> IF ok /\ huge THEN Updated(mp.huge, {big}, entry) ELSE mp.huge]]

(***************************************************************************)
(* One turn of a mapping loop.  A failed map_to ends the loader, unless    *)
(* the loop drops its result.                                              *)
(***************************************************************************)
MapStep(fa, page, huge, entry, ignore, count, after) ==
  \E r \in {map_to(mapper, fa, page, huge, entry)} :
  IF ~r.ok /\ ~ignore THEN panic
  ELSE /\ mapper' = r.mp /\ frame_allocator' = r.fa
       /\ i' = IF i + 1 = count THEN 0 ELSE i + 1
       /\ pc' = IF i + 1 = count THEN after ELSE pc
       /\ UNCHANGED <<machine, mem, image, data, max_phys_addr, boot_info, events>>

Entry(frame, writable) == [frame |-> frame, writable |-> writable]

-----------------------------------------------------------------------------
(* main, stage by stage. *)

Init ==
  /\ machine \in Machines
  /\ mem = machine.mem
  /\ pc = "file" /\ i = 0 /\ events = 0
  /\ frame_allocator = [next |-> 0, end |-> 0]
  /\ mapper = [tables |-> <<>>, pages |-> <<>>, huge |-> <<>>]
  /\ image = <<>> /\ data = <<>>
  /\ max_phys_addr = 0
  /\ boot_info = [frame |-> None, map_frame |-> None, max_phys_memory |-> 0,
                  memory_map |-> <<>>]

(* The kernel file is opened, read and parsed; any of it may fail. *)
read_kernel ==
  /\ pc = "file"
  /\ \/ panic
     \/ \E s \in allocate_pages(FILE_PAGES) :
          /\ mem' = Updated(mem, Frames(FILE_PAGES, s), LOADER_DATA)
          /\ pc' = "pool"
          /\ UNCHANGED <<machine, i, frame_allocator, mapper, image, data,
                         max_phys_addr, boot_info, events>>

allocate_pool ==
  /\ pc = "pool"
  /\ \/ allocate_pages(PAGE_TABLE_POOL_SIZE) = {} /\ panic
     \/ \E s \in allocate_pages(PAGE_TABLE_POOL_SIZE) :
          /\ mem' = Updated(mem, Frames(PAGE_TABLE_POOL_SIZE, s), LOADER_DATA)
          /\ frame_allocator' = [next |-> s, end |-> s + PAGE_TABLE_POOL_SIZE]
          /\ pc' = "pml4"
          /\ UNCHANGED <<machine, i, mapper, image, data, max_phys_addr, boot_info, events>>

create_pml4 ==
  /\ pc = "pml4"
  /\ mapper' = [mapper EXCEPT !.tables =
                  Updated(@, {<<4, 0>>}, allocate_frame(frame_allocator))]
  /\ frame_allocator' = Taken(frame_allocator, 1)
  /\ pc' = "segments"
  /\ UNCHANGED <<machine, mem, i, image, data, max_phys_addr, boot_info, events>>

(* A segment gets its frames and its bytes; map_segment then maps it. *)
load_segment ==
  /\ pc = "segments" /\ Len(image) < Len(Kernel)
  /\ LET s == Len(image) + 1
         pages == Kernel[s].pages
     IN  \/ allocate_pages(pages) = {} /\ panic
         \/ \E f \in allocate_pages(pages) :
              /\ mem' = Updated(mem, Frames(pages, f), LOADER_DATA)
              /\ image' = Append(image, f)
              /\ data' = [x \in DOMAIN data \cup Frames(pages, f) |->
                            IF x \in Frames(pages, f) THEN <<s, x - f>> ELSE data[x]]
              /\ pc' = "map_segment"
              /\ UNCHANGED <<machine, i, frame_allocator, mapper, max_phys_addr,
                             boot_info, events>>

map_segment ==
  /\ pc = "map_segment"
  /\ LET s == Len(image) IN
     MapStep(frame_allocator, Kernel[s].virt + i, FALSE,
             Entry(image[s] + i, Kernel[s].writable), FALSE, Kernel[s].pages, "segments")

segments_loaded ==
  /\ pc = "segments" /\ Len(image) = Len(Kernel)
  /\ pc' = "stack"
  /\ UNCHANGED <<machine, mem, i, frame_allocator, mapper, image, data,
                 max_phys_addr, boot_info, events>>

map_stack ==
  /\ pc = "stack"
  /\ LET f == allocate_frame(frame_allocator) IN
     IF f = None THEN panic
     ELSE MapStep(Taken(frame_allocator, 1), STACK_TOP - STACK_PAGES + i, FALSE,
                  Entry(f, TRUE), FALSE, STACK_PAGES, "memory_map")

(***************************************************************************)
(* The map is read twice: once for the distance of two descriptors, and    *)
(* once, into a buffer that stays allocated, for the end of memory, which  *)
(* is rounded up to a huge page.                                           *)
(***************************************************************************)
\* mutant: only usable memory counts
MaxPhysOfRam(m) ==
  LET top == MaxOf({1} \cup {d.phys_start + d.page_count :
                               d \in {e \in Regions(m) : e.type_ = CONVENTIONAL}})
  IN  ((top + ENTRIES - 1) \div ENTRIES) * ENTRIES

\* mutant: the end of memory is rounded down
MaxPhysRoundsDown(m) ==
  (MaxOf({d.phys_start + d.page_count : d \in Regions(m)}) \div ENTRIES) * ENTRIES

max_phys(m) ==
  LET top == MaxOf({d.phys_start + d.page_count : d \in Regions(m)})
  IN  ((top + ENTRIES - 1) \div ENTRIES) * ENTRIES

read_memory_map ==
  /\ pc = "memory_map"
  /\ \/ (allocate_pages(1) = {} \/ Cardinality(Regions(mem)) < 2) /\ panic
     \/ /\ Cardinality(Regions(mem)) >= 2
        /\ \E m \in {Updated(mem, {s}, LOADER_DATA) : s \in allocate_pages(1)} :
             /\ mem' = m
             /\ max_phys_addr' = max_phys(m)
             /\ pc' = "hhdm"
             /\ UNCHANGED <<machine, i, frame_allocator, mapper, image, data, boot_info,
                            events>>

(* The results of map_to are dropped: .ok().map(|f| f.flush()). *)
map_hhdm ==
  /\ pc = "hhdm"
  /\ MapStep(frame_allocator, HHDM_OFFSET + i * ENTRIES, TRUE, Entry(i * ENTRIES, TRUE),
             TRUE, max_phys_addr \div ENTRIES, "identity")

identity_map ==
  /\ pc = "identity"
  /\ MapStep(frame_allocator, machine.rip + i, FALSE, Entry(machine.rip + i, TRUE),
             TRUE, WINDOW, "gop")

(* There may be no graphics protocol. *)
open_gop ==
  /\ pc = "gop"
  /\ \/ panic
     \/ /\ pc' = "framebuffer"
        /\ UNCHANGED <<machine, mem, i, frame_allocator, mapper, image, data,
                       max_phys_addr, boot_info, events>>

\* mutant: the screen's mapping drops errors as the two loops before it do
FramebufferDropsErrors ==
  /\ pc = "framebuffer"
  /\ MapStep(frame_allocator, FRAMEBUFFER_VIRT_BASE + i, FALSE,
             Entry(machine.fb_phys + i, TRUE), TRUE, machine.fb_pages, "boot_info")

map_framebuffer ==
  /\ pc = "framebuffer"
  /\ MapStep(frame_allocator, FRAMEBUFFER_VIRT_BASE + i, FALSE,
             Entry(machine.fb_phys + i, TRUE), FALSE, machine.fb_pages, "boot_info")

prepare_boot_info ==
  /\ pc = "boot_info"
  /\ \/ allocate_pages(1) = {} /\ panic
     \/ \E s \in allocate_pages(1) :
          /\ mem' = Updated(mem, {s}, LOADER_DATA)
          /\ boot_info' = [boot_info EXCEPT !.frame = s, !.max_phys_memory = max_phys_addr]
          /\ pc' = "exit"
          /\ UNCHANGED <<machine, i, frame_allocator, mapper, image, data, max_phys_addr,
                         events>>

(***************************************************************************)
(* exit_boot_services allocates a buffer, reads the final map into it and  *)
(* ends the firmware; then CR3 and RSP are switched and the kernel runs.   *)
(***************************************************************************)
\* mutant: the map is read before its own buffer is allocated
ExitWithEarlyMap ==
  /\ pc = "exit"
  /\ \/ allocate_pages(1) = {} /\ panic
     \/ \E s \in allocate_pages(1) :
          /\ mem' = Updated(mem, {s}, LOADER_DATA)
          /\ boot_info' = [boot_info EXCEPT !.map_frame = s, !.memory_map = Descriptors(mem)]
          /\ pc' = "entered"
          /\ UNCHANGED <<machine, i, frame_allocator, mapper, image, data, max_phys_addr,
                         events>>

exit_boot_services ==
  /\ pc = "exit"
  /\ \/ allocate_pages(1) = {} /\ panic
     \/ \E s \in allocate_pages(1) : \E m \in {Updated(mem, {s}, LOADER_DATA)} :
          /\ mem' = m
          /\ boot_info' = [boot_info EXCEPT !.map_frame = s, !.memory_map = Descriptors(m)]
          /\ pc' = "entered"
          /\ UNCHANGED <<machine, i, frame_allocator, mapper, image, data, max_phys_addr,
                         events>>

main ==
  \/ read_kernel \/ allocate_pool \/ create_pml4 \/ load_segment \/ map_segment
  \/ segments_loaded \/ map_stack \/ read_memory_map \/ map_hhdm \/ identity_map
  \/ open_gop \/ map_framebuffer \/ prepare_boot_info \/ exit_boot_services

(* The kernel has taken over, or the panic handler loops. *)
finished == pc \in {"entered", "panic"} /\ UNCHANGED vars

Next == main \/ firmware \/ finished

Spec == Init /\ [][Next]_vars

-----------------------------------------------------------------------------
(* Properties. *)

Stages == {"file", "pool", "pml4", "segments", "map_segment", "stack", "memory_map", "hhdm",
           "identity", "gop", "framebuffer", "boot_info", "exit", "entered", "panic"}

(* Every piece of state has its type: the bump allocator stays inside its   *)
(* pool (BumpAllocator's next and end), and every table has a real frame.   *)
TypeOK ==
  /\ machine \in Machines /\ pc \in Stages /\ i \in Nat /\ events \in 0 .. MaxEvents
  /\ DOMAIN mem = DOMAIN machine.mem
  /\ frame_allocator.next \in 0 .. frame_allocator.end
  /\ \A t \in DOMAIN mapper.tables : t[1] \in 1 .. 4 /\ mapper.tables[t] \in DOMAIN mem
  /\ \A p \in DOMAIN mapper.pages : mapper.pages[p].frame \in Nat
  /\ \A b \in DOMAIN mapper.huge : mapper.huge[b].frame \in Nat
  /\ Len(image) <= Len(Kernel)
  /\ max_phys_addr % ENTRIES = 0

(* The huge pages a complete direct map consists of. *)
DirectMap ==
  [b \in {HHDM_OFFSET \div ENTRIES + k : k \in 0 .. (max_phys_addr \div ENTRIES) - 1} |->
     Entry((b - HHDM_OFFSET \div ENTRIES) * ENTRIES, TRUE)]

WindowPages == Frames(WINDOW, machine.rip)
ScreenPages == Frames(machine.fb_pages, FRAMEBUFFER_VIRT_BASE)
ImagePages == UNION {SegmentPages(s) : s \in DOMAIN Kernel}

(* When the kernel is entered its page tables hold exactly the intended     *)
(* address space: all of physical memory, the loader's code, every kernel   *)
(* page with its own bytes and write permission, the screen and the stack,  *)
(* and nothing else, so the pages around the stack fault.  The loops at     *)
(* main.rs:276 and 308 drop errors; this holds because the screen's loop,   *)
(* which needs three new tables, does not.                                  *)
AddressSpaceComplete ==
  pc = "entered" =>
    /\ mapper.huge = DirectMap
    /\ DOMAIN mapper.pages = ImagePages \cup StackPages \cup WindowPages \cup ScreenPages
    /\ \A s \in DOMAIN Kernel : \A p \in SegmentPages(s) :
         /\ data[mapper.pages[p].frame] = <<s, p - Kernel[s].virt>>
         /\ mapper.pages[p].writable = Kernel[s].writable
    /\ \A p \in StackPages : mapper.pages[p].writable
    /\ \A p \in WindowPages : mapper.pages[p].frame = p
    /\ \A p \in ScreenPages :
         mapper.pages[p].frame = machine.fb_phys + p - FRAMEBUFFER_VIRT_BASE

(* The frames the kernel starts on, each with the one thing it is used for. *)
TableUses ==
  {<<<<"table", t[1], t[2]>>, mapper.tables[t]>> : t \in DOMAIN mapper.tables}
StackUses ==
  {<<<<"stack", p, 0>>, mapper.pages[p].frame>> : p \in StackPages \cap DOMAIN mapper.pages}
ImageUses(s) == {<<<<"image", s, k>>, image[s] + k>> : k \in 0 .. Kernel[s].pages - 1}
HandoverUses ==
  {o \in {<<<<"boot_info", 0, 0>>, boot_info.frame>>,
          <<<<"memory_map", 0, 0>>, boot_info.map_frame>>} : o[2] # None}
Owned == TableUses \cup StackUses \cup HandoverUses \cup (UNION {ImageUses(s) : s \in DOMAIN image})

(* No frame serves two purposes: page tables and stack frames of the bump   *)
(* allocator, image frames and the hand-over of the firmware's allocator    *)
(* never coincide, whatever is allocated in between.                        *)
OneUsePerFrame == \A a, b \in Owned : a[2] = b[2] => a = b

(* No frame the kernel starts on, and no frame of the loader code it still  *)
(* executes, is conventional in the map handed over: pmm.rs would hand it   *)
(* out again.                                                               *)
NothingOwnedIsFree ==
  pc = "entered" =>
    \A k \in DOMAIN boot_info.memory_map :
      LET d == boot_info.memory_map[k] IN
      d.type_ = CONVENTIONAL =>
        FramesOf(d) \cap ({o[2] : o \in Owned} \cup {machine.rip}) = {}

(* What pmm::init assumes of its input: the final memory map, read long     *)
(* after max_phys_memory was computed from an earlier one, still fits it.   *)
HandoverWellFormed == pc = "entered" => WellFormed(boot_info)

(* Every frame the kernel starts on lies below the end of memory computed   *)
(* before it was allocated, so BootInfo, the map and every table can be     *)
(* reached through the direct map, as pml4.rs:7 and pmm.rs:57 require.      *)
OwnedInDirectMap == pc = "entered" => \A o \in Owned : o[2] < boot_info.max_phys_memory

(* "HHDM mapped successfully!" is logged right after the loop (main.rs:292).*)
HhdmMapped ==
  pc \in {"identity", "gop", "framebuffer", "boot_info", "exit", "entered"} =>
    mapper.huge = DirectMap
=============================================================================
