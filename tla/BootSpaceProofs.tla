--------------------------- MODULE BootSpaceProofs ---------------------------
(***************************************************************************)
(* The inductive invariant of the boot loader, and that each of its steps  *)
(* keeps the part of it that says which pages are mapped, for every        *)
(* machine, kernel and size of the pool.  BootProofs adds the other parts  *)
(* and draws the conclusions.                                              *)
(***************************************************************************)
EXTENDS Boot, TLAPS

LoaderFrames == {f \in DOMAIN mem : mem[f] = LOADER_DATA}
PoolLeft == frame_allocator.next .. frame_allocator.end - 1

\* Every frame the kernel starts on is loader data to the firmware, so that neither the
\* firmware's allocator nor, with the final memory map, pmm.rs gives it out again.
OwnedReserved == \A o \in Owned : o[2] \in LoaderFrames

\* The inductive invariant: what is left of the pool is the loader's too, and in no use.
Apart ==
  /\ PoolLeft \subseteq LoaderFrames
  /\ \A o \in Owned : o[2] \notin PoolLeft

Shape ==
  /\ machine \in Machines /\ DOMAIN mem = DOMAIN machine.mem /\ i \in Nat
  /\ frame_allocator.next \in Nat /\ frame_allocator.end \in Nat
  /\ mapper = [tables |-> mapper.tables, pages |-> mapper.pages, huge |-> mapper.huge]
  /\ boot_info = [frame |-> boot_info.frame, map_frame |-> boot_info.map_frame,
                  max_phys_memory |-> boot_info.max_phys_memory,
                  memory_map |-> boot_info.memory_map]
  /\ image \in Seq(Nat)

Progress ==
  /\ pc = "pml4" => frame_allocator.next < frame_allocator.end
  /\ pc = "map_segment" => Len(image) \in 1 .. Len(Kernel)
  /\ pc = "identity" => i < WINDOW
  /\ pc = "gop" => i = 0
  /\ pc = "framebuffer" => i < machine.fb_pages

IInv == Shape /\ Progress /\ Apart /\ OwnedReserved /\ OneUsePerFrame

\* The firmware's map stays one, and keeps the loader's code; the end of memory was read
\* from it, and the map that is handed over is the last one.
Handover ==
  /\ \A f \in DOMAIN mem : mem[f] \in Nat
  /\ mem[machine.rip] = LOADER_CODE
  /\ pc \in {"hhdm", "identity", "gop", "framebuffer", "boot_info", "exit", "entered"} =>
       \E q \in Nat \ {0} : /\ max_phys_addr = q * ENTRIES /\ q * ENTRIES \in Nat
                            /\ machine.top <= q * ENTRIES /\ q * ENTRIES < machine.top + ENTRIES
                            /\ max_phys_addr \div ENTRIES = q
  /\ pc \in {"exit", "entered"} => boot_info.max_phys_memory = max_phys_addr
  /\ pc = "entered" => boot_info.memory_map = Descriptors(mem)

-----------------------------------------------------------------------------
(* Shared facts. *)

\* Frames of memory are numbers.
LEMMA FramesAreNumbers ==
  ASSUME IInv
  PROVE  DOMAIN mem \subseteq Nat
<1>1. \A m \in Machines : \A f \in DOMAIN m.mem : f \in Nat
  BY BootAssumption, Zenon
<1> QED BY <1>1, Zenon DEF IInv, Shape

\* allocate_pages answers with frames that were nobody's.
LEMMA Reserved ==
  ASSUME IInv, NEW n, NEW s \in allocate_pages(n), mem' = Updated(mem, Frames(n, s), LOADER_DATA)
  PROVE  /\ DOMAIN mem' = DOMAIN mem /\ LoaderFrames' = LoaderFrames \cup Frames(n, s)
         /\ s \in DOMAIN mem
         /\ \A f \in Frames(n, s) : f \notin LoaderFrames
<1>1. s \in DOMAIN mem /\ \A f \in Frames(n, s) : f \in DOMAIN mem /\ mem[f] = CONVENTIONAL
  BY DEF allocate_pages, Runs
<1>2. \A f \in Frames(n, s) : f \notin LoaderFrames
  BY <1>1 DEF LoaderFrames, CONVENTIONAL, LOADER_DATA
<1>3. DOMAIN mem' = DOMAIN mem
  BY <1>1 DEF Updated
<1>4. LoaderFrames' = LoaderFrames \cup Frames(n, s)
  BY <1>1, <1>3 DEF Updated, LoaderFrames
<1> QED BY <1>1, <1>2, <1>3, <1>4

\* A lower top-level slot is a lower page.
LEMMA SlotBelow ==
  ASSUME NEW a \in Nat, NEW b \in Nat, Slot(a) < Slot(b)
  PROVE  a < b
<1> DEFINE n == ENTRIES * ENTRIES * ENTRIES
<1>1. n \in Nat \ {0}
  <2>1. ENTRIES \in Nat /\ ENTRIES >= 1
    BY BootAssumption
  <2>2. ENTRIES * ENTRIES \in Nat /\ ENTRIES * ENTRIES >= 1
    BY <2>1
  <2> QED BY <2>1, <2>2
<1>2. a \div n < b \div n
  BY DEF Slot
<1> HIDE DEF n
<1>3. /\ a \div n \in Int /\ a % n \in 0 .. n - 1 /\ a = n * (a \div n) + (a % n)
      /\ b \div n \in Int /\ b % n \in 0 .. n - 1 /\ b = n * (b \div n) + (b % n)
  BY <1>1
<1>4. \A p, q \in Int : p < q => n * p + n <= n * q
  BY <1>1
<1> QED BY <1>1, <1>2, <1>3, <1>4

\* Of the tables that map_to misses, each has a different number of missing ones above it.
LEMMA Ranks ==
  ASSUME NEW missing, missing \subseteq {1, 2, 3}
  PROVE  LET above(l) == Count({u \in missing : u > l})
         IN  /\ \A l \in missing : above(l) \in Nat
             /\ \A l, m \in missing : l < m => above(m) < above(l)
             /\ \A made : (made \subseteq missing /\
                           \A l \in made, u \in missing : u > l => u \in made) =>
                  /\ Count(made) \in Nat
                  /\ \A l \in made : above(l) < Count(made)
<1> DEFINE above(l) == Count({u \in missing : u > l})
<1>1. \A S : Count(S) \in Nat
  BY DEF Count
<1>2. /\ above(3) = 0 /\ above(2) = IF 3 \in missing THEN 1 ELSE 0
      /\ above(1) = (IF 3 \in missing THEN 1 ELSE 0) + (IF 2 \in missing THEN 1 ELSE 0)
  BY DEF Count
<1> HIDE DEF above
<1>3. \A l, m \in missing : l < m => above(m) < above(l)
  BY <1>2
<1>4. ASSUME NEW made, made \subseteq missing, \A l \in made, u \in missing : u > l => u \in made,
             NEW l \in made
      PROVE  above(l) < Count(made)
  BY <1>2, <1>4 DEF Count
<1> QED BY <1>1, <1>3, <1>4, Zenon DEF above

-----------------------------------------------------------------------------
(* The address space, page by page. *)

Screened == {"boot_info", "exit", "entered"}
Windowed == {"gop", "framebuffer"} \cup Screened
Direct == {"identity"} \cup Windowed
Stacked == {"memory_map", "hhdm"} \cup Direct
Loaded == {"stack"} \cup Stacked

STACK_BASE == STACK_TOP - STACK_PAGES
HHDM_BIG == HHDM_OFFSET \div ENTRIES

\* The pages that the loops of main have passed so far.
SegmentDone(s, p) ==
  /\ s \in DOMAIN image /\ p \in SegmentPages(s)
  /\ pc = "map_segment" /\ s = Len(image) => p < Kernel[s].virt + i
StackDone(p) == p \in StackPages /\ (pc \in Stacked \/ (pc = "stack" /\ p < STACK_BASE + i))
WindowDone(p) == p \in WindowPages /\ (pc \in Windowed \/ (pc = "identity" /\ p < machine.rip + i))
ScreenDone(p) ==
  p \in ScreenPages /\ (pc \in Screened \/ (pc = "framebuffer" /\ p < FRAMEBUFFER_VIRT_BASE + i))
HugeDone == IF pc \in Direct THEN max_phys_addr \div ENTRIES ELSE IF pc = "hhdm" THEN i ELSE 0

\* The two loops that drop errors may leave gaps only when the pool is dry, and then the
\* first page of the screen cannot be mapped: its level 3 table is still missing.
ScreenBegun == pc \in Screened \/ (pc = "framebuffer" /\ i > 0)
Gaps == frame_allocator.next >= frame_allocator.end /\ ~ScreenBegun

Counters ==
  /\ Len(image) <= Len(Kernel) /\ (pc \in Loaded => Len(image) = Len(Kernel))
  /\ pc \notin {"map_segment", "stack", "hhdm", "identity", "framebuffer", "panic"} => i = 0
  /\ pc = "map_segment" => i < Kernel[Len(image)].pages
  /\ pc = "stack" => i < STACK_PAGES
  /\ pc = "hhdm" => i < max_phys_addr \div ENTRIES

NoTables ==
  pc # "panic" /\ ~ScreenBegun =>
    /\ TableOf(FRAMEBUFFER_VIRT_BASE, 3) \notin DOMAIN mapper.tables
    /\ \A b \in Nat : HHDM_OFFSET <= b * ENTRIES /\ b * ENTRIES < HHDM_OFFSET + machine.top
                        => <<1, b>> \notin DOMAIN mapper.tables

HugePages ==
  pc # "panic" =>
    /\ mapper.huge = [b \in DOMAIN mapper.huge |-> mapper.huge[b]]
    /\ \A b \in DOMAIN mapper.huge : \E k \in 0 .. HugeDone - 1 :
         b = HHDM_BIG + k /\ mapper.huge[b] = Entry(k * ENTRIES, TRUE)
    /\ Gaps \/ \A k \in 0 .. HugeDone - 1 : HHDM_BIG + k \in DOMAIN mapper.huge

SmallPages ==
  pc # "panic" =>
    /\ \A p \in DOMAIN mapper.pages :
         (\E s \in DOMAIN Kernel : SegmentDone(s, p)) \/ StackDone(p) \/ WindowDone(p) \/ ScreenDone(p)
    /\ \A s \in DOMAIN Kernel, p \in Nat : SegmentDone(s, p) =>
         /\ p \in DOMAIN mapper.pages
         /\ mapper.pages[p] = Entry(image[s] + (p - Kernel[s].virt), Kernel[s].writable)
    /\ \A p \in Nat : StackDone(p) => p \in DOMAIN mapper.pages /\ mapper.pages[p].writable = TRUE
    /\ \A p \in Nat : WindowDone(p) =>
         IF p \in DOMAIN mapper.pages THEN mapper.pages[p].frame = p ELSE Gaps
    /\ \A p \in Nat : ScreenDone(p) =>
         /\ p \in DOMAIN mapper.pages
         /\ mapper.pages[p].frame = machine.fb_phys + p - FRAMEBUFFER_VIRT_BASE

Bytes ==
  \A s \in DOMAIN image : \A k \in 0 .. Kernel[s].pages - 1 :
    image[s] + k \in DOMAIN data /\ data[image[s] + k] = <<s, k>>

Space == Counters /\ NoTables /\ HugePages /\ SmallPages /\ Bytes

\* The ranges in the order of their addresses, and the slots around the screen.
LEMMA Layout ==
  ASSUME IInv
  PROVE  /\ ENTRIES \in Nat /\ ENTRIES >= 2 /\ HHDM_OFFSET \in Nat
         /\ FRAMEBUFFER_VIRT_BASE \in Nat /\ STACK_BASE \in Nat /\ WINDOW \in Nat \ {0}
         /\ STACK_PAGES \in Nat \ {0} /\ STACK_TOP = STACK_BASE + STACK_PAGES
         /\ STACK_TOP < KERNEL_BASE /\ KERNEL_BASE \in Nat
         /\ machine.rip \in Nat /\ machine.top \in Nat /\ machine.fb_pages \in Nat \ {0}
         /\ machine.fb_phys \in Nat /\ i \in Nat
         /\ machine.rip + WINDOW < HHDM_OFFSET
         /\ HHDM_OFFSET + machine.top + ENTRIES < FRAMEBUFFER_VIRT_BASE
         /\ FRAMEBUFFER_VIRT_BASE + machine.fb_pages < STACK_BASE
         /\ HHDM_BIG \in Nat /\ HHDM_OFFSET = HHDM_BIG * ENTRIES
         /\ \A p \in Nat : p <= HHDM_OFFSET + machine.top + ENTRIES \/ p >= STACK_BASE =>
              Slot(p) # Slot(FRAMEBUFFER_VIRT_BASE)
<1>1. /\ machine \in Machines /\ i \in Nat /\ machine.rip \in Nat /\ machine.top \in Nat
      /\ machine.fb_pages \in Nat \ {0} /\ machine.fb_phys \in Nat
  BY BootAssumption DEF IInv, Shape
<1>2. /\ STACK_PAGES \in Nat \ {0} /\ STACK_BASE \in Nat /\ WINDOW \in Nat \ {0}
      /\ HHDM_OFFSET \in Nat /\ FRAMEBUFFER_VIRT_BASE \in Nat /\ ENTRIES \in Nat
      /\ ENTRIES >= 2
      /\ STACK_TOP = STACK_BASE + STACK_PAGES /\ STACK_TOP < KERNEL_BASE /\ KERNEL_BASE \in Nat
  BY BootAssumption DEF STACK_TOP, STACK_BASE
<1>3. /\ Slot(machine.rip + WINDOW) < Slot(HHDM_OFFSET)
      /\ Slot(HHDM_OFFSET + machine.top + ENTRIES) < Slot(FRAMEBUFFER_VIRT_BASE)
      /\ Slot(FRAMEBUFFER_VIRT_BASE + machine.fb_pages) < Slot(STACK_BASE)
  BY <1>1, BootAssumption DEF STACK_BASE
<1>4. /\ machine.rip + WINDOW \in Nat /\ HHDM_OFFSET + machine.top + ENTRIES \in Nat
      /\ FRAMEBUFFER_VIRT_BASE + machine.fb_pages \in Nat
  BY <1>1, <1>2
<1>5. /\ machine.rip + WINDOW < HHDM_OFFSET
      /\ HHDM_OFFSET + machine.top + ENTRIES < FRAMEBUFFER_VIRT_BASE
      /\ FRAMEBUFFER_VIRT_BASE + machine.fb_pages < STACK_BASE
  BY <1>2, <1>3, <1>4, SlotBelow, Zenon
<1> DEFINE n == ENTRIES * ENTRIES * ENTRIES
<1>6. ENTRIES * ENTRIES \in Nat /\ n \in Nat \ {0} /\ n = ENTRIES * (ENTRIES * ENTRIES)
  <2>1. ENTRIES * ENTRIES \in Nat /\ ENTRIES * ENTRIES >= 1
    BY <1>2
  <2> QED BY <1>2, <2>1
<1>7. \A p \in Nat : Slot(p) \in Int
  <2> HIDE DEF n
  <2>1. \A p \in Nat : p \div n \in Int
    BY <1>6
  <2> QED BY <2>1 DEF Slot, n
<1>8. HHDM_BIG \in Nat /\ HHDM_OFFSET = HHDM_BIG * ENTRIES
  <2>1. HHDM_OFFSET % n = 0
    BY BootAssumption, Zenon
  <2> DEFINE q == HHDM_OFFSET \div n
             z == ENTRIES * ENTRIES
  <2>2. q \in Nat /\ HHDM_OFFSET = n * q
    <3> HIDE DEF n
    <3> QED BY <1>2, <1>6, <2>1
  <2>3. z * q \in Nat /\ HHDM_OFFSET = ENTRIES * (z * q)
    <3>1. z \in Nat /\ n = ENTRIES * z
      BY <1>6
    <3> HIDE DEF n, q, z
    <3> QED BY <1>2, <2>2, <3>1
  <2> DEFINE h == z * q
  <2> HIDE DEF n, q, z, h
  <2>4. h \in Nat /\ HHDM_OFFSET = ENTRIES * h
    BY <2>3 DEF h
  <2>5. (ENTRIES * h) \div ENTRIES = h
    BY <1>2, <2>4
  <2>6. HHDM_OFFSET \div ENTRIES = h
    BY <2>4, <2>5
  <2> QED BY <1>2, <2>4, <2>6 DEF HHDM_BIG
<1>9. ASSUME NEW p \in Nat, p <= HHDM_OFFSET + machine.top + ENTRIES \/ p >= STACK_BASE,
             Slot(p) = Slot(FRAMEBUFFER_VIRT_BASE)
      PROVE  FALSE
  <2>1. CASE p <= HHDM_OFFSET + machine.top + ENTRIES
    <3>1. HHDM_OFFSET + machine.top + ENTRIES < p
      BY <1>2, <1>3, <1>4, <1>9, SlotBelow
    <3> QED BY <1>4, <2>1, <3>1
  <2>2. CASE p >= STACK_BASE
    <3>1. Slot(FRAMEBUFFER_VIRT_BASE + machine.fb_pages) >= Slot(FRAMEBUFFER_VIRT_BASE)
      <4> DEFINE a == FRAMEBUFFER_VIRT_BASE + machine.fb_pages
      <4>1. a \in Nat /\ FRAMEBUFFER_VIRT_BASE <= a
        BY <1>1, <1>2
      <4> HIDE DEF a
      <4>2. ~(Slot(a) < Slot(FRAMEBUFFER_VIRT_BASE))
        BY <1>2, <4>1, SlotBelow
      <4>3. Slot(a) >= Slot(FRAMEBUFFER_VIRT_BASE)
        BY <1>2, <1>7, <4>1, <4>2
      <4> QED BY <4>3 DEF a
    <3>2. Slot(p) < Slot(STACK_BASE)
      BY <1>2, <1>3, <1>4, <1>7, <1>9, <3>1, SMT, SMTT(60)
    <3>3. p < STACK_BASE
      BY <1>2, <3>2, SlotBelow
    <3> QED BY <1>2, <2>2, <3>3
  <2> QED BY <1>9, <2>1, <2>2
<1> QED BY <1>1, <1>2, <1>5, <1>8, <1>9, Zenon

\* What one call of map_to does to the address space.
Unused(mp, page, huge) ==
  IF huge THEN page \div ENTRIES \notin DOMAIN mp.huge /\ <<1, page \div ENTRIES>> \notin DOMAIN mp.tables
  ELSE page \notin DOMAIN mp.pages /\ page \div ENTRIES \notin DOMAIN mp.huge

MapsThat(mp, fa, page, huge, entry, r) ==
  /\ r.fa.end = fa.end /\ r.fa.next \in Nat /\ r.fa.next >= fa.next
  /\ r.mp.pages = IF r.ok /\ ~huge THEN Updated(mp.pages, {page}, entry) ELSE mp.pages
  /\ r.mp.huge = IF r.ok /\ huge THEN Updated(mp.huge, {page \div ENTRIES}, entry) ELSE mp.huge
  /\ \A t \in DOMAIN r.mp.tables :
       t \in DOMAIN mp.tables \/ \E l \in {1, 2, 3} : t = TableOf(page, l) /\ (l = 1 => ~huge)
  /\ Unused(mp, page, huge) => r.ok \/ r.fa.next >= fa.end
  /\ fa.next >= fa.end /\ TableOf(page, 3) \notin DOMAIN mp.tables => ~r.ok

LEMMA MapsTo ==
  ASSUME NEW mp, NEW fa, fa.next \in Nat, fa.end \in Nat, NEW page, NEW huge \in BOOLEAN, NEW entry
  PROVE  MapsThat(mp, fa, page, huge, entry, map_to(mp, fa, page, huge, entry))
<1> DEFINE big     == page \div ENTRIES
           levels  == IF huge \/ big \in DOMAIN mp.huge THEN {3, 2} ELSE {3, 2, 1}
           missing == {l \in levels : TableOf(page, l) \notin DOMAIN mp.tables}
           above(l) == Count({u \in missing : u > l})
           made    == {l \in missing : allocate_frame(Taken(fa, above(l))) # None}
           unused  == IF huge THEN big \notin DOMAIN mp.huge /\ <<1, big>> \notin DOMAIN mp.tables
                      ELSE page \notin DOMAIN mp.pages /\ big \notin DOMAIN mp.huge
           ok      == made = missing /\ unused
           new     == {TableOf(page, l) : l \in made}
           tables  == [t \in DOMAIN mp.tables \cup new |->
                         IF t \in new THEN allocate_frame(Taken(fa, above(t[1])))
                         ELSE mp.tables[t]]
           r       == map_to(mp, fa, page, huge, entry)
<1>1. /\ r.ok = ok /\ r.fa = Taken(fa, Count(made)) /\ r.mp.tables = tables
      /\ r.mp.pages = IF ok /\ ~huge THEN Updated(mp.pages, {page}, entry) ELSE mp.pages
      /\ r.mp.huge = IF ok /\ huge THEN Updated(mp.huge, {big}, entry) ELSE mp.huge
  BY Zenon DEF map_to
<1>2. /\ missing \subseteq {1, 2, 3} /\ made \subseteq missing
      /\ \A l \in missing : l = 1 => ~huge
      /\ TableOf(page, 3) \notin DOMAIN mp.tables => 3 \in missing
  BY SMT, SMTT(60)
<1>3. \A t \in DOMAIN tables : t \in DOMAIN mp.tables \/ \E l \in made : t = TableOf(page, l)
  BY SMT, SMTT(60)
<1> HIDE DEF r, missing, ok, tables
<1>4. /\ \A l \in missing : above(l) \in Nat
      /\ \A l, m \in missing : l < m => above(m) < above(l)
      /\ \A S : (S \subseteq missing /\ \A l \in S, u \in missing : u > l => u \in S) =>
           Count(S) \in Nat /\ \A l \in S : above(l) < Count(S)
  BY <1>2, Ranks, Zenon
<1> DEFINE over(l) == {u \in missing : u > l}
<1>5. \A l : above(l) = Count(over(l))
  OBVIOUS
<1> HIDE DEF above
<1>6. \A l \in missing : l \in made <=> fa.next + above(l) < fa.end
  BY <1>4 DEF allocate_frame, Taken, None
<1> HIDE DEF made
<1>7. \A l \in made, u \in missing : u > l => u \in made
  BY <1>2, <1>4, <1>6
<1>8. Count(made) \in Nat
  BY <1>2, <1>4, <1>7, Zenon
<1>9. ASSUME made # missing PROVE fa.next + Count(made) >= fa.end
  <2>1. PICK l \in missing : l \notin made /\ \A u \in missing : u \notin made => u <= l
    <3>1. \E u : u \in missing /\ u \notin made
      BY <1>2, <1>9, Zenon
    <3>2. ASSUME NEW S, S \subseteq {1, 2, 3}, NEW u \in S PROVE \E l \in S : \A v \in S : v <= l
      <4>1. CASE 3 \in S
        BY <3>2, <4>1
      <4>2. CASE 3 \notin S /\ 2 \in S
        BY <3>2, <4>2
      <4>3. CASE 3 \notin S /\ 2 \notin S
        BY <3>2, <4>3
      <4> QED BY <4>1, <4>2, <4>3
    <3> DEFINE S == {u \in missing : u \notin made}
    <3>3. S \subseteq {1, 2, 3} /\ \E u : u \in S
      BY <1>2, <3>1, Zenon
    <3>4. \E l \in S : \A v \in S : v <= l
      <4> HIDE DEF S
      <4> QED BY <3>2, <3>3
    <3> QED BY <3>4
  <2>2. made = over(l)
    <3>1. \A u \in missing : u \in Nat /\ l \in Nat
      BY <1>2
    <3>2. \A u \in made : u \in missing /\ u > l
      <4> SUFFICES ASSUME NEW u \in made PROVE u \in missing /\ u > l
        OBVIOUS
      <4>1. u \in missing
        BY <1>2
      <4>2. u # l /\ ~(l > u)
        BY <1>7, <2>1
      <4> QED BY <3>1, <4>1, <4>2
    <3>3. \A u \in missing : u > l => u \in made
      BY <2>1, <3>1, SMT, SMTT(60)
    <3> QED BY <3>2, <3>3
  <2>3. fa.next + above(l) >= fa.end
    BY <1>4, <1>6, <2>1
  <2>4. above(l) = Count(made)
    BY <1>5, <2>2, Zenon
  <2> QED BY <2>3, <2>4
<1>10. ASSUME fa.next >= fa.end, 3 \in missing PROVE made # missing
  BY <1>4, <1>6, <1>10, SMT, SMTT(60)
<1>11. r.fa.end = fa.end /\ r.fa.next = fa.next + Count(made)
  BY <1>1 DEF Taken
<1>12. r.fa.end = fa.end /\ r.fa.next \in Nat /\ r.fa.next >= fa.next
  BY <1>8, <1>11, SMT, SMTT(60)
<1>13. Unused(mp, page, huge) => r.ok \/ r.fa.next >= fa.end
  <2>1. Unused(mp, page, huge) => unused
    BY DEF Unused
  <2> QED BY <1>1, <1>9, <1>11, <2>1, Zenon DEF ok
<1>14. fa.next >= fa.end /\ TableOf(page, 3) \notin DOMAIN mp.tables => ~r.ok
  BY <1>1, <1>2, <1>10, Zenon DEF ok
<1>15. \A t \in DOMAIN r.mp.tables :
         t \in DOMAIN mp.tables \/ \E l \in {1, 2, 3} : t = TableOf(page, l) /\ (l = 1 => ~huge)
  BY <1>1, <1>2, <1>3
<1>16. /\ r.mp.pages = IF r.ok /\ ~huge THEN Updated(mp.pages, {page}, entry) ELSE mp.pages
       /\ r.mp.huge = IF r.ok /\ huge THEN Updated(mp.huge, {big}, entry) ELSE mp.huge
  BY <1>1, Zenon
<1> QED BY <1>12, <1>13, <1>14, <1>15, <1>16, Zenon DEF r, MapsThat

\* The kernel file's segments, and how far they are loaded.
LEMMA SegmentLayout ==
  ASSUME IInv, Counters
  PROVE  /\ \A s \in DOMAIN Kernel :
              /\ Kernel[s].virt \in Nat /\ Kernel[s].pages \in Nat \ {0}
              /\ Kernel[s].virt >= KERNEL_BASE
              /\ SegmentPages(s) = Kernel[s].virt .. Kernel[s].virt + Kernel[s].pages - 1
              /\ \A t \in DOMAIN Kernel \ {s} : SegmentPages(s) \cap SegmentPages(t) = {}
         /\ DOMAIN Kernel = 1 .. Len(Kernel) /\ Len(Kernel) \in Nat
         /\ DOMAIN image = 1 .. Len(image) /\ Len(image) \in Nat
         /\ DOMAIN image \subseteq DOMAIN Kernel
         /\ pc = "map_segment" => Len(image) \in DOMAIN image
<1> DEFINE Segment == [virt : Nat, pages : Nat \ {0}, writable : BOOLEAN]
<1>1. /\ Kernel \in Seq(Segment)
      /\ \A s \in DOMAIN Kernel :
           /\ Kernel[s].virt >= KERNEL_BASE
           /\ \A t \in DOMAIN Kernel \ {s} : SegmentPages(s) \cap SegmentPages(t) = {}
  BY BootAssumption, Zenon
<1>2. \A x \in Segment : x.virt \in Nat /\ x.pages \in Nat \ {0}
  OBVIOUS
<1> HIDE DEF Segment
<1>3. \A s \in DOMAIN Kernel : Kernel[s] \in Segment
  BY <1>1
<1>4. \A s \in DOMAIN Kernel : Kernel[s].virt \in Nat /\ Kernel[s].pages \in Nat \ {0}
  BY <1>2, <1>3, Zenon
<1>5. \A s : SegmentPages(s) = Kernel[s].virt .. Kernel[s].virt + Kernel[s].pages - 1
  BY DEF SegmentPages, Frames
<1>6. DOMAIN Kernel = 1 .. Len(Kernel) /\ Len(Kernel) \in Nat
  BY <1>1
<1>7. DOMAIN image = 1 .. Len(image) /\ Len(image) \in Nat
  BY DEF IInv, Shape
<1>8. DOMAIN image \subseteq DOMAIN Kernel
  <2>1. Len(image) <= Len(Kernel)
    BY Zenon DEF Counters
  <2>2. 1 .. Len(image) \subseteq 1 .. Len(Kernel)
    BY <1>6, <1>7, <2>1
  <2> QED BY <1>6, <1>7, <2>2, Zenon
<1>9. pc = "map_segment" => Len(image) \in DOMAIN image
  BY <1>7 DEF IInv, Progress
<1> QED BY <1>1, <1>4, <1>5, <1>6, <1>7, <1>8, <1>9, Zenon

\* A panic ends the story; what was copied stays.
LEMMA PanicSpace ==
  ASSUME Space, pc' = "panic", UNCHANGED <<image, data>>
  PROVE  Space'
<1>1. Counters'
  BY SMT, SMTT(60) DEF Space, Counters, Loaded, Stacked, Direct, Windowed, Screened
<1>2. NoTables' /\ HugePages' /\ SmallPages'
  BY DEF NoTables, HugePages, SmallPages
<1>3. Bytes'
  BY DEF Space, Bytes
<1> QED BY <1>1, <1>2, <1>3 DEF Space

\* Steps that map no huge page, and steps that map no page.
LEMMA SameHuge ==
  ASSUME Space, pc # "panic", mapper'.huge = mapper.huge, HugeDone' = HugeDone,
         Gaps => Gaps' \/ HugeDone' = 0
  PROVE  HugePages'
<1>1. /\ mapper.huge = [b \in DOMAIN mapper.huge |-> mapper.huge[b]]
      /\ \A b \in DOMAIN mapper.huge : \E k \in 0 .. HugeDone - 1 :
           b = HHDM_BIG + k /\ mapper.huge[b] = Entry(k * ENTRIES, TRUE)
      /\ Gaps \/ \A k \in 0 .. HugeDone - 1 : HHDM_BIG + k \in DOMAIN mapper.huge
  BY Zenon DEF Space, HugePages
<1>2. HugeDone' = 0 => \A k \in 0 .. HugeDone' - 1 : FALSE
  OBVIOUS
<1>3. /\ mapper'.huge = [b \in DOMAIN mapper'.huge |-> mapper'.huge[b]]
      /\ \A b \in DOMAIN mapper'.huge : \E k \in 0 .. HugeDone' - 1 :
           b = HHDM_BIG + k /\ mapper'.huge[b] = Entry(k * ENTRIES, TRUE)
  BY <1>1, Zenon
<1>4. Gaps' \/ \A k \in 0 .. HugeDone' - 1 : HHDM_BIG + k \in DOMAIN mapper'.huge
  BY <1>1, <1>2, Zenon
<1> QED BY <1>3, <1>4, Zenon DEF HugePages

LEMMA SameSmall ==
  ASSUME Space, pc # "panic", mapper'.pages = mapper.pages, UNCHANGED machine,
         \A s \in DOMAIN Kernel : \A p :
           (SegmentDone(s, p)' <=> SegmentDone(s, p)) /\ (SegmentDone(s, p) => image'[s] = image[s]),
         \A p : StackDone(p)' <=> StackDone(p), \A p : WindowDone(p)' <=> WindowDone(p),
         \A p : ScreenDone(p)' <=> ScreenDone(p),
         Gaps => Gaps' \/ \A p : ~WindowDone(p)'
  PROVE  SmallPages'
<1>1. /\ \A p \in DOMAIN mapper.pages :
           (\E s \in DOMAIN Kernel : SegmentDone(s, p)) \/ StackDone(p) \/ WindowDone(p) \/ ScreenDone(p)
      /\ \A s \in DOMAIN Kernel, p \in Nat : SegmentDone(s, p) =>
           /\ p \in DOMAIN mapper.pages
           /\ mapper.pages[p] = Entry(image[s] + (p - Kernel[s].virt), Kernel[s].writable)
      /\ \A p \in Nat : StackDone(p) => p \in DOMAIN mapper.pages /\ mapper.pages[p].writable = TRUE
      /\ \A p \in Nat : WindowDone(p) =>
           IF p \in DOMAIN mapper.pages THEN mapper.pages[p].frame = p ELSE Gaps
      /\ \A p \in Nat : ScreenDone(p) =>
           /\ p \in DOMAIN mapper.pages
           /\ mapper.pages[p].frame = machine.fb_phys + p - FRAMEBUFFER_VIRT_BASE
  BY Zenon DEF Space, SmallPages
<1>2. /\ \A p \in DOMAIN mapper'.pages :
           (\E s \in DOMAIN Kernel : SegmentDone(s, p)') \/ StackDone(p)' \/ WindowDone(p)' \/ ScreenDone(p)'
      /\ \A p \in Nat : StackDone(p)' => p \in DOMAIN mapper'.pages /\ mapper'.pages[p].writable = TRUE
      /\ \A p \in Nat : ScreenDone(p)' =>
           /\ p \in DOMAIN mapper'.pages
           /\ mapper'.pages[p].frame = machine'.fb_phys + p - FRAMEBUFFER_VIRT_BASE
  BY <1>1, Zenon
<1>3. \A s \in DOMAIN Kernel, p \in Nat : SegmentDone(s, p)' =>
           /\ p \in DOMAIN mapper'.pages
           /\ mapper'.pages[p] = Entry(image'[s] + (p - Kernel[s].virt), Kernel[s].writable)
  BY <1>1, ZenonT(90), SMTT(60)
<1>4. \A p \in Nat : WindowDone(p)' =>
           IF p \in DOMAIN mapper'.pages THEN mapper'.pages[p].frame = p ELSE Gaps'
  BY <1>1, Zenon
<1> QED BY <1>2, <1>3, <1>4, Zenon DEF SmallPages

\* Steps of main and of the firmware that map nothing.
LEMMA IdleSpace ==
  ASSUME IInv, Space, pc' # "panic",
         \/ read_kernel \/ allocate_pool \/ create_pml4 \/ segments_loaded \/ read_memory_map
         \/ open_gop \/ prepare_boot_info \/ exit_boot_services \/ firmware \/ finished
         \/ UNCHANGED vars,
         Handover'
  PROVE  Space'
<1> USE DEF Screened, Windowed, Direct, Stacked, Loaded
<1>1. /\ UNCHANGED <<machine, i, image, data>> /\ pc # "panic"
      /\ \/ pc' = pc /\ UNCHANGED <<frame_allocator, mapper, max_phys_addr>>
         \/ pc = "file" /\ pc' = "pool" /\ UNCHANGED <<frame_allocator, mapper, max_phys_addr>>
         \/ pc = "pool" /\ pc' = "pml4" /\ UNCHANGED <<mapper, max_phys_addr>>
         \/ /\ pc = "pml4" /\ pc' = "segments" /\ UNCHANGED max_phys_addr
            /\ mapper' = [mapper EXCEPT !.tables =
                            Updated(@, {<<4, 0>>}, allocate_frame(frame_allocator))]
         \/ /\ pc = "segments" /\ pc' = "stack" /\ Len(image) = Len(Kernel)
            /\ UNCHANGED <<frame_allocator, mapper, max_phys_addr>>
         \/ pc = "memory_map" /\ pc' = "hhdm" /\ UNCHANGED <<frame_allocator, mapper>>
         \/ pc = "gop" /\ pc' = "framebuffer" /\ UNCHANGED <<frame_allocator, mapper, max_phys_addr>>
         \/ pc = "boot_info" /\ pc' = "exit" /\ UNCHANGED <<frame_allocator, mapper, max_phys_addr>>
         \/ pc = "exit" /\ pc' = "entered" /\ UNCHANGED <<frame_allocator, mapper, max_phys_addr>>
  BY Zenon DEF read_kernel, allocate_pool, create_pml4, segments_loaded, read_memory_map, open_gop,
         prepare_boot_info, exit_boot_services, firmware, finished, vars, panic
<1>2. /\ Len(image) <= Len(Kernel) /\ (pc \in Loaded => Len(image) = Len(Kernel))
      /\ pc \notin {"map_segment", "stack", "hhdm", "identity", "framebuffer", "panic"} => i = 0
      /\ pc = "map_segment" => i < Kernel[Len(image)].pages
      /\ pc = "stack" => i < STACK_PAGES
      /\ pc = "hhdm" => i < max_phys_addr \div ENTRIES
  BY Zenon DEF Space, Counters
<1>3. STACK_PAGES \in Nat \ {0} /\ i \in Nat
  BY Layout
<1>4. pc' = "hhdm" => max_phys_addr' \div ENTRIES \in Nat \ {0}
  BY Zenon DEF Handover
<1>5. Counters'
  <2>1. Len(image') <= Len(Kernel) /\ (pc' \in Loaded => Len(image') = Len(Kernel))
    BY <1>1, <1>2
  <2>2. pc' \notin {"map_segment", "stack", "hhdm", "identity", "framebuffer", "panic"} => i' = 0
    BY <1>1, <1>2
  <2>3. pc' = "map_segment" => i' < Kernel[Len(image')].pages
    BY <1>1, <1>2
  <2>4. pc' = "stack" => i' < STACK_PAGES
    BY <1>1, <1>2, <1>3
  <2>5. pc' = "hhdm" => i' < max_phys_addr' \div ENTRIES
    <3>1. CASE pc = "hhdm"
      BY <1>1, <1>2, <3>1
    <3>2. CASE pc = "memory_map"
      BY <1>2, <1>4, <1>1, <3>2
    <3> QED BY <1>1, <3>1, <3>2
  <2> QED BY <2>1, <2>2, <2>3, <2>4, <2>5, Zenon DEF Counters
<1>6. mapper'.pages = mapper.pages /\ mapper'.huge = mapper.huge
  BY <1>1 DEF IInv, Shape
<1>7. \A t \in DOMAIN mapper'.tables : t \in DOMAIN mapper.tables \/ t = <<4, 0>>
  <2>1. CASE UNCHANGED mapper
    BY <2>1
  <2>2. CASE mapper' = [mapper EXCEPT !.tables =
                          Updated(@, {<<4, 0>>}, allocate_frame(frame_allocator))]
    <3>1. mapper'.tables = Updated(mapper.tables, {<<4, 0>>}, allocate_frame(frame_allocator))
      BY <2>2 DEF IInv, Shape
    <3> QED BY <3>1 DEF Updated
  <2> QED BY <1>1, <2>1, <2>2
<1>8. ScreenBegun' <=> ScreenBegun
  BY <1>1, <1>2 DEF ScreenBegun
<1>9. NoTables'
  <2> SUFFICES ASSUME ~ScreenBegun'
               PROVE  /\ TableOf(FRAMEBUFFER_VIRT_BASE, 3) \notin DOMAIN mapper'.tables
                      /\ \A b \in Nat : HHDM_OFFSET <= b * ENTRIES /\ b * ENTRIES < HHDM_OFFSET + machine'.top
                                          => <<1, b>> \notin DOMAIN mapper'.tables
    BY Zenon DEF NoTables
  <2>1. /\ TableOf(FRAMEBUFFER_VIRT_BASE, 3) \notin DOMAIN mapper.tables
        /\ \A b \in Nat : HHDM_OFFSET <= b * ENTRIES /\ b * ENTRIES < HHDM_OFFSET + machine.top
                            => <<1, b>> \notin DOMAIN mapper.tables
    BY <1>1, <1>8, Zenon DEF Space, NoTables
  <2>2. TableOf(FRAMEBUFFER_VIRT_BASE, 3) # <<4, 0>> /\ \A b \in Nat : <<1, b>> # <<4, 0>>
    BY DEF TableOf
  <2>3. machine' = machine
    BY <1>1
  <2> QED BY <1>7, <2>1, <2>2, <2>3, Zenon
<1>10. HugeDone' = HugeDone
  BY <1>1, <1>2 DEF HugeDone
<1>11. /\ \A s \in DOMAIN Kernel : \A p :
            (SegmentDone(s, p)' <=> SegmentDone(s, p)) /\ (SegmentDone(s, p) => image'[s] = image[s])
  BY <1>1 DEF SegmentDone
<1>12. \A p : StackDone(p)' <=> StackDone(p)
  <2>1. \A p \in StackPages : ~(p < STACK_BASE + 0)
    BY Layout DEF StackPages, Frames, STACK_BASE
  <2> QED BY <1>1, <1>2, <2>1 DEF StackDone
<1>13. \A p : WindowDone(p)' <=> WindowDone(p)
  BY <1>1 DEF WindowDone, WindowPages
<1>14. \A p : ScreenDone(p)' <=> ScreenDone(p)
  <2>1. \A p \in ScreenPages : ~(p < FRAMEBUFFER_VIRT_BASE + 0)
    BY Layout DEF ScreenPages, Frames
  <2> QED BY <1>1, <1>2, <2>1 DEF ScreenDone, ScreenPages
<1>15. Gaps => Gaps' \/ (HugeDone' = 0 /\ \A p : ~WindowDone(p)')
  <2>1. CASE UNCHANGED frame_allocator
    BY <1>8, <2>1 DEF Gaps
  <2>2. CASE pc' \in {"pml4", "segments"}
    BY <2>2 DEF HugeDone, WindowDone
  <2> QED BY <1>1, <2>1, <2>2
<1>16. HugePages'
  BY <1>1, <1>6, <1>10, <1>15, SameHuge, Zenon
<1>17. SmallPages'
  <2> HIDE DEF Screened, Windowed, Direct, Stacked, Loaded
  <2> QED BY <1>1, <1>6, <1>11, <1>12, <1>13, <1>14, <1>15, SameSmall, Zenon
<1>18. Bytes'
  BY <1>1 DEF Space, Bytes
<1> QED BY <1>5, <1>9, <1>16, <1>17, <1>18 DEF Space

\* A segment's frames are filled before any of its pages is mapped, and no later segment
\* is copied over them.
LEMMA LoadSpace ==
  ASSUME IInv, Space, load_segment, pc' # "panic"
  PROVE  Space'
<1> USE DEF Screened, Windowed, Direct, Stacked, Loaded
<1> DEFINE n == Len(image)
           s == Len(image) + 1
           size == Kernel[s].pages
<1>1. PICK f \in allocate_pages(size) :
        /\ mem' = Updated(mem, Frames(size, f), LOADER_DATA)
        /\ image' = Append(image, f)
        /\ data' = [x \in DOMAIN data \cup Frames(size, f) |->
                      IF x \in Frames(size, f) THEN <<s, x - f>> ELSE data[x]]
        /\ pc = "segments" /\ pc' = "map_segment" /\ n < Len(Kernel)
        /\ UNCHANGED <<machine, i, frame_allocator, mapper, max_phys_addr>>
  BY Zenon DEF load_segment, panic
<1>2. Counters
  BY SMT, SMTT(60) DEF Space
<1>3. i = 0
  BY <1>1, <1>2 DEF Counters
<1>4. /\ DOMAIN Kernel = 1 .. Len(Kernel) /\ Len(Kernel) \in Nat
      /\ DOMAIN image = 1 .. n /\ n \in Nat /\ DOMAIN image \subseteq DOMAIN Kernel
  BY <1>2, SegmentLayout, Zenon
<1>5. /\ DOMAIN image' = 1 .. s /\ Len(image') = s /\ image'[s] = f
      /\ \A t \in 1 .. n : image'[t] = image[t]
  <2>1. image \in Seq(Nat)
    BY SMT, SMTT(60) DEF IInv, Shape
  <2> QED BY <1>1, <1>4, <2>1, SMT, SMTT(60)
<1>6. s \in DOMAIN Kernel
  BY <1>1, <1>4, SMT, SMTT(60)
<1>7. /\ size \in Nat \ {0} /\ Kernel[s].virt \in Nat
      /\ SegmentPages(s) = Kernel[s].virt .. Kernel[s].virt + size - 1
  BY <1>2, <1>6, SegmentLayout, Zenon
<1>8. f \in Nat
  BY FramesAreNumbers DEF allocate_pages, Runs
<1>9. Frames(size, f) = f .. f + size - 1
  BY SMT, SMTT(60) DEF Frames
<1> HIDE DEF size
<1>10. Counters'
  BY <1>1, <1>3, <1>4, <1>5, <1>7, SMT, SMTT(60) DEF Counters, size
<1>11. ScreenBegun' <=> ScreenBegun
  BY <1>1, SMT, SMTT(60) DEF ScreenBegun
<1>12. NoTables'
  BY <1>1, <1>11, SMT, SMTT(60) DEF Space, NoTables
<1>13. HugePages'
  <2>1. HugeDone' = HugeDone /\ HugeDone' = 0
    BY <1>1, SMT, SMTT(60) DEF HugeDone
  <2> QED BY <1>1, <2>1, SameHuge, SMT, SMTT(60)
<1>14. SmallPages'
  <2>1. \A t \in DOMAIN Kernel : \A p :
          (SegmentDone(t, p)' <=> SegmentDone(t, p)) /\ (SegmentDone(t, p) => image'[t] = image[t])
    <3> SUFFICES ASSUME NEW t \in DOMAIN Kernel, NEW p
                 PROVE  (SegmentDone(t, p)' <=> SegmentDone(t, p)) /\ (SegmentDone(t, p) => image'[t] = image[t])
      BY SMT, SMTT(60)
    <3>1. CASE t \in 1 .. n
      <4>1. t \in DOMAIN image /\ t \in DOMAIN image' /\ t # s
        BY <1>4, <1>5, <3>1, SMT, SMTT(60)
      <4> QED BY <1>1, <1>5, <3>1, <4>1 DEF SegmentDone
    <3>2. CASE t = s
      <4>1. t \notin DOMAIN image /\ t \in DOMAIN image'
        BY <1>4, <1>5, <3>2
      <4>2. \A q \in SegmentPages(t) : ~(q < Kernel[t].virt + 0)
        BY <1>7, <3>2, SMT, SMTT(60)
      <4> QED BY <1>1, <1>3, <1>5, <3>2, <4>1, <4>2, SMT, SMTT(60) DEF SegmentDone
    <3>3. CASE t \notin 1 .. s
      <4>1. t \notin DOMAIN image /\ t \notin DOMAIN image'
        BY <1>4, <1>5, <3>3, SMT, SMTT(60)
      <4> QED BY <4>1, SMT, SMTT(60) DEF SegmentDone
    <3> QED BY <1>4, <3>1, <3>2, <3>3, SMT, SMTT(60)
  <2>2. \A p : ~StackDone(p)' /\ ~StackDone(p) /\ ~WindowDone(p)' /\ ~WindowDone(p)
               /\ ~ScreenDone(p)' /\ ~ScreenDone(p)
    BY <1>1, SMT, SMTT(60) DEF StackDone, WindowDone, ScreenDone
  <2> QED BY <1>1, <2>1, <2>2, SameSmall, Zenon
<1>15. Bytes'
  <2>1. \A x \in Frames(size, f) : x \notin LoaderFrames
    BY <1>1, Reserved, Zenon
  <2>2. ASSUME NEW t \in 1 .. n, NEW k \in 0 .. Kernel[t].pages - 1
        PROVE  image'[t] + k \in DOMAIN data' /\ data'[image'[t] + k] = <<t, k>>
    <3>1. <<<<"image", t, k>>, image[t] + k>> \in Owned
      BY <1>4 DEF Owned, ImageUses
    <3> DEFINE x == image[t] + k
    <3>2. x \in LoaderFrames
      <4>1. <<<<"image", t, k>>, x>>[2] = x
        OBVIOUS
      <4> HIDE DEF x
      <4> QED BY <3>1, <4>1, Zenon DEF IInv, OwnedReserved, x
    <3>3. x \notin Frames(size, f)
      BY <2>1, <3>2
    <3>4. x \in DOMAIN data /\ data[x] = <<t, k>>
      BY <1>4 DEF Space, Bytes
    <3>5. image'[t] + k = x
      BY <1>5, SMT, SMTT(60)
    <3> HIDE DEF x
    <3>6. x \in DOMAIN data' /\ data'[x] = data[x]
      BY <1>1, <3>3, <3>4, SMT, SMTT(60)
    <3> QED BY <3>4, <3>5, <3>6, SMT, SMTT(60)
  <2>3. ASSUME NEW k \in 0 .. size - 1
        PROVE  f + k \in DOMAIN data' /\ data'[f + k] = <<s, k>>
    <3> DEFINE x == f + k
    <3>1. x \in f .. f + size - 1 /\ x - f = k
      BY <1>7, <1>8, SMT, SMTT(60)
    <3> HIDE DEF x
    <3>2. x \in DOMAIN data' /\ data'[x] = <<s, x - f>>
      BY <1>1, <1>9, <3>1
    <3> QED BY <3>1, <3>2 DEF x
  <2>4. \A t \in DOMAIN image' : t \in 1 .. n \/ t = s
    BY <1>4, <1>5
  <2> HIDE DEF s
  <2> QED BY <1>5, <2>2, <2>3, <2>4, SMT, SMTT(60) DEF Bytes, size
<1> QED BY <1>10, <1>12, <1>13, <1>14, <1>15, SMT, SMTT(60) DEF Space

\* A call of map_to that is not the end of the loader.
Turned(fa, page, huge, entry, ignore, count, after, r) ==
  /\ MapsThat(mapper, fa, page, huge, entry, r) /\ (r.ok \/ ignore)
  /\ mapper' = r.mp /\ frame_allocator' = r.fa
  /\ i' = IF i + 1 = count THEN 0 ELSE i + 1
  /\ pc' = IF i + 1 = count THEN after ELSE pc
  /\ UNCHANGED <<machine, image, data, max_phys_addr>>

LEMMA Turn ==
  ASSUME NEW fa, fa.next \in Nat, fa.end \in Nat, NEW page, NEW huge \in BOOLEAN, NEW entry,
         NEW ignore, NEW count, NEW after,
         MapStep(fa, page, huge, entry, ignore, count, after), pc' # "panic"
  PROVE  \E r : Turned(fa, page, huge, entry, ignore, count, after, r)
<1> DEFINE r == map_to(mapper, fa, page, huge, entry)
<1>1. MapsThat(mapper, fa, page, huge, entry, r)
  BY MapsTo
<1>2. /\ r.ok \/ ignore
      /\ mapper' = r.mp /\ frame_allocator' = r.fa
      /\ i' = IF i + 1 = count THEN 0 ELSE i + 1
      /\ pc' = IF i + 1 = count THEN after ELSE pc
      /\ UNCHANGED <<machine, image, data, max_phys_addr>>
  <2>1. r.ok = TRUE \/ r.ok = FALSE
    BY Zenon DEF map_to
  <2> QED BY <2>1, Zenon DEF MapStep, panic
<1> HIDE DEF r
<1> QED BY <1>1, <1>2, Zenon DEF Turned

\* Tables are made for the pages below the direct map, for the direct map's huge pages and
\* above the screen, until the screen is mapped.
LEMMA TurnTables ==
  ASSUME IInv, Space, pc # "panic", ~ScreenBegun, UNCHANGED machine, NEW page \in Nat, NEW huge \in BOOLEAN,
         \/ page >= STACK_BASE \/ page < HHDM_OFFSET
         \/ huge /\ page <= HHDM_OFFSET + machine.top + ENTRIES,
         \A t \in DOMAIN mapper'.tables :
           t \in DOMAIN mapper.tables \/ \E l \in {1, 2, 3} : t = TableOf(page, l) /\ (l = 1 => ~huge)
  PROVE  NoTables'
<1>1. /\ TableOf(FRAMEBUFFER_VIRT_BASE, 3) \notin DOMAIN mapper.tables
      /\ \A b \in Nat : HHDM_OFFSET <= b * ENTRIES /\ b * ENTRIES < HHDM_OFFSET + machine.top
                          => <<1, b>> \notin DOMAIN mapper.tables
  BY Zenon DEF Space, NoTables
<1>2. /\ ENTRIES \in Nat /\ ENTRIES >= 2 /\ HHDM_OFFSET \in Nat
      /\ FRAMEBUFFER_VIRT_BASE \in Nat /\ STACK_BASE \in Nat /\ machine.top \in Nat
      /\ machine.rip \in Nat /\ WINDOW \in Nat /\ machine.fb_pages \in Nat
      /\ machine.rip + WINDOW < HHDM_OFFSET
      /\ HHDM_OFFSET + machine.top + ENTRIES < FRAMEBUFFER_VIRT_BASE
      /\ FRAMEBUFFER_VIRT_BASE + machine.fb_pages < STACK_BASE
      /\ \A p \in Nat : p <= HHDM_OFFSET + machine.top + ENTRIES \/ p >= STACK_BASE =>
           Slot(p) # Slot(FRAMEBUFFER_VIRT_BASE)
  BY Layout, SMT, SMTT(60)
<1>3. Slot(page) # Slot(FRAMEBUFFER_VIRT_BASE)
  BY <1>2, SMT, SMTT(60)
<1>4. \A l \in {1, 2, 3} : TableOf(page, l) # TableOf(FRAMEBUFFER_VIRT_BASE, 3)
  <2>1. TableOf(page, 3) # TableOf(FRAMEBUFFER_VIRT_BASE, 3)
    BY <1>3 DEF TableOf, Slot, Power
  <2>2. TableOf(page, 1) # TableOf(FRAMEBUFFER_VIRT_BASE, 3) /\ TableOf(page, 2) # TableOf(FRAMEBUFFER_VIRT_BASE, 3)
    BY SMT, SMTT(60) DEF TableOf
  <2> QED BY <2>1, <2>2
<1>5. ASSUME NEW b \in Nat, HHDM_OFFSET <= b * ENTRIES, b * ENTRIES < HHDM_OFFSET + machine.top,
             NEW l \in {1, 2, 3}, <<1, b>> = TableOf(page, l), l = 1 => ~huge
      PROVE  FALSE
  <2>1. l = 1 /\ b = page \div ENTRIES
    BY <1>5 DEF TableOf, Power
  <2>2. b * ENTRIES <= page /\ page < b * ENTRIES + ENTRIES /\ b * ENTRIES \in Nat
    <3>1. page = ENTRIES * (page \div ENTRIES) + (page % ENTRIES) /\ page % ENTRIES \in 0 .. ENTRIES - 1
      BY <1>2
    <3>2. page = ENTRIES * b + (page % ENTRIES)
      BY <2>1, <3>1, SMT, SMTT(60)
    <3>3. ENTRIES * b = b * ENTRIES /\ b * ENTRIES \in Nat
      BY <1>2
    <3> QED BY <1>2, <3>1, <3>2, <3>3, SMT, SMTT(60)
  <2> QED BY <1>2, <1>5, <2>1, <2>2, SMT, SMTT(60)
<1> QED BY <1>1, <1>4, <1>5 DEF NoTables

\* A step that maps one page, which its loop has reached.
PageAdded(page, entry) ==
  /\ mapper'.pages = Updated(mapper.pages, {page}, entry)
  /\ UNCHANGED <<machine, image>> /\ (Gaps => Gaps')
  /\ \A s \in DOMAIN Kernel : \A p : SegmentDone(s, p) => SegmentDone(s, p)'
  /\ \A p : StackDone(p) => StackDone(p)'
  /\ \A p : WindowDone(p) => WindowDone(p)'
  /\ \A p : ScreenDone(p) => ScreenDone(p)'
  /\ (\E s \in DOMAIN Kernel : SegmentDone(s, page)') \/ StackDone(page)' \/ WindowDone(page)'
       \/ ScreenDone(page)'
  /\ \A s \in DOMAIN Kernel : \A p : SegmentDone(s, p)' =>
       \/ SegmentDone(s, p) /\ p # page
       \/ p = page /\ entry = Entry(image[s] + (p - Kernel[s].virt), Kernel[s].writable)
  /\ \A p : StackDone(p)' => (StackDone(p) /\ p # page) \/ (p = page /\ entry.writable = TRUE)
  /\ \A p : WindowDone(p)' => (WindowDone(p) /\ p # page) \/ (p = page /\ entry.frame = p)
  /\ \A p : ScreenDone(p)' =>
       \/ ScreenDone(p) /\ p # page
       \/ p = page /\ entry.frame = machine.fb_phys + p - FRAMEBUFFER_VIRT_BASE

LEMMA OnePage ==
  ASSUME Space, pc # "panic", NEW page \in Nat, NEW entry, PageAdded(page, entry)
  PROVE  SmallPages'
<1> USE DEF PageAdded
<1>1. /\ \A p \in DOMAIN mapper.pages :
           (\E s \in DOMAIN Kernel : SegmentDone(s, p)) \/ StackDone(p) \/ WindowDone(p) \/ ScreenDone(p)
      /\ \A s \in DOMAIN Kernel, p \in Nat : SegmentDone(s, p) =>
           /\ p \in DOMAIN mapper.pages
           /\ mapper.pages[p] = Entry(image[s] + (p - Kernel[s].virt), Kernel[s].writable)
      /\ \A p \in Nat : StackDone(p) => p \in DOMAIN mapper.pages /\ mapper.pages[p].writable = TRUE
      /\ \A p \in Nat : WindowDone(p) =>
           IF p \in DOMAIN mapper.pages THEN mapper.pages[p].frame = p ELSE Gaps
      /\ \A p \in Nat : ScreenDone(p) =>
           /\ p \in DOMAIN mapper.pages
           /\ mapper.pages[p].frame = machine.fb_phys + p - FRAMEBUFFER_VIRT_BASE
  BY ZenonT(40) DEF Space, SmallPages
<1>2. /\ \A p : p \in DOMAIN mapper'.pages <=> p \in DOMAIN mapper.pages \/ p = page
      /\ \A p \in DOMAIN mapper.pages : p # page => mapper'.pages[p] = mapper.pages[p]
      /\ mapper'.pages[page] = entry
  BY DEF Updated
<1>3. ASSUME NEW p \in DOMAIN mapper'.pages
      PROVE  (\E s \in DOMAIN Kernel : SegmentDone(s, p)') \/ StackDone(p)' \/ WindowDone(p)' \/ ScreenDone(p)'
  <2>1. CASE p = page
    BY <2>1, Zenon
  <2>2. CASE p \in DOMAIN mapper.pages
    BY <1>1, <2>2, Zenon
  <2> QED BY <1>2, <2>1, <2>2, Zenon
<1>4. ASSUME NEW p \in Nat, StackDone(p)'
      PROVE  p \in DOMAIN mapper'.pages /\ mapper'.pages[p].writable = TRUE
  BY <1>1, <1>2, <1>4, Zenon
<1>5. ASSUME NEW p \in Nat, ScreenDone(p)'
      PROVE  /\ p \in DOMAIN mapper'.pages
             /\ mapper'.pages[p].frame = machine'.fb_phys + p - FRAMEBUFFER_VIRT_BASE
  BY <1>1, <1>2, <1>5, Zenon
<1>6. ASSUME NEW s \in DOMAIN Kernel, NEW p \in Nat, SegmentDone(s, p)'
      PROVE  /\ p \in DOMAIN mapper'.pages
             /\ mapper'.pages[p] = Entry(image'[s] + (p - Kernel[s].virt), Kernel[s].writable)
  <2>1. CASE p = page /\ entry = Entry(image[s] + (p - Kernel[s].virt), Kernel[s].writable)
    BY <1>2, <2>1, Zenon
  <2>2. CASE SegmentDone(s, p) /\ p # page
    <3>1. /\ p \in DOMAIN mapper.pages
          /\ mapper.pages[p] = Entry(image[s] + (p - Kernel[s].virt), Kernel[s].writable)
      BY <1>1, <2>2, Zenon
    <3> QED BY <1>2, <2>2, <3>1, Zenon
  <2> QED BY <1>6, <2>1, <2>2, Zenon
<1>7. ASSUME NEW p \in Nat, WindowDone(p)'
      PROVE  IF p \in DOMAIN mapper'.pages THEN mapper'.pages[p].frame = p ELSE Gaps'
  <2>1. CASE p = page /\ entry.frame = p
    BY <1>2, <2>1, ZenonT(40)
  <2>2. CASE WindowDone(p) /\ p # page
    <3>1. IF p \in DOMAIN mapper.pages THEN mapper.pages[p].frame = p ELSE Gaps
      BY <1>1, <2>2, Zenon
    <3>2. p \in DOMAIN mapper'.pages <=> p \in DOMAIN mapper.pages
      BY <1>2, <2>2, Zenon
    <3>3. CASE p \in DOMAIN mapper.pages
      BY <1>2, <2>2, <3>1, <3>2, <3>3, Zenon
    <3>4. CASE p \notin DOMAIN mapper.pages
      BY <3>1, <3>2, <3>4, Zenon
    <3> QED BY <3>3, <3>4
  <2> QED BY <1>7, <2>1, <2>2, Zenon
<1> QED BY <1>3, <1>4, <1>5, <1>6, <1>7, ZenonT(40) DEF SmallPages

\* Turns of the loop over a segment's pages.
LEMMA SegmentSpace ==
  ASSUME IInv, Space, map_segment, pc' # "panic"
  PROVE  Space'
<1> USE DEF Screened, Windowed, Direct, Stacked, Loaded
<1> PICK s : s = Len(image)
  BY Zenon
<1> PICK page : page = Kernel[s].virt + i
  BY SMT, SMTT(60)
<1> PICK entry : entry = Entry(image[s] + i, Kernel[s].writable)
  OBVIOUS
<1>1. /\ pc = "map_segment"
      /\ MapStep(frame_allocator, page, FALSE, entry, FALSE, Kernel[s].pages, "segments")
  BY Zenon DEF map_segment
<1>2. frame_allocator.next \in Nat /\ frame_allocator.end \in Nat /\ i \in Nat
  BY DEF IInv, Shape
<1>3. PICK r : Turned(frame_allocator, page, FALSE, entry, FALSE, Kernel[s].pages, "segments", r)
  <2>1. FALSE \in BOOLEAN
    BY SMT, SMTT(60)
  <2> QED BY <1>1, <1>2, <2>1, Turn, Zenon
<1> USE DEF Turned
<1>4. Counters
  BY SMT, SMTT(60) DEF Space
<1>5. /\ s \in DOMAIN image /\ DOMAIN image \subseteq DOMAIN Kernel
      /\ Kernel[s].virt \in Nat /\ Kernel[s].pages \in Nat \ {0} /\ Kernel[s].virt >= KERNEL_BASE
      /\ SegmentPages(s) = Kernel[s].virt .. Kernel[s].virt + Kernel[s].pages - 1
      /\ \A t \in DOMAIN Kernel \ {s} : SegmentPages(s) \cap SegmentPages(t) = {}
  <2>1. s \in DOMAIN image /\ DOMAIN image \subseteq DOMAIN Kernel
    BY <1>1, <1>4, SegmentLayout, Zenon
  <2> QED BY <1>4, <2>1, SegmentLayout, Zenon
<1>6. i < Kernel[s].pages
  BY <1>1, <1>4, SMT, SMTT(60) DEF Counters
<1>7. Counters'
  <2>1. Len(image) <= Len(Kernel)
    BY <1>4, Zenon DEF Counters
  <2>2. pc' = "map_segment" => i + 1 # Kernel[s].pages /\ i' = i + 1
    BY <1>3, SMT, SMTT(60)
  <2>3. pc' = "map_segment" => i' < Kernel[s].pages
    BY <1>2, <1>5, <1>6, <2>2, SMT, SMTT(60)
  <2>4. pc' \in {"map_segment", "segments"} /\ (pc' = "segments" => i' = 0)
    BY <1>1, <1>3, SMT, SMTT(60)
  <2>5. image' = image
    BY <1>3
  <2> QED BY <2>1, <2>3, <2>4, <2>5, SMT, SMTT(60) DEF Counters
<1>8. /\ mapper'.pages = Updated(mapper.pages, {page}, entry) /\ mapper'.huge = mapper.huge
      /\ frame_allocator'.end = frame_allocator.end /\ frame_allocator'.next \in Nat /\ frame_allocator'.next >= frame_allocator.next
      /\ \A t \in DOMAIN mapper'.tables :
           t \in DOMAIN mapper.tables \/ \E l \in {1, 2, 3} : t = TableOf(page, l) /\ (l = 1 => ~FALSE)
  BY <1>3, Zenon DEF MapsThat
<1>9. ~ScreenBegun /\ ~ScreenBegun'
  BY <1>1, <1>3, SMT, SMTT(60) DEF ScreenBegun
<1>10. page \in Nat /\ page >= STACK_BASE /\ page \in SegmentPages(s)
  <2>1. STACK_BASE \in Nat /\ STACK_PAGES \in Nat /\ STACK_TOP = STACK_BASE + STACK_PAGES
        /\ STACK_TOP < KERNEL_BASE /\ KERNEL_BASE \in Nat
    BY Layout, SMT, SMTT(60)
  <2> QED BY <1>2, <1>5, <1>6, <2>1, SMT, SMTT(60)
<1>11. page - Kernel[s].virt = i
  BY <1>2, <1>5, SMT, SMTT(60)
<1>12. Gaps => Gaps'
  BY <1>2, <1>8, <1>9, SMT, SMTT(60) DEF Gaps
<1>13. \A p \in SegmentPages(s) : p < Kernel[s].virt + (i + 1) <=> p < Kernel[s].virt + i \/ p = page
  BY <1>2, <1>5, SMT, SMTT(60)
<1>14. i + 1 = Kernel[s].pages => \A p \in SegmentPages(s) : p < Kernel[s].virt + (i + 1)
  BY <1>2, <1>5, SMT, SMTT(60)
<1>15. NoTables'
  BY <1>1, <1>3, <1>8, <1>9, <1>10, TurnTables, ZenonT(40)
<1>16. HugePages'
  <2>1. HugeDone' = HugeDone
    BY <1>1, <1>3, SMT, SMTT(60) DEF HugeDone
  <2> QED BY <1>1, <1>8, <1>12, <2>1, SameHuge, ZenonT(40)
<1>17. \A p : SegmentDone(s, p)' <=> SegmentDone(s, p) \/ p = page
  BY <1>1, <1>3, <1>5, <1>10, <1>13, <1>14, ZenonT(40) DEF SegmentDone
<1>18. \A t \in DOMAIN Kernel \ {s} : \A p : (SegmentDone(t, p)' <=> SegmentDone(t, p)) /\ (SegmentDone(t, p) => p # page)
  BY <1>1, <1>3, <1>5, <1>10, ZenonT(40) DEF SegmentDone
<1>19. \A p : ~StackDone(p)' /\ ~StackDone(p) /\ ~WindowDone(p)' /\ ~WindowDone(p)
               /\ ~ScreenDone(p)' /\ ~ScreenDone(p)
  BY <1>1, <1>3, SMT, SMTT(60) DEF StackDone, WindowDone, ScreenDone
<1>20. ~SegmentDone(s, page)
  <2>1. ~(page < Kernel[s].virt + i)
    BY ONLY <1>2, <1>5, <1>10, <1>11, SMT, SMTT(60)
  <2> QED BY <1>1, <2>1, Zenon DEF SegmentDone
<1>21. entry = Entry(image[s] + (page - Kernel[s].virt), Kernel[s].writable)
  BY <1>11
<1>22. SmallPages'
  <2> HIDE DEF Screened, Windowed, Direct, Stacked, Loaded
  <2>1. s \in DOMAIN Kernel
    BY <1>5
  <2>2. \A t \in DOMAIN Kernel : \A p : SegmentDone(t, p) => SegmentDone(t, p)'
    BY <1>17, <1>18, Zenon
  <2>3. \E t \in DOMAIN Kernel : SegmentDone(t, page)'
    BY <1>17, <2>1, Zenon
  <2>4. \A t \in DOMAIN Kernel : \A p : SegmentDone(t, p)' =>
           \/ SegmentDone(t, p) /\ p # page
           \/ p = page /\ entry = Entry(image[t] + (p - Kernel[t].virt), Kernel[t].writable)
    BY <1>17, <1>18, <1>20, <1>21, ZenonT(40)
  <2>5. UNCHANGED <<machine, image>> /\ pc # "panic"
    BY <1>1, <1>3
  <2>6. mapper'.pages = Updated(mapper.pages, {page}, entry)
    BY <1>8, Zenon
  <2>7. PageAdded(page, entry)
    BY ONLY <1>12, <1>19, <2>2, <2>3, <2>4, <2>5, <2>6, ZenonT(40) DEF PageAdded
  <2> QED BY <1>10, <2>5, <2>7, OnePage, Zenon
<1>23. Bytes'
  BY <1>3, SMT, SMTT(60) DEF Space, Bytes
<1> QED BY <1>7, <1>15, <1>16, <1>22, <1>23, SMT, SMTT(60) DEF Space

\* Turns of the loop over the pages of the stack.
LEMMA StackSpace ==
  ASSUME IInv, Space, map_stack, pc' # "panic"
  PROVE  Space'
<1> USE DEF Screened, Windowed, Direct, Stacked, Loaded
<1> PICK page : page = STACK_BASE + i
  OBVIOUS
<1> PICK entry : entry = Entry(allocate_frame(frame_allocator), TRUE)
  BY Zenon
<1> PICK fa : fa = Taken(frame_allocator, 1)
  OBVIOUS
<1>1. /\ pc = "stack"
      /\ MapStep(fa, page, FALSE, entry, FALSE, STACK_PAGES, "memory_map")
  BY Zenon DEF map_stack, panic, STACK_BASE
<1>2. /\ frame_allocator.next \in Nat /\ frame_allocator.end \in Nat /\ i \in Nat
      /\ fa.next \in Nat /\ fa.end = frame_allocator.end /\ fa.next >= frame_allocator.next
      /\ fa.end \in Nat
  BY DEF IInv, Shape, Taken
<1>3. PICK r : Turned(fa, page, FALSE, entry, FALSE, STACK_PAGES, "memory_map", r)
  <2>1. FALSE \in BOOLEAN
    OBVIOUS
  <2> QED BY <1>1, <1>2, <2>1, Turn, Zenon
<1> USE DEF Turned
<1>4. Counters
  BY SMT, SMTT(60) DEF Space
<1>5. i < STACK_PAGES /\ Len(image) = Len(Kernel)
  BY <1>1, <1>4, SMT, SMTT(60) DEF Counters
<1>6. /\ STACK_BASE \in Nat /\ STACK_PAGES \in Nat \ {0} /\ STACK_TOP = STACK_BASE + STACK_PAGES
      /\ STACK_TOP < KERNEL_BASE /\ KERNEL_BASE \in Nat
  BY Layout, SMT, SMTT(60)
<1>7. Counters'
  <2>1. pc' = "stack" => i + 1 # STACK_PAGES /\ i' = i + 1
    BY <1>3
  <2>2. pc' = "stack" => i' < STACK_PAGES
    BY <1>2, <1>5, <1>6, <2>1, SMT, SMTT(60)
  <2>3. pc' \in {"stack", "memory_map"} /\ (pc' = "memory_map" => i' = 0)
    BY <1>1, <1>3, SMT, SMTT(60)
  <2>4. image' = image
    BY <1>3
  <2> QED BY <1>4, <1>5, <2>2, <2>3, <2>4, SMT, SMTT(60) DEF Counters
<1>8. /\ mapper'.pages = Updated(mapper.pages, {page}, entry) /\ mapper'.huge = mapper.huge
      /\ frame_allocator'.end = fa.end /\ frame_allocator'.next \in Nat
      /\ frame_allocator'.next >= fa.next
      /\ \A t \in DOMAIN mapper'.tables :
           t \in DOMAIN mapper.tables \/ \E l \in {1, 2, 3} : t = TableOf(page, l) /\ (l = 1 => ~FALSE)
  BY <1>3, Zenon DEF MapsThat
<1>9. ~ScreenBegun /\ ~ScreenBegun'
  BY <1>1, <1>3 DEF ScreenBegun
<1>10. StackPages = STACK_BASE .. STACK_TOP - 1
  BY <1>6 DEF StackPages, Frames, STACK_BASE
<1>11. page \in Nat /\ page >= STACK_BASE /\ page \in StackPages
  BY <1>2, <1>5, <1>6, <1>10, SMT, SMTT(60)
<1>12. Gaps => Gaps'
  BY <1>2, <1>8, <1>9, SMT, SMTT(60) DEF Gaps
<1>13. NoTables'
  BY <1>1, <1>3, <1>8, <1>9, <1>11, TurnTables, ZenonT(40)
<1>14. HugePages'
  <2>1. HugeDone' = HugeDone
    BY <1>1, <1>3, SMT, SMTT(60) DEF HugeDone
  <2> QED BY <1>1, <1>8, <1>12, <2>1, SameHuge, Zenon
<1>15. \A t \in DOMAIN Kernel : \A p : (SegmentDone(t, p)' <=> SegmentDone(t, p)) /\ (SegmentDone(t, p) => p # page)
  <2>1. \A t \in DOMAIN Kernel : \A p \in SegmentPages(t) : p # page
    <3>1. \A t \in DOMAIN Kernel :
            /\ Kernel[t].virt \in Nat /\ Kernel[t].pages \in Nat \ {0}
            /\ Kernel[t].virt >= KERNEL_BASE
            /\ SegmentPages(t) = Kernel[t].virt .. Kernel[t].virt + Kernel[t].pages - 1
      BY <1>4, SegmentLayout, Zenon
    <3> QED BY <1>2, <1>5, <1>6, <3>1, SMT, SMTT(60)
  <2> QED BY <1>1, <1>3, <2>1, SMT, SMTT(60) DEF SegmentDone
<1>16. /\ \A p : StackDone(p)' <=> StackDone(p) \/ p = page
       /\ ~StackDone(page)
  <2>1. \A p \in StackPages : p < STACK_BASE + (i + 1) <=> p < STACK_BASE + i \/ p = page
    BY <1>2, <1>6, <1>10
  <2>2. i + 1 = STACK_PAGES => \A p \in StackPages : p < STACK_BASE + (i + 1)
    BY <1>2, <1>6, <1>10, SMT, SMTT(60)
  <2>3. ~(page < STACK_BASE + i)
    BY <1>2, <1>6, SMT, SMTT(60)
  <2> QED BY <1>1, <1>3, <1>11, <2>1, <2>2, <2>3, Zenon DEF StackDone
<1>17. \A p : ~WindowDone(p)' /\ ~WindowDone(p) /\ ~ScreenDone(p)' /\ ~ScreenDone(p)
  BY <1>1, <1>3 DEF WindowDone, ScreenDone
<1>18. entry.writable = TRUE
  BY DEF Entry
<1>19. SmallPages'
  <2> HIDE DEF Screened, Windowed, Direct, Stacked, Loaded
  <2>1. UNCHANGED <<machine, image>> /\ pc # "panic"
    BY <1>1, <1>3
  <2>2. mapper'.pages = Updated(mapper.pages, {page}, entry)
    BY <1>8, Zenon
  <2>3. PageAdded(page, entry)
    BY ONLY <1>12, <1>15, <1>16, <1>17, <1>18, <2>1, <2>2, ZenonT(40) DEF PageAdded
  <2> QED BY <1>11, <2>1, <2>3, OnePage, Zenon
<1>20. Bytes'
  BY <1>3, Zenon DEF Space, Bytes
<1> QED BY <1>7, <1>13, <1>14, <1>19, <1>20 DEF Space

\* Turns of the direct map's loop: a huge page is mapped, or the pool is dry.
LEMMA HhdmSpace ==
  ASSUME IInv, Handover, Space, map_hhdm, pc' # "panic"
  PROVE  Space'
<1> USE DEF Screened, Windowed, Direct, Stacked, Loaded
<1> PICK n : n = i
  OBVIOUS
<1> PICK page : page = HHDM_OFFSET + n * ENTRIES
  OBVIOUS
<1> PICK entry : entry = Entry(n * ENTRIES, TRUE)
  BY Zenon
<1>1. PICK q \in Nat \ {0} : /\ q * ENTRIES \in Nat /\ q * ENTRIES < machine.top + ENTRIES
                             /\ max_phys_addr \div ENTRIES = q
  BY Zenon DEF Handover, map_hhdm
<1>2. /\ pc = "hhdm"
      /\ MapStep(frame_allocator, page, TRUE, entry, TRUE, q, "identity")
  BY <1>1, Zenon DEF map_hhdm
<1>3. frame_allocator.next \in Nat /\ frame_allocator.end \in Nat /\ n \in Nat
  BY DEF IInv, Shape
<1>4. PICK r : Turned(frame_allocator, page, TRUE, entry, TRUE, q, "identity", r)
  <2>1. TRUE \in BOOLEAN
    OBVIOUS
  <2> QED BY <1>2, <1>3, <2>1, Turn, Zenon
<1> USE DEF Turned
<1>5. Counters
  BY SMT, SMTT(60) DEF Space
<1>6. n < q /\ Len(image) = Len(Kernel)
  BY <1>1, <1>2, <1>5, SMT, SMTT(60) DEF Counters
<1>7. Counters'
  <2>1. pc' = "hhdm" => n + 1 # q /\ i' = n + 1
    BY <1>4
  <2>2. pc' = "hhdm" => i' < q
    BY <1>3, <1>6, <2>1, SMT, SMTT(60)
  <2>3. pc' \in {"hhdm", "identity"}
    BY <1>2, <1>4, SMT, SMTT(60)
  <2>4. image' = image /\ max_phys_addr' = max_phys_addr
    BY <1>4, SMT, SMTT(60)
  <2> QED BY <1>1, <1>5, <1>6, <2>2, <2>3, <2>4, SMT, SMTT(60) DEF Counters
<1>8. /\ ENTRIES \in Nat /\ ENTRIES >= 2 /\ HHDM_OFFSET \in Nat /\ machine.top \in Nat
      /\ HHDM_BIG \in Nat /\ HHDM_OFFSET = HHDM_BIG * ENTRIES
  BY Layout, SMT, SMTT(60)
<1>9. n * ENTRIES \in Nat /\ n * ENTRIES < machine.top
  <2>1. n * ENTRIES \in Nat /\ n * ENTRIES + ENTRIES <= q * ENTRIES
    <3>1. \A a, b \in Nat : a < b => a * ENTRIES \in Nat /\ a * ENTRIES + ENTRIES <= b * ENTRIES
      BY <1>8, SMT, SMTT(60)
    <3> QED BY <1>3, <1>6, <3>1, SMT, SMTT(60)
  <2> QED BY <1>1, <1>8, <2>1
<1>10. /\ page \in Nat /\ page <= HHDM_OFFSET + machine.top + ENTRIES
       /\ page = (HHDM_BIG + n) * ENTRIES /\ page \div ENTRIES = HHDM_BIG + n
  <2>1. page \in Nat /\ page <= HHDM_OFFSET + machine.top + ENTRIES
    BY <1>8, <1>9, SMT, SMTT(60)
  <2>2. (HHDM_BIG + n) * ENTRIES = HHDM_BIG * ENTRIES + n * ENTRIES
    BY <1>3, <1>8, SMT, SMTT(60)
  <2>3. page = (HHDM_BIG + n) * ENTRIES
    BY <1>8, <2>2, SMT, SMTT(60)
  <2>4. \A h \in Nat : (h * ENTRIES) \div ENTRIES = h
    BY <1>8, SMT, SMTT(60)
  <2>5. HHDM_BIG + n \in Nat
    BY <1>3, <1>8, SMT, SMTT(60)
  <2> QED BY <2>1, <2>3, <2>4, <2>5, SMT, SMTT(60)
<1>11. ~ScreenBegun /\ ~ScreenBegun'
  BY <1>2, <1>4 DEF ScreenBegun
<1>12. /\ mapper'.pages = mapper.pages
       /\ mapper'.huge = IF r.ok THEN Updated(mapper.huge, {HHDM_BIG + n}, entry) ELSE mapper.huge
       /\ frame_allocator'.end = frame_allocator.end /\ frame_allocator'.next \in Nat
       /\ frame_allocator'.next >= frame_allocator.next
       /\ \A t \in DOMAIN mapper'.tables :
            t \in DOMAIN mapper.tables \/ \E l \in {1, 2, 3} : t = TableOf(page, l) /\ (l = 1 => ~TRUE)
       /\ Unused(mapper, page, TRUE) => r.ok \/ frame_allocator'.next >= frame_allocator.end
  <2>1. /\ MapsThat(mapper, frame_allocator, page, TRUE, entry, r)
        /\ mapper' = r.mp /\ frame_allocator' = r.fa
    BY <1>4, Zenon
  <2>2. r.mp.pages = IF r.ok /\ ~TRUE THEN Updated(mapper.pages, {page}, entry) ELSE mapper.pages
    BY <2>1, Zenon DEF MapsThat
  <2>3. mapper'.pages = mapper.pages
    BY <2>1, <2>2, SMT, SMTT(60)
  <2> QED BY <1>10, <2>1, <2>3, Zenon DEF MapsThat
<1>13. NoTables'
  BY <1>2, <1>4, <1>10, <1>11, <1>12, TurnTables, Zenon
<1>14. HugeDone = n /\ HugeDone' = n + 1
  BY <1>1, <1>2, <1>4, SMT, SMTT(60) DEF HugeDone
<1>15. /\ mapper.huge = [b \in DOMAIN mapper.huge |-> mapper.huge[b]]
       /\ \A b \in DOMAIN mapper.huge : \E k \in 0 .. n - 1 :
            b = HHDM_BIG + k /\ mapper.huge[b] = Entry(k * ENTRIES, TRUE)
       /\ Gaps \/ \A k \in 0 .. n - 1 : HHDM_BIG + k \in DOMAIN mapper.huge
  BY <1>2, <1>14, Zenon DEF Space, HugePages
<1>16. Unused(mapper, page, TRUE)
  <2>1. HHDM_BIG + n \notin DOMAIN mapper.huge
    <3>1. \A k \in 0 .. n - 1 : HHDM_BIG + n # HHDM_BIG + k
      BY <1>3, <1>8, SMT, SMTT(60)
    <3> QED BY <1>15, <3>1, Zenon
  <2>2. <<1, HHDM_BIG + n>> \notin DOMAIN mapper.tables
    <3> DEFINE b == HHDM_BIG + n
    <3>1. b \in Nat /\ HHDM_OFFSET <= b * ENTRIES /\ b * ENTRIES < HHDM_OFFSET + machine.top
      BY <1>3, <1>8, <1>9, <1>10
    <3> HIDE DEF b
    <3>2. <<1, b>> \notin DOMAIN mapper.tables
      BY <1>2, <1>11, <3>1, Zenon DEF Space, NoTables
    <3> QED BY <3>2 DEF b
  <2> QED BY <1>10, <2>1, <2>2 DEF Unused
<1>17. Gaps => Gaps'
  BY <1>3, <1>11, <1>12, SMT, SMTT(60) DEF Gaps
<1>18. r.ok \/ Gaps'
  BY <1>11, <1>12, <1>16, SMT, SMTT(60) DEF Gaps
<1>19. HugePages'
  <2>1. CASE ~r.ok
    <3>1. mapper'.huge = mapper.huge /\ Gaps'
      BY <1>12, <1>18, <2>1, SMT, SMTT(60)
    <3>2. \A b \in DOMAIN mapper'.huge : \E k \in 0 .. HugeDone' - 1 :
            b = HHDM_BIG + k /\ mapper'.huge[b] = Entry(k * ENTRIES, TRUE)
      <4>1. \A k \in 0 .. n - 1 : k \in 0 .. HugeDone' - 1
        BY <1>3, <1>14, SMT, SMTT(60)
      <4> QED BY <1>15, <3>1, <4>1, Zenon
    <3>3. mapper'.huge = [b \in DOMAIN mapper'.huge |-> mapper'.huge[b]]
      BY <1>15, <3>1, SMT, SMTT(60)
    <3> QED BY <3>1, <3>2, <3>3, Zenon DEF HugePages
  <2>2. CASE r.ok
    <3>1. mapper'.huge = Updated(mapper.huge, {HHDM_BIG + n}, entry)
      BY <1>12, <2>2, SMT, SMTT(60)
    <3>2. /\ \A b : b \in DOMAIN mapper'.huge <=> b \in DOMAIN mapper.huge \/ b = HHDM_BIG + n
          /\ \A b \in DOMAIN mapper.huge : b # HHDM_BIG + n => mapper'.huge[b] = mapper.huge[b]
          /\ mapper'.huge[HHDM_BIG + n] = entry
      BY <3>1, Zenon DEF Updated
    <3>3. mapper'.huge = [b \in DOMAIN mapper'.huge |-> mapper'.huge[b]]
      BY <3>1, Zenon DEF Updated
    <3>4. ASSUME NEW b \in DOMAIN mapper'.huge
          PROVE  \E k \in 0 .. HugeDone' - 1 :
                   b = HHDM_BIG + k /\ mapper'.huge[b] = Entry(k * ENTRIES, TRUE)
      <4>1. CASE b = HHDM_BIG + n
        <5>1. n \in 0 .. HugeDone' - 1
          BY <1>3, <1>14, SMT, SMTT(60)
        <5> QED BY <3>2, <4>1, <5>1, Zenon
      <4>2. CASE b \in DOMAIN mapper.huge /\ b # HHDM_BIG + n
        <5>1. \A k \in 0 .. n - 1 : k \in 0 .. HugeDone' - 1
          BY <1>3, <1>14, SMT, SMTT(60)
        <5>2. mapper'.huge[b] = mapper.huge[b]
          BY <3>2, <4>2
        <5>3. PICK k \in 0 .. n - 1 : b = HHDM_BIG + k /\ mapper.huge[b] = Entry(k * ENTRIES, TRUE)
          BY <1>15, <4>2, Zenon
        <5> QED BY <5>1, <5>2, <5>3, Zenon
      <4> QED BY <3>2, <4>1, <4>2, Zenon
    <3>5. Gaps' \/ \A k \in 0 .. HugeDone' - 1 : HHDM_BIG + k \in DOMAIN mapper'.huge
      <4>1. \A k \in 0 .. HugeDone' - 1 : k \in 0 .. n - 1 \/ k = n
        BY <1>3, <1>14
      <4> QED BY <1>15, <1>17, <3>2, <4>1, Zenon
    <3> QED BY <3>3, <3>4, <3>5, Zenon DEF HugePages
  <2> QED BY <2>1, <2>2
<1>20. SmallPages'
  <2>1. \A t \in DOMAIN Kernel : \A p :
          (SegmentDone(t, p)' <=> SegmentDone(t, p)) /\ (SegmentDone(t, p) => image'[t] = image[t])
    BY <1>2, <1>4 DEF SegmentDone
  <2>2. \A p : StackDone(p)' <=> StackDone(p)
    BY <1>2, <1>4, Zenon DEF StackDone
  <2>3. \A p : ~WindowDone(p)' /\ ~WindowDone(p)
    <3>1. \A p \in WindowPages : ~(p < machine.rip + 0)
      BY Layout DEF WindowPages, Frames
    <3> QED BY <1>2, <1>4, <3>1, SMT, SMTT(60) DEF WindowDone, WindowPages
  <2>4. \A p : ~ScreenDone(p)' /\ ~ScreenDone(p)
    BY <1>2, <1>4, SMT, SMTT(60) DEF ScreenDone
  <2>5. UNCHANGED machine /\ pc # "panic" /\ mapper'.pages = mapper.pages
    BY <1>2, <1>4, <1>12, ZenonT(40)
  <2> HIDE DEF Screened, Windowed, Direct, Stacked, Loaded, Turned
  <2> QED BY <1>17, <2>1, <2>2, <2>3, <2>4, <2>5, SameSmall, ZenonT(40)
<1>21. Bytes'
  BY <1>4, Zenon DEF Space, Bytes
<1> QED BY <1>7, <1>13, <1>19, <1>20, <1>21, SMT, SMTT(60) DEF Space

\* A turn of the identity map's loop that drops an error.
LEMMA MissedPage ==
  ASSUME Space, pc # "panic", UNCHANGED <<machine, image>>, mapper'.pages = mapper.pages, Gaps',
         \A s \in DOMAIN Kernel : \A p : SegmentDone(s, p)' <=> SegmentDone(s, p),
         \A p : StackDone(p)' <=> StackDone(p), \A p : ScreenDone(p)' <=> ScreenDone(p),
         \A p : WindowDone(p) => WindowDone(p)',
         \A p : WindowDone(p)' => WindowDone(p) \/ p \notin DOMAIN mapper.pages
  PROVE  SmallPages'
<1>1. /\ \A p \in DOMAIN mapper.pages :
           (\E s \in DOMAIN Kernel : SegmentDone(s, p)) \/ StackDone(p) \/ WindowDone(p) \/ ScreenDone(p)
      /\ \A s \in DOMAIN Kernel, p \in Nat : SegmentDone(s, p) =>
           /\ p \in DOMAIN mapper.pages
           /\ mapper.pages[p] = Entry(image[s] + (p - Kernel[s].virt), Kernel[s].writable)
      /\ \A p \in Nat : StackDone(p) => p \in DOMAIN mapper.pages /\ mapper.pages[p].writable = TRUE
      /\ \A p \in Nat : WindowDone(p) =>
           IF p \in DOMAIN mapper.pages THEN mapper.pages[p].frame = p ELSE Gaps
      /\ \A p \in Nat : ScreenDone(p) =>
           /\ p \in DOMAIN mapper.pages
           /\ mapper.pages[p].frame = machine.fb_phys + p - FRAMEBUFFER_VIRT_BASE
  BY Zenon DEF Space, SmallPages
<1>2. \A p \in DOMAIN mapper'.pages :
        (\E s \in DOMAIN Kernel : SegmentDone(s, p)') \/ StackDone(p)' \/ WindowDone(p)' \/ ScreenDone(p)'
  BY <1>1, Zenon
<1>3. /\ \A p \in Nat : StackDone(p)' => p \in DOMAIN mapper'.pages /\ mapper'.pages[p].writable = TRUE
      /\ \A p \in Nat : ScreenDone(p)' =>
           /\ p \in DOMAIN mapper'.pages
           /\ mapper'.pages[p].frame = machine'.fb_phys + p - FRAMEBUFFER_VIRT_BASE
  BY <1>1, Zenon
<1>4. \A s \in DOMAIN Kernel, p \in Nat : SegmentDone(s, p)' =>
           /\ p \in DOMAIN mapper'.pages
           /\ mapper'.pages[p] = Entry(image'[s] + (p - Kernel[s].virt), Kernel[s].writable)
  BY <1>1, ZenonT(40)
<1>5. ASSUME NEW p \in Nat, WindowDone(p)'
      PROVE  IF p \in DOMAIN mapper'.pages THEN mapper'.pages[p].frame = p ELSE Gaps'
  <2>1. CASE p \in DOMAIN mapper.pages
    <3>1. WindowDone(p)
      BY <1>5, <2>1, Zenon
    <3> QED BY <1>1, <2>1, <3>1, Zenon
  <2>2. CASE p \notin DOMAIN mapper.pages
    BY <2>2, Zenon
  <2> QED BY <2>1, <2>2, Zenon
<1> QED BY <1>2, <1>3, <1>4, <1>5, ZenonT(40) DEF SmallPages

\* Turns of the identity map's loop: a page of the window is mapped, or the pool is dry.
LEMMA WindowSpace ==
  ASSUME IInv, Space, identity_map, pc' # "panic"
  PROVE  Space'
<1> USE DEF Screened, Windowed, Direct, Stacked, Loaded
<1> PICK page : page = machine.rip + i
  OBVIOUS
<1> PICK entry : entry = Entry(page, TRUE)
  BY Zenon
<1>1. /\ pc = "identity"
      /\ MapStep(frame_allocator, page, FALSE, entry, TRUE, WINDOW, "gop")
  BY Zenon DEF identity_map
<1>2. /\ frame_allocator.next \in Nat /\ frame_allocator.end \in Nat /\ i \in Nat
      /\ i < WINDOW
  BY <1>1 DEF IInv, Shape, Progress
<1>3. PICK r : Turned(frame_allocator, page, FALSE, entry, TRUE, WINDOW, "gop", r)
  <2>1. FALSE \in BOOLEAN
    OBVIOUS
  <2> QED BY <1>1, <1>2, <2>1, Turn, Zenon
<1> USE DEF Turned
<1>4. Counters
  BY Zenon DEF Space
<1>5. /\ ENTRIES \in Nat /\ ENTRIES >= 2 /\ HHDM_OFFSET \in Nat /\ machine.top \in Nat
      /\ FRAMEBUFFER_VIRT_BASE \in Nat /\ machine.fb_pages \in Nat /\ machine.rip \in Nat
      /\ WINDOW \in Nat \ {0} /\ machine.rip + WINDOW < HHDM_OFFSET
      /\ HHDM_OFFSET + machine.top + ENTRIES < FRAMEBUFFER_VIRT_BASE
      /\ FRAMEBUFFER_VIRT_BASE + machine.fb_pages < STACK_BASE
      /\ STACK_BASE \in Nat /\ STACK_PAGES \in Nat \ {0} /\ STACK_TOP = STACK_BASE + STACK_PAGES
      /\ STACK_TOP < KERNEL_BASE /\ KERNEL_BASE \in Nat
  BY Layout, SMT, SMTT(60)
<1>6. Counters'
  <2>1. pc' \in {"identity", "gop"} /\ (pc' = "gop" => i' = 0) /\ image' = image
    BY <1>1, <1>3
  <2> QED BY <1>1, <1>4, <2>1, SMT, SMTT(60) DEF Counters
<1>7. /\ mapper'.pages = IF r.ok THEN Updated(mapper.pages, {page}, entry) ELSE mapper.pages
      /\ mapper'.huge = mapper.huge
      /\ frame_allocator'.end = frame_allocator.end /\ frame_allocator'.next \in Nat
      /\ frame_allocator'.next >= frame_allocator.next
      /\ \A t \in DOMAIN mapper'.tables :
           t \in DOMAIN mapper.tables \/ \E l \in {1, 2, 3} : t = TableOf(page, l) /\ (l = 1 => ~FALSE)
      /\ Unused(mapper, page, FALSE) => r.ok \/ frame_allocator'.next >= frame_allocator.end
  <2>1. /\ MapsThat(mapper, frame_allocator, page, FALSE, entry, r)
        /\ mapper' = r.mp /\ frame_allocator' = r.fa
    BY <1>3, Zenon
  <2>2. r.mp.pages = IF r.ok /\ ~FALSE THEN Updated(mapper.pages, {page}, entry) ELSE mapper.pages
    BY <2>1, Zenon DEF MapsThat
  <2>3. mapper'.pages = IF r.ok THEN Updated(mapper.pages, {page}, entry) ELSE mapper.pages
    BY <2>1, <2>2
  <2>4. mapper'.huge = mapper.huge
    BY <2>1, Zenon DEF MapsThat
  <2> QED BY <2>1, <2>3, <2>4, Zenon DEF MapsThat
<1>8. ~ScreenBegun /\ ~ScreenBegun'
  BY <1>1, <1>3 DEF ScreenBegun
<1>9. WindowPages = machine.rip .. machine.rip + WINDOW - 1
  BY DEF WindowPages, Frames
<1>10. page \in Nat /\ page < HHDM_OFFSET /\ page \in WindowPages
  <2>1. /\ page = machine.rip + i /\ machine.rip \in Nat /\ i \in Nat /\ WINDOW \in Nat
        /\ i < WINDOW /\ HHDM_OFFSET \in Nat /\ machine.rip + WINDOW < HHDM_OFFSET
    BY <1>2, <1>5, SMT, SMTT(60)
  <2> QED BY ONLY <1>9, <2>1, SMT, SMTT(60)
<1>11. Gaps => Gaps'
  BY <1>2, <1>7, <1>8, SMT, SMTT(60) DEF Gaps
<1>12. NoTables'
  BY <1>1, <1>3, <1>7, <1>8, <1>10, TurnTables, ZenonT(40)
<1>13. HugePages'
  <2>1. HugeDone' = HugeDone
    BY <1>1, <1>3, SMT, SMTT(60) DEF HugeDone
  <2> QED BY <1>1, <1>7, <1>11, <2>1, SameHuge, Zenon
<1>14. \A t \in DOMAIN Kernel : \A p : (SegmentDone(t, p)' <=> SegmentDone(t, p)) /\ (SegmentDone(t, p) => p # page)
  <2>1. \A t \in DOMAIN Kernel : \A p \in SegmentPages(t) : p # page
    <3>1. \A t \in DOMAIN Kernel :
            /\ Kernel[t].virt \in Nat /\ Kernel[t].pages \in Nat \ {0}
            /\ Kernel[t].virt >= KERNEL_BASE
            /\ SegmentPages(t) = Kernel[t].virt .. Kernel[t].virt + Kernel[t].pages - 1
      BY <1>4, SegmentLayout, Zenon
    <3>2. page < KERNEL_BASE /\ page \in Nat /\ KERNEL_BASE \in Nat
      BY <1>5, <1>10, SMT, SMTT(60)
    <3> QED BY ONLY <3>1, <3>2, SMT, SMTT(60)
  <2> QED BY <1>1, <1>3, <2>1, Zenon DEF SegmentDone
<1>15. \A p : (StackDone(p)' <=> StackDone(p)) /\ (StackDone(p) => p # page)
  <2>1. StackPages = STACK_BASE .. STACK_TOP - 1
    BY <1>5 DEF StackPages, Frames, STACK_BASE
  <2>2. page \notin StackPages
    BY <1>5, <1>10, <2>1, SMT, SMTT(60)
  <2> QED BY <1>1, <1>3, <2>2, Zenon DEF StackDone
<1>16. \A p : ~ScreenDone(p)' /\ ~ScreenDone(p)
  BY <1>1, <1>3 DEF ScreenDone
<1>17. /\ \A p : WindowDone(p)' <=> WindowDone(p) \/ p = page
       /\ ~WindowDone(page)
  <2>1. \A p \in WindowPages : p < machine.rip + (i + 1) <=> p < machine.rip + i \/ p = page
    <3>1. page = machine.rip + i /\ machine.rip \in Nat /\ i \in Nat /\ WINDOW \in Nat
      BY <1>2, <1>5
    <3> QED BY ONLY <1>9, <3>1
  <2>2. i + 1 = WINDOW => \A p \in WindowPages : p < machine.rip + (i + 1)
    BY <1>2, <1>5, <1>9, SMT, SMTT(60)
  <2>3. ~(page < machine.rip + i)
    BY <1>2, <1>5
  <2> QED BY <1>1, <1>3, <1>10, <2>1, <2>2, <2>3, Zenon DEF WindowDone, WindowPages
<1>18. page \notin DOMAIN mapper.pages
  <2>1. \A p \in DOMAIN mapper.pages :
          (\E s \in DOMAIN Kernel : SegmentDone(s, p)) \/ StackDone(p) \/ WindowDone(p) \/ ScreenDone(p)
    BY <1>1, Zenon DEF Space, SmallPages
  <2> HIDE DEF Turned
  <2> QED BY <1>14, <1>15, <1>16, <1>17, <2>1, ZenonT(40)
<1>19. Unused(mapper, page, FALSE)
  <2> DEFINE h == HHDM_BIG
  <2>1. h \in Nat /\ HHDM_OFFSET = h * ENTRIES /\ ENTRIES \in Nat /\ ENTRIES >= 2 /\ page \in Nat
    BY <1>10, Layout, SMT, SMTT(60)
  <2> HIDE DEF h
  <2>2. \A b \in DOMAIN mapper.huge : \E k \in 0 .. HugeDone - 1 : b = HHDM_BIG + k
    BY <1>1, Zenon DEF Space, HugePages
  <2>3. page \div ENTRIES < h /\ page \div ENTRIES \in Int
    <3> DEFINE b == page \div ENTRIES
               c == page % ENTRIES
    <3>1. page = ENTRIES * b + c /\ c \in 0 .. ENTRIES - 1 /\ b \in Int
      BY ONLY <2>1, SMT, SMTT(60)
    <3> HIDE DEF b, c
    <3>2. ENTRIES * b = b * ENTRIES /\ b * ENTRIES \in Int /\ h * ENTRIES \in Int
      BY <2>1, <3>1, SMT, SMTT(60)
    <3>3. b * ENTRIES < h * ENTRIES
      BY <1>10, <2>1, <3>1, <3>2, SMT, SMTT(60)
    <3>4. \A x, y \in Int : x >= y => x * ENTRIES >= y * ENTRIES
      BY <2>1, SMT, SMTT(60)
    <3>5. ~(b >= h)
      BY <2>1, <3>1, <3>2, <3>3, <3>4, SMT, SMTT(60)
    <3> QED BY <2>1, <3>1, <3>5 DEF b
  <2>4. \A k \in 0 .. HugeDone - 1 : page \div ENTRIES # HHDM_BIG + k
    <3> DEFINE b == page \div ENTRIES
    <3>1. b < h /\ b \in Int
      BY <2>3
    <3> HIDE DEF b
    <3>2. \A k \in 0 .. HugeDone - 1 : b # h + k
      BY <2>1, <3>1, SMT, SMTT(60)
    <3> QED BY <3>2, SMT, SMTT(60) DEF b, h
  <2> QED BY <1>18, <2>2, <2>4, Zenon DEF Unused
<1>20. r.ok \/ Gaps'
  BY <1>7, <1>8, <1>19, SMT, SMTT(60) DEF Gaps
<1>21. UNCHANGED <<machine, image>> /\ pc # "panic"
  BY <1>1, <1>3
<1>22. entry.frame = page
  BY DEF Entry
<1> HIDE DEF Screened, Windowed, Direct, Stacked, Loaded, Turned
<1>23. SmallPages'
  <2>1. CASE r.ok
    <3>1. mapper'.pages = Updated(mapper.pages, {page}, entry)
      BY <1>7, <2>1
    <3>2. PageAdded(page, entry)
      BY ONLY <1>11, <1>14, <1>15, <1>16, <1>17, <1>21, <1>22, <3>1, Zenon DEF PageAdded
    <3> QED BY <1>10, <1>21, <3>2, OnePage, Zenon
  <2>2. CASE ~r.ok
    <3>1. mapper'.pages = mapper.pages /\ Gaps'
      BY <1>7, <1>20, <2>2
    <3>2. \A p : WindowDone(p)' => WindowDone(p) \/ p \notin DOMAIN mapper.pages
      BY <1>17, <1>18, Zenon
    <3> QED BY <1>14, <1>15, <1>16, <1>17, <1>21, <3>1, <3>2, MissedPage, Zenon
  <2> QED BY <2>1, <2>2
<1>24. Bytes'
  BY <1>3, Zenon DEF Space, Bytes, Turned
<1> QED BY <1>6, <1>12, <1>13, <1>23, <1>24, SMT, SMTT(60) DEF Space

\* Turns of the screen's loop.  The first one needs a new level 3 table, so the pool was not
\* dry before it and the two loops that drop errors have dropped none.
LEMMA ScreenSpace ==
  ASSUME IInv, Space, map_framebuffer, pc' # "panic"
  PROVE  Space'
<1> USE DEF Screened, Windowed, Direct, Stacked, Loaded
<1> PICK page : page = FRAMEBUFFER_VIRT_BASE + i
  OBVIOUS
<1> PICK entry : entry = Entry(machine.fb_phys + i, TRUE)
  BY Zenon
<1>1. /\ pc = "framebuffer"
      /\ MapStep(frame_allocator, page, FALSE, entry, FALSE, machine.fb_pages, "boot_info")
  BY Zenon DEF map_framebuffer
<1>2. /\ frame_allocator.next \in Nat /\ frame_allocator.end \in Nat /\ i \in Nat
      /\ i < machine.fb_pages
  BY <1>1 DEF IInv, Shape, Progress
<1>3. PICK r : Turned(frame_allocator, page, FALSE, entry, FALSE, machine.fb_pages, "boot_info", r)
  <2>1. FALSE \in BOOLEAN
    OBVIOUS
  <2> QED BY <1>1, <1>2, <2>1, Turn, Zenon
<1> USE DEF Turned
<1>4. Counters
  BY Zenon DEF Space
<1>5. /\ FRAMEBUFFER_VIRT_BASE \in Nat /\ machine.fb_pages \in Nat \ {0} /\ machine.rip \in Nat
      /\ machine.top \in Nat /\ ENTRIES \in Nat /\ machine.fb_phys \in Nat
      /\ WINDOW \in Nat \ {0} /\ machine.rip + WINDOW < HHDM_OFFSET /\ HHDM_OFFSET \in Nat
      /\ HHDM_OFFSET + machine.top + ENTRIES < FRAMEBUFFER_VIRT_BASE
      /\ FRAMEBUFFER_VIRT_BASE + machine.fb_pages < STACK_BASE
      /\ STACK_BASE \in Nat /\ STACK_PAGES \in Nat \ {0} /\ STACK_TOP = STACK_BASE + STACK_PAGES
      /\ STACK_TOP < KERNEL_BASE /\ KERNEL_BASE \in Nat
  BY Layout, Zenon
<1>6. Counters'
  <2>1. pc' \in {"framebuffer", "boot_info"} /\ (pc' = "boot_info" => i' = 0) /\ image' = image
    BY <1>1, <1>3
  <2> QED BY <1>1, <1>4, <2>1, SMT, SMTT(60) DEF Counters
<1>7. /\ mapper'.pages = Updated(mapper.pages, {page}, entry) /\ mapper'.huge = mapper.huge
      /\ ~(frame_allocator.next >= frame_allocator.end /\ TableOf(page, 3) \notin DOMAIN mapper.tables)
  BY <1>3, Zenon DEF MapsThat
<1>8. ScreenBegun'
  BY <1>1, <1>2, <1>3 DEF ScreenBegun
<1>9. ~Gaps
  <2>1. CASE i = 0
    <3>1. ~ScreenBegun
      BY <1>1, <2>1, SMT, SMTT(60) DEF ScreenBegun
    <3>2. page = FRAMEBUFFER_VIRT_BASE
      BY <1>5, <2>1, SMT, SMTT(60)
    <3>3. TableOf(page, 3) \notin DOMAIN mapper.tables
      BY <1>1, <3>1, <3>2, SMT, SMTT(60) DEF Space, NoTables
    <3> QED BY <1>7, <3>3 DEF Gaps
  <2>2. CASE i # 0
    BY <1>1, <1>2, <2>2, SMT, SMTT(60) DEF Gaps, ScreenBegun
  <2> QED BY <2>1, <2>2, Zenon
<1>10. NoTables'
  BY <1>8, SMT, SMTT(60) DEF NoTables
<1>11. HugePages'
  <2>1. HugeDone' = HugeDone
    BY <1>1, <1>3 DEF HugeDone
  <2> QED BY <1>1, <1>7, <1>9, <2>1, SameHuge, SMT, SMTT(60)
<1>12. ScreenPages = FRAMEBUFFER_VIRT_BASE .. FRAMEBUFFER_VIRT_BASE + machine.fb_pages - 1
  BY DEF ScreenPages, Frames
<1>13. /\ page = FRAMEBUFFER_VIRT_BASE + i /\ page \in Nat /\ page \in ScreenPages
       /\ page < STACK_BASE /\ page > machine.rip + WINDOW
  <2>1. /\ page = FRAMEBUFFER_VIRT_BASE + i /\ FRAMEBUFFER_VIRT_BASE \in Nat /\ i \in Nat
        /\ machine.fb_pages \in Nat /\ i < machine.fb_pages /\ STACK_BASE \in Nat
        /\ FRAMEBUFFER_VIRT_BASE + machine.fb_pages < STACK_BASE
        /\ machine.rip + WINDOW \in Nat /\ machine.rip + WINDOW < FRAMEBUFFER_VIRT_BASE
    BY <1>2, <1>5, SMT, SMTT(60)
  <2> QED BY ONLY <1>12, <2>1, SMT, SMTT(60)
<1>14. \A t \in DOMAIN Kernel : \A p : (SegmentDone(t, p)' <=> SegmentDone(t, p)) /\ (SegmentDone(t, p) => p # page)
  <2>1. \A t \in DOMAIN Kernel : \A p \in SegmentPages(t) : p # page
    <3>1. \A t \in DOMAIN Kernel :
            /\ Kernel[t].virt \in Nat /\ Kernel[t].pages \in Nat \ {0}
            /\ Kernel[t].virt >= KERNEL_BASE
            /\ SegmentPages(t) = Kernel[t].virt .. Kernel[t].virt + Kernel[t].pages - 1
      BY <1>4, SegmentLayout, Zenon
    <3>2. page < KERNEL_BASE /\ page \in Nat /\ KERNEL_BASE \in Nat
      BY <1>5, <1>13, SMT, SMTT(60)
    <3> QED BY ONLY <3>1, <3>2
  <2> QED BY <1>1, <1>3, <2>1, Zenon DEF SegmentDone
<1>15. \A p : (StackDone(p)' <=> StackDone(p)) /\ (StackDone(p) => p # page)
  <2>1. StackPages = STACK_BASE .. STACK_TOP - 1
    BY <1>5, SMT, SMTT(60) DEF StackPages, Frames, STACK_BASE
  <2>2. page \notin StackPages
    BY <1>5, <1>13, <2>1, SMT, SMTT(60)
  <2> QED BY <1>1, <1>3, <2>2, SMT, SMTT(60) DEF StackDone
<1>16. \A p : (WindowDone(p)' <=> WindowDone(p)) /\ (WindowDone(p) => p # page)
  <2>1. page \notin WindowPages
    BY <1>5, <1>13, SMT, SMTT(60) DEF WindowPages, Frames
  <2> QED BY <1>1, <1>3, <2>1, SMT, SMTT(60) DEF WindowDone, WindowPages
<1>17. /\ \A p : ScreenDone(p)' <=> ScreenDone(p) \/ p = page
       /\ ~ScreenDone(page)
  <2> DEFINE B == FRAMEBUFFER_VIRT_BASE
  <2>1. B \in Nat /\ i \in Nat /\ machine.fb_pages \in Nat /\ page = B + i
    BY <1>2, <1>5
  <2>2. \A p \in ScreenPages : p < B + (i + 1) <=> p < B + i \/ p = page
    BY ONLY <1>12, <2>1
  <2>3. i + 1 = machine.fb_pages => \A p \in ScreenPages : p < B + (i + 1)
    BY ONLY <1>12, <2>1
  <2>4. ~(page < B + i)
    BY ONLY <2>1, SMT, SMTT(60)
  <2> QED BY <1>1, <1>3, <1>13, <2>2, <2>3, <2>4, Zenon DEF ScreenDone, ScreenPages
<1>18. UNCHANGED <<machine, image>> /\ pc # "panic"
  BY <1>1, <1>3
<1>19. entry.frame = machine.fb_phys + page - FRAMEBUFFER_VIRT_BASE
  <2>1. entry.frame = machine.fb_phys + i
    BY DEF Entry
  <2>2. /\ machine.fb_phys \in Nat /\ i \in Nat /\ FRAMEBUFFER_VIRT_BASE \in Nat
        /\ page = FRAMEBUFFER_VIRT_BASE + i
    BY <1>2, <1>5
  <2>3. machine.fb_phys + i = machine.fb_phys + page - FRAMEBUFFER_VIRT_BASE
    BY ONLY <2>2
  <2> QED BY <2>1, <2>3, Zenon
<1> HIDE DEF Screened, Windowed, Direct, Stacked, Loaded, Turned
<1>20. SmallPages'
  <2>1. mapper'.pages = Updated(mapper.pages, {page}, entry)
    BY <1>7, Zenon
  <2>2. PageAdded(page, entry)
    BY ONLY <1>9, <1>14, <1>15, <1>16, <1>17, <1>18, <1>19, <2>1, ZenonT(40) DEF PageAdded
  <2> QED BY <1>13, <1>18, <2>2, OnePage, Zenon
<1>21. Bytes'
  BY <1>3 DEF Space, Bytes, Turned
<1> QED BY <1>6, <1>10, <1>11, <1>20, <1>21 DEF Space

LEMMA SpaceInit == Init => Space
<1> SUFFICES ASSUME Init PROVE Space
  BY SMT, SMTT(60)
<1> USE DEF Screened, Windowed, Direct, Stacked, Loaded
<1>1. /\ pc = "file" /\ i = 0 /\ image = <<>>
      /\ mapper.tables = <<>> /\ mapper.pages = <<>> /\ mapper.huge = <<>>
  BY DEF Init
<1>2. Len(Kernel) \in Nat
  <2>1. Kernel \in Seq([virt : Nat, pages : Nat \ {0}, writable : BOOLEAN])
    BY BootAssumption, Zenon
  <2> QED BY <2>1
<1>3. Len(image) = 0 /\ DOMAIN image = {} /\ DOMAIN mapper.tables = {} /\ DOMAIN mapper.pages = {}
      /\ DOMAIN mapper.huge = {}
  BY <1>1
<1>4. Counters
  BY <1>1, <1>2, <1>3, SMT, SMTT(60) DEF Counters
<1>5. NoTables
  BY <1>3, SMT, SMTT(60) DEF NoTables
<1>6. HugePages
  <2>1. HugeDone = 0 /\ \A k \in 0 .. HugeDone - 1 : FALSE
    BY <1>1 DEF HugeDone
  <2>2. mapper.huge = [b \in DOMAIN mapper.huge |-> mapper.huge[b]]
    BY <1>1
  <2> QED BY <1>3, <2>1, <2>2 DEF HugePages
<1>7. SmallPages
  <2>1. \A p : /\ \A s \in DOMAIN Kernel : ~SegmentDone(s, p)
               /\ ~StackDone(p) /\ ~WindowDone(p) /\ ~ScreenDone(p)
    BY <1>1, <1>3 DEF SegmentDone, StackDone, WindowDone, ScreenDone
  <2> QED BY <1>3, <2>1, Zenon DEF SmallPages
<1>8. Bytes
  BY <1>3 DEF Bytes
<1> QED BY <1>4, <1>5, <1>6, <1>7, <1>8, SMT, SMTT(60) DEF Space

\* Every step keeps it, as long as the hand-over's facts hold after the step too.
LEMMA SpaceNext ==
  ASSUME IInv, Handover, Handover', Space, [Next]_vars
  PROVE  Space'
<1>2. CASE pc' = "panic"
  <2>1. UNCHANGED <<image, data>>
    BY <1>2, Zenon DEF Next, main, read_kernel, allocate_pool, create_pml4, load_segment, map_segment,
         segments_loaded, map_stack, read_memory_map, map_hhdm, identity_map, open_gop,
         map_framebuffer, prepare_boot_info, exit_boot_services, MapStep, panic, firmware,
         finished, vars
  <2> QED BY <1>2, <2>1, PanicSpace, SMT, SMTT(60)
<1>3. CASE pc' # "panic"
  <2>1. CASE load_segment
    BY <1>3, <2>1, LoadSpace
  <2>2. CASE map_segment
    BY <1>3, <2>2, SegmentSpace
  <2>3. CASE map_stack
    BY <1>3, <2>3, StackSpace
  <2>4. CASE map_hhdm
    BY <1>3, <2>4, HhdmSpace, SMT, SMTT(60)
  <2>5. CASE identity_map
    BY <1>3, <2>5, WindowSpace
  <2>6. CASE map_framebuffer
    BY <1>3, <2>6, ScreenSpace
  <2>7. CASE \/ read_kernel \/ allocate_pool \/ create_pml4 \/ segments_loaded \/ read_memory_map
             \/ open_gop \/ prepare_boot_info \/ exit_boot_services \/ firmware \/ finished
             \/ UNCHANGED vars
    BY <1>3, <2>7, IdleSpace, Zenon
  <2> QED BY <2>1, <2>2, <2>3, <2>4, <2>5, <2>6, <2>7, Zenon DEF Next, main
<1> QED BY <1>2, <1>3

\* What is mapped when the kernel is entered.
LEMMA SpaceComplete == IInv /\ Handover /\ Space => AddressSpaceComplete
<1>1. ASSUME IInv, Handover, Space, pc = "entered"
      PROVE  /\ mapper.huge = DirectMap
             /\ DOMAIN mapper.pages = ImagePages \cup StackPages \cup WindowPages \cup ScreenPages
             /\ \A s \in DOMAIN Kernel : \A p \in SegmentPages(s) :
                  /\ data[mapper.pages[p].frame] = <<s, p - Kernel[s].virt>>
                  /\ mapper.pages[p].writable = Kernel[s].writable
             /\ \A p \in StackPages : mapper.pages[p].writable
             /\ \A p \in WindowPages : mapper.pages[p].frame = p
             /\ \A p \in ScreenPages :
                  mapper.pages[p].frame = machine.fb_phys + p - FRAMEBUFFER_VIRT_BASE
  <2> USE DEF Screened, Windowed, Direct, Stacked, Loaded
  <2> USE <1>1
  <2>1. ~Gaps
    BY DEF Gaps, ScreenBegun
  <2>2. Counters
    BY DEF Space
  <2>3. DOMAIN image = DOMAIN Kernel
    <3>1. Len(image) = Len(Kernel)
      BY <2>2 DEF Counters
    <3>2. DOMAIN Kernel = 1 .. Len(Kernel) /\ DOMAIN image = 1 .. Len(image)
      BY <2>2, SegmentLayout, Zenon
    <3> QED BY <3>1, <3>2
  <2>4. /\ \A s \in DOMAIN Kernel : \A p : SegmentDone(s, p) <=> p \in SegmentPages(s)
        /\ \A p : StackDone(p) <=> p \in StackPages
        /\ \A p : WindowDone(p) <=> p \in WindowPages
        /\ \A p : ScreenDone(p) <=> p \in ScreenPages
    BY <2>3 DEF SegmentDone, StackDone, WindowDone, ScreenDone
  <2>5. /\ ImagePages \subseteq Nat /\ StackPages \subseteq Nat
        /\ WindowPages \subseteq Nat /\ ScreenPages \subseteq Nat
    <3>1. \A s \in DOMAIN Kernel : SegmentPages(s) \subseteq Nat
      <4>1. \A s \in DOMAIN Kernel :
              /\ Kernel[s].virt \in Nat /\ Kernel[s].pages \in Nat \ {0}
              /\ SegmentPages(s) = Kernel[s].virt .. Kernel[s].virt + Kernel[s].pages - 1
        BY <2>2, SegmentLayout, Zenon
      <4> QED BY <4>1, SMT, SMTT(60)
    <3>2. /\ STACK_BASE \in Nat /\ STACK_PAGES \in Nat /\ machine.rip \in Nat /\ WINDOW \in Nat
          /\ FRAMEBUFFER_VIRT_BASE \in Nat /\ machine.fb_pages \in Nat
      BY Layout, Zenon
    <3>3. StackPages \subseteq Nat /\ WindowPages \subseteq Nat /\ ScreenPages \subseteq Nat
      BY <3>2, SMT, SMTT(60) DEF StackPages, WindowPages, ScreenPages, Frames, STACK_BASE
    <3> QED BY <3>1, <3>3 DEF ImagePages
  <2>6. /\ \A p \in DOMAIN mapper.pages :
             (\E s \in DOMAIN Kernel : SegmentDone(s, p)) \/ StackDone(p) \/ WindowDone(p) \/ ScreenDone(p)
        /\ \A s \in DOMAIN Kernel, p \in Nat : SegmentDone(s, p) =>
             /\ p \in DOMAIN mapper.pages
             /\ mapper.pages[p] = Entry(image[s] + (p - Kernel[s].virt), Kernel[s].writable)
        /\ \A p \in Nat : StackDone(p) => p \in DOMAIN mapper.pages /\ mapper.pages[p].writable = TRUE
        /\ \A p \in Nat : WindowDone(p) => p \in DOMAIN mapper.pages /\ mapper.pages[p].frame = p
        /\ \A p \in Nat : ScreenDone(p) =>
             /\ p \in DOMAIN mapper.pages
             /\ mapper.pages[p].frame = machine.fb_phys + p - FRAMEBUFFER_VIRT_BASE
    BY <2>1, Zenon DEF Space, SmallPages
  <2> HIDE DEF Screened, Windowed, Direct, Stacked, Loaded
  <2>7. \A p : p \in ImagePages <=> \E s \in DOMAIN Kernel : p \in SegmentPages(s)
    BY DEF ImagePages
  <2>8. \A p : p \in DOMAIN mapper.pages <=>
               p \in ImagePages \/ p \in StackPages \/ p \in WindowPages \/ p \in ScreenPages
    <3> SUFFICES ASSUME NEW p
                 PROVE  p \in DOMAIN mapper.pages <=>
                        p \in ImagePages \/ p \in StackPages \/ p \in WindowPages \/ p \in ScreenPages
      OBVIOUS
    <3>1. p \in DOMAIN mapper.pages =>
            p \in ImagePages \/ p \in StackPages \/ p \in WindowPages \/ p \in ScreenPages
      BY <2>4, <2>6, <2>7, ZenonT(40)
    <3>2. p \in ImagePages => p \in DOMAIN mapper.pages
      BY <2>4, <2>5, <2>6, <2>7, ZenonT(40)
    <3>3. p \in StackPages \/ p \in WindowPages \/ p \in ScreenPages => p \in DOMAIN mapper.pages
      BY <2>4, <2>5, <2>6, Zenon
    <3> QED BY <3>1, <3>2, <3>3, Zenon
  <2>9. DOMAIN mapper.pages = ImagePages \cup StackPages \cup WindowPages \cup ScreenPages
    BY <2>8, SMT, SMTT(60)
  <2>10. /\ \A p \in StackPages : mapper.pages[p].writable
         /\ \A p \in WindowPages : mapper.pages[p].frame = p
         /\ \A p \in ScreenPages :
              mapper.pages[p].frame = machine.fb_phys + p - FRAMEBUFFER_VIRT_BASE
    BY <2>4, <2>5, <2>6, ZenonT(40)
  <2>11. ASSUME NEW s \in DOMAIN Kernel, NEW p \in SegmentPages(s)
         PROVE  /\ data[mapper.pages[p].frame] = <<s, p - Kernel[s].virt>>
                /\ mapper.pages[p].writable = Kernel[s].writable
    <3>1. p \in Nat
      BY <2>5, <2>7, Zenon
    <3>2. mapper.pages[p] = Entry(image[s] + (p - Kernel[s].virt), Kernel[s].writable)
      BY <2>4, <2>6, <3>1, Zenon
    <3>3. /\ Kernel[s].virt \in Nat /\ Kernel[s].pages \in Nat \ {0}
          /\ SegmentPages(s) = Kernel[s].virt .. Kernel[s].virt + Kernel[s].pages - 1
      BY <2>2, SegmentLayout, Zenon
    <3> PICK k : k = p - Kernel[s].virt
      BY SMT, SMTT(60)
    <3>4. k \in 0 .. Kernel[s].pages - 1
      BY <3>1, <3>3, SMT, SMTT(60)
    <3>5. data[image[s] + k] = <<s, k>>
      BY <2>3, <3>4, SMT, SMTT(60) DEF Space, Bytes
    <3>6. mapper.pages[p].frame = image[s] + k /\ mapper.pages[p].writable = Kernel[s].writable
      BY <3>2 DEF Entry
    <3> QED BY <3>5, <3>6
  <2>12. mapper.huge = DirectMap
    <3> DEFINE n == max_phys_addr \div ENTRIES
    <3>1. HugeDone = n
      BY SMT, SMTT(60) DEF HugeDone, Screened, Windowed, Direct
    <3>2. /\ mapper.huge = [b \in DOMAIN mapper.huge |-> mapper.huge[b]]
          /\ \A b \in DOMAIN mapper.huge : \E k \in 0 .. n - 1 :
               b = HHDM_BIG + k /\ mapper.huge[b] = Entry(k * ENTRIES, TRUE)
          /\ \A k \in 0 .. n - 1 : HHDM_BIG + k \in DOMAIN mapper.huge
      BY <2>1, <3>1, Zenon DEF Space, HugePages
    <3>3. HHDM_BIG \in Nat
      BY Layout
    <3> HIDE DEF n
    <3>4. DOMAIN mapper.huge = {HHDM_BIG + k : k \in 0 .. n - 1}
      BY <3>2, Zenon
    <3>5. \A b \in DOMAIN mapper.huge : mapper.huge[b] = Entry((b - HHDM_BIG) * ENTRIES, TRUE)
      <4> SUFFICES ASSUME NEW b \in DOMAIN mapper.huge
                   PROVE  mapper.huge[b] = Entry((b - HHDM_BIG) * ENTRIES, TRUE)
        BY Zenon
      <4>1. PICK k \in 0 .. n - 1 : b = HHDM_BIG + k /\ mapper.huge[b] = Entry(k * ENTRIES, TRUE)
        BY <3>2, Zenon
      <4>2. b - HHDM_BIG = k
        BY <3>3, <4>1
      <4> QED BY <4>1, <4>2, Zenon
    <3>6. mapper.huge = [b \in {HHDM_BIG + k : k \in 0 .. n - 1} |->
                           Entry((b - HHDM_BIG) * ENTRIES, TRUE)]
      BY <3>2, <3>4, <3>5, Zenon
    <3> QED BY <3>6, Zenon DEF DirectMap, HHDM_BIG, n
  <2> QED BY <2>9, <2>10, <2>11, <2>12, Zenon
<1> QED BY <1>1, Zenon DEF AddressSpaceComplete
=============================================================================
