----------------------------- MODULE BootProofs -----------------------------
(***************************************************************************)
(* For every machine, kernel and size of the pool: no frame that the       *)
(* kernel starts on has two uses, the firmware counts each as the          *)
(* loader's, the boot information that is handed over describes the        *)
(* memory, and the address space is complete.                              *)
(***************************************************************************)
EXTENDS BootSpaceProofs, FiniteSetTheorems

-----------------------------------------------------------------------------
(* What a step may do to the frames in use. *)

\* Uses are new when those of their kind are.
LEMMA NewUses ==
  ASSUME NEW N, TableUses' \subseteq TableUses \cup N, StackUses' \subseteq StackUses \cup N,
         HandoverUses' \subseteq HandoverUses \cup N,
         \A s \in DOMAIN image' :
           \/ s \in DOMAIN image /\ ImageUses(s)' = ImageUses(s)
           \/ ImageUses(s)' \subseteq N
  PROVE  Owned' \subseteq Owned \cup N
<1> SUFFICES ASSUME NEW o \in Owned' PROVE o \in Owned \cup N
  OBVIOUS
<1>1. \/ o \in TableUses' \/ o \in StackUses' \/ o \in HandoverUses'
      \/ \E s \in DOMAIN image' : o \in ImageUses(s)'
  BY DEF Owned
<1>2. CASE \E s \in DOMAIN image' : o \in ImageUses(s)'
  BY <1>2 DEF Owned
<1> QED BY <1>1, <1>2, SMT, SMTT(60) DEF Owned

\* A step that adds the uses N, each of a frame of its own that is taken from the pool or
\* from the firmware, keeps the uses apart.
LEMMA KeepsApart ==
  ASSUME IInv, NEW N, Owned' \subseteq Owned \cup N,
         LoaderFrames \subseteq LoaderFrames', PoolLeft' \subseteq LoaderFrames',
         \A f \in PoolLeft' : f \in PoolLeft \/ f \notin LoaderFrames,
         \A o \in N : /\ o[2] \in LoaderFrames' /\ o[2] \notin PoolLeft'
                      /\ o[2] \in PoolLeft \/ o[2] \notin LoaderFrames,
         \A a, b \in N : a[2] = b[2] => a = b
  PROVE  (Apart /\ OwnedReserved /\ OneUsePerFrame)'
<1>1. /\ \A o \in Owned : o[2] \in LoaderFrames /\ o[2] \notin PoolLeft
      /\ \A a, b \in Owned : a[2] = b[2] => a = b
  BY DEF IInv, Apart, OwnedReserved, OneUsePerFrame
<1>2. \A o \in Owned' : o[2] \in LoaderFrames' /\ o[2] \notin PoolLeft'
  BY <1>1, Zenon
<1>3. \A a, b \in Owned' : a[2] = b[2] => a = b
  BY <1>1, Zenon
<1> QED BY <1>2, <1>3, Zenon DEF Apart, OwnedReserved, OneUsePerFrame

\* Uses do not change when nothing they are made of does.
LEMMA SameUses ==
  ASSUME UNCHANGED <<mapper, image, boot_info>>
  PROVE  Owned' = Owned
BY DEF Owned, TableUses, StackUses, ImageUses, HandoverUses

\* A step that leaves the uses, the firmware's map and the pool alone.
LEMMA NothingTaken ==
  ASSUME IInv, UNCHANGED <<machine, mem, frame_allocator, mapper, image, boot_info>>
  PROVE  (Apart /\ OwnedReserved /\ OneUsePerFrame)'
<1>1. Owned' = Owned
  BY SameUses
<1>2. PoolLeft' = PoolLeft /\ LoaderFrames' = LoaderFrames
  BY DEF PoolLeft, LoaderFrames
<1> QED BY <1>1, <1>2, Zenon DEF IInv, Apart, OwnedReserved, OneUsePerFrame

\* What map_to does: the tables it makes lie in frames of their own, which it takes from
\* the pool, and no page but the one it is asked for changes.
MapsSoundly(mp, fa, page, huge, entry, r) ==
  /\ r.fa.end = fa.end /\ r.fa.next \in Nat /\ r.fa.next >= fa.next
  /\ r.mp = [tables |-> r.mp.tables, pages |-> r.mp.pages, huge |-> r.mp.huge]
  /\ r.mp.pages = IF r.ok /\ ~huge THEN Updated(mp.pages, {page}, entry) ELSE mp.pages
  /\ \E Fresh :
       /\ \A t \in DOMAIN r.mp.tables :
            t \in Fresh \/ (t \in DOMAIN mp.tables /\ r.mp.tables[t] = mp.tables[t])
       /\ \A t \in Fresh : r.mp.tables[t] \in fa.next .. fa.end - 1 /\ r.mp.tables[t] < r.fa.next
       /\ \A t, u \in Fresh : r.mp.tables[t] = r.mp.tables[u] => t = u

\* map_to does that, also when the pool runs dry between two tables.
LEMMA Mapped ==
  ASSUME NEW mp, NEW fa, fa.next \in Nat, fa.end \in Nat, NEW page, NEW huge \in BOOLEAN, NEW entry
  PROVE  MapsSoundly(mp, fa, page, huge, entry, map_to(mp, fa, page, huge, entry))
<1> DEFINE big     == page \div ENTRIES
           levels  == IF huge \/ big \in DOMAIN mp.huge THEN {3, 2} ELSE {3, 2, 1}
           missing == {l \in levels : TableOf(page, l) \notin DOMAIN mp.tables}
           above(l) == Count({u \in missing : u > l})
           made    == {l \in missing : allocate_frame(Taken(fa, above(l))) # None}
           unused  == IF huge THEN big \notin DOMAIN mp.huge /\ <<1, big>> \notin DOMAIN mp.tables
                      ELSE page \notin DOMAIN mp.pages /\ big \notin DOMAIN mp.huge
           ok      == made = missing /\ unused
           new     == {TableOf(page, l) : l \in made}
           tables  == [t \in DOMAIN mp.tables \cup new |->
                         IF t \in new THEN allocate_frame(Taken(fa, above(t[1])))
                         ELSE mp.tables[t]]
           r       == map_to(mp, fa, page, huge, entry)
<1>1. /\ r.ok = ok /\ r.fa = Taken(fa, Count(made)) /\ r.mp.tables = tables
      /\ r.mp.pages = IF ok /\ ~huge THEN Updated(mp.pages, {page}, entry) ELSE mp.pages
      /\ r.mp = [tables |-> r.mp.tables, pages |-> r.mp.pages, huge |-> r.mp.huge]
  BY Zenon DEF map_to
<1>2. missing \subseteq {1, 2, 3} /\ made \subseteq missing
  OBVIOUS
<1> HIDE DEF r, missing, ok
<1>3. /\ \A l \in missing : above(l) \in Nat
      /\ \A l, m \in missing : l < m => above(m) < above(l)
      /\ \A S : (S \subseteq missing /\ \A l \in S, u \in missing : u > l => u \in S) =>
           Count(S) \in Nat /\ \A l \in S : above(l) < Count(S)
  BY <1>2, Ranks, Zenon
<1> HIDE DEF above
<1>4. \A l \in missing : l \in made <=> fa.next + above(l) < fa.end
  BY <1>3, SMT, SMTT(60) DEF allocate_frame, Taken, None
<1>5. \A l \in made : allocate_frame(Taken(fa, above(l))) = fa.next + above(l)
  BY <1>2, <1>3, <1>4, Zenon DEF allocate_frame, Taken
<1> HIDE DEF made
<1>6. \A l \in made, u \in missing : u > l => u \in made
  BY <1>2, <1>3, <1>4, SMT, SMTT(60)
<1>7. Count(made) \in Nat /\ \A l \in made : above(l) < Count(made)
  BY <1>2, <1>3, <1>6, Zenon
<1>8. r.fa.end = fa.end /\ r.fa.next = fa.next + Count(made)
  BY <1>1, SMT, SMTT(60) DEF Taken
<1>9. \A t \in new : \E l \in made : /\ t = TableOf(page, l) /\ t[1] = l
                                     /\ tables[t] = fa.next + above(l)
  BY <1>5, SMT, SMTT(60) DEF TableOf
<1>10. \A t \in DOMAIN tables :
         t \in new \/ (t \in DOMAIN mp.tables /\ tables[t] = mp.tables[t])
  OBVIOUS
<1> HIDE DEF tables, new
<1>11. ASSUME NEW t \in new PROVE tables[t] \in fa.next .. fa.end - 1 /\ tables[t] < r.fa.next
  <2>1. PICK l \in made : tables[t] = fa.next + above(l)
    BY <1>9, <1>11, Zenon
  <2>2. above(l) \in Nat /\ above(l) < Count(made) /\ fa.next + above(l) < fa.end
    BY <1>2, <1>3, <1>4, <1>7, Zenon
  <2> QED BY <1>7, <1>8, <2>1, <2>2, SMT, SMTT(60)
<1>12. ASSUME NEW t \in new, NEW u \in new, tables[t] = tables[u] PROVE t = u
  <2>1. PICK l \in made : t = TableOf(page, l) /\ tables[t] = fa.next + above(l)
    BY <1>9, Zenon
  <2>2. PICK m \in made : u = TableOf(page, m) /\ tables[u] = fa.next + above(m)
    BY <1>9, Zenon
  <2>3. l \in {1, 2, 3} /\ m \in {1, 2, 3} /\ above(l) \in Nat /\ above(m) \in Nat
        /\ (l < m => above(m) < above(l)) /\ (m < l => above(l) < above(m))
    BY <1>2, <1>3, Zenon
  <2>4. l = m
    BY <1>12, <2>1, <2>2, <2>3, SMT, SMTT(60)
  <2> QED BY <2>1, <2>2, <2>4, Zenon
<1>13. r.fa.next \in Nat /\ r.fa.next >= fa.next
  BY <1>7, <1>8, SMT, SMTT(60)
<1> QED BY <1>1, <1>8, <1>10, <1>11, <1>12, <1>13, ZenonT(40) DEF r, MapsSoundly

-----------------------------------------------------------------------------
(* The steps of the loader. *)

\* One turn of a mapping loop that does not map a page of the stack.
LEMMA MapElsewhere ==
  ASSUME IInv, NEW page, NEW huge \in BOOLEAN, NEW entry, NEW ignore, NEW count, NEW after,
         MapStep(frame_allocator, page, huge, entry, ignore, count, after),
         huge \/ page \notin StackPages
  PROVE  /\ Shape' /\ (Apart /\ OwnedReserved /\ OneUsePerFrame)'
         /\ UNCHANGED <<machine, image>>
         /\ \/ pc' = "panic"
            \/ /\ i' = IF i + 1 = count THEN 0 ELSE i + 1
               /\ pc' = IF i + 1 = count THEN after ELSE pc
<1>1. CASE panic
  <2>1. /\ UNCHANGED <<machine, mem, i, frame_allocator, mapper, image, boot_info>>
        /\ pc' = "panic"
    BY <1>1, SMT, SMTT(60) DEF panic
  <2>2. (Apart /\ OwnedReserved /\ OneUsePerFrame)'
    BY <2>1, NothingTaken, SMT, SMTT(60)
  <2>3. Shape'
    BY <2>1, SMT, SMTT(60) DEF IInv, Shape
  <2> QED BY <2>1, <2>2, <2>3, Zenon
<1>2. CASE ~panic
  <2> DEFINE fa == frame_allocator
             r == map_to(mapper, fa, page, huge, entry)
  <2>1. /\ mapper' = r.mp /\ frame_allocator' = r.fa
        /\ i' = IF i + 1 = count THEN 0 ELSE i + 1
        /\ pc' = IF i + 1 = count THEN after ELSE pc
        /\ UNCHANGED <<machine, mem, image, boot_info>>
    BY <1>2, Zenon DEF MapStep
  <2>2. fa.next \in Nat /\ fa.end \in Nat /\ i \in Nat
    BY DEF IInv, Shape
  <2>3. MapsSoundly(mapper, fa, page, huge, entry, r)
    BY <2>2, Mapped, SMT, SMTT(60)
  <2> HIDE DEF r
  <2>4. /\ r.fa.end = fa.end /\ r.fa.next \in Nat /\ r.fa.next >= fa.next
        /\ r.mp = [tables |-> r.mp.tables, pages |-> r.mp.pages, huge |-> r.mp.huge]
        /\ r.mp.pages = IF r.ok /\ ~huge THEN Updated(mapper.pages, {page}, entry) ELSE mapper.pages
    BY <2>3, Zenon DEF MapsSoundly
  <2>5. PICK Fresh :
          /\ \A t \in DOMAIN r.mp.tables :
               t \in Fresh \/ (t \in DOMAIN mapper.tables /\ r.mp.tables[t] = mapper.tables[t])
          /\ \A t \in Fresh : r.mp.tables[t] \in fa.next .. fa.end - 1 /\ r.mp.tables[t] < r.fa.next
          /\ \A t, u \in Fresh : r.mp.tables[t] = r.mp.tables[u] => t = u
    BY <2>3, Zenon DEF MapsSoundly
  <2> DEFINE N == {<<<<"table", t[1], t[2]>>, mapper'.tables[t]>> : t \in Fresh}
  <2>6. TableUses' \subseteq TableUses \cup N
    BY <2>1, <2>5, Zenon DEF TableUses
  <2>7. StackUses' \subseteq StackUses
    BY <2>1, <2>4, Zenon DEF StackUses, Updated
  <2>8. /\ HandoverUses' = HandoverUses
        /\ \A s \in DOMAIN image' : s \in DOMAIN image /\ ImageUses(s)' = ImageUses(s)
    BY <2>1, Zenon DEF HandoverUses, ImageUses
  <2>9. \A o \in N : o[2] \in PoolLeft /\ o[2] \notin PoolLeft'
    BY <2>1, <2>2, <2>4, <2>5, SMT, SMTT(60) DEF PoolLeft
  <2>10. \A a, b \in N : a[2] = b[2] => a = b
    BY <2>1, <2>5, SMT, SMTT(60)
  <2> HIDE DEF N
  <2>11. Owned' \subseteq Owned \cup N
    BY <2>6, <2>7, <2>8, NewUses, Zenon
  <2>12. LoaderFrames' = LoaderFrames
    BY <2>1, SMT, SMTT(60) DEF LoaderFrames
  <2>13. PoolLeft' \subseteq PoolLeft
    BY <2>1, <2>2, <2>4, SMT, SMTT(60) DEF PoolLeft
  <2>14. PoolLeft \subseteq LoaderFrames
    BY DEF IInv, Apart
  <2>15. (Apart /\ OwnedReserved /\ OneUsePerFrame)'
    BY <2>9, <2>10, <2>11, <2>12, <2>13, <2>14, KeepsApart, Zenon
  <2>16. Shape'
    <3>1. i' \in Nat
      BY <2>1, <2>2, SMT, SMTT(60)
    <3> QED BY <2>1, <2>2, <2>4, <3>1, ZenonT(40) DEF IInv, Shape
  <2> QED BY <2>1, <2>15, <2>16, Zenon
<1> QED BY <1>1, <1>2, SMT, SMTT(60)

\* A page of the stack: its frame is taken from the pool before the tables it needs.
LEMMA StackKeeps ==
  ASSUME IInv, map_stack
  PROVE  IInv'
<1> DEFINE f == allocate_frame(frame_allocator)
           fa == Taken(frame_allocator, 1)
           page == STACK_TOP - STACK_PAGES + i
           r == map_to(mapper, fa, page, FALSE, Entry(f, TRUE))
<1>1. CASE panic
  <2>1. /\ UNCHANGED <<machine, mem, i, frame_allocator, mapper, image, boot_info>>
        /\ pc' = "panic"
    BY <1>1, SMT, SMTT(60) DEF panic
  <2>2. (Apart /\ OwnedReserved /\ OneUsePerFrame)'
    BY <2>1, NothingTaken, Zenon
  <2>3. Shape' /\ Progress'
    BY <2>1 DEF IInv, Shape, Progress
  <2> QED BY <2>2, <2>3, SMT, SMTT(60) DEF IInv
<1>2. CASE ~panic
  <2>1. /\ f # None /\ pc = "stack"
        /\ MapStep(fa, page, FALSE, Entry(f, TRUE), FALSE, STACK_PAGES, "memory_map")
    BY <1>2, Zenon DEF map_stack
  <2>2. /\ mapper' = r.mp /\ frame_allocator' = r.fa
        /\ i' = IF i + 1 = STACK_PAGES THEN 0 ELSE i + 1
        /\ pc' = IF i + 1 = STACK_PAGES THEN "memory_map" ELSE pc
        /\ UNCHANGED <<machine, mem, image, boot_info>>
    BY <1>2, <2>1, Zenon DEF MapStep
  <2>3. /\ frame_allocator.next \in Nat /\ frame_allocator.end \in Nat /\ i \in Nat
        /\ fa.next = frame_allocator.next + 1 /\ fa.end = frame_allocator.end
        /\ f = frame_allocator.next /\ f \in PoolLeft
    BY <2>1, SMT, SMTT(60) DEF IInv, Shape, Taken, allocate_frame, PoolLeft, None
  <2>4. Entry(f, TRUE).frame = f
    BY DEF Entry
  <2> HIDE DEF f, fa
  <2>5. MapsSoundly(mapper, fa, page, FALSE, Entry(f, TRUE), r)
    <3>1. fa.next \in Nat /\ fa.end \in Nat
      BY <2>3
    <3> QED BY <3>1, Mapped, Zenon
  <2> HIDE DEF r, page
  <2>6. /\ r.fa.end = fa.end /\ r.fa.next \in Nat /\ r.fa.next >= fa.next
        /\ r.mp = [tables |-> r.mp.tables, pages |-> r.mp.pages, huge |-> r.mp.huge]
        /\ \/ r.mp.pages = Updated(mapper.pages, {page}, Entry(f, TRUE))
           \/ r.mp.pages = mapper.pages
    BY <2>5, Zenon DEF MapsSoundly
  <2>7. PICK Fresh :
          /\ \A t \in DOMAIN r.mp.tables :
               t \in Fresh \/ (t \in DOMAIN mapper.tables /\ r.mp.tables[t] = mapper.tables[t])
          /\ \A t \in Fresh : r.mp.tables[t] \in fa.next .. fa.end - 1 /\ r.mp.tables[t] < r.fa.next
          /\ \A t, u \in Fresh : r.mp.tables[t] = r.mp.tables[u] => t = u
    BY <2>5, Zenon DEF MapsSoundly
  <2> DEFINE M == {<<<<"table", t[1], t[2]>>, mapper'.tables[t]>> : t \in Fresh}
             own == <<<<"stack", page, 0>>, f>>
             N == M \cup {own}
  <2>8. TableUses' \subseteq TableUses \cup M
    BY <2>2, <2>7, SMT, SMTT(60) DEF TableUses
  <2>9. StackUses' \subseteq StackUses \cup {own}
    BY <2>2, <2>4, <2>6, Zenon DEF StackUses, Updated
  <2>10. /\ HandoverUses' = HandoverUses
         /\ \A s \in DOMAIN image' : s \in DOMAIN image /\ ImageUses(s)' = ImageUses(s)
    BY <2>2, Zenon DEF HandoverUses, ImageUses
  <2>11. \A o \in M : o[2] \in PoolLeft /\ o[2] \notin PoolLeft' /\ o[2] # f
    BY <2>2, <2>3, <2>6, <2>7, SMT, SMTT(60) DEF PoolLeft
  <2>12. own[2] = f /\ f \notin PoolLeft'
    BY <2>2, <2>3, <2>6, SMT, SMTT(60) DEF PoolLeft
  <2>13. \A a, b \in M : a[2] = b[2] => a = b
    BY <2>2, <2>7, SMT, SMTT(60)
  <2>14. PoolLeft' \subseteq PoolLeft
    BY <2>2, <2>3, <2>6, SMT, SMTT(60) DEF PoolLeft
  <2> HIDE DEF M, own
  <2>15. \A o \in N : o[2] \in PoolLeft /\ o[2] \notin PoolLeft'
    BY <2>3, <2>11, <2>12, Zenon
  <2>16. \A a, b \in N : a[2] = b[2] => a = b
    BY <2>11, <2>12, <2>13, Zenon
  <2>17. TableUses' \subseteq TableUses \cup N /\ StackUses' \subseteq StackUses \cup N
    BY <2>8, <2>9, Zenon
  <2> HIDE DEF N
  <2>18. Owned' \subseteq Owned \cup N
    BY <2>10, <2>17, NewUses, SMT, SMTT(60)
  <2>19. LoaderFrames' = LoaderFrames /\ PoolLeft \subseteq LoaderFrames
    BY <2>2, SMT, SMTT(60) DEF LoaderFrames, IInv, Apart
  <2>20. (Apart /\ OwnedReserved /\ OneUsePerFrame)'
    BY <2>14, <2>15, <2>16, <2>18, <2>19, KeepsApart, Zenon
  <2>21. Shape'
    <3>1. i' \in Nat
      BY <2>2, <2>3, SMT, SMTT(60)
    <3> QED BY <2>2, <2>3, <2>6, <3>1, Zenon DEF IInv, Shape
  <2>22. Progress'
    BY <2>1, <2>2, SMT, SMTT(60) DEF Progress
  <2> QED BY <2>20, <2>21, <2>22, ZenonT(40) DEF IInv
<1> QED BY <1>1, <1>2, SMT, SMTT(60)

\* The other mapping loops stay clear of the stack's pages.
LEMMA LoopsKeep ==
  ASSUME IInv, map_segment \/ map_hhdm \/ identity_map \/ map_framebuffer
  PROVE  IInv'
<1>1. /\ machine \in Machines /\ i \in Nat /\ machine.rip \in Nat /\ machine.top \in Nat
      /\ machine.fb_pages \in Nat \ {0}
  BY BootAssumption, SMT, SMTT(60) DEF IInv, Shape
<1>2. /\ STACK_PAGES \in Nat /\ STACK_TOP - STACK_PAGES \in Nat /\ WINDOW \in Nat \ {0}
      /\ HHDM_OFFSET \in Nat /\ FRAMEBUFFER_VIRT_BASE \in Nat /\ ENTRIES \in Nat
      /\ STACK_TOP \in Nat /\ STACK_TOP < KERNEL_BASE /\ KERNEL_BASE \in Nat
  BY BootAssumption, SMT, SMTT(60) DEF STACK_TOP
<1>3. /\ machine.rip + WINDOW < HHDM_OFFSET
      /\ HHDM_OFFSET + machine.top + ENTRIES < FRAMEBUFFER_VIRT_BASE
      /\ FRAMEBUFFER_VIRT_BASE + machine.fb_pages < STACK_TOP - STACK_PAGES
  <2>1. /\ Slot(machine.rip + WINDOW) < Slot(HHDM_OFFSET)
        /\ Slot(HHDM_OFFSET + machine.top + ENTRIES) < Slot(FRAMEBUFFER_VIRT_BASE)
        /\ Slot(FRAMEBUFFER_VIRT_BASE + machine.fb_pages) < Slot(STACK_TOP - STACK_PAGES)
    BY <1>1, BootAssumption, Zenon
  <2>2. /\ machine.rip + WINDOW \in Nat /\ HHDM_OFFSET + machine.top + ENTRIES \in Nat
        /\ FRAMEBUFFER_VIRT_BASE + machine.fb_pages \in Nat
    BY <1>1, <1>2, SMT, SMTT(60)
  <2> QED BY <1>2, <2>1, <2>2, SlotBelow, Zenon
<1>4. StackPages = STACK_TOP - STACK_PAGES .. STACK_TOP - 1
  BY <1>2, SMT, SMTT(60) DEF StackPages, Frames
<1>5. machine.rip + WINDOW < STACK_TOP - STACK_PAGES
  BY <1>1, <1>2, <1>3, SMT, SMTT(60)
<1>6. CASE map_segment
  <2> DEFINE s == Len(image)
             page == Kernel[s].virt + i
             entry == Entry(image[s] + i, Kernel[s].writable)
             count == Kernel[s].pages
  <2>1. /\ pc = "map_segment"
        /\ MapStep(frame_allocator, page, FALSE, entry, FALSE, count, "segments")
    BY <1>6, Zenon DEF map_segment
  <2>2. s \in 1 .. Len(Kernel)
    BY <2>1, SMT, SMTT(60) DEF IInv, Progress
  <2> HIDE DEF s
  <2>3. page \notin StackPages
    <3> DEFINE Segments == [virt : Nat, pages : Nat \ {0}, writable : BOOLEAN]
    <3>1. /\ Kernel \in Seq(Segments)
          /\ \A t \in DOMAIN Kernel : Kernel[t].virt >= KERNEL_BASE
      BY BootAssumption, Zenon
    <3>2. \A x \in Segments : x.virt \in Nat
      OBVIOUS
    <3> HIDE DEF Segments
    <3>3. s \in DOMAIN Kernel /\ Kernel[s] \in Segments
      BY <2>2, <3>1, SMT, SMTT(60)
    <3>4. Kernel[s].virt \in Nat /\ Kernel[s].virt >= KERNEL_BASE
      BY <3>1, <3>2, <3>3, Zenon
    <3> QED BY <1>1, <1>2, <1>4, <3>4, SMT, SMTT(60)
  <2> HIDE DEF page, entry, count
  <2>4. /\ Shape' /\ (Apart /\ OwnedReserved /\ OneUsePerFrame)' /\ UNCHANGED <<machine, image>>
        /\ pc' = "panic" \/ pc' = "segments" \/ pc' = pc
    BY <2>1, <2>3, MapElsewhere, Zenon
  <2>5. Progress'
    BY <2>1, <2>2, <2>4, SMT, SMTT(60) DEF Progress, s
  <2> QED BY <2>4, <2>5, SMT, SMTT(60) DEF IInv
<1>7. CASE map_hhdm
  <2>1. /\ pc = "hhdm"
        /\ MapStep(frame_allocator, HHDM_OFFSET + i * ENTRIES, TRUE, Entry(i * ENTRIES, TRUE),
                   TRUE, max_phys_addr \div ENTRIES, "identity")
    BY <1>7, Zenon DEF map_hhdm
  <2>2. /\ Shape' /\ (Apart /\ OwnedReserved /\ OneUsePerFrame)' /\ UNCHANGED <<machine, image>>
        /\ pc' \in {"panic", "hhdm"} \/ (pc' = "identity" /\ i' = 0)
    BY <2>1, MapElsewhere, Zenon
  <2>3. Progress'
    BY <1>2, <2>2 DEF Progress
  <2> QED BY <2>2, <2>3, SMT, SMTT(60) DEF IInv
<1>8. CASE identity_map
  <2>1. /\ pc = "identity"
        /\ MapStep(frame_allocator, machine.rip + i, FALSE, Entry(machine.rip + i, TRUE),
                   TRUE, WINDOW, "gop")
    BY <1>8, Zenon DEF identity_map
  <2>2. i < WINDOW
    BY <2>1 DEF IInv, Progress
  <2>3. machine.rip + i \notin StackPages
    BY <1>1, <1>2, <1>4, <1>5, <2>2, SMT, SMTT(60)
  <2>4. /\ Shape' /\ (Apart /\ OwnedReserved /\ OneUsePerFrame)' /\ UNCHANGED <<machine, image>>
        /\ \/ pc' = "panic"
           \/ /\ i' = IF i + 1 = WINDOW THEN 0 ELSE i + 1
              /\ pc' = IF i + 1 = WINDOW THEN "gop" ELSE pc
    BY <2>1, <2>3, MapElsewhere, Zenon
  <2>5. Progress'
    BY <1>1, <1>2, <2>1, <2>2, <2>4, SMT, SMTT(60) DEF Progress
  <2> QED BY <2>4, <2>5 DEF IInv
<1>9. CASE map_framebuffer
  <2>1. /\ pc = "framebuffer"
        /\ MapStep(frame_allocator, FRAMEBUFFER_VIRT_BASE + i, FALSE,
                   Entry(machine.fb_phys + i, TRUE), FALSE, machine.fb_pages, "boot_info")
    BY <1>9, Zenon DEF map_framebuffer
  <2>2. i < machine.fb_pages
    BY <2>1, SMT, SMTT(60) DEF IInv, Progress
  <2>3. FRAMEBUFFER_VIRT_BASE + i \notin StackPages
    BY <1>1, <1>2, <1>3, <1>4, <2>2, SMT, SMTT(60)
  <2>4. /\ Shape' /\ (Apart /\ OwnedReserved /\ OneUsePerFrame)' /\ UNCHANGED <<machine, image>>
        /\ \/ pc' = "panic"
           \/ /\ i' = IF i + 1 = machine.fb_pages THEN 0 ELSE i + 1
              /\ pc' = IF i + 1 = machine.fb_pages THEN "boot_info" ELSE pc
    BY <2>1, <2>3, MapElsewhere, Zenon
  <2>5. Progress'
    BY <1>1, <1>2, <2>1, <2>2, <2>4, SMT, SMTT(60) DEF Progress
  <2> QED BY <2>4, <2>5, SMT, SMTT(60) DEF IInv
<1> QED BY <1>6, <1>7, <1>8, <1>9, Zenon

\* A step whose new uses, if any, lie in frames the firmware has just given out.
LEMMA FromFirmware ==
  ASSUME IInv, NEW n, NEW s \in allocate_pages(n), UNCHANGED frame_allocator,
         mem' = Updated(mem, Frames(n, s), LOADER_DATA),
         NEW N, Owned' \subseteq Owned \cup N,
         \A o \in N : o[2] \in Frames(n, s),
         \A a, b \in N : a[2] = b[2] => a = b
  PROVE  (Apart /\ OwnedReserved /\ OneUsePerFrame)'
<1>1. /\ LoaderFrames' = LoaderFrames \cup Frames(n, s)
      /\ \A f \in Frames(n, s) : f \notin LoaderFrames
  BY Reserved
<1>2. PoolLeft' = PoolLeft
  BY DEF PoolLeft
<1>3. PoolLeft \subseteq LoaderFrames
  BY DEF IInv, Apart
<1> QED BY <1>1, <1>2, <1>3, KeepsApart, Zenon

\* Panicking and the steps that only move on.
LEMMA IdleKeeps ==
  ASSUME IInv, panic \/ segments_loaded \/ open_gop \/ UNCHANGED vars
  PROVE  IInv'
<1>1. UNCHANGED <<machine, mem, i, frame_allocator, mapper, image, boot_info>>
  BY DEF panic, segments_loaded, open_gop, vars
<1>2. (Apart /\ OwnedReserved /\ OneUsePerFrame)'
  BY <1>1, NothingTaken, SMT, SMTT(60)
<1>3. Shape'
  BY <1>1 DEF IInv, Shape
<1>4. Progress'
  <2>1. CASE UNCHANGED vars
    BY <2>1, SMT, SMTT(60) DEF vars, IInv, Progress
  <2>2. CASE panic \/ segments_loaded
    BY <2>2 DEF panic, segments_loaded, Progress
  <2>3. CASE open_gop
    <3>1. machine.fb_pages \in Nat \ {0}
      <4>1. \A m \in Machines : m.fb_pages \in Nat \ {0}
        BY BootAssumption, Zenon
      <4> QED BY <4>1 DEF IInv, Shape
    <3>2. i = 0 /\ UNCHANGED <<machine, i>> /\ (pc' = "panic" \/ pc' = "framebuffer")
      BY <1>1, <2>3, SMT, SMTT(60) DEF open_gop, panic, IInv, Progress
    <3> QED BY <3>1, <3>2, SMT, SMTT(60) DEF Progress
  <2> QED BY <2>1, <2>2, <2>3, SMT, SMTT(60)
<1> QED BY <1>2, <1>3, <1>4, ZenonT(40) DEF IInv

\* The firmware's own allocations take no frame of the loader.
LEMMA FirmwareKeeps ==
  ASSUME IInv, firmware
  PROVE  IInv'
<1>1. UNCHANGED <<machine, pc, i, frame_allocator, mapper, image, boot_info>>
  BY DEF firmware
<1>2. PICK f \in DOMAIN mem, v \in {CONVENTIONAL, BOOT_SERVICES_DATA} :
        mem[f] # LOADER_DATA /\ mem' = [mem EXCEPT ![f] = v]
  <2>1. CASE \E f \in allocate_pages(1) : mem' = [mem EXCEPT ![f] = BOOT_SERVICES_DATA]
    <3>1. PICK f \in allocate_pages(1) : mem' = [mem EXCEPT ![f] = BOOT_SERVICES_DATA]
      BY <2>1, Zenon
    <3>2. f \in DOMAIN mem /\ f \in Nat
      BY FramesAreNumbers, SMT, SMTT(60) DEF allocate_pages, Runs
    <3>3. f \in Frames(1, f)
      BY <3>2, SMT, SMTT(60) DEF Frames
    <3>4. mem[f] = CONVENTIONAL
      BY <3>3, SMT, SMTT(60) DEF allocate_pages, Runs
    <3>5. mem[f] # LOADER_DATA
      BY <3>4 DEF CONVENTIONAL, LOADER_DATA
    <3> QED BY <3>1, <3>2, <3>5, Zenon
  <2>2. CASE \E f \in {g \in DOMAIN mem : mem[g] = BOOT_SERVICES_DATA} :
               mem' = [mem EXCEPT ![f] = CONVENTIONAL]
    <3>1. PICK f \in DOMAIN mem :
            mem[f] = BOOT_SERVICES_DATA /\ mem' = [mem EXCEPT ![f] = CONVENTIONAL]
      BY <2>2, Zenon
    <3>2. mem[f] # LOADER_DATA
      BY <3>1, SMT, SMTT(60) DEF BOOT_SERVICES_DATA, LOADER_DATA
    <3> QED BY <3>1, <3>2, Zenon
  <2> QED BY <2>1, <2>2, Zenon DEF firmware
<1>3. DOMAIN mem' = DOMAIN mem /\ LoaderFrames' = LoaderFrames
  BY <1>2, SMT, SMTT(60) DEF LoaderFrames, CONVENTIONAL, BOOT_SERVICES_DATA, LOADER_DATA
<1>4. PoolLeft' = PoolLeft
  BY <1>1, SMT, SMTT(60) DEF PoolLeft
<1>5. Owned' = Owned
  BY <1>1, SameUses, SMT, SMTT(60)
<1>6. (Apart /\ OwnedReserved /\ OneUsePerFrame)'
  BY <1>3, <1>4, <1>5, Zenon DEF IInv, Apart, OwnedReserved, OneUsePerFrame
<1>7. Shape' /\ Progress'
  BY <1>1, <1>3, SMT, SMTT(60) DEF IInv, Shape, Progress
<1> QED BY <1>6, <1>7, SMT, SMTT(60) DEF IInv

\* The kernel file and the pool.
LEMMA PoolKeeps ==
  ASSUME IInv, read_kernel \/ allocate_pool
  PROVE  IInv'
<1> DEFINE N == {}
<1>0. \A o \in N : FALSE
  BY SMT, SMTT(60)
<1> HIDE DEF N
<1>1. CASE panic
  BY <1>1, IdleKeeps, SMT, SMTT(60)
<1>2. CASE ~panic /\ read_kernel
  <2>1. PICK s \in allocate_pages(FILE_PAGES) :
          mem' = Updated(mem, Frames(FILE_PAGES, s), LOADER_DATA) /\ pc' = "pool"
    BY <1>2, Zenon DEF read_kernel
  <2>2. UNCHANGED <<machine, i, frame_allocator, mapper, image, boot_info>>
    BY <1>2, SMT, SMTT(60) DEF read_kernel
  <2>3. Owned' \subseteq Owned \cup N
    BY <2>2, SameUses, SMT, SMTT(60)
  <2>4. (Apart /\ OwnedReserved /\ OneUsePerFrame)'
    <3>1. UNCHANGED frame_allocator
      BY <2>2, Zenon
    <3> QED BY <1>0, <2>1, <2>3, <3>1, FromFirmware, Zenon
  <2>5. DOMAIN mem' = DOMAIN mem
    BY <2>1, Reserved, Zenon
  <2>6. Shape' /\ Progress'
    BY <2>1, <2>2, <2>5, ZenonT(40) DEF IInv, Shape, Progress
  <2> QED BY <2>4, <2>6, SMT, SMTT(60) DEF IInv
<1>3. CASE ~panic /\ allocate_pool
  <2> DEFINE n == PAGE_TABLE_POOL_SIZE
  <2>1. PICK s \in allocate_pages(n) :
          /\ mem' = Updated(mem, Frames(n, s), LOADER_DATA) /\ pc' = "pml4"
          /\ frame_allocator' = [next |-> s, end |-> s + n]
    BY <1>3, Zenon DEF allocate_pool
  <2>2. UNCHANGED <<machine, i, mapper, image, boot_info>>
    BY <1>3, SMT, SMTT(60) DEF allocate_pool
  <2>3. /\ DOMAIN mem' = DOMAIN mem /\ LoaderFrames' = LoaderFrames \cup Frames(n, s)
        /\ s \in DOMAIN mem /\ \A f \in Frames(n, s) : f \notin LoaderFrames
    BY <2>1, Reserved, Zenon
  <2>4. s \in Nat /\ n \in Nat \ {0}
    BY <2>3, FramesAreNumbers, BootAssumption, Zenon
  <2>5. PoolLeft' = Frames(n, s)
    <3>1. frame_allocator'.next = s /\ frame_allocator'.end = s + n
      BY <2>1, SMT, SMTT(60)
    <3>2. PoolLeft' = frame_allocator'.next .. frame_allocator'.end - 1
      BY DEF PoolLeft
    <3>3. Frames(n, s) = s .. s + n - 1
      BY DEF Frames
    <3> QED BY <2>4, <3>1, <3>2, <3>3, SMT, SMTT(60)
  <2>6. Owned' \subseteq Owned \cup N
    BY <2>2, SameUses, Zenon
  <2>7. (Apart /\ OwnedReserved /\ OneUsePerFrame)'
    BY <1>0, <2>3, <2>5, <2>6, KeepsApart, Zenon
  <2>8. Shape' /\ Progress'
    BY <2>1, <2>2, <2>3, <2>4, SMT, SMTT(60) DEF IInv, Shape, Progress
  <2> QED BY <2>7, <2>8, SMT, SMTT(60) DEF IInv
<1> QED BY <1>1, <1>2, <1>3, SMT, SMTT(60)

\* The PML4 is the first frame of the pool.
LEMMA Pml4Keeps ==
  ASSUME IInv, create_pml4
  PROVE  IInv'
<1> DEFINE f == frame_allocator.next
           N == {<<<<"table", 4, 0>>, f>>}
<1>1. /\ f \in Nat /\ frame_allocator.end \in Nat /\ f < frame_allocator.end
      /\ mapper = [tables |-> mapper.tables, pages |-> mapper.pages, huge |-> mapper.huge]
  BY SMT, SMTT(60) DEF create_pml4, IInv, Shape, Progress
<1>2. allocate_frame(frame_allocator) = f
  BY <1>1, SMT, SMTT(60) DEF allocate_frame
<1>3. /\ mapper' = [tables |-> Updated(mapper.tables, {<<4, 0>>}, f),
                    pages |-> mapper.pages, huge |-> mapper.huge]
      /\ frame_allocator' = [next |-> f + 1, end |-> frame_allocator.end]
      /\ pc' = "segments"
      /\ UNCHANGED <<machine, mem, i, image, boot_info>>
  BY <1>1, <1>2, Zenon DEF create_pml4, Taken
<1>4. TableUses' \subseteq TableUses \cup N
  <2> DEFINE root == <<4, 0>>
  <2>1. mapper'.tables = Updated(mapper.tables, {root}, f)
    BY <1>3, SMT, SMTT(60)
  <2>2. root[1] = 4 /\ root[2] = 0
    OBVIOUS
  <2> HIDE DEF root
  <2>3. \A t \in DOMAIN mapper'.tables :
          \/ t \in DOMAIN mapper.tables /\ mapper'.tables[t] = mapper.tables[t]
          \/ t = root /\ mapper'.tables[t] = f
    BY <2>1, Zenon DEF Updated
  <2> QED BY <2>2, <2>3, Zenon DEF TableUses
<1>5. /\ StackUses' = StackUses /\ HandoverUses' = HandoverUses
      /\ \A s \in DOMAIN image' : s \in DOMAIN image /\ ImageUses(s)' = ImageUses(s)
  BY <1>3, SMT, SMTT(60) DEF StackUses, HandoverUses, ImageUses
<1>6. Owned' \subseteq Owned \cup N
  BY <1>4, <1>5, NewUses, Zenon
<1>7. /\ PoolLeft' \subseteq PoolLeft /\ f \in PoolLeft /\ f \notin PoolLeft'
  BY <1>1, <1>3, SMT, SMTT(60) DEF PoolLeft
<1>8. LoaderFrames' = LoaderFrames /\ PoolLeft \subseteq LoaderFrames
  BY <1>3, Zenon DEF LoaderFrames, IInv, Apart
<1>9. \A o \in N : o[2] = f
  OBVIOUS
<1>10. \A a, b \in N : a = b
  OBVIOUS
<1> HIDE DEF f, N
<1>11. (Apart /\ OwnedReserved /\ OneUsePerFrame)'
  BY <1>6, <1>7, <1>8, <1>9, <1>10, KeepsApart, Zenon
<1>12. Shape' /\ Progress'
  BY <1>1, <1>3, SMT, SMTT(60) DEF IInv, Shape, Progress
<1> QED BY <1>11, <1>12 DEF IInv

\* A segment lies in frames of its own.
LEMMA SegmentKeeps ==
  ASSUME IInv, load_segment
  PROVE  IInv'
<1>1. CASE panic
  BY <1>1, IdleKeeps, Zenon
<1>2. CASE ~panic
  <2>0. PICK t : t = Len(image) + 1
    OBVIOUS
  <2> DEFINE n == Kernel[t].pages
  <2>1. PICK f \in allocate_pages(n) :
          /\ mem' = Updated(mem, Frames(n, f), LOADER_DATA) /\ image' = Append(image, f)
          /\ pc' = "map_segment"
          /\ UNCHANGED <<machine, i, frame_allocator, mapper, boot_info>>
    BY <1>2, <2>0, Zenon DEF load_segment
  <2>2. image \in Seq(Nat) /\ Len(image) < Len(Kernel) /\ Len(image) \in Nat
    BY DEF load_segment, IInv, Shape
  <2>3. n \in Nat /\ t \in 1 .. Len(Kernel)
    <3> DEFINE Segments == [virt : Nat, pages : Nat \ {0}, writable : BOOLEAN]
    <3>1. Kernel \in Seq(Segments)
      BY BootAssumption, Zenon
    <3>2. \A x \in Segments : x.pages \in Nat
      BY SMT, SMTT(60)
    <3> HIDE DEF Segments
    <3>3. t \in 1 .. Len(Kernel)
      BY <2>0, <2>2, <3>1, SMT, SMTT(60)
    <3>4. Kernel[t] \in Segments
      BY <3>1, <3>3, SMT, SMTT(60)
    <3> QED BY <3>2, <3>3, <3>4, ZenonT(40)
  <2>4. DOMAIN mem' = DOMAIN mem /\ f \in DOMAIN mem
    BY <2>1, Reserved, Zenon
  <2>5. f \in Nat
    BY <2>4, FramesAreNumbers, Zenon
  <2>6. /\ image' \in Seq(Nat) /\ DOMAIN image' = 1 .. t /\ Len(image') = t /\ image'[t] = f
        /\ \A s \in 1 .. t : s = t \/ (s \in DOMAIN image /\ image'[s] = image[s])
    BY <2>0, <2>1, <2>2, <2>5, SMT, SMTT(60)
  <2> DEFINE N == {<<<<"image", t, k>>, f + k>> : k \in 0 .. n - 1}
  <2> HIDE DEF n
  <2>7. \A o \in N : o[2] \in Frames(n, f)
    BY <2>3, <2>5, SMT, SMTT(60) DEF Frames
  <2>8. \A a, b \in N : a[2] = b[2] => a = b
    BY <2>3, <2>5, SMT, SMTT(60)
  <2>9. ImageUses(t)' = N
    BY <2>6, Zenon DEF ImageUses, n
  <2> HIDE DEF N
  <2>10. \A s \in DOMAIN image' :
           \/ s \in DOMAIN image /\ ImageUses(s)' = ImageUses(s)
           \/ ImageUses(s)' \subseteq N
    <3> SUFFICES ASSUME NEW s \in DOMAIN image', s # t
                 PROVE  s \in DOMAIN image /\ ImageUses(s)' = ImageUses(s)
      BY <2>9, Zenon
    <3>1. s \in DOMAIN image /\ image'[s] = image[s]
      BY <2>6, Zenon
    <3> QED BY <3>1, Zenon DEF ImageUses
  <2>11. TableUses' = TableUses /\ StackUses' = StackUses /\ HandoverUses' = HandoverUses
    BY <2>1, Zenon DEF TableUses, StackUses, HandoverUses
  <2>12. Owned' \subseteq Owned \cup N
    BY <2>10, <2>11, NewUses, Zenon
  <2>13. (Apart /\ OwnedReserved /\ OneUsePerFrame)'
    <3>1. UNCHANGED frame_allocator
      BY <2>1, Zenon
    <3> QED BY <2>1, <2>7, <2>8, <2>12, <3>1, FromFirmware, Zenon
  <2>14. Shape' /\ Progress'
    BY <2>1, <2>3, <2>4, <2>6, Zenon DEF IInv, Shape, Progress
  <2> QED BY <2>13, <2>14, Zenon DEF IInv
<1> QED BY <1>1, <1>2

\* One frame from the firmware, for a buffer or a part of the hand-over.
LEMMA OneFrame ==
  ASSUME IInv, NEW s \in allocate_pages(1), mem' = Updated(mem, {s}, LOADER_DATA),
         UNCHANGED <<machine, i, frame_allocator, mapper, image>>, NEW what,
         HandoverUses' \subseteq HandoverUses \cup {<<what, s>>},
         boot_info' = [frame |-> boot_info'.frame, map_frame |-> boot_info'.map_frame,
                       max_phys_memory |-> boot_info'.max_phys_memory,
                       memory_map |-> boot_info'.memory_map]
  PROVE  Shape' /\ (Apart /\ OwnedReserved /\ OneUsePerFrame)'
<1> DEFINE N == {<<what, s>>}
<1>1. s \in Nat
  BY FramesAreNumbers, Zenon DEF allocate_pages, Runs
<1>2. Frames(1, s) = {s}
  BY <1>1, SMT, SMTT(60) DEF Frames
<1>3. mem' = Updated(mem, Frames(1, s), LOADER_DATA)
  BY <1>2, Zenon
<1>4. /\ TableUses' = TableUses /\ StackUses' = StackUses
      /\ \A t \in DOMAIN image' : t \in DOMAIN image /\ ImageUses(t)' = ImageUses(t)
  BY DEF TableUses, StackUses, ImageUses
<1>5. Owned' \subseteq Owned \cup N
  BY <1>4, NewUses, Zenon
<1>6. \A o \in N : o[2] \in Frames(1, s)
  BY <1>2, SMT, SMTT(60)
<1>7. \A a, b \in N : a[2] = b[2] => a = b
  OBVIOUS
<1> HIDE DEF N
<1>8. (Apart /\ OwnedReserved /\ OneUsePerFrame)'
  BY <1>3, <1>5, <1>6, <1>7, FromFirmware, Zenon
<1>9. DOMAIN mem' = DOMAIN mem
  BY <1>3, Reserved, Zenon
<1>10. Shape'
  BY <1>9, Zenon DEF IInv, Shape
<1> QED BY <1>8, <1>10, Zenon

\* The buffer of the memory map, the boot information and the final map.
LEMMA HandoverKeeps ==
  ASSUME IInv, read_memory_map \/ prepare_boot_info \/ exit_boot_services
  PROVE  IInv'
<1> DEFINE info == [frame |-> boot_info.frame, map_frame |-> boot_info.map_frame,
                    max_phys_memory |-> boot_info.max_phys_memory,
                    memory_map |-> boot_info.memory_map]
<1>1. CASE panic
  BY <1>1, IdleKeeps, Zenon
<1>2. CASE ~panic
  <2>1. boot_info = info
    BY DEF IInv, Shape
  <2>2. PICK s \in allocate_pages(1) :
          /\ mem' = Updated(mem, {s}, LOADER_DATA)
          /\ pc' \in {"hhdm", "exit", "entered"}
          /\ UNCHANGED <<machine, i, frame_allocator, mapper, image>>
          /\ \/ UNCHANGED boot_info
             \/ boot_info' = [boot_info EXCEPT !.frame = s, !.max_phys_memory = max_phys_addr]
             \/ \E m : boot_info' = [boot_info EXCEPT !.map_frame = s, !.memory_map = m]
    <3>1. CASE read_memory_map
      BY <1>2, <3>1, Zenon DEF read_memory_map
    <3>2. CASE prepare_boot_info
      BY <1>2, <3>2, Zenon DEF prepare_boot_info
    <3>3. CASE exit_boot_services
      BY <1>2, <3>3, Zenon DEF exit_boot_services
    <3> QED BY <3>1, <3>2, <3>3, Zenon
  <2>3. PICK what :
          /\ HandoverUses' \subseteq HandoverUses \cup {<<what, s>>}
          /\ boot_info' = [frame |-> boot_info'.frame, map_frame |-> boot_info'.map_frame,
                           max_phys_memory |-> boot_info'.max_phys_memory,
                           memory_map |-> boot_info'.memory_map]
    <3>1. CASE UNCHANGED boot_info
      BY <2>1, <3>1, SMT, SMTT(60) DEF HandoverUses
    <3>2. CASE boot_info' = [boot_info EXCEPT !.frame = s, !.max_phys_memory = max_phys_addr]
      <4>1. /\ boot_info' = [info EXCEPT !.frame = s, !.max_phys_memory = max_phys_addr]
            /\ boot_info'.frame = s /\ boot_info'.map_frame = boot_info.map_frame
        BY <2>1, <3>2, Zenon
      <4>2. HandoverUses' \subseteq HandoverUses \cup {<<<<"boot_info", 0, 0>>, s>>}
        BY <4>1 DEF HandoverUses
      <4> QED BY <4>1, <4>2, Zenon
    <3>3. CASE \E m : boot_info' = [boot_info EXCEPT !.map_frame = s, !.memory_map = m]
      <4>1. PICK m : boot_info' = [boot_info EXCEPT !.map_frame = s, !.memory_map = m]
        BY <3>3, Zenon
      <4>2. /\ boot_info' = [info EXCEPT !.map_frame = s, !.memory_map = m]
            /\ boot_info'.map_frame = s /\ boot_info'.frame = boot_info.frame
        BY <2>1, <4>1, Zenon
      <4>3. HandoverUses' \subseteq HandoverUses \cup {<<<<"memory_map", 0, 0>>, s>>}
        BY <4>2 DEF HandoverUses
      <4> QED BY <4>2, <4>3, Zenon
    <3> QED BY <2>2, <3>1, <3>2, <3>3, Zenon
  <2>4. Shape' /\ (Apart /\ OwnedReserved /\ OneUsePerFrame)'
    BY <2>2, <2>3, OneFrame, Zenon
  <2>5. Progress'
    BY <2>2, Zenon DEF Progress
  <2> QED BY <2>4, <2>5, Zenon DEF IInv
<1> QED BY <1>1, <1>2, Zenon

-----------------------------------------------------------------------------
(* The theorems. *)

LEMMA BootInit == Init => IInv
<1> SUFFICES ASSUME Init PROVE IInv
  OBVIOUS
<1>1. /\ frame_allocator = [next |-> 0, end |-> 0] /\ image = <<>> /\ i = 0 /\ pc = "file"
      /\ mapper = [tables |-> <<>>, pages |-> <<>>, huge |-> <<>>]
      /\ boot_info = [frame |-> None, map_frame |-> None, max_phys_memory |-> 0,
                      memory_map |-> <<>>]
      /\ machine \in Machines /\ mem = machine.mem
  BY DEF Init
<1>2. Owned = {}
  <2>1. DOMAIN mapper.tables = {} /\ DOMAIN mapper.pages = {} /\ DOMAIN image = {}
    BY <1>1, SMT, SMTT(60)
  <2>2. boot_info.frame = None /\ boot_info.map_frame = None
    BY <1>1
  <2>3. TableUses = {} /\ StackUses = {} /\ HandoverUses = {}
    BY <2>1, <2>2, SMT, SMTT(60) DEF TableUses, StackUses, HandoverUses
  <2> QED BY <2>1, <2>3, Zenon DEF Owned
<1>3. PoolLeft = {}
  BY <1>1 DEF PoolLeft
<1>4. Apart /\ OwnedReserved /\ OneUsePerFrame
  BY <1>2, <1>3, Zenon DEF Apart, OwnedReserved, OneUsePerFrame
<1>5. Shape /\ Progress
  BY <1>1 DEF Shape, Progress
<1> QED BY <1>4, <1>5, SMT, SMTT(60) DEF IInv

LEMMA BootNext == IInv /\ [Next]_vars => IInv'
<1> SUFFICES ASSUME IInv, [Next]_vars PROVE IInv'
  OBVIOUS
<1>1. CASE read_kernel \/ allocate_pool
  BY <1>1, PoolKeeps
<1>2. CASE create_pml4
  BY <1>2, Pml4Keeps
<1>3. CASE load_segment
  BY <1>3, SegmentKeeps
<1>4. CASE map_segment \/ map_hhdm \/ identity_map \/ map_framebuffer
  BY <1>4, LoopsKeep, Zenon
<1>5. CASE map_stack
  BY <1>5, StackKeeps
<1>6. CASE read_memory_map \/ prepare_boot_info \/ exit_boot_services
  BY <1>6, HandoverKeeps, ZenonT(40)
<1>7. CASE firmware
  BY <1>7, FirmwareKeeps
<1>8. CASE segments_loaded \/ open_gop \/ finished \/ UNCHANGED vars
  BY <1>8, IdleKeeps, Zenon DEF finished
<1> QED BY <1>1, <1>2, <1>3, <1>4, <1>5, <1>6, <1>7, <1>8, Zenon DEF Next, main

\* The pool of the bump allocator, the firmware's allocations and the frames in use stay
\* apart through every stage of main, also when the pool runs dry half way through map_to.
THEOREM BootInvariance == Spec => []IInv
<1> QED BY BootInit, BootNext, PTL DEF Spec

\* Page tables, stack, kernel image and hand-over never share a frame, whatever the machine,
\* the segments, the pool and the firmware's own allocations are.
THEOREM BootOneUsePerFrame == Spec => []OneUsePerFrame
<1>1. IInv => OneUsePerFrame
  BY ZenonT(40) DEF IInv
<1> QED BY <1>1, BootInvariance, PTL

\* No frame in use is free, or the firmware's own, in the map the firmware keeps, which
\* exit_boot_services hands over.
THEOREM BootOwnedReserved == Spec => []OwnedReserved
<1>1. IInv => OwnedReserved
  BY DEF IInv
<1> QED BY <1>1, BootInvariance, PTL

-----------------------------------------------------------------------------
(* The memory map that the firmware hands out. *)

\* A set of numbers has a least one, and a greatest one when it is bounded.
LEMMA LeastOf ==
  ASSUME NEW S \in SUBSET Nat, S # {}
  PROVE  \E x \in S : \A y \in S : x <= y
<1> DEFINE R == {ss \in Nat \X Nat : ss[1] < ss[2]}
<1>1. IsWellFoundedOn(R, Nat)
  BY NatLessThanWellFounded, Zenon DEF OpToRel
<1>2. PICK x \in S : \A y \in S : ~(<<y, x>> \in R)
  <2> HIDE DEF R
  <2> QED BY <1>1, WFMin, Zenon
<1>3. ASSUME NEW y \in S PROVE x <= y
  <2>1. ~(y < x)
    <3>1. <<y, x>> \in Nat \X Nat /\ <<y, x>>[1] = y /\ <<y, x>>[2] = x
      OBVIOUS
    <3> QED BY <1>2, <3>1, Zenon
  <2> QED BY <2>1
<1> QED BY <1>3

LEMMA GreatestOf ==
  ASSUME NEW S \in SUBSET Nat, S # {}, NEW n \in Nat, \A x \in S : x <= n
  PROVE  MaxOf(S) \in S /\ \A y \in S : y <= MaxOf(S)
<1> DEFINE D == {n - x : x \in S}
<1>1. D \in SUBSET Nat /\ D # {}
  <2>1. \A x \in S : n - x \in Nat
    OBVIOUS
  <2>2. \E x : x \in S
    OBVIOUS
  <2> QED BY <2>1, <2>2, Zenon
<1>2. PICK d \in D : \A e \in D : d <= e
  BY <1>1, LeastOf, Zenon
<1>3. PICK x \in S : d = n - x
  OBVIOUS
<1>4. \A y \in S : y <= x
  <2> SUFFICES ASSUME NEW y \in S PROVE y <= x
    BY SMT, SMTT(60)
  <2>1. n - y \in D
    OBVIOUS
  <2>2. n - x <= n - y
    BY <1>2, <1>3, <2>1, Zenon
  <2> QED BY <2>2
<1> QED BY <1>4 DEF MaxOf

\* Memory with its end: what machine.mem and mem are.
IsMemory(m, top) ==
  /\ top \in Nat /\ top - 1 \in DOMAIN m
  /\ \A f \in DOMAIN m : f \in Nat /\ f < top /\ m[f] \in Nat

Run(m, s, n) == \A f \in Frames(n, s) : f \in DOMAIN m /\ m[f] = m[s]
Starts(m) == {f \in DOMAIN m : f - 1 \notin DOMAIN m \/ m[f - 1] # m[f]}
RunLength(m, s) == MaxOf({n \in 1 .. Cardinality(DOMAIN m) : Run(m, s, n)})
Region(m, s) == [type_ |-> m[s], phys_start |-> s, page_count |-> RunLength(m, s)]

LEMMA RegionsAre ==
  ASSUME NEW m
  PROVE  Regions(m) = {Region(m, s) : s \in Starts(m)}
BY SMT, SMTT(60) DEF Regions, Region, Starts, RunLength, Run

\* The longest run from a frame.
LEMMA LongestRun ==
  ASSUME NEW m, NEW top, IsMemory(m, top), NEW s \in DOMAIN m
  PROVE  /\ RunLength(m, s) \in Nat \ {0} /\ Run(m, s, RunLength(m, s))
         /\ \A n \in Nat \ {0} : Run(m, s, n) => n <= RunLength(m, s)
<1> DEFINE C == Cardinality(DOMAIN m)
           S == {n \in 1 .. C : Run(m, s, n)}
<1>1. s \in Nat /\ DOMAIN m \in SUBSET Nat /\ top \in Nat /\ \A f \in DOMAIN m : f <= top
  BY DEF IsMemory
<1>2. IsFiniteSet(DOMAIN m)
  BY <1>1, FS_BoundedSetOfNaturals, Zenon
<1>3. C \in Nat
  BY <1>2, FS_CardinalityType, Zenon
<1>4. ASSUME NEW n \in Nat \ {0}, Run(m, s, n) PROVE n \in S
  <2>1. (s .. s + n - 1) \subseteq DOMAIN m
    BY <1>4 DEF Run, Frames
  <2>2. Cardinality(s .. s + n - 1) <= C
    BY <1>2, <2>1, FS_Subset, Zenon
  <2>3. s + n - 1 \in Int /\ ~(s > s + n - 1)
    BY <1>1
  <2>4. Cardinality(s .. s + n - 1) = IF s > s + n - 1 THEN 0 ELSE s + n - 1 - s + 1
    BY <1>1, <2>3, FS_Interval, SMT, SMTT(60)
  <2>5. Cardinality(s .. s + n - 1) = n
    BY <1>1, <2>3, <2>4, SMT, SMTT(60)
  <2>6. n \in 1 .. C
    BY <1>3, <2>2, <2>5, SMT, SMTT(60)
  <2> QED BY <1>4, <2>6, SMT, SMTT(60)
<1>5. Run(m, s, 1)
  <2>1. Frames(1, s) = {s}
    BY <1>1 DEF Frames
  <2> QED BY <2>1 DEF Run
<1>6. S \in SUBSET Nat /\ S # {} /\ \A n \in S : n <= C
  <2>1. 1 \in S
    BY <1>4, <1>5
  <2> HIDE DEF C
  <2> QED BY <1>3, <2>1
<1>7. MaxOf(S) \in S /\ \A n \in S : n <= MaxOf(S)
  BY <1>3, <1>6, GreatestOf, Zenon
<1>8. RunLength(m, s) = MaxOf(S)
  BY DEF RunLength
<1>9. \A n \in S : n \in Nat \ {0} /\ Run(m, s, n)
  BY <1>3
<1> HIDE DEF S
<1> QED BY <1>4, <1>7, <1>8, <1>9, SMT, SMTT(60)

\* The frames of a descriptor are a run.
LEMMA RegionFrames ==
  ASSUME NEW m, NEW top, IsMemory(m, top), NEW s \in DOMAIN m
  PROVE  /\ Region(m, s) \in MemoryDescriptor
         /\ FramesOf(Region(m, s)) = Frames(RunLength(m, s), s)
         /\ s + RunLength(m, s) <= top /\ s + RunLength(m, s) \in Nat
<1>1. s \in Nat /\ m[s] \in Nat /\ top \in Nat
  BY DEF IsMemory
<1>2. PICK n \in Nat \ {0} : n = RunLength(m, s) /\ Run(m, s, n)
  BY LongestRun
<1>3. Region(m, s) = [type_ |-> m[s], phys_start |-> s, page_count |-> n]
  BY <1>2 DEF Region
<1>4. Region(m, s) \in MemoryDescriptor
  BY <1>1, <1>3 DEF MemoryDescriptor
<1>5. FramesOf(Region(m, s)) = s .. s + n - 1
  <2>1. FramesOf(Region(m, s)) = {s \div 1 + k : k \in 0 .. n - 1}
    BY <1>3, BootAssumption DEF FramesOf, FramesFrom
  <2>2. s \div 1 = s
    BY <1>1
  <2>3. {s + k : k \in 0 .. n - 1} = s .. s + n - 1
    <3>1. \A x \in s .. s + n - 1 : x - s \in 0 .. n - 1 /\ x = s + (x - s)
      BY <1>1
    <3>2. \A k \in 0 .. n - 1 : s + k \in s .. s + n - 1
      BY <1>1
    <3> QED BY <3>1, <3>2, Zenon
  <2> QED BY <2>1, <2>2, <2>3, Zenon
<1>6. s + n - 1 < top
  <2>1. s + n - 1 \in Frames(n, s)
    BY <1>1 DEF Frames
  <2>2. s + n - 1 \in DOMAIN m
    BY <1>2, <2>1 DEF Run
  <2> QED BY <2>2 DEF IsMemory
<1> QED BY <1>1, <1>2, <1>4, <1>5, <1>6, SMT, SMTT(60) DEF Frames

\* A frame is in one descriptor, with its type.
LEMMA RegionsCover ==
  ASSUME NEW m, NEW top, IsMemory(m, top), NEW f \in DOMAIN m
  PROVE  \E s \in Starts(m) : f \in Frames(RunLength(m, s), s)
<1> DEFINE B == {s \in DOMAIN m : s <= f /\ Run(m, s, f - s + 1)}
<1>1. f \in Nat /\ DOMAIN m \in SUBSET Nat
  BY DEF IsMemory
<1>2. f \in B
  <2>1. Frames(f - f + 1, f) = {f}
    BY <1>1 DEF Frames
  <2> QED BY <1>1, <2>1 DEF Run
<1>3. B \in SUBSET Nat /\ B # {}
  BY <1>1, <1>2
<1>4. PICK s \in B : \A t \in B : s <= t
  BY <1>3, LeastOf, Zenon
<1>5. s \in DOMAIN m /\ s \in Nat /\ s <= f /\ Run(m, s, f - s + 1)
  BY <1>1
<1> HIDE DEF B
<1>6. s \in Starts(m)
  <2>1. SUFFICES ASSUME s - 1 \in DOMAIN m, m[s - 1] = m[s] PROVE FALSE
    BY <1>5 DEF Starts
  <2>2. s - 1 \in Nat /\ s - 1 <= f
    BY <1>1, <1>5, <2>1, SMT, SMTT(60)
  <2>3. Run(m, s - 1, f - (s - 1) + 1)
    <3> SUFFICES ASSUME NEW g \in Frames(f - (s - 1) + 1, s - 1) PROVE g \in DOMAIN m /\ m[g] = m[s - 1]
      BY DEF Run
    <3>1. g = s - 1 \/ g \in Frames(f - s + 1, s)
      BY <1>1, <1>5, <2>2, SMT, SMTT(60) DEF Frames
    <3> QED BY <1>5, <2>1, <3>1, SMT, SMTT(60) DEF Run
  <2>4. s - 1 \in B
    BY <2>1, <2>2, <2>3, SMT, SMTT(60) DEF B
  <2> QED BY <1>4, <1>5, <2>4, SMT, SMTT(60)
<1>7. f - s + 1 \in Nat \ {0}
  BY <1>1, <1>5, SMT, SMTT(60)
<1>8. RunLength(m, s) \in Nat /\ f - s + 1 <= RunLength(m, s)
  BY <1>5, <1>7, LongestRun, SMT, SMTT(60)
<1>9. f \in Frames(RunLength(m, s), s)
  BY <1>1, <1>5, <1>8, SMT, SMTT(60) DEF Frames
<1> QED BY <1>6, <1>9

LEMMA RegionsApart ==
  ASSUME NEW m, NEW top, IsMemory(m, top), NEW s \in Starts(m), NEW t \in Starts(m), s # t
  PROVE  Frames(RunLength(m, s), s) \cap Frames(RunLength(m, t), t) = {}
<1>1. ASSUME NEW a \in Starts(m), NEW b \in Starts(m), a < b
      PROVE  Frames(RunLength(m, a), a) \cap Frames(RunLength(m, b), b) = {}
  <2>1. a \in DOMAIN m /\ b \in DOMAIN m /\ a \in Nat /\ b \in Nat
    BY DEF Starts, IsMemory
  <2>2. RunLength(m, a) \in Nat /\ Run(m, a, RunLength(m, a)) /\ RunLength(m, b) \in Nat
    BY <2>1, LongestRun
  <2>3. SUFFICES ASSUME NEW g \in Frames(RunLength(m, a), a), g \in Frames(RunLength(m, b), b) PROVE FALSE
    OBVIOUS
  <2>4. b \in Frames(RunLength(m, a), a) /\ b - 1 \in Frames(RunLength(m, a), a)
    BY <1>1, <2>1, <2>2, <2>3, SMT, SMTT(60) DEF Frames
  <2>5. b - 1 \in DOMAIN m /\ m[b - 1] = m[b]
    BY <2>2, <2>4 DEF Run
  <2> QED BY <2>5 DEF Starts
<1>2. s \in Nat /\ t \in Nat
  BY DEF Starts, IsMemory
<1>3. s < t \/ t < s
  BY <1>2, SMT, SMTT(60)
<1> QED BY <1>1, <1>3

\* max_phys covers the memory, and at most one huge page more.
LEMMA MaxPhysCovers ==
  ASSUME NEW m, NEW top, IsMemory(m, top)
  PROVE  \E q \in Nat \ {0} : /\ max_phys(m) = q * ENTRIES /\ q * ENTRIES \in Nat
                              /\ top <= q * ENTRIES /\ q * ENTRIES < top + ENTRIES
                              /\ max_phys(m) \div ENTRIES = q
<1> DEFINE Ends == {d.phys_start + d.page_count : d \in Regions(m)}
<1>1. top \in Nat /\ top - 1 \in DOMAIN m /\ top >= 1
  BY DEF IsMemory
<1>2. \A s \in Starts(m) : s \in DOMAIN m
  BY DEF Starts
<1>3. Ends = {s + RunLength(m, s) : s \in Starts(m)}
  <2>1. \A s : Region(m, s).phys_start + Region(m, s).page_count = s + RunLength(m, s)
    BY Zenon DEF Region
  <2> QED BY <2>1, RegionsAre, Zenon
<1>4. \A e \in Ends : e \in Nat /\ e <= top
  BY <1>2, <1>3, RegionFrames, ZenonT(40)
<1>5. top \in Ends
  <2>1. PICK s \in Starts(m) : top - 1 \in Frames(RunLength(m, s), s)
    BY <1>1, RegionsCover
  <2>2. RunLength(m, s) \in Nat /\ s \in Nat /\ s + RunLength(m, s) <= top
    BY <1>2, LongestRun, RegionFrames, Zenon DEF IsMemory
  <2>3. s + RunLength(m, s) = top
    BY <1>1, <2>1, <2>2, SMT, SMTT(60) DEF Frames
  <2> QED BY <1>3, <2>3
<1> HIDE DEF Ends
<1>6. MaxOf(Ends) = top
  <2>1. Ends \in SUBSET Nat /\ Ends # {}
    BY <1>4, <1>5
  <2>2. MaxOf(Ends) \in Ends /\ \A e \in Ends : e <= MaxOf(Ends)
    BY <1>1, <1>4, <2>1, GreatestOf, Zenon
  <2>3. PICK e \in Ends : e = MaxOf(Ends)
    BY <2>2
  <2>4. top <= e /\ e <= top /\ e \in Nat
    BY <1>4, <1>5, <2>2, <2>3, SMT, SMTT(60)
  <2>5. e = top
    BY <1>1, <2>4, SMT, SMTT(60)
  <2> QED BY <2>3, <2>5
<1>7. max_phys(m) = ((top + ENTRIES - 1) \div ENTRIES) * ENTRIES
  BY <1>6, SMT, SMTT(60) DEF max_phys, Ends
<1>8. ENTRIES \in Nat \ {0}
  BY BootAssumption, SMT, SMTT(60)
<1> DEFINE x == top + ENTRIES - 1
           q == x \div ENTRIES
           r == x % ENTRIES
<1>9. x \in Nat /\ x >= ENTRIES
  BY <1>1, <1>8, SMT, SMTT(60)
<1> HIDE DEF x
<1>10. q \in Nat /\ r \in 0 .. ENTRIES - 1 /\ x = ENTRIES * q + r
  BY <1>8, <1>9, SMT, SMTT(60)
<1> HIDE DEF q, r
<1>11. q # 0
  BY <1>8, <1>9, <1>10, SMT, SMTT(60)
<1>12. q * ENTRIES \in Nat /\ ENTRIES * q = q * ENTRIES
  BY <1>8, <1>10, SMT, SMTT(60)
<1>13. top <= q * ENTRIES /\ q * ENTRIES < top + ENTRIES
  BY <1>1, <1>8, <1>10, <1>12, SMT, SMTT(60) DEF x
<1>14. (q * ENTRIES) \div ENTRIES = q
  BY <1>8, <1>10
<1> QED BY <1>7, <1>10, <1>11, <1>12, <1>13, <1>14, ZenonT(40) DEF q, x

\* Numbering the descriptors by address reaches each of them once.
LEMMA DescriptorsAre ==
  ASSUME NEW m, NEW top, IsMemory(m, top)
  PROVE  /\ Descriptors(m) \in Seq(Regions(m))
         /\ \A k, l \in DOMAIN Descriptors(m) : Descriptors(m)[k] = Descriptors(m)[l] => k = l
<1> DEFINE R == Regions(m)
           C == Cardinality(R)
           Below(d) == {c \in R : c.phys_start < d.phys_start}
           start == [d \in R |-> d.phys_start]
           rank == [d \in R |-> Cardinality(Below(d))]
<1>1. \A d \in R : \E s \in Starts(m) : d = Region(m, s) /\ d.phys_start = s
  <2>1. \A s : Region(m, s).phys_start = s
    BY DEF Region
  <2> QED BY <2>1, RegionsAre
<1>2. \A s \in Starts(m) : s \in DOMAIN m /\ s \in Nat
  BY DEF Starts, IsMemory
<1>3. \A d \in R : d.phys_start \in DOMAIN m /\ d.phys_start \in Nat
  BY <1>1, <1>2, Zenon
<1>4. \A c, d \in R : c.phys_start = d.phys_start => c = d
  BY <1>1, Zenon
<1> HIDE DEF R
<1>5. IsFiniteSet(DOMAIN m)
  <2>1. DOMAIN m \in SUBSET Nat /\ top \in Nat /\ \A f \in DOMAIN m : f <= top
    BY DEF IsMemory
  <2> QED BY <2>1, FS_BoundedSetOfNaturals, Zenon
<1>6. IsFiniteSet(R)
  <2>1. start \in Injection(R, DOMAIN m)
    BY <1>3, <1>4 DEF Injection, IsInjective
  <2> QED BY <1>5, <2>1, FS_Injection, Zenon
<1>7. C \in Nat
  BY <1>6, FS_CardinalityType, Zenon
<1>8. \A d \in R : Below(d) \in SUBSET R /\ d \notin Below(d)
  BY <1>3
<1>9. ASSUME NEW T, NEW U, T \in SUBSET U, U \in SUBSET R, NEW d \in U, d \notin T
      PROVE  Cardinality(T) \in Nat /\ Cardinality(U) \in Nat /\ Cardinality(T) < Cardinality(U)
  <2>1. IsFiniteSet(U)
    BY <1>6, <1>9, FS_Subset, Zenon
  <2>2. Cardinality(T) <= Cardinality(U) /\ Cardinality(U) # Cardinality(T) /\ IsFiniteSet(T)
    BY <1>9, <2>1, FS_Subset, Zenon
  <2>3. Cardinality(T) \in Nat /\ Cardinality(U) \in Nat
    BY <2>1, <2>2, FS_CardinalityType, Zenon
  <2> QED BY <2>2, <2>3
<1>10. \A d \in R : Cardinality(Below(d)) \in 0 .. C - 1
  <2> SUFFICES ASSUME NEW d \in R PROVE Cardinality(Below(d)) \in 0 .. C - 1
    OBVIOUS
  <2>1. Cardinality(Below(d)) \in Nat /\ Cardinality(Below(d)) < C
    <3>1. R \in SUBSET R
      OBVIOUS
    <3> HIDE DEF Below
    <3> QED BY <1>8, <1>9, <3>1, Zenon
  <2> QED BY <1>7, <2>1, SMT, SMTT(60)
<1>11. \A c, d \in R : c.phys_start < d.phys_start => Cardinality(Below(c)) < Cardinality(Below(d))
  <2> SUFFICES ASSUME NEW c \in R, NEW d \in R, c.phys_start < d.phys_start
               PROVE  Cardinality(Below(c)) < Cardinality(Below(d))
    OBVIOUS
  <2>1. Below(c) \in SUBSET Below(d) /\ c \in Below(d)
    BY <1>3
  <2>2. Below(d) \in SUBSET R /\ c \notin Below(c)
    BY <1>8
  <2> HIDE DEF Below
  <2> QED BY <1>9, <2>1, <2>2, Zenon
<1> HIDE DEF Below
<1>12. rank \in Injection(R, 0 .. C - 1)
  <2>1. rank \in [R -> 0 .. C - 1]
    BY <1>10
  <2>2. ASSUME NEW c \in R, NEW d \in R, c # d PROVE Cardinality(Below(c)) # Cardinality(Below(d))
    <3>1. c.phys_start < d.phys_start \/ d.phys_start < c.phys_start
      BY <1>3, <1>4, <2>2, SMT, SMTT(60)
    <3>2. Cardinality(Below(c)) \in Nat /\ Cardinality(Below(d)) \in Nat
      BY <1>7, <1>10, SMT, SMTT(60)
    <3> QED BY <1>11, <3>1, <3>2, SMT, SMTT(60)
  <2>3. \A c, d \in R : rank[c] = rank[d] => c = d
    BY <2>2
  <2>4. DOMAIN rank = R
    OBVIOUS
  <2> HIDE DEF rank
  <2> QED BY <2>1, <2>3, <2>4, SMT, SMTT(60) DEF Injection, IsInjective
<1>13. rank \in Surjection(R, 0 .. C - 1)
  <2>1. ASSUME NEW a \in Int, NEW b \in Int, a = 0, b = C - 1
        PROVE  IsFiniteSet(a .. b) /\ Cardinality(a .. b) = C
    <3>1. IsFiniteSet(a .. b) /\ Cardinality(a .. b) = IF a > b THEN 0 ELSE b - a + 1
      BY FS_Interval
    <3> QED BY <1>7, <2>1, <3>1, SMT, SMTT(60)
  <2>2. 0 \in Int /\ C - 1 \in Int
    BY <1>7
  <2>3. IsFiniteSet(0 .. C - 1) /\ Cardinality(0 .. C - 1) = C
    BY <2>1, <2>2, Zenon
  <2> HIDE DEF rank
  <2> QED BY <1>12, <2>3, FS_Injection, Zenon
<1> DEFINE G(k) == CHOOSE d \in R : Cardinality(Below(d)) = k - 1
<1>14. ASSUME NEW k \in 1 .. C
       PROVE  G(k) \in R /\ Cardinality(Below(G(k))) = k - 1
  <2>1. k - 1 \in 0 .. C - 1
    BY <1>7
  <2>2. \E d \in R : Cardinality(Below(d)) = k - 1
    BY <1>13, <2>1, Zenon DEF Surjection
  <2> QED BY <2>2
<1>15. Descriptors(m) = [k \in 1 .. C |-> G(k)]
  BY DEF Descriptors, R, Below
<1> HIDE DEF C, G
<1>16. DOMAIN Descriptors(m) = 1 .. C /\ \A k \in 1 .. C : Descriptors(m)[k] = G(k)
  BY <1>15
<1>17. Descriptors(m) \in [1 .. C -> R]
  BY <1>14, <1>15
<1>18. Descriptors(m) \in Seq(R)
  BY <1>7, <1>17, SMT, SMTT(60)
<1>19. \A k, l \in 1 .. C : Descriptors(m)[k] = Descriptors(m)[l] => k = l
  BY <1>7, <1>14, <1>16, SMT, SMTT(60)
<1> QED BY <1>16, <1>18, <1>19, SMT, SMTT(60) DEF R

-----------------------------------------------------------------------------
(* The hand-over. *)

\* Memory ends where machine.top says.
LEMMA MemoryIs ==
  ASSUME IInv, Handover
  PROVE  IsMemory(mem, machine.top)
<1>1. \A n \in Machines : n.top \in Nat /\ n.top - 1 \in DOMAIN n.mem
                          /\ \A f \in DOMAIN n.mem : f \in Nat /\ f < n.top
  BY BootAssumption
<1> QED BY <1>1, SMT, SMTT(60) DEF IInv, Shape, Handover, IsMemory

\* Memory changes hands by type: the loader takes free frames, the firmware takes and
\* returns pages of its own.
LEMMA TypesKept ==
  ASSUME IInv, Handover, [Next]_vars
  PROVE  /\ DOMAIN mem' = DOMAIN mem
         /\ \A f \in DOMAIN mem' : mem'[f] \in Nat
         /\ mem'[machine'.rip] = LOADER_CODE
<1>1. /\ mem[machine.rip] = LOADER_CODE /\ machine.rip \in DOMAIN mem
      /\ \A f \in DOMAIN mem : mem[f] \in Nat
  <2>1. \A n \in Machines : n.rip \in DOMAIN n.mem
    BY BootAssumption, ZenonT(40)
  <2> QED BY <2>1 DEF IInv, Shape, Handover
<1>2. UNCHANGED machine
  BY Zenon DEF Next, main, read_kernel, allocate_pool, create_pml4, load_segment, map_segment,
         segments_loaded, map_stack, read_memory_map, map_hhdm, identity_map, open_gop,
         map_framebuffer, prepare_boot_info, exit_boot_services, MapStep, panic, firmware,
         finished, vars
<1> DEFINE Kept(m) == /\ DOMAIN m = DOMAIN mem
                      /\ \A f \in DOMAIN mem : m[f] \in Nat
                      /\ m[machine.rip] = LOADER_CODE
<1>3. ASSUME NEW n, NEW s \in allocate_pages(n)
      PROVE  Kept(Updated(mem, Frames(n, s), LOADER_DATA))
  <2>1. Frames(n, s) \subseteq DOMAIN mem /\ \A f \in Frames(n, s) : mem[f] = CONVENTIONAL
    BY DEF allocate_pages, Runs
  <2>2. machine.rip \notin Frames(n, s)
    BY <1>1, <2>1, SMT, SMTT(60) DEF CONVENTIONAL, LOADER_CODE
  <2> DEFINE S == Frames(n, s)
             m == Updated(mem, S, LOADER_DATA)
  <2>3. /\ DOMAIN m = DOMAIN mem
        /\ \A f \in DOMAIN mem : m[f] = IF f \in S THEN LOADER_DATA ELSE mem[f]
    BY <2>1, SMT, SMTT(60) DEF Updated
  <2> HIDE DEF m, S
  <2>4. Kept(m)
    BY <1>1, <2>2, <2>3, SMT, SMTT(60) DEF LOADER_DATA, S
  <2> QED BY <2>4 DEF m, S
<1>4. ASSUME NEW s \in allocate_pages(1)
      PROVE  /\ Kept(Updated(mem, {s}, LOADER_DATA))
             /\ s \in DOMAIN mem /\ mem[s] = CONVENTIONAL
  <2>1. s \in Nat /\ s \in DOMAIN mem /\ \A f \in Frames(1, s) : mem[f] = CONVENTIONAL
    BY FramesAreNumbers DEF allocate_pages, Runs
  <2>2. Frames(1, s) = {s}
    BY <2>1 DEF Frames
  <2>3. mem[s] = CONVENTIONAL
    BY <2>1, <2>2
  <2> HIDE DEF Kept
  <2>4. Kept(Updated(mem, Frames(1, s), LOADER_DATA))
    BY <1>3
  <2> QED BY <2>1, <2>2, <2>3, <2>4, SMT, SMTT(60)
<1>5. ASSUME NEW f \in DOMAIN mem, NEW v \in Nat, mem[f] # LOADER_CODE
      PROVE  Kept([mem EXCEPT ![f] = v])
  BY <1>1, <1>5, SMT, SMTT(60)
<1>6. Kept(mem)
  BY <1>1
<1>7. Kept(mem')
  <2> HIDE DEF Kept
  <2>1. CASE mem' = mem
    BY <1>6, <2>1
  <2>2. CASE read_kernel \/ allocate_pool \/ load_segment
    BY <1>3, <1>6, <2>2, Zenon DEF read_kernel, allocate_pool, load_segment, panic
  <2>3. CASE read_memory_map \/ prepare_boot_info \/ exit_boot_services
    BY <1>4, <1>6, <2>3, Zenon DEF read_memory_map, prepare_boot_info, exit_boot_services, panic
  <2>4. CASE firmware
    <3>1. CONVENTIONAL # LOADER_CODE /\ BOOT_SERVICES_DATA # LOADER_CODE
          /\ CONVENTIONAL \in Nat /\ BOOT_SERVICES_DATA \in Nat
      BY DEF CONVENTIONAL, LOADER_CODE, BOOT_SERVICES_DATA
    <3> QED BY <1>4, <1>5, <2>4, <3>1, Zenon DEF firmware
  <2>5. CASE create_pml4 \/ map_segment \/ segments_loaded \/ map_stack \/ map_hhdm
             \/ identity_map \/ open_gop \/ map_framebuffer \/ finished \/ UNCHANGED vars
    <3>1. mem' = mem
      BY <2>5, Zenon DEF create_pml4, map_segment, segments_loaded, map_stack, map_hhdm,
           identity_map, open_gop, map_framebuffer, finished, vars, MapStep, panic
    <3> QED BY <2>1, <3>1, SMT, SMTT(60)
  <2> QED BY <2>2, <2>3, <2>4, <2>5, SMT, SMTT(60) DEF Next, main
<1> QED BY <1>2, <1>7, SMT, SMTT(60)

LEMMA HandoverInit == Init => Handover
<1> SUFFICES ASSUME Init PROVE Handover
  OBVIOUS
<1>1. /\ mem = machine.mem /\ machine \in Machines /\ pc = "file"
  BY DEF Init
<1>2. \A m \in Machines : m.mem[m.rip] = LOADER_CODE /\ \A f \in DOMAIN m.mem : m.mem[f] \in Nat
  <2>1. \A m \in Machines :
          m.mem[m.rip] = LOADER_CODE /\ \A f \in DOMAIN m.mem : m.mem[f] \in 0 .. 15
    BY BootAssumption, Zenon
  <2>2. 0 .. 15 \subseteq Nat
    OBVIOUS
  <2> QED BY <2>1, <2>2, Zenon
<1> QED BY <1>1, <1>2, SMT, SMTT(60) DEF Handover

\* The end of memory is computed once, from a map with the same end as the last one.
LEMMA HandoverNext == IInv /\ Handover /\ [Next]_vars => Handover'
<1> SUFFICES ASSUME IInv, Handover, [Next]_vars PROVE Handover'
  OBVIOUS
<1> DEFINE Late == {"hhdm", "identity", "gop", "framebuffer", "boot_info", "exit", "entered"}
           Rounded(a, top) ==
             \E q \in Nat \ {0} : /\ a = q * ENTRIES /\ q * ENTRIES \in Nat
                                  /\ top <= q * ENTRIES /\ q * ENTRIES < top + ENTRIES
                                  /\ a \div ENTRIES = q
<1>1. /\ pc \in Late => Rounded(max_phys_addr, machine.top)
      /\ pc \in {"exit", "entered"} => boot_info.max_phys_memory = max_phys_addr
      /\ pc = "entered" => boot_info.memory_map = Descriptors(mem)
  BY Zenon DEF Handover
<1>2. /\ DOMAIN mem' = DOMAIN mem
      /\ \A f \in DOMAIN mem' : mem'[f] \in Nat
      /\ mem'[machine'.rip] = LOADER_CODE
  BY TypesKept
<1>3. SUFFICES
        /\ pc' \in Late => Rounded(max_phys_addr', machine'.top)
        /\ pc' \in {"exit", "entered"} => boot_info'.max_phys_memory = max_phys_addr'
        /\ pc' = "entered" => boot_info'.memory_map = Descriptors(mem')
  BY <1>2, Zenon DEF Handover
<1>4. CASE read_memory_map /\ pc' # "panic"
  <2>1. /\ max_phys_addr' = max_phys(mem') /\ UNCHANGED machine /\ pc' = "hhdm"
    BY <1>4, Zenon DEF read_memory_map, panic
  <2>2. IsMemory(mem', machine.top)
    <3>1. IsMemory(mem, machine.top)
      BY MemoryIs
    <3> QED BY <1>2, <3>1 DEF IsMemory
  <2>3. Rounded(max_phys(mem'), machine.top)
    BY <2>2, MaxPhysCovers, Zenon
  <2> HIDE DEF Rounded
  <2> QED BY <2>1, <2>3
<1> HIDE DEF Rounded
<1>5. CASE prepare_boot_info /\ pc' # "panic"
  <2>1. PICK s \in allocate_pages(1) :
          /\ boot_info' = [boot_info EXCEPT !.frame = s, !.max_phys_memory = max_phys_addr]
          /\ pc = "boot_info" /\ pc' = "exit" /\ UNCHANGED <<machine, max_phys_addr>>
    BY <1>5, Zenon DEF prepare_boot_info, panic
  <2>2. boot_info'.max_phys_memory = max_phys_addr
    BY <2>1 DEF IInv, Shape
  <2> QED BY <1>1, <2>1, <2>2, SMT, SMTT(60)
<1>6. CASE exit_boot_services /\ pc' # "panic"
  <2>1. PICK s \in allocate_pages(1) :
          /\ boot_info' = [boot_info EXCEPT !.map_frame = s, !.memory_map = Descriptors(mem')]
          /\ pc = "exit" /\ pc' = "entered" /\ UNCHANGED <<machine, max_phys_addr>>
    BY <1>6, Zenon DEF exit_boot_services, panic
  <2>2. /\ boot_info'.max_phys_memory = boot_info.max_phys_memory
        /\ boot_info'.memory_map = Descriptors(mem')
    BY <2>1 DEF IInv, Shape
  <2> QED BY <1>1, <2>1, <2>2
<1>7. CASE pc' = "panic"
  BY <1>7
<1>8. CASE map_segment \/ map_stack \/ map_hhdm \/ identity_map \/ map_framebuffer
  <2>1. \/ pc' = "panic"
        \/ /\ UNCHANGED <<machine, max_phys_addr, boot_info>>
           /\ \/ pc' = pc
              \/ pc' \in {"segments", "memory_map"}
              \/ pc \in {"hhdm", "identity", "framebuffer"} /\ pc' \in {"identity", "gop", "boot_info"}
    BY <1>8, Zenon DEF map_segment, map_stack, map_hhdm, identity_map, map_framebuffer, MapStep, panic
  <2>2. pc # "entered" /\ pc # "exit"
    BY <1>8, Zenon DEF map_segment, map_stack, map_hhdm, identity_map, map_framebuffer
  <2> QED BY <1>1, <2>1, <2>2, SMT, SMTT(60)
<1>9. CASE firmware
  BY <1>1, <1>9, SMT, SMTT(60) DEF firmware
<1>10. CASE finished \/ UNCHANGED vars
  BY <1>1, <1>10, SMT, SMTT(60) DEF finished, vars
<1>11. CASE read_kernel \/ allocate_pool \/ create_pml4 \/ load_segment \/ segments_loaded \/ open_gop
  <2>1. \/ pc' \in {"panic", "pool", "pml4", "segments", "map_segment", "stack"}
        \/ pc = "gop" /\ pc' = "framebuffer" /\ UNCHANGED <<machine, max_phys_addr>>
    BY <1>11, Zenon DEF read_kernel, allocate_pool, create_pml4, load_segment, segments_loaded, open_gop, panic
  <2> QED BY <1>1, <2>1
<1> QED BY <1>4, <1>5, <1>6, <1>7, <1>8, <1>9, <1>10, <1>11, ZenonT(40) DEF Next, main

\* Between reading the end of memory and leaving the firmware nothing changes the end.
THEOREM BootHandover == Spec => [](IInv /\ Handover)
<1>1. Init => IInv /\ Handover
  BY BootInit, HandoverInit
<1>2. (IInv /\ Handover) /\ [Next]_vars => (IInv /\ Handover)'
  BY BootNext, HandoverNext, SMT, SMTT(60)
<1> QED BY <1>1, <1>2, PTL DEF Spec

\* The regions of the map that is handed over.
LEMMA HandedOver ==
  ASSUME IInv, Handover, pc = "entered"
  PROVE  /\ boot_info.memory_map \in Seq(Regions(mem))
         /\ \A k, l \in DOMAIN boot_info.memory_map :
              boot_info.memory_map[k] = boot_info.memory_map[l] => k = l
         /\ \A k \in DOMAIN boot_info.memory_map : \E s \in Starts(mem) :
              boot_info.memory_map[k] = Region(mem, s)
<1>1. IsMemory(mem, machine.top)
  BY MemoryIs, SMT, SMTT(60)
<1>2. boot_info.memory_map = Descriptors(mem)
  BY DEF Handover
<1>3. /\ boot_info.memory_map \in Seq(Regions(mem))
      /\ \A k, l \in DOMAIN boot_info.memory_map :
           boot_info.memory_map[k] = boot_info.memory_map[l] => k = l
  BY <1>1, <1>2, DescriptorsAre, Zenon
<1>4. \A k \in DOMAIN boot_info.memory_map : boot_info.memory_map[k] \in Regions(mem)
  BY <1>3
<1> QED BY <1>3, <1>4, RegionsAre, SMT, SMTT(60)

\* What pmm::init relies on: the final memory map is made of page-aligned regions that do
\* not overlap and end below max_phys_memory, which was computed from an earlier map.
THEOREM BootHandoverWellFormed == Spec => []HandoverWellFormed
<1>1. ASSUME IInv, Handover, pc = "entered" PROVE WellFormed(boot_info)
  <2> DEFINE map == boot_info.memory_map
  <2>1. IsMemory(mem, machine.top)
    BY <1>1, MemoryIs
  <2>2. /\ map \in Seq(Regions(mem)) /\ \A k, l \in DOMAIN map : map[k] = map[l] => k = l
        /\ \A k \in DOMAIN map : \E s \in Starts(mem) : map[k] = Region(mem, s)
    BY <1>1, HandedOver, Zenon
  <2> HIDE DEF map
  <2>3. PICK q \in Nat \ {0} : /\ boot_info.max_phys_memory = q * ENTRIES /\ q * ENTRIES \in Nat
                               /\ machine.top <= q * ENTRIES
    BY <1>1, Zenon DEF Handover
  <2>4. machine.top \in Nat /\ machine.top >= 1
    BY <2>1 DEF IsMemory
  <2>5. Starts(mem) \subseteq DOMAIN mem
    BY DEF Starts
  <2>6. \A s \in Starts(mem) :
          /\ Region(mem, s) \in MemoryDescriptor
          /\ FramesOf(Region(mem, s)) = Frames(RunLength(mem, s), s)
          /\ s + RunLength(mem, s) <= machine.top /\ s + RunLength(mem, s) \in Nat
    BY <2>1, <2>5, RegionFrames, Zenon
  <2>7. \A s : Region(mem, s).phys_start = s /\ Region(mem, s).page_count = RunLength(mem, s)
    BY DEF Region
  <2>8. Regions(mem) \subseteq MemoryDescriptor
    BY <2>6, RegionsAre, Zenon
  <2>9. map \in Seq(MemoryDescriptor)
    BY <2>2, <2>8, SMT, SMTT(60)
  <2>10. boot_info.max_phys_memory \in Nat /\ boot_info.max_phys_memory >= 1
         /\ machine.top <= boot_info.max_phys_memory
    BY <2>3, <2>4, SMT, SMTT(60)
  <2>11. ASSUME NEW k \in DOMAIN map
         PROVE  /\ map[k].phys_start % 1 = 0
                /\ map[k].phys_start + map[k].page_count * 1 <= boot_info.max_phys_memory
    <3>1. PICK s \in Starts(mem) : map[k] = Region(mem, s)
      BY <2>2, SMT, SMTT(60)
    <3>2. map[k].phys_start \in Nat /\ map[k].page_count \in Nat
      BY <2>6, <3>1, SMT, SMTT(60) DEF MemoryDescriptor
    <3>3. map[k].phys_start + map[k].page_count <= machine.top
      BY <2>6, <2>7, <3>1, SMT, SMTT(60)
    <3> QED BY <2>4, <2>10, <3>2, <3>3, SMT, SMTT(60)
  <2>12. ASSUME NEW k \in DOMAIN map, NEW l \in DOMAIN map \ {k}
         PROVE  FramesOf(map[k]) \cap FramesOf(map[l]) = {}
    <3>1. PICK s \in Starts(mem) : map[k] = Region(mem, s)
      BY <2>2
    <3>2. PICK t \in Starts(mem) : map[l] = Region(mem, t)
      BY <2>2
    <3>3. s # t
      BY <2>2, <3>1, <3>2, ZenonT(40)
    <3> QED BY <2>1, <2>6, <3>1, <3>2, <3>3, RegionsApart, SMT, SMTT(60)
  <2>13. PAGE_SIZE = 1
    BY BootAssumption
  <2> QED BY <2>9, <2>10, <2>11, <2>12, <2>13, Zenon DEF WellFormed, map
<1>2. IInv /\ Handover => HandoverWellFormed
  BY <1>1, SMT, SMTT(60) DEF HandoverWellFormed
<1> QED BY <1>2, BootHandover, PTL

\* No conventional region of the map handed to pmm.rs holds a frame of the page tables, the
\* stack, the image or the hand-over, or the loader code that is still running.
THEOREM BootNothingOwnedIsFree == Spec => []NothingOwnedIsFree
<1>1. ASSUME IInv, Handover, pc = "entered", NEW k \in DOMAIN boot_info.memory_map,
             boot_info.memory_map[k].type_ = CONVENTIONAL
      PROVE  FramesOf(boot_info.memory_map[k]) \cap ({o[2] : o \in Owned} \cup {machine.rip}) = {}
  <2>1. IsMemory(mem, machine.top)
    BY <1>1, MemoryIs
  <2>2. PICK s \in Starts(mem) : boot_info.memory_map[k] = Region(mem, s)
    BY <1>1, HandedOver, Zenon
  <2>3. s \in DOMAIN mem
    BY DEF Starts
  <2>4. FramesOf(Region(mem, s)) = Frames(RunLength(mem, s), s)
    BY <2>1, <2>3, RegionFrames, Zenon
  <2>5. Run(mem, s, RunLength(mem, s))
    BY <2>1, <2>3, LongestRun, Zenon
  <2>6. mem[s] = CONVENTIONAL
    BY <1>1, <2>2, SMT, SMTT(60) DEF Region
  <2>7. \A f \in FramesOf(boot_info.memory_map[k]) : mem[f] = CONVENTIONAL
    BY <2>2, <2>4, <2>5, <2>6, SMT, SMTT(60) DEF Run
  <2>8. \A o \in Owned : mem[o[2]] = LOADER_DATA
    BY <1>1, Zenon DEF IInv, OwnedReserved, LoaderFrames
  <2>9. mem[machine.rip] = LOADER_CODE
    BY <1>1 DEF Handover
  <2>10. CONVENTIONAL # LOADER_DATA /\ CONVENTIONAL # LOADER_CODE
    BY DEF CONVENTIONAL, LOADER_DATA, LOADER_CODE
  <2> QED BY <2>7, <2>8, <2>9, <2>10, SMT, SMTT(60)
<1>2. IInv /\ Handover => NothingOwnedIsFree
  BY <1>1, Zenon DEF NothingOwnedIsFree
<1> QED BY <1>2, BootHandover, PTL

\* Every frame in use lies below max_phys_memory, so that pml4.rs and pmm.rs reach tables,
\* boot information and memory map through the direct map.
THEOREM BootOwnedInDirectMap == Spec => []OwnedInDirectMap
<1>1. ASSUME IInv, Handover, pc = "entered", NEW o \in Owned
      PROVE  o[2] < boot_info.max_phys_memory
  <2>1. IsMemory(mem, machine.top)
    BY <1>1, MemoryIs
  <2>2. PICK q \in Nat \ {0} : /\ boot_info.max_phys_memory = q * ENTRIES /\ q * ENTRIES \in Nat
                               /\ machine.top <= q * ENTRIES
    BY <1>1, Zenon DEF Handover
  <2>3. o[2] \in DOMAIN mem
    BY <1>1, Zenon DEF IInv, OwnedReserved, LoaderFrames
  <2>4. o[2] \in Nat /\ o[2] < machine.top /\ machine.top \in Nat
    BY <2>1, <2>3 DEF IsMemory
  <2> QED BY <2>2, <2>4
<1>2. IInv /\ Handover => OwnedInDirectMap
  BY <1>1, Zenon DEF OwnedInDirectMap
<1> QED BY <1>2, BootHandover, PTL

-----------------------------------------------------------------------------
(* The address space. *)

\* Every stage of main has mapped exactly the pages its loops have passed, except that the
\* two loops that drop errors may leave gaps while the pool is dry and the screen unmapped.
THEOREM BootSpace == Spec => [](IInv /\ Handover /\ Space)
<1>1. Init => IInv /\ Handover /\ Space
  BY BootInit, HandoverInit, SpaceInit, SMT, SMTT(60)
<1>2. (IInv /\ Handover /\ Space) /\ [Next]_vars => (IInv /\ Handover /\ Space)'
  BY BootNext, HandoverNext, SpaceNext, Zenon
<1> QED BY <1>1, <1>2, PTL DEF Spec

\* A kernel that is entered finds exactly the intended address space: the whole direct map
\* although its loop drops errors, the loader's window, every page of its image with its
\* bytes and write permission, the screen and the stack, and no other page.
THEOREM BootAddressSpaceComplete == Spec => []AddressSpaceComplete
  BY BootSpace, SpaceComplete, PTL
=============================================================================
