-------------------------- MODULE ElfLoaderProofs --------------------------
(***************************************************************************)
(* For every program, page size, layout and supply of frames: the loader   *)
(* gives a frame one use, user code never reaches a byte that was in a     *)
(* frame before, and when it starts it finds its image, its rights, its    *)
(* ranges and its auxiliary vector as load_user_elf means them.            *)
(***************************************************************************)
EXTENDS ElfLoader, TLAPS

UserPages == ImagePages \cup Pages(Pool) \cup Pages(BrkHeap) \cup Pages(Stack)

\* The inductive invariant: beyond TypeOK and FramesExclusive, the free frames are the
\* ones above those given, a loop is past its range's first page, bytes are only copied
\* for a segment, and a page with the user flag is cleared even where its table would
\* still keep user code out.
Control ==
  /\ \E a, b \in Int : free = a .. b
  /\ phase = "map" => page >= T.first
  /\ phase = "copy" => T.header # 0 /\ T.first <= T.last

\* The pages that the current loop has passed are mapped.
Passed ==
  /\ phase = "map" => \A p \in Nat : p >= T.first /\ p < page => p \in DOMAIN pt
  /\ phase = "copy" => \A p \in Nat : p >= T.first /\ p <= T.last => p \in DOMAIN pt

Cleared ==
  \A p \in DOMAIN pt :
    "U" \in pt[p].flags => p \in UserPages /\ \A o \in Offsets : mem[pt[p].frame][o] # JUNK

IInv == TypeOK /\ FramesExclusive /\ Control /\ Passed /\ Cleared

-----------------------------------------------------------------------------
\* Dividing and taking the remainder stay in the naturals.
LEMMA DivMod ==
  ASSUME NEW a \in Nat, NEW n \in Nat \ {0}
  PROVE  a \div n \in Nat /\ a % n \in 0 .. n - 1
OBVIOUS

\* A higher address is not in a lower page.
LEMMA DivMonotone ==
  ASSUME NEW a \in Nat, NEW b \in Nat, a <= b, NEW n \in Nat \ {0}
  PROVE  a \div n <= b \div n
<1> DEFINE p == a \div n
           q == b \div n
<1>1. p \in Nat /\ q \in Nat /\ a % n \in 0 .. n - 1 /\ b % n \in 0 .. n - 1
  BY DivMod, Zenon
<1>2. a = n * p + (a % n) /\ b = n * q + (b % n)
  OBVIOUS
<1> HIDE DEF p, q
<1>3. SUFFICES ASSUME p >= q + 1 PROVE FALSE
  BY <1>1 DEF p, q
<1>4. PICK k \in Nat : p = q + 1 + k
  <2>1. p - q - 1 \in Nat /\ p = q + 1 + (p - q - 1)
    BY <1>1, <1>3
  <2> QED BY <2>1
<1>5. n * p = n * q + n + n * k
  BY <1>1, <1>4
<1>6. n * k \in Nat /\ n * q \in Nat
  BY <1>1, <1>4
<1> QED BY <1>1, <1>2, <1>5, <1>6

\* The elements of two sequences put together.
LEMMA Concatenation ==
  ASSUME NEW S, NEW s \in Seq(S), NEW t \in Seq(S)
  PROVE  /\ s \o t \in Seq(S) /\ Len(s \o t) = Len(s) + Len(t)
         /\ \A i \in 1 .. Len(s) : (s \o t)[i] = s[i]
         /\ \A i \in 1 .. Len(t) : (s \o t)[Len(s) + i] = t[i]
OBVIOUS

\* The plan of _start: the kernel's heap, the segments, the pool, the heap, the stack.
LEMMA PlanTasks ==
  ASSUME prog \in Programs
  PROVE  /\ Len(prog.headers) \in Nat
         /\ Len(Plan) = Len(prog.headers) + 4
         /\ Plan[1] = init_heap
         /\ \A i \in 1 .. Len(prog.headers) : Plan[i + 1] = load_segment(i)
         /\ Plan[Len(prog.headers) + 2] = map_pool
         /\ Plan[Len(prog.headers) + 3] = map_heap
         /\ Plan[Len(prog.headers) + 4] = map_stack
<1> DEFINE n == Len(prog.headers)
           S == {init_heap, map_pool, map_heap, map_stack} \cup {load_segment(i) : i \in 1 .. n}
           segs == [i \in 1 .. n |-> load_segment(i)]
           rest == <<map_pool, map_heap, map_stack>>
<1>1. n \in Nat
  BY ElfLoaderAssumption
<1>2. segs \in Seq(S) /\ Len(segs) = n
  <2>1. segs \in [1 .. n -> S]
    OBVIOUS
  <2> HIDE DEF S, segs
  <2>2. segs \in Seq(S)
    BY <1>1, <2>1
  <2>3. DOMAIN segs = 1 .. n
    BY <2>1
  <2> QED BY <1>1, <2>2, <2>3
<1>3. \A i \in 1 .. n : segs[i] = load_segment(i)
  OBVIOUS
<1>4. init_heap \in S /\ map_pool \in S /\ map_heap \in S /\ map_stack \in S
  OBVIOUS
<1>5. Plan = <<init_heap>> \o segs \o rest
  BY DEF Plan
<1>6. rest \in Seq(S) /\ Len(rest) = 3 /\ rest[1] = map_pool /\ rest[2] = map_heap
      /\ rest[3] = map_stack /\ <<init_heap>> \in Seq(S)
  BY <1>4
<1> HIDE DEF S, segs, n, rest
<1> DEFINE front == <<init_heap>> \o segs
<1>7. front \in Seq(S) /\ Len(front) = n + 1 /\ front[1] = init_heap
      /\ \A i \in 1 .. n : front[i + 1] = load_segment(i)
  BY <1>1, <1>2, <1>3, <1>6
<1> HIDE DEF front
<1>8. Plan = front \o rest
  BY <1>5 DEF front
<1>9. /\ Len(Plan) = n + 1 + 3
      /\ \A i \in 1 .. n + 1 : Plan[i] = front[i]
      /\ \A i \in 1 .. 3 : Plan[n + 1 + i] = rest[i]
  <2>1. /\ Len(front \o rest) = Len(front) + Len(rest)
        /\ \A i \in 1 .. Len(front) : (front \o rest)[i] = front[i]
        /\ \A i \in 1 .. Len(rest) : (front \o rest)[Len(front) + i] = rest[i]
    <3>1. front \in Seq(S) /\ rest \in Seq(S)
      BY <1>6, <1>7
    <3> QED BY ONLY <3>1, Concatenation
  <2>2. Len(front) = n + 1 /\ Len(rest) = 3
    BY <1>6, <1>7
  <2> QED BY ONLY <2>1, <2>2, <1>8, Zenon
<1>10. Plan[n + 2] = rest[1] /\ Plan[n + 3] = rest[2] /\ Plan[n + 4] = rest[3]
  <2>1. 1 \in 1 .. 3 /\ 2 \in 1 .. 3 /\ 3 \in 1 .. 3 /\ n + 1 + 1 = n + 2 /\ n + 1 + 2 = n + 3
        /\ n + 1 + 3 = n + 4
    BY <1>1
  <2> QED BY <1>9, <2>1, Zenon
<1>11. /\ Plan[1] = init_heap
       /\ \A i \in 1 .. n : Plan[i + 1] = load_segment(i)
       /\ Len(Plan) = n + 4
  BY <1>1, <1>7, <1>9
<1> QED BY <1>1, <1>6, <1>10, <1>11 DEF n

\* A segment's pages, and that a segment that maps a page is one of the image's.
LEMMA SegmentTask ==
  ASSUME prog \in Programs, NEW i \in 1 .. Len(prog.headers)
  PROVE  LET t == load_segment(i)
         IN  /\ t.first \in Nat /\ t.last \in Nat /\ t.flags \subseteq {"W", "U", "NX"}
             /\ t.header = i /\ t.zero
             /\ t.first .. t.last \subseteq UserPages
<1> DEFINE ph == prog.headers[i]
<1>1. ph \in Header /\ base_addr \in Nat
  BY ElfLoaderAssumption DEF base_addr
<1>2. ph.vaddr \in Nat /\ ph.memsz \in Nat
  BY <1>1 DEF Header
<1> HIDE DEF ph
<1>3. CASE ph.load /\ ph.memsz # 0
  <2>1. PageOf(base_addr + ph.vaddr) \in Nat /\ PageOf(base_addr + ph.vaddr + ph.memsz - 1) \in Nat
    <3>1. base_addr + ph.vaddr \in Nat /\ base_addr + ph.vaddr + ph.memsz - 1 \in Nat
      BY <1>1, <1>2, <1>3, SMT, SMTT(60)
    <3> QED BY <3>1, DivMod, ElfLoaderAssumption, Zenon DEF PageOf
  <2>2. SegmentRange(ph).first \in Nat /\ SegmentRange(ph).last \in Nat
    BY <1>3, <2>1 DEF SegmentRange
  <2>3. i \in Loadable
    BY <1>3 DEF Loadable, ph
  <2>4. SegmentRange(ph).first .. SegmentRange(ph).last \subseteq UserPages
    BY <2>3 DEF UserPages, ImagePages, SegmentPages, Pages, ph
  <2> QED BY <2>2, <2>4 DEF load_segment, Task, page_flags, ph
<1>4. CASE ~(ph.load /\ ph.memsz # 0)
  <2>1. SegmentRange(ph) = [first |-> 1, last |-> 0]
    BY <1>4 DEF SegmentRange
  <2> QED BY <2>1 DEF load_segment, Task, page_flags, ph
<1> QED BY <1>3, <1>4

\* What the loops have in common: a page for user code is zeroed and is one of the
\* program's.
LEMMA TaskShape ==
  ASSUME prog \in Programs, NEW i \in 1 .. Len(Plan)
  PROVE  /\ Plan[i].first \in Nat /\ Plan[i].last \in Nat
         /\ Plan[i].flags \subseteq {"W", "U", "NX"}
         /\ Plan[i].header \in 0 .. Len(prog.headers)
         /\ Plan[i].header # 0 => i < Len(Plan)
         /\ "U" \in Plan[i].flags => /\ Plan[i].zero
                                     /\ Plan[i].first .. Plan[i].last \subseteq UserPages
<1> DEFINE n == Len(prog.headers)
<1>1. n \in Nat /\ Len(Plan) = n + 4
  BY PlanTasks
<1>2. CASE i = 1
  <2>1. Plan[i] = init_heap
    BY <1>2, PlanTasks
  <2> QED BY <1>1, <2>1, ElfLoaderAssumption DEF init_heap, Task, PageRange
<1>3. CASE i \in 2 .. n + 1
  <2>1. i - 1 \in 1 .. n /\ Plan[i] = load_segment(i - 1)
    <3>1. i - 1 \in 1 .. n /\ (i - 1) + 1 = i
      BY <1>1, <1>3
    <3> QED BY <3>1, PlanTasks, SMT, SMTT(60)
  <2> QED BY <1>1, <1>3, <2>1, SegmentTask, SMT, SMTT(60)
<1>4. CASE i = n + 2
  <2>1. Plan[i] = map_pool
    BY <1>4, PlanTasks
  <2> QED BY <1>1, <2>1, ElfLoaderAssumption
          DEF map_pool, pool_flags, Task, PageRange, UserPages, Pages
<1>5. CASE i = n + 3
  <2>1. Plan[i] = map_heap
    BY <1>5, PlanTasks
  <2> QED BY <1>1, <2>1, ElfLoaderAssumption
          DEF map_heap, pool_flags, Task, PageRange, UserPages, Pages
<1>6. CASE i = n + 4
  <2>1. Plan[i] = map_stack
    BY <1>6, PlanTasks
  <2> QED BY <1>1, <2>1, ElfLoaderAssumption
          DEF map_stack, Task, PageRange, UserPages, Pages
<1>7. i = 1 \/ i \in 2 .. n + 1 \/ i = n + 2 \/ i = n + 3 \/ i = n + 4
  BY <1>1
<1> QED BY <1>2, <1>3, <1>4, <1>5, <1>6, <1>7, Zenon

\* A loop with a header is the one of that header's segment.
LEMMA HeaderTask ==
  ASSUME prog \in Programs, NEW i \in 1 .. Len(Plan), Plan[i].header # 0
  PROVE  /\ Plan[i].header \in 1 .. Len(prog.headers)
         /\ Plan[i] = load_segment(Plan[i].header)
<1> DEFINE n == Len(prog.headers)
<1>1. n \in Nat /\ Len(Plan) = n + 4
  BY PlanTasks
<1>2. i # 1 /\ i # n + 2 /\ i # n + 3 /\ i # n + 4
  <2>1. /\ Plan[1].header = 0 /\ Plan[n + 2].header = 0
        /\ Plan[n + 3].header = 0 /\ Plan[n + 4].header = 0
    BY PlanTasks, SMT, SMTT(60) DEF init_heap, map_pool, map_heap, map_stack, Task
  <2> QED BY <2>1, SMT, SMTT(60)
<1>3. i - 1 \in 1 .. n /\ (i - 1) + 1 = i
  BY <1>1, <1>2, SMT, SMTT(60)
<1>4. Plan[i] = load_segment(i - 1)
  BY <1>3, PlanTasks, Zenon
<1>5. load_segment(i - 1).header = i - 1
  BY DEF load_segment, Task
<1> QED BY <1>3, <1>4, <1>5

\* The loops after the segments zero their pages and are for user data.
LEMMA ZeroTasks ==
  ASSUME prog \in Programs, NEW i \in 1 .. Len(Plan), i > Len(prog.headers) + 1
  PROVE  /\ Plan[i].zero /\ Plan[i].flags = {"U", "W", "NX"} /\ Plan[i].header = 0
         /\ \E r \in {Pool, BrkHeap, Stack} : Plan[i].first = r.first /\ Plan[i].last = r.last
<1> DEFINE n == Len(prog.headers)
<1>1. n \in Nat /\ Len(Plan) = n + 4
  BY PlanTasks
<1>2. i = n + 2 \/ i = n + 3 \/ i = n + 4
  BY <1>1, SMT, SMTT(60)
<1>3. Plan[i] = map_pool \/ Plan[i] = map_heap \/ Plan[i] = map_stack
  BY <1>2, PlanTasks, Zenon
<1> QED BY <1>3 DEF map_pool, map_heap, map_stack, pool_flags, Task

\* A loop with a header is one of those before the pool's.
LEMMA SegmentsFirst ==
  ASSUME prog \in Programs, NEW i \in 1 .. Len(Plan), Plan[i].header # 0
  PROVE  i <= Len(prog.headers) + 1
<1>1. Len(prog.headers) \in Nat /\ Len(Plan) \in Nat
  BY PlanTasks
<1> QED BY <1>1, ZeroTasks

\* The lowest of the free frames, when there is one.
LEMMA Lowest ==
  ASSUME NEW a \in Int, NEW b \in Int, a .. b # {}
  PROVE  a <= b /\ Min(a .. b) = a /\ (a .. b) \ {a} = (a + 1) .. b
<1>1. a <= b
  OBVIOUS
<1>2. Min(a .. b) = a
  BY <1>1 DEF Min
<1> QED BY <1>1, <1>2

\* The lesser of two numbers of bytes.
LEMMA Lesser ==
  ASSUME NEW a \in Nat, NEW b \in Nat
  PROVE  Min({a, b}) \in Nat /\ Min({a, b}) <= a /\ Min({a, b}) <= b
BY DEF Min

-----------------------------------------------------------------------------
\* A fresh address space: the boot loader's pages, not for user code.
LEMMA LoaderInit ==
  Init => IInv
<1> SUFFICES ASSUME Init PROVE IInv
  OBVIOUS
<1>1. PICK n \in FrameCounts : free = 0 .. n - 1
  BY DEF Init
<1>2. n \in Nat
  BY ElfLoaderAssumption
<1>3. prog \in Programs /\ 1 \in 1 .. Len(Plan) /\ T.first = KernelHeap.first
      /\ KernelHeap.first \in Nat
  <2>1. prog \in Programs /\ task = 1
    BY DEF Init
  <2>2. Len(Plan) = Len(prog.headers) + 4 /\ Len(prog.headers) \in Nat /\ Plan[1] = init_heap
    BY <2>1, PlanTasks, Zenon
  <2> HIDE DEF Plan
  <2>3. 1 \in 1 .. Len(Plan)
    BY <2>2
  <2>4. T = init_heap
    BY <2>1, <2>2 DEF T
  <2>5. T.first = KernelHeap.first
    BY <2>4 DEF init_heap, Task
  <2>6. KernelHeap.first \in Nat
    BY ElfLoaderAssumption DEF PageRange
  <2> QED BY <2>1, <2>3, <2>5, <2>6
<1>4. \A p \in BootPages : p \in Nat /\ TableOf(p) \in Nat
  BY ElfLoaderAssumption, DivMod, Zenon DEF TableOf
<1>5. TypeOK
  <2>1. mem \in [DOMAIN mem -> [Offsets -> Int]]
    BY DEF Init, JUNK
  <2>2. /\ free \subseteq DOMAIN mem
        /\ \A p \in DOMAIN pt : pt[p].frame \in DOMAIN mem /\ pt[p].flags \subseteq {"W", "U", "NX"}
        /\ \A t \in DOMAIN tables : tables[t].flags \subseteq {"W", "U"}
    BY DEF Init
  <2> QED BY <1>3, <2>1, <2>2 DEF Init, TypeOK
<1>6. FramesExclusive
  <2>1. /\ DOMAIN pt = BootPages
        /\ \A p \in DOMAIN pt : p \in Nat /\ pt[p].frame = -1 - 2 * p
    BY <1>4 DEF Init, BootFrame
  <2>2. \A t \in DOMAIN tables : t \in Nat /\ tables[t].frame = -2 - 2 * t
    BY <1>4 DEF Init, BootTableFrame
  <2>3. \A f \in free : f \in Nat
    BY <1>1, <1>2
  <2>4. \A p, q \in DOMAIN pt : p # q => pt[p].frame # pt[q].frame
    BY <2>1
  <2>5. \A t, u \in DOMAIN tables : t # u => tables[t].frame # tables[u].frame
    BY <2>2
  <2>6. \A p \in DOMAIN pt, t \in DOMAIN tables : pt[p].frame # tables[t].frame
    BY <2>1, <2>2
  <2>7. /\ \A p \in DOMAIN pt : pt[p].frame \notin free
        /\ \A t \in DOMAIN tables : tables[t].frame \notin free
    BY <2>1, <2>2, <2>3
  <2> QED BY <2>4, <2>5, <2>6, <2>7 DEF FramesExclusive
<1>7. Control
  <2>1. n - 1 \in Int
    BY <1>2
  <2>2. \E a, b \in Int : free = a .. b
    BY <1>1, <2>1, SMT, SMTT(60)
  <2> QED BY <1>3, <2>2 DEF Control, Init
<1>8. Cleared
  BY DEF Init, Cleared
<1>9. Passed
  BY <1>3 DEF Init, Passed
<1> QED BY <1>5, <1>6, <1>7, <1>8, <1>9 DEF IInv
-----------------------------------------------------------------------------
\* The program, and with it the plan, stays what it is.
LEMMA PlanFixed ==
  prog' = prog => Plan' = Plan /\ UserPages' = UserPages /\ base_addr' = base_addr
<1> SUFFICES ASSUME prog' = prog PROVE Plan' = Plan /\ UserPages' = UserPages /\ base_addr' = base_addr
  OBVIOUS
<1>1. base_addr' = base_addr
  BY SMT, SMTT(60) DEF base_addr
<1>2. \A i : load_segment(i)' = load_segment(i)
  BY <1>1 DEF load_segment, SegmentRange, page_flags, Task
<1>3. Plan' = Plan
  BY <1>2, Zenon DEF Plan
<1>4. UserPages' = UserPages
  BY <1>1, SMT, SMTT(60) DEF UserPages, ImagePages, Loadable, SegmentPages, SegmentRange
<1> QED BY <1>1, <1>3, <1>4

\* What map_to takes from the allocator was free, and goes to the page and to its table.
LEMMA Taken ==
  ASSUME TypeOK, FramesExclusive, Control, TakeFrames
  PROVE  /\ Min(free) \in free /\ Min(free) \notin free' /\ free' \subseteq free
         /\ \E a, b \in Int : free' = a .. b
         /\ \A t \in DOMAIN tables' :
              /\ tables'[t].flags \subseteq {"W", "U"}
              /\ tables'[t].frame # Min(free) /\ tables'[t].frame \notin free'
              /\ tables'[t].frame \notin free => t \in DOMAIN tables /\ tables'[t].frame = tables[t].frame
         /\ \A t, u \in DOMAIN tables' : t # u => tables'[t].frame # tables'[u].frame
<1>1. PICK a, b \in Int : free = a .. b
  BY DEF Control
<1>2. a .. b # {}
  BY <1>1, Zenon DEF TakeFrames, EnoughFrames
<1>3. a <= b /\ Min(free) = a /\ free \ {a} = (a + 1) .. b
  BY <1>1, <1>2, Lowest
<1> DEFINE t0 == TableOf(page)
           parent == T.flags \cap {"W", "U"}
<1>4. CASE TableMissing
  <2>1. (a + 1) .. b # {}
    BY <1>3, <1>4, Zenon DEF TakeFrames, EnoughFrames
  <2>2. a + 1 <= b
    BY <2>1
  <2>3. Min((a + 1) .. b) = a + 1
    BY <2>2 DEF Min
  <2>4. free' = (a + 2) .. b
    <3>1. free' = (free \ {a}) \ {Min(free \ {a})}
      BY <1>3, <1>4 DEF TakeFrames
    <3>2. free' = ((a + 1) .. b) \ {a + 1}
      BY <3>1, <1>3, <2>3, Zenon
    <3> QED BY <3>2
  <2>5. tables' = Put(tables, t0, [frame |-> a + 1, flags |-> parent])
    BY <1>3, <1>4, <2>3, Zenon DEF TakeFrames
  <2>6. t0 \notin DOMAIN tables
    BY <1>4 DEF TableMissing
  <2>7. \A t \in DOMAIN tables' :
          \/ t = t0 /\ tables'[t].frame = a + 1 /\ tables'[t].flags = parent
          \/ t \in DOMAIN tables /\ t # t0 /\ tables'[t] = tables[t]
    BY <2>5, <2>6 DEF Put
  <2>8. \A t \in DOMAIN tables : tables[t].frame \notin free /\ tables[t].flags \subseteq {"W", "U"}
    BY DEF FramesExclusive, TypeOK
  <2>9. a \in free /\ a + 1 \in free /\ a \notin free' /\ a + 1 \notin free' /\ free' \subseteq free
    BY <1>1, <1>3, <2>2, <2>4
  <2>10. a + 2 \in Int /\ a + 1 # a
    OBVIOUS
  <2> HIDE DEF t0, parent
  <2>11. \A t, u \in DOMAIN tables' : t # u => tables'[t].frame # tables'[u].frame
    BY <2>7, <2>8, <2>9 DEF FramesExclusive
  <2>12. \A t \in DOMAIN tables' :
              /\ tables'[t].flags \subseteq {"W", "U"}
              /\ tables'[t].frame # a /\ tables'[t].frame \notin free'
              /\ tables'[t].frame \notin free => t \in DOMAIN tables /\ tables'[t].frame = tables[t].frame
    BY <2>7, <2>8, <2>9, <2>10, Zenon DEF parent
  <2> QED BY <1>3, <2>4, <2>9, <2>10, <2>11, <2>12
<1>5. CASE ~TableMissing
  <2>1. free' = (a + 1) .. b
    BY <1>3, <1>5 DEF TakeFrames
  <2>2. tables' = Put(tables, t0, [frame |-> tables[t0].frame, flags |-> tables[t0].flags \cup parent])
    BY <1>5 DEF TakeFrames
  <2>3. t0 \in DOMAIN tables
    BY <1>5 DEF TableMissing
  <2>4. \A t \in DOMAIN tables' :
          /\ t \in DOMAIN tables /\ tables'[t].frame = tables[t].frame
          /\ tables'[t].flags \subseteq tables[t].flags \cup parent
    BY <2>2, <2>3 DEF Put
  <2>5. \A t \in DOMAIN tables : tables[t].frame \notin free /\ tables[t].flags \subseteq {"W", "U"}
    BY DEF FramesExclusive, TypeOK
  <2>6. a \in free /\ a \notin free' /\ free' \subseteq free /\ a + 1 \in Int
    BY <1>1, <1>3, <2>1, SMT, SMTT(60)
  <2> HIDE DEF t0
  <2>7. \A t, u \in DOMAIN tables' : t # u => tables'[t].frame # tables'[u].frame
    BY <2>4 DEF FramesExclusive
  <2> QED BY <1>3, <2>1, <2>4, <2>5, <2>6, <2>7, Zenon
<1> QED BY <1>4, <1>5

-----------------------------------------------------------------------------
\* The steps that leave the address space alone.
LEMMA SpaceKept ==
  ASSUME IInv, prog' = prog, UNCHANGED space,
         phase' \in {"map", "copy", "arguments", "enter", "user", "panicked"},
         task' \in 1 .. Len(Plan), page' \in Nat, copied' \in Nat,
         phase' = "map" => page' >= Plan[task'].first,
         phase' = "copy" => Plan[task'].header # 0 /\ Plan[task'].first <= Plan[task'].last,
         phase' = "map" =>
           \A p \in Nat : p >= Plan[task'].first /\ p < page' => p \in DOMAIN pt,
         phase' = "copy" =>
           \A p \in Nat : p >= Plan[task'].first /\ p <= Plan[task'].last => p \in DOMAIN pt
  PROVE  IInv'
<1>1. Plan' = Plan /\ UserPages' = UserPages
  BY PlanFixed
<1>2. UNCHANGED <<free, pt, tables, mem>>
  BY DEF space
<1>3. TypeOK'
  BY <1>1, <1>2, SMT, SMTT(60) DEF IInv, TypeOK
<1>4. FramesExclusive'
  BY <1>2 DEF IInv, FramesExclusive
<1>5. T' = Plan[task']
  BY <1>1, SMT, SMTT(60) DEF T
<1>6. Control'
  BY <1>2, <1>5, SMT, SMTT(60) DEF IInv, Control
<1>7. Cleared'
  BY <1>1, <1>2, SMT, SMTT(60) DEF IInv, Cleared
<1>8. Passed'
  BY <1>2, <1>5, SMT, SMTT(60) DEF Passed
<1> QED BY <1>3, <1>4, <1>6, <1>7, <1>8 DEF IInv

\* The control of the loader's loops.
LEMMA LoopSteps ==
  ASSUME IInv,
         \/ page_skipped \/ range_mapped \/ segment_copied \/ page_missing \/ enter_userspace
  PROVE  IInv'
<1>1. prog \in Programs /\ task \in 1 .. Len(Plan) /\ page \in Nat /\ copied \in Nat
      /\ phase \in {"map", "copy", "arguments", "enter", "user", "panicked"}
  BY DEF IInv, TypeOK
<1>2. /\ phase = "map" =>
           /\ page >= Plan[task].first
           /\ \A p \in Nat : p >= Plan[task].first /\ p < page => p \in DOMAIN pt
      /\ phase = "copy" => Plan[task].header # 0
  BY DEF IInv, Control, Passed, T
<1>3. Plan[task].first \in Nat /\ Plan[task].last \in Nat /\ (Plan[task].header # 0 => task < Len(Plan))
  BY <1>1, TaskShape
<1>4. Len(Plan) \in Nat
  BY <1>1, PlanTasks, SMT, SMTT(60)
<1>5. task < Len(Plan) => task + 1 \in 1 .. Len(Plan) /\ Plan[task + 1].first \in Nat
  <2>1. task < Len(Plan) => task + 1 \in 1 .. Len(Plan)
    BY <1>1, <1>4
  <2> QED BY <1>1, <2>1, TaskShape
<1>6. NextTask /\ task < Len(Plan) =>
        /\ phase' = "map" /\ task' \in 1 .. Len(Plan) /\ page' \in Nat
        /\ page' = Plan[task'].first /\ Plan[task'].first \in Nat
  BY <1>5, SMT, SMTT(60) DEF NextTask
<1>7. CASE page_skipped
  <2>1. page' \in Nat /\ page' >= Plan[task].first /\ UNCHANGED <<prog, space, phase, task, copied>>
        /\ phase = "map" /\ page \in DOMAIN pt /\ page' = page + 1
    BY <1>1, <1>2, <1>3, <1>7, SMT, SMTT(60) DEF page_skipped, Mapping
  <2>2. \A p \in Nat : p >= Plan[task].first /\ p < page' => p \in DOMAIN pt
    <3>1. \A p \in Nat : p < page' => p < page \/ p = page
      BY <1>1, <2>1, SMT, SMTT(60)
    <3> QED BY <1>2, <2>1, <3>1
  <2> QED BY <1>1, <2>1, <2>2, SpaceKept, SMT, SMTT(60)
<1>8. CASE range_mapped
  <2>1. UNCHANGED <<prog, space>> /\ copied' = 0 /\ phase = "map" /\ page > Plan[task].last
    BY <1>8, SMT, SMTT(60) DEF range_mapped, T
  <2>2. CASE /\ T.header # 0 /\ T.first <= T.last
             /\ phase' = "copy" /\ UNCHANGED <<task, page>>
    <3>1. \A p \in Nat : p >= Plan[task].first /\ p <= Plan[task].last => p \in DOMAIN pt
      <4>1. \A p \in Nat : p <= Plan[task].last => p < page
        BY <1>1, <1>3, <2>1, SMT, SMTT(60)
      <4> QED BY <1>2, <2>1, <4>1, SMT, SMTT(60)
    <3> QED BY <1>1, <2>1, <2>2, <3>1, SpaceKept, SMT, SMTT(60) DEF T
  <2>3. CASE task < Len(Plan) /\ NextTask
    <3>1. page' >= Plan[task'].first /\ \A p \in Nat : ~(p >= Plan[task'].first /\ p < page')
      BY <1>6, <2>3
    <3> QED BY <1>6, <2>1, <2>3, <3>1, SpaceKept
  <2>4. CASE phase' = "arguments" /\ UNCHANGED <<task, page>>
    BY <1>1, <2>1, <2>4, SpaceKept, SMT, SMTT(60)
  <2> QED BY <1>8, <2>2, <2>3, <2>4, SMT, SMTT(60) DEF range_mapped
<1>9. CASE segment_copied
  <2>1. task < Len(Plan) /\ NextTask /\ UNCHANGED <<prog, space, copied>>
    BY <1>2, <1>3, <1>9 DEF segment_copied
  <2>2. page' >= Plan[task'].first /\ \A p \in Nat : ~(p >= Plan[task'].first /\ p < page')
    BY <1>6, <2>1, SMT, SMTT(60)
  <2> QED BY <1>1, <1>6, <2>1, <2>2, SpaceKept
<1>10. CASE enter_userspace
  <2>1. phase' = "user" /\ UNCHANGED <<prog, space, task, page, copied>>
    BY <1>10, SMT, SMTT(60) DEF enter_userspace
  <2> QED BY <1>1, <2>1, SpaceKept
<1>11. CASE page_missing
  <2>1. phase' = "panicked" /\ UNCHANGED <<prog, space, task, page, copied>>
    BY <1>11 DEF page_missing, panic
  <2> QED BY <1>1, <2>1, SpaceKept, SMT, SMTT(60)
<1> QED BY <1>7, <1>8, <1>9, <1>10, <1>11

\* The panics on the way: frames are lost, none gets a second use.
LEMMA PanicSteps ==
  ASSUME IInv, out_of_frames \/ already_mapped
  PROVE  IInv'
<1>1. /\ prog' = prog /\ phase' = "panicked"
      /\ UNCHANGED <<prog, pt, mem, task, page, copied>>
  BY DEF out_of_frames, already_mapped, panic
<1>2. Plan' = Plan /\ UserPages' = UserPages
  BY <1>1, PlanFixed, SMT, SMTT(60)
<1>3. /\ free' \subseteq free
      /\ \E a, b \in Int : free' = a .. b
      /\ \A t \in DOMAIN tables' :
           /\ tables'[t].flags \subseteq {"W", "U"} /\ tables'[t].frame \notin free'
           /\ tables'[t].frame \notin free => t \in DOMAIN tables /\ tables'[t].frame = tables[t].frame
      /\ \A t, u \in DOMAIN tables' : t # u => tables'[t].frame # tables'[u].frame
  <2>1. CASE out_of_frames
    <3>1. free' = {} /\ tables' = tables
      BY <2>1 DEF out_of_frames
    <3>2. \E a, b \in Int : free' = a .. b
      <4>1. free' = 1 .. 0
        BY <3>1, SMT, SMTT(60)
      <4> QED BY <4>1
    <3> QED BY <3>1, <3>2, SMT, SMTT(60) DEF IInv, TypeOK, FramesExclusive
  <2>2. CASE already_mapped
    BY <2>2, Taken DEF already_mapped, IInv
  <2> QED BY <2>1, <2>2, SMT, SMTT(60)
<1>4. TypeOK'
  BY <1>1, <1>2, <1>3, Zenon DEF IInv, TypeOK
<1>5. FramesExclusive'
  <2>1. \A p \in DOMAIN pt : pt[p].frame \notin free
        /\ \A t \in DOMAIN tables : pt[p].frame # tables[t].frame
    BY DEF IInv, FramesExclusive
  <2>2. \A p \in DOMAIN pt, t \in DOMAIN tables' : pt[p].frame # tables'[t].frame
    BY <1>3, <2>1, SMT, SMTT(60)
  <2> QED BY <1>1, <1>3, <2>1, <2>2, SMT, SMTT(60) DEF IInv, FramesExclusive
<1>6. Control'
  BY <1>1, <1>3, SMT, SMTT(60) DEF Control
<1>7. Cleared'
  BY <1>1, <1>2 DEF IInv, Cleared
<1>8. Passed'
  BY <1>1 DEF Passed
<1> QED BY <1>4, <1>5, <1>6, <1>7, <1>8, SMT, SMTT(60) DEF IInv

\* map_to with a fresh frame, zeroed where user code will see it.
LEMMA MapStep ==
  ASSUME IInv, map_page
  PROVE  IInv'
<1> DEFINE f == Min(free)
<1>1. /\ UNCHANGED <<prog, phase, task, copied>> /\ page' = page + 1 /\ phase = "map"
      /\ page <= T.last /\ page \notin DOMAIN pt /\ TakeFrames
  BY DEF map_page, Wanted, Mapping
<1>2. Plan' = Plan /\ UserPages' = UserPages
  BY <1>1, PlanFixed
<1>3. prog \in Programs /\ task \in 1 .. Len(Plan) /\ page \in Nat /\ copied \in Nat /\ page >= T.first
  BY <1>1, SMT, SMTT(60) DEF IInv, TypeOK, Control
<1>4. /\ T.first \in Nat /\ T.last \in Nat /\ T.flags \subseteq {"W", "U", "NX"}
      /\ "U" \in T.flags => T.zero /\ page \in UserPages
  <2>1. page \in T.first .. T.last \/ T.first \notin Nat \/ T.last \notin Nat
    BY <1>1, <1>3, SMT, SMTT(60)
  <2> QED BY <1>3, <2>1, TaskShape, SMT, SMTT(60) DEF T
<1>5. /\ f \in free /\ f \notin free' /\ free' \subseteq free
      /\ \E a, b \in Int : free' = a .. b
      /\ \A t \in DOMAIN tables' :
           /\ tables'[t].flags \subseteq {"W", "U"}
           /\ tables'[t].frame # f /\ tables'[t].frame \notin free'
           /\ tables'[t].frame \notin free => t \in DOMAIN tables /\ tables'[t].frame = tables[t].frame
      /\ \A t, u \in DOMAIN tables' : t # u => tables'[t].frame # tables'[u].frame
  BY <1>1, Taken DEF IInv
<1>6. /\ pt' = Put(pt, page, [frame |-> f, flags |-> T.flags])
      /\ mem' = IF T.zero THEN [mem EXCEPT ![f] = [o \in Offsets |-> ZERO]] ELSE mem
  BY SMT, SMTT(60) DEF map_page
<1> HIDE DEF f
<1>7. \A p \in DOMAIN pt' :
        \/ p = page /\ pt'[p].frame = f /\ pt'[p].flags = T.flags
        \/ p \in DOMAIN pt /\ p # page /\ pt'[p] = pt[p]
  BY <1>1, <1>6 DEF Put
<1>8. \A p \in DOMAIN pt : /\ pt[p].frame \notin free /\ pt[p].frame \in DOMAIN mem
                           /\ pt[p].flags \subseteq {"W", "U", "NX"}
                           /\ \A t \in DOMAIN tables : pt[p].frame # tables[t].frame
  BY SMT, SMTT(60) DEF IInv, TypeOK, FramesExclusive
<1>9. /\ DOMAIN mem' = DOMAIN mem /\ f \in DOMAIN mem
      /\ mem' \in [DOMAIN mem -> [Offsets -> Int]]
      /\ \A g \in DOMAIN mem : g # f => mem'[g] = mem[g]
      /\ T.zero => \A o \in Offsets : mem'[f][o] = ZERO
  BY <1>5, <1>6 DEF IInv, TypeOK, ZERO
<1>10. TypeOK'
  <2>1. \A p \in DOMAIN pt' : pt'[p].frame \in DOMAIN mem /\ pt'[p].flags \subseteq {"W", "U", "NX"}
    BY <1>4, <1>7, <1>8, <1>9, SMT, SMTT(60)
  <2>2. free' \subseteq DOMAIN mem /\ page' \in Nat
    BY <1>1, <1>3, <1>5, SMT, SMTT(60) DEF IInv, TypeOK
  <2> QED BY <1>1, <1>2, <1>3, <1>5, <1>9, <2>1, <2>2, Zenon DEF IInv, TypeOK
<1>11. FramesExclusive'
  <2>1. \A p, q \in DOMAIN pt' : p # q => pt'[p].frame # pt'[q].frame
    BY <1>5, <1>7, <1>8, SMT, SMTT(60) DEF IInv, FramesExclusive
  <2>2. \A p \in DOMAIN pt' : pt'[p].frame \notin free'
    BY <1>5, <1>7, <1>8, SMT, SMTT(60)
  <2>3. \A p \in DOMAIN pt', t \in DOMAIN tables' : pt'[p].frame # tables'[t].frame
    BY <1>5, <1>7, <1>8
  <2> QED BY <1>5, <2>1, <2>2, <2>3, SMT, SMTT(60) DEF FramesExclusive
<1>12. T' = T
  BY <1>1, <1>2 DEF T
<1>13. Control'
  <2>2. page' >= T.first
    BY <1>1, <1>3, <1>4
  <2> QED BY <1>1, <1>5, <1>12, <2>2 DEF Control
<1>14. Cleared'
  <2>1. \A p \in DOMAIN pt' : "U" \in pt'[p].flags =>
          p \in UserPages /\ \A o \in Offsets : mem'[pt'[p].frame][o] # JUNK
    <3> SUFFICES ASSUME NEW p \in DOMAIN pt', "U" \in pt'[p].flags
                 PROVE  p \in UserPages /\ \A o \in Offsets : mem'[pt'[p].frame][o] # JUNK
      OBVIOUS
    <3>1. CASE p = page
      BY <1>4, <1>7, <1>9, <3>1, SMT, SMTT(60) DEF ZERO, JUNK
    <3>2. CASE p # page
      <4>1. p \in DOMAIN pt /\ pt'[p] = pt[p]
        BY <1>7, <3>2, SMT, SMTT(60)
      <4>2. pt[p].frame \in DOMAIN mem /\ pt[p].frame # f
        BY <1>5, <1>8, <4>1
      <4> QED BY <1>9, <4>1, <4>2, SMT, SMTT(60) DEF IInv, Cleared
    <3> QED BY <3>1, <3>2
  <2> QED BY <1>2, <2>1 DEF Cleared
<1>15. Passed'
  <2>1. \A p \in Nat : p < page' => p < page \/ p = page
    BY <1>1, <1>3, SMT, SMTT(60)
  <2>2. page \in DOMAIN pt' /\ DOMAIN pt \subseteq DOMAIN pt'
    BY <1>6 DEF Put
  <2>3. \A p \in Nat : p >= T.first /\ p < page => p \in DOMAIN pt
    BY <1>1 DEF IInv, Passed
  <2> QED BY <1>1, <1>12, <2>1, <2>2, <2>3 DEF Passed
<1> QED BY <1>10, <1>11, <1>13, <1>14, <1>15 DEF IInv

\* A piece of the file goes into a page: the bytes of the file are none of the stale ones.
LEMMA CopyStep ==
  ASSUME IInv, copy_page
  PROVE  IInv'
<1> DEFINE addr == current_vaddr
           page_offset == addr % PAGE_SIZE
           bytes_in_page == Min({PAGE_SIZE - page_offset, Segment.filesz - copied})
           g == pt[PageOf(addr)].frame
           Byte(o) == Segment.offset + copied + (o - page_offset)
           Piece == page_offset .. page_offset + bytes_in_page - 1
<1>1. /\ UNCHANGED <<prog, free, pt, tables, phase, task, page>> /\ phase = "copy"
      /\ copied < Segment.filesz /\ PageOf(addr) \in DOMAIN pt
      /\ mem' = [mem EXCEPT ![g] = [o \in Offsets |-> IF o \in Piece THEN Byte(o) ELSE @[o]]]
      /\ copied' = copied + bytes_in_page
  BY SMT, SMTT(60) DEF copy_page, Copying
<1>2. Plan' = Plan /\ UserPages' = UserPages
  BY <1>1, PlanFixed, SMT, SMTT(60)
<1>3. prog \in Programs /\ task \in 1 .. Len(Plan) /\ copied \in Nat /\ T.header # 0
  BY <1>1 DEF IInv, TypeOK, Control
<1>4. Segment \in Header /\ base_addr \in Nat
  <2>1. T.header \in 1 .. Len(prog.headers)
    <3>1. T.header \in 0 .. Len(prog.headers)
      BY <1>3, TaskShape, Zenon DEF T
    <3>2. Len(prog.headers) \in Nat
      BY <1>3, PlanTasks, Zenon
    <3> QED BY <1>3, <3>1, <3>2
  <2>2. prog.headers \in Seq(Header) /\ USER_BASE_ADDR \in Nat
    BY <1>3, ElfLoaderAssumption
  <2> QED BY <2>1, <2>2 DEF Segment, base_addr
<1>5. Segment.vaddr \in Nat /\ Segment.filesz \in Nat /\ Segment.offset \in Nat
  BY <1>4 DEF Header
<1>6. page_offset \in 0 .. PAGE_SIZE - 1
  <2>1. addr \in Nat
    BY <1>3, <1>4, <1>5, SMT, SMTT(60) DEF current_vaddr
  <2> HIDE DEF addr
  <2> QED BY <2>1, DivMod, ElfLoaderAssumption
<1>7. bytes_in_page \in Nat
  <2> HIDE DEF page_offset
  <2>1. PAGE_SIZE - page_offset \in Nat
    BY <1>6, ElfLoaderAssumption
  <2>2. copied < Segment.filesz /\ copied \in Nat /\ Segment.filesz \in Nat
    BY <1>1, <1>3, <1>5, Zenon
  <2>3. Segment.filesz - copied \in Nat
    BY ONLY <2>2
  <2> QED BY <2>1, <2>3, Lesser
<1> HIDE DEF page_offset, bytes_in_page, addr
<1>8. \A o \in Offsets : o \in Piece => Byte(o) \in Nat
  BY <1>3, <1>5, <1>6, <1>7, ElfLoaderAssumption, SMT, SMTT(60) DEF Offsets
<1>9. \A p \in DOMAIN pt : pt[p].frame \in DOMAIN mem
  BY DEF IInv, TypeOK
<1>10. g \in DOMAIN mem
  BY <1>1, <1>9
<1>11. mem \in [DOMAIN mem -> [Offsets -> Int]]
  BY DEF IInv, TypeOK
<1> HIDE DEF g, Byte, Piece
<1>12. /\ DOMAIN mem' = DOMAIN mem
       /\ mem' \in [DOMAIN mem -> [Offsets -> Int]]
       /\ \A h \in DOMAIN mem, o \in Offsets : mem'[h][o] = mem[h][o] \/ mem'[h][o] \in Nat
  <2> DEFINE new == [o \in Offsets |-> IF o \in Piece THEN Byte(o) ELSE mem[g][o]]
  <2>1. mem' = [mem EXCEPT ![g] = new]
    BY <1>1
  <2>2. new \in [Offsets -> Int]
    BY <1>8, <1>10, <1>11
  <2>3. \A o \in Offsets : new[o] = mem[g][o] \/ new[o] \in Nat
    BY <1>8
  <2> HIDE DEF new
  <2>4. DOMAIN mem' = DOMAIN mem /\ mem'[g] = new /\ \A h \in DOMAIN mem : h # g => mem'[h] = mem[h]
    BY <1>10, <1>11, <2>1
  <2>5. mem' \in [DOMAIN mem -> [Offsets -> Int]]
    BY <1>11, <2>1, <2>2, Zenon
  <2> QED BY <2>3, <2>4, <2>5, Zenon
<1>13. TypeOK'
  <2>1. copied' \in Nat
    BY <1>1, <1>3, <1>7
  <2> QED BY <1>1, <1>2, <1>12, <2>1 DEF IInv, TypeOK
<1>14. FramesExclusive'
  BY <1>1, ZenonT(40) DEF IInv, FramesExclusive
<1>15. Control' /\ Passed'
  BY <1>1, <1>2 DEF IInv, Control, Passed, T
<1>16. Cleared'
  <2>1. \A p \in DOMAIN pt : "U" \in pt[p].flags => \A o \in Offsets : mem'[pt[p].frame][o] # JUNK
    BY <1>9, <1>12 DEF IInv, Cleared, JUNK
  <2> QED BY <1>1, <1>2, <2>1 DEF IInv, Cleared
<1> QED BY <1>13, <1>14, <1>15, <1>16, SMT, SMTT(60) DEF IInv

-----------------------------------------------------------------------------
\* Where the words of setup_user_stack go.

\* A page's addresses are those between its first and the next page's.
LEMMA PageAddress ==
  ASSUME NEW n \in Nat \ {0}, NEW p \in Nat, NEW o \in 0 .. n - 1
  PROVE  /\ p * n + o \in Nat /\ (p * n + o) \div n = p /\ (p * n + o) % n = o
<1> DEFINE a == p * n + o
<1>1. a \in Nat /\ p * n \in Nat
  BY SMT, SMTT(60)
<1> DEFINE q == a \div n
           r == a % n
<1>2. q \in Nat /\ r \in 0 .. n - 1
  BY <1>1, DivMod, Zenon
<1>3. a = n * q + r
  BY <1>1, SMT, SMTT(60)
<1>4. a = p * n + o
  OBVIOUS
<1> HIDE DEF a, q, r
<1>5. q = p
  <2>1. ~(p >= q + 1)
    <3>1. SUFFICES ASSUME p >= q + 1 PROVE FALSE
      OBVIOUS
    <3>2. PICK k \in Nat : p = q + 1 + k
      <4>1. p - q - 1 \in Nat /\ p = q + 1 + (p - q - 1)
        BY <1>2, <3>1
      <4> QED BY <4>1
    <3>3. p * n = n * q + n + n * k /\ n * k \in Nat /\ n * q \in Nat
      BY <1>2, <3>2
    <3> QED BY <1>2, <1>3, <1>4, <3>3
  <2>2. ~(q >= p + 1)
    <3>1. SUFFICES ASSUME q >= p + 1 PROVE FALSE
      OBVIOUS
    <3>2. PICK k \in Nat : q = p + 1 + k
      <4>1. q - p - 1 \in Nat /\ q = p + 1 + (q - p - 1)
        BY <1>2, <3>1
      <4> QED BY <4>1
    <3>3. n * q = p * n + n + n * k /\ n * k \in Nat /\ p * n \in Nat
      BY <3>2
    <3> QED BY <1>2, <1>3, <1>4, <3>3
  <2> QED BY <1>2, <2>1, <2>2
<1>6. n * q = p * n
  BY <1>5
<1>7. r = o
  BY <1>1, <1>2, <1>3, <1>4, <1>6
<1> QED BY <1>1, <1>5, <1>7, Zenon DEF a, q, r

\* An address is in the page that its quotient names.
LEMMA AddressPage ==
  ASSUME NEW n \in Nat \ {0}, NEW a \in Nat
  PROVE  a = (a \div n) * n + (a % n)
OBVIOUS

\* The pages between two page boundaries.
LEMMA PageBounds ==
  ASSUME NEW n \in Nat \ {0}, NEW f \in Nat, NEW l \in Nat, NEW a \in Nat,
         f * n <= a, a < (l + 1) * n
  PROVE  a \div n \in f .. l
<1> DEFINE q == a \div n
<1>1. q \in Nat /\ a % n \in 0 .. n - 1 /\ a = q * n + (a % n)
  BY DivMod, AddressPage, Zenon
<1> HIDE DEF q
<1>2. ~(f >= q + 1)
  <2>1. SUFFICES ASSUME f >= q + 1 PROVE FALSE
    OBVIOUS
  <2>2. PICK k \in Nat : f = q + 1 + k
    <3>1. f - q - 1 \in Nat /\ f = q + 1 + (f - q - 1)
      BY <1>1, <2>1
    <3> QED BY <3>1
  <2>3. f * n = q * n + n + n * k /\ n * k \in Nat /\ q * n \in Nat
    BY <1>1, <2>2
  <2> QED BY <1>1, <2>3
<1>3. ~(q >= l + 1)
  <2>1. SUFFICES ASSUME q >= l + 1 PROVE FALSE
    OBVIOUS
  <2>2. PICK k \in Nat : q = l + 1 + k
    <3>1. q - l - 1 \in Nat /\ q = l + 1 + (q - l - 1)
      BY <1>1, <2>1
    <3> QED BY <3>1
  <2>3. q * n = (l + 1) * n + n * k /\ n * k \in Nat /\ (l + 1) * n \in Nat
    BY <2>2
  <2> QED BY <1>1, <2>3
<1>4. q \in f .. l
  BY <1>1, <1>2, <1>3
<1> QED BY <1>4 DEF q

\* The reserved words are on the stack's pages.
LEMMA Reserved ==
  /\ sp \in Nat /\ sp + 32 * WORD_SIZE <= stack_top
  /\ Arguments = 0 .. 19 * WORD_SIZE - 1
  /\ \A n \in 0 .. 32 * WORD_SIZE - 1 :
       /\ sp + n \in Nat /\ PageOf(sp + n) \in Nat /\ PageOf(sp + n) \in Pages(Stack)
       /\ (sp + n) % PAGE_SIZE \in Offsets
       /\ PageOf(sp + n) * PAGE_SIZE + ((sp + n) % PAGE_SIZE) = sp + n
<1>1. /\ PAGE_SIZE \in Nat \ {0} /\ WORD_SIZE \in Nat \ {0}
      /\ Stack.first \in Nat /\ Stack.last \in Nat /\ Stack.first * PAGE_SIZE <= sp
  BY ElfLoaderAssumption, StackAssumption DEF PageRange
<1> DEFINE low == stack_top - STACK_WORDS * WORD_SIZE
<1>2. stack_top = (Stack.last + 1) * PAGE_SIZE /\ stack_top \in Nat /\ Stack.first * PAGE_SIZE \in Nat
  BY <1>1 DEF stack_top
<1>3. low \in Int /\ low = stack_top - 32 * WORD_SIZE
  BY <1>1, <1>2 DEF STACK_WORDS
<1>4. sp = low - (low % (2 * WORD_SIZE))
  BY DEF sp
<1> HIDE DEF low
<1>5. low % (2 * WORD_SIZE) \in Nat
  <2>1. 2 * WORD_SIZE \in Nat \ {0}
    BY <1>1
  <2>2. \A x \in Int, m \in Nat \ {0} : x % m \in 0 .. m - 1
    OBVIOUS
  <2>3. low % (2 * WORD_SIZE) \in 0 .. 2 * WORD_SIZE - 1
    BY <1>3, <2>1, <2>2, Zenon
  <2> QED BY <1>1, <2>3
<1> DEFINE m == low % (2 * WORD_SIZE)
<1> HIDE DEF m
<1>6. m \in Nat /\ sp = low - m
  BY <1>4, <1>5 DEF m
<1>7. sp \in Nat /\ sp + 32 * WORD_SIZE <= stack_top
  BY <1>1, <1>2, <1>3, <1>6
<1>8. Arguments = 0 .. 19 * WORD_SIZE - 1
  <2>1. Len(StackWords) = 19
    BY DEF StackWords
  <2> QED BY <2>1 DEF Arguments
<1>9. ASSUME NEW n \in 0 .. 32 * WORD_SIZE - 1
      PROVE  /\ sp + n \in Nat /\ PageOf(sp + n) \in Nat /\ PageOf(sp + n) \in Pages(Stack)
             /\ (sp + n) % PAGE_SIZE \in Offsets
             /\ PageOf(sp + n) * PAGE_SIZE + ((sp + n) % PAGE_SIZE) = sp + n
  <2> DEFINE a == sp + n
  <2>1. a \in Nat /\ Stack.first * PAGE_SIZE <= a /\ a < (Stack.last + 1) * PAGE_SIZE
    BY <1>1, <1>2, <1>7
  <2> HIDE DEF a
  <2>2. a \div PAGE_SIZE \in Stack.first .. Stack.last
    BY <1>1, <2>1, PageBounds, Zenon
  <2>3. /\ a \div PAGE_SIZE \in Nat /\ a % PAGE_SIZE \in 0 .. PAGE_SIZE - 1
        /\ a = (a \div PAGE_SIZE) * PAGE_SIZE + (a % PAGE_SIZE)
    BY <1>1, <2>1, DivMod, AddressPage, Zenon
  <2> QED BY <2>1, <2>2, <2>3, Zenon DEF a, PageOf, Pages, Offsets
<1> QED BY <1>7, <1>8, <1>9, Zenon

\* setup_user_stack changes no byte but those of its words: each goes to its address, if
\* the page of that is mapped.
LEMMA StackBytes ==
  ASSUME IInv, setup_user_stack
  PROVE  /\ DOMAIN mem' = DOMAIN mem
         /\ mem' \in [DOMAIN mem -> [Offsets -> Int]]
         /\ \A f \in DOMAIN mem, o \in Offsets :
              mem'[f][o] = mem[f][o] \/ \E n \in Arguments : mem'[f][o] = StackByte(n)
         /\ \A p \in DOMAIN pt, o \in Offsets :
              p \in Nat => mem'[pt[p].frame][o] = IF p * PAGE_SIZE + o - sp \in Arguments
                                                  THEN StackByte(p * PAGE_SIZE + o - sp)
                                                  ELSE mem[pt[p].frame][o]
<1>1. mem \in [DOMAIN mem -> [Offsets -> Int]] /\ \A p \in DOMAIN pt : pt[p].frame \in DOMAIN mem
  BY Zenon DEF IInv, TypeOK
<1> DEFINE New(f, o) == IF write_to_stack(f, o) = {} THEN mem[f][o]
                        ELSE StackByte(CHOOSE n \in write_to_stack(f, o) : TRUE)
<1>2. mem' = [f \in DOMAIN mem |-> [o \in Offsets |-> New(f, o)]]
  BY Zenon DEF setup_user_stack
<1>3. \A n \in Arguments : n \in Nat /\ StackByte(n) \in Int /\ n \in 0 .. 32 * WORD_SIZE - 1
  BY Reserved, StackAssumption, SMT, SMTT(60) DEF StackByte
<1>4. ASSUME NEW f \in DOMAIN mem, NEW o \in Offsets
      PROVE  /\ New(f, o) \in Int
             /\ New(f, o) = mem[f][o] \/ \E n \in Arguments : New(f, o) = StackByte(n)
  <2>1. mem[f][o] \in Int
    BY <1>1, SMT, SMTT(60)
  <2>2. CASE write_to_stack(f, o) = {}
    BY <2>1, <2>2, Zenon
  <2>3. CASE write_to_stack(f, o) # {}
    <3> DEFINE c == CHOOSE n \in write_to_stack(f, o) : TRUE
    <3>1. c \in write_to_stack(f, o)
      BY <2>3, Zenon
    <3>2. write_to_stack(f, o) \subseteq Arguments
      BY Zenon DEF write_to_stack
    <3>3. New(f, o) = StackByte(c) /\ c \in Arguments
      BY <2>3, <3>1, <3>2, Zenon
    <3> QED BY <1>3, <3>3, Zenon
  <2> QED BY <2>2, <2>3, Zenon
<1>5. ASSUME NEW p \in DOMAIN pt, NEW o \in Offsets, p \in Nat
      PROVE  New(pt[p].frame, o) = IF p * PAGE_SIZE + o - sp \in Arguments
                                   THEN StackByte(p * PAGE_SIZE + o - sp)
                                   ELSE mem[pt[p].frame][o]
  <2> DEFINE f == pt[p].frame
             a == p * PAGE_SIZE + o
             w == a - sp
  <2>1. a \in Nat /\ PageOf(a) = p /\ a % PAGE_SIZE = o
    BY <1>5, PageAddress, ElfLoaderAssumption, Zenon DEF Offsets, PageOf
  <2>2. sp \in Nat
    BY Reserved, Zenon
  <2>3. w = p * PAGE_SIZE + o - sp
    <3>1. p * PAGE_SIZE \in Nat /\ o \in Int
      BY <1>5, ElfLoaderAssumption DEF Offsets
    <3> QED BY <2>2, <3>1
  <2>4. sp + w = a /\ w \in Int
    <3> HIDE DEF a
    <3> QED BY <2>1, <2>2
  <2>5. ASSUME NEW n \in write_to_stack(f, o) PROVE n = w
    <3>1. /\ n \in Arguments /\ (sp + n) % PAGE_SIZE = o /\ PageOf(sp + n) \in DOMAIN pt
          /\ pt[PageOf(sp + n)].frame = f
      BY <2>5, Zenon DEF write_to_stack
    <3>2. PageOf(sp + n) = p
      BY <3>1, Zenon DEF IInv, FramesExclusive
    <3>3. PageOf(sp + n) * PAGE_SIZE + ((sp + n) % PAGE_SIZE) = sp + n /\ n \in Nat
      BY <1>3, <3>1, Reserved, Zenon
    <3>4. a = sp + n
      BY <3>1, <3>2, <3>3, Zenon
    <3> HIDE DEF a
    <3> QED BY <2>1, <2>2, <3>3, <3>4
  <2>6. w \in Arguments => w \in write_to_stack(f, o)
    BY <2>1, <2>4, Zenon DEF write_to_stack
  <2>7. w \notin Arguments => write_to_stack(f, o) = {}
    <3>1. \A n \in write_to_stack(f, o) : n \in Arguments
      BY Zenon DEF write_to_stack
    <3> QED BY <2>5, <3>1, Zenon
  <2> HIDE DEF w
  <2>8. w \in Arguments => (CHOOSE n \in write_to_stack(f, o) : TRUE) = w
    BY <2>5, <2>6, Zenon
  <2>9. New(f, o) = IF w \in Arguments THEN StackByte(w) ELSE mem[f][o]
    <3>1. CASE w \in Arguments
      BY <2>6, <2>8, <3>1, Zenon
    <3>2. CASE w \notin Arguments
      BY <2>7, <3>2, Zenon
    <3> QED BY <3>1, <3>2, Zenon
  <2> QED BY <2>3, <2>9, Zenon
<1> HIDE DEF New
<1>6. \A f \in DOMAIN mem, o \in Offsets : mem'[f][o] = New(f, o)
  BY <1>2, Zenon
<1>7. DOMAIN mem' = DOMAIN mem /\ mem' \in [DOMAIN mem -> [Offsets -> Int]]
  BY <1>2, <1>4, Zenon
<1>8. \A f \in DOMAIN mem, o \in Offsets :
        mem'[f][o] = mem[f][o] \/ \E n \in Arguments : mem'[f][o] = StackByte(n)
  BY <1>4, <1>6, Zenon
<1>9. ASSUME NEW p \in DOMAIN pt, NEW o \in Offsets, p \in Nat
      PROVE  mem'[pt[p].frame][o] = IF p * PAGE_SIZE + o - sp \in Arguments
                                    THEN StackByte(p * PAGE_SIZE + o - sp)
                                    ELSE mem[pt[p].frame][o]
  <2>1. mem'[pt[p].frame][o] = New(pt[p].frame, o)
    BY <1>1, <1>6, Zenon
  <2> QED BY <1>5, <1>9, <2>1, Zenon
<1> QED BY <1>7, <1>8, <1>9, Zenon

LEMMA StackStep ==
  ASSUME IInv, setup_user_stack
  PROVE  IInv'
<1>1. UNCHANGED <<prog, free, pt, tables, task, page, copied>> /\ phase' = "enter"
  BY Zenon DEF setup_user_stack
<1>2. Plan' = Plan /\ UserPages' = UserPages
  BY <1>1, PlanFixed, Zenon
<1>3. /\ DOMAIN mem' = DOMAIN mem
      /\ mem' \in [DOMAIN mem -> [Offsets -> Int]]
      /\ \A f \in DOMAIN mem, o \in Offsets :
           mem'[f][o] = mem[f][o] \/ \E n \in Arguments : mem'[f][o] = StackByte(n)
  BY StackBytes, Zenon
<1>4. TypeOK'
  BY <1>1, <1>2, <1>3, Zenon DEF IInv, TypeOK
<1>5. FramesExclusive'
  BY <1>1, ZenonT(40) DEF IInv, FramesExclusive
<1>6. Control' /\ Passed'
  BY <1>1, SMT, SMTT(60) DEF IInv, Control, Passed
<1>7. Cleared'
  <2>1. \A n \in Arguments : StackByte(n) # JUNK
    <3>1. \A n \in Arguments : n \in Nat
      BY Reserved, StackAssumption, SMT, SMTT(60)
    <3> QED BY <3>1 DEF StackByte, JUNK
  <2>2. \A p \in DOMAIN pt : pt[p].frame \in DOMAIN mem
    BY Zenon DEF IInv, TypeOK
  <2>3. \A p \in DOMAIN pt : "U" \in pt[p].flags => \A o \in Offsets : mem'[pt[p].frame][o] # JUNK
    <3> SUFFICES ASSUME NEW p \in DOMAIN pt, "U" \in pt[p].flags, NEW o \in Offsets
                 PROVE  mem'[pt[p].frame][o] # JUNK
      BY Zenon
    <3>1. mem[pt[p].frame][o] # JUNK
      BY Zenon DEF IInv, Cleared
    <3>2. \/ mem'[pt[p].frame][o] = mem[pt[p].frame][o]
          \/ \E n \in Arguments : mem'[pt[p].frame][o] = StackByte(n)
      BY <1>3, <2>2, Zenon
    <3> QED BY <2>1, <3>1, <3>2, Zenon
  <2> QED BY <1>1, <1>2, <2>3, Zenon DEF IInv, Cleared
<1> QED BY <1>4, <1>5, <1>6, <1>7, Zenon DEF IInv

-----------------------------------------------------------------------------
\* Every step of the loader keeps the invariant.
LEMMA LoaderNext ==
  IInv /\ [Next]_vars => IInv'
<1> SUFFICES ASSUME IInv, [Next]_vars PROVE IInv'
  OBVIOUS
<1>1. CASE UNCHANGED vars
  <2>1. /\ UNCHANGED <<prog, space, phase, task, page, copied>>
    BY <1>1, SMT, SMTT(60) DEF vars, space
  <2>2. /\ phase \in {"map", "copy", "arguments", "enter", "user", "panicked"}
        /\ task \in 1 .. Len(Plan) /\ page \in Nat /\ copied \in Nat
        /\ phase = "map" => page >= Plan[task].first
        /\ phase = "copy" => Plan[task].header # 0 /\ Plan[task].first <= Plan[task].last
        /\ phase = "map" => \A p \in Nat : p >= Plan[task].first /\ p < page => p \in DOMAIN pt
        /\ phase = "copy" =>
             \A p \in Nat : p >= Plan[task].first /\ p <= Plan[task].last => p \in DOMAIN pt
    BY DEF IInv, TypeOK, Control, Passed, T
  <2> QED BY <2>1, <2>2, SpaceKept, SMT, SMTT(60)
<1>2. CASE Load
  BY <1>2, LoopSteps, PanicSteps, MapStep, CopyStep, StackStep, Zenon DEF Load
<1>3. CASE Running
  BY <1>1, <1>3, Zenon DEF Running
<1> QED BY <1>1, <1>2, <1>3 DEF Next

-----------------------------------------------------------------------------
\* Which loop mapped a page, and with which flags.

RangeOf(j) == Plan[j].first .. Plan[j].last

\* The first loop that comes to page p.
Owner(p, j) == p \in RangeOf(j) /\ \A k \in 1 .. j - 1 : p \notin RangeOf(k)

\* A page has the flags of the loop that came to it first, and the table above it grants at
\* least as much.
Ledger ==
  \A p \in DOMAIN pt \ BootPages :
    /\ \E j \in 1 .. task : Owner(p, j) /\ pt[p].flags = Plan[j].flags
    /\ TableOf(p) \in DOMAIN tables
    /\ pt[p].flags \cap {"W", "U"} \subseteq tables[TableOf(p)].flags

\* The loops before the current one have mapped all their pages; at the end all have.
AllPassed ==
  /\ \A j \in 1 .. task : j < task \/ Loaded => RangeOf(j) \subseteq DOMAIN pt
  /\ Loaded => task = Len(Plan)

\* After the pool, the heap and the stack were zeroed only setup_user_stack writes to them.
Zeroed ==
  \A p \in DOMAIN pt \ BootPages, j \in 1 .. task :
    Owner(p, j) /\ j > Len(prog.headers) + 1 => \A o \in Offsets : mem[pt[p].frame][o] = Fresh(p, o)

RInv == Ledger /\ AllPassed /\ Zeroed

\* map_to never takes rights from a table.
LEMMA TablesGrow ==
  ASSUME TakeFrames
  PROVE  /\ TableOf(page) \in DOMAIN tables'
         /\ T.flags \cap {"W", "U"} \subseteq tables'[TableOf(page)].flags
         /\ \A t \in DOMAIN tables : t \in DOMAIN tables' /\ tables[t].flags \subseteq tables'[t].flags
<1> DEFINE t0 == TableOf(page)
           parent == T.flags \cap {"W", "U"}
<1>1. CASE TableMissing
  <2>1. PICK e : tables' = Put(tables, t0, e) /\ e.flags = parent
    <3>1. tables' = Put(tables, t0, [frame |-> Min(free \ {Min(free)}), flags |-> parent])
      BY <1>1, Zenon DEF TakeFrames
    <3>2. \A a, b : [frame |-> a, flags |-> b].flags = b
      BY ONLY SMT, SMTT(60)
    <3> QED BY <3>1, <3>2, Zenon
  <2>2. t0 \notin DOMAIN tables
    BY <1>1, SMT, SMTT(60) DEF TableMissing
  <2> HIDE DEF t0, parent
  <2>3. t0 \in DOMAIN tables' /\ tables'[t0] = e
        /\ \A t \in DOMAIN tables : t \in DOMAIN tables' /\ tables'[t] = tables[t]
    BY <2>1, <2>2 DEF Put
  <2> QED BY <2>1, <2>3, Zenon DEF t0, parent
<1>2. CASE ~TableMissing
  <2>1. PICK e : tables' = Put(tables, t0, e) /\ e.flags = tables[t0].flags \cup parent
    <3>1. tables' = Put(tables, t0, [frame |-> tables[t0].frame, flags |-> tables[t0].flags \cup parent])
      BY <1>2, Zenon DEF TakeFrames
    <3>2. \A a, b : [frame |-> a, flags |-> b].flags = b
      BY ONLY SMT, SMTT(60)
    <3> QED BY <3>1, <3>2, Zenon
  <2> HIDE DEF t0, parent
  <2>2. t0 \in DOMAIN tables' /\ tables'[t0] = e
        /\ \A t \in DOMAIN tables : t \in DOMAIN tables' /\ (t # t0 => tables'[t] = tables[t])
    BY <2>1, SMT, SMTT(60) DEF Put
  <2> QED BY <2>1, <2>2, Zenon DEF t0, parent
<1> QED BY <1>1, <1>2, Zenon

\* Who owns a page is fixed by the plan.
LEMMA OwnersFixed ==
  ASSUME prog' = prog
  PROVE  /\ \A j : RangeOf(j)' = RangeOf(j)
         /\ \A p, j : Owner(p, j)' <=> Owner(p, j)
<1>1. Plan' = Plan
  BY PlanFixed
<1>2. \A j : RangeOf(j)' = RangeOf(j)
  BY <1>1 DEF RangeOf
<1> QED BY <1>2 DEF Owner

\* What setup_user_stack stores, and where, does not depend on the state.
LEMMA FreshKept ==
  ASSUME (phase' \in {"enter", "user"}) <=> (phase \in {"enter", "user"})
  PROVE  \A p, o : Fresh(p, o)' = Fresh(p, o)
<1>1. Arguments' = Arguments
  <2>1. Len(StackWords) = 19 /\ Len(StackWords)' = 19
    BY SMT, SMTT(60) DEF StackWords
  <2> QED BY <2>1, Zenon DEF Arguments
<1> QED BY <1>1, Zenon DEF Fresh, StackByte

\* The owner is unique.
LEMMA OneOwner ==
  ASSUME NEW p, NEW j \in Nat, NEW k \in Nat, j >= 1, k >= 1, Owner(p, j), Owner(p, k)
  PROVE  j = k
BY DEF Owner

LEMMA RightsInit ==
  ASSUME Init
  PROVE  RInv
<1>1. DOMAIN pt \ BootPages = {} /\ task = 1 /\ phase = "map"
  BY Zenon DEF Init
<1>2. Ledger /\ Zeroed
  BY <1>1 DEF Ledger, Zeroed
<1>3. AllPassed
  BY <1>1, SMT, SMTT(60) DEF AllPassed, Loaded
<1> QED BY <1>2, <1>3 DEF RInv

\* The steps that change neither the pages nor what is in them.
LEMMA PagesKept ==
  ASSUME RInv, prog' = prog, pt' = pt, mem' = mem, task \in Nat, task' \in Nat, task' >= task,
         \A t \in DOMAIN tables : t \in DOMAIN tables' /\ tables[t].flags \subseteq tables'[t].flags,
         \A j \in 1 .. task' : j < task' \/ Loaded' => RangeOf(j) \subseteq DOMAIN pt,
         Loaded' => task' = Len(Plan),
         (phase' \in {"enter", "user"}) <=> (phase \in {"enter", "user"})
  PROVE  RInv'
<1>1. /\ \A j : RangeOf(j)' = RangeOf(j)
      /\ \A p, j : Owner(p, j)' <=> Owner(p, j)
  BY OwnersFixed
<1>2. Plan' = Plan
  BY PlanFixed, Zenon
<1>3. Ledger'
  <2>1. \A p \in DOMAIN pt \ BootPages :
          /\ \E j \in 1 .. task : Owner(p, j) /\ pt[p].flags = Plan[j].flags
          /\ TableOf(p) \in DOMAIN tables
          /\ pt[p].flags \cap {"W", "U"} \subseteq tables[TableOf(p)].flags
    BY SMT, SMTT(60) DEF RInv, Ledger
  <2>2. \A j \in 1 .. task : j \in 1 .. task'
    BY SMT, SMTT(60)
  <2> QED BY <1>1, <1>2, <2>1, <2>2, Zenon DEF Ledger
<1>4. AllPassed'
  BY <1>1, <1>2, Zenon DEF AllPassed
<1>5. Zeroed'
  <2>1. ASSUME NEW p \in DOMAIN pt \ BootPages, NEW j \in 1 .. task', Owner(p, j)
        PROVE  j \in 1 .. task
    <3>1. PICK k \in 1 .. task : Owner(p, k)
      BY DEF RInv, Ledger
    <3> QED BY <2>1, <3>1, OneOwner, SMT, SMTT(60)
  <2>2. \A p, o : Fresh(p, o)' = Fresh(p, o)
    BY FreshKept, Zenon
  <2>3. ASSUME NEW p \in DOMAIN pt \ BootPages, NEW j \in 1 .. task', Owner(p, j),
               j > Len(prog.headers) + 1, NEW o \in Offsets
        PROVE  mem'[pt'[p].frame][o] = Fresh(p, o)'
    BY <2>1, <2>2, <2>3, Zenon DEF RInv, Zeroed
  <2> QED BY <1>1, <2>3, Zenon DEF Zeroed
<1> QED BY <1>3, <1>4, <1>5, SMT, SMTT(60) DEF RInv

\* The control of the loops: a loop is left only when its range is mapped.
LEMMA RightsLoops ==
  ASSUME IInv, RInv,
         \/ page_skipped \/ range_mapped \/ segment_copied \/ page_missing
         \/ enter_userspace \/ UNCHANGED vars
  PROVE  RInv'
<1>1. prog \in Programs /\ task \in 1 .. Len(Plan) /\ page \in Nat /\ task \in Nat
  BY PlanTasks, SMT, SMTT(60) DEF IInv, TypeOK
<1>2. Plan[task].first \in Nat /\ Plan[task].last \in Nat
  BY <1>1, TaskShape, SMT, SMTT(60)
<1>3. UNCHANGED <<prog, pt, tables, mem>>
  BY DEF page_skipped, range_mapped, segment_copied, page_missing, enter_userspace, panic, space, vars
<1>4. \A j \in 1 .. task : j < task \/ Loaded => RangeOf(j) \subseteq DOMAIN pt
  BY SMT, SMTT(60) DEF RInv, AllPassed
<1>5. CASE \/ UNCHANGED <<phase, task>>
           \/ phase \notin {"enter", "user"} /\ phase' = "panicked" /\ task' = task
  <2>1. Loaded' => Loaded
    BY <1>5 DEF Loaded
  <2>2. Loaded' => task' = Len(Plan)
    BY <2>1, <1>5, SMT, SMTT(60) DEF RInv, AllPassed
  <2>3. (phase' \in {"enter", "user"}) <=> (phase \in {"enter", "user"})
    BY <1>5
  <2> QED BY <1>1, <1>3, <1>4, <1>5, <2>1, <2>2, <2>3, PagesKept
<1>6. CASE range_mapped
  <2>1. phase = "map" /\ page > Plan[task].last
    BY <1>6, SMT, SMTT(60) DEF range_mapped, T
  <2>2. RangeOf(task) \subseteq DOMAIN pt
    <3>1. \A p \in Nat : p >= Plan[task].first /\ p < page => p \in DOMAIN pt
      BY <2>1, SMT, SMTT(60) DEF IInv, Passed, T
    <3> QED BY <1>1, <1>2, <2>1, <3>1, SMT, SMTT(60) DEF RangeOf
  <2>3. CASE phase' = "copy" /\ task' = task
    BY <1>1, <1>3, <1>4, <2>1, <2>3, PagesKept, SMT, SMTT(60) DEF Loaded
  <2>4. CASE NextTask
    <3>1. task' = task + 1 /\ ~ Loaded' /\ phase' = "map"
      BY <2>4 DEF NextTask, Loaded
    <3>2. \A j \in 1 .. task' : j < task' => RangeOf(j) \subseteq DOMAIN pt
      BY <1>1, <1>4, <2>2, <3>1, SMT, SMTT(60)
    <3> QED BY <1>1, <1>3, <2>1, <3>1, <3>2, PagesKept
  <2>5. CASE task = Len(Plan) /\ phase' = "arguments" /\ task' = task
    <3>1. \A j \in 1 .. task' : RangeOf(j) \subseteq DOMAIN pt
      BY <1>1, <1>4, <2>2, <2>5, SMT, SMTT(60)
    <3> QED BY <1>1, <1>3, <2>1, <2>5, <3>1, PagesKept, SMT, SMTT(60)
  <2> QED BY <1>6, <2>3, <2>4, <2>5, SMT, SMTT(60) DEF range_mapped
<1>7. CASE segment_copied
  <2>1. phase = "copy" /\ phase' = "map" /\ task' = task + 1 /\ ~ Loaded'
    BY <1>7 DEF segment_copied, NextTask, Loaded
  <2>2. RangeOf(task) \subseteq DOMAIN pt
    <3>1. \A p \in Nat : p >= Plan[task].first /\ p <= Plan[task].last => p \in DOMAIN pt
      BY <2>1 DEF IInv, Passed, T
    <3> QED BY <1>2, <3>1, SMT, SMTT(60) DEF RangeOf
  <2>3. \A j \in 1 .. task' : j < task' => RangeOf(j) \subseteq DOMAIN pt
    BY <1>1, <1>4, <2>1, <2>2, SMT, SMTT(60)
  <2> QED BY <1>1, <1>3, <2>1, <2>3, PagesKept
<1>8. CASE enter_userspace
  <2>1. Loaded /\ Loaded' /\ task' = task /\ phase = "enter" /\ phase' = "user"
    BY <1>8 DEF enter_userspace, Loaded
  <2>2. task = Len(Plan)
    BY <2>1 DEF RInv, AllPassed
  <2> QED BY <1>1, <1>3, <1>4, <2>1, <2>2, PagesKept, SMT, SMTT(60)
<1>9. page_skipped => UNCHANGED <<phase, task>>
  BY DEF page_skipped
<1>10. page_missing => phase \notin {"enter", "user"} /\ phase' = "panicked" /\ task' = task
  BY DEF page_missing, panic, Copying
<1>11. UNCHANGED vars => UNCHANGED <<phase, task>>
  BY Zenon DEF vars
<1> QED BY <1>5, <1>6, <1>7, <1>8, <1>9, <1>10, <1>11, Zenon

LEMMA RightsPanics ==
  ASSUME IInv, RInv, out_of_frames \/ already_mapped
  PROVE  RInv'
<1>1. UNCHANGED <<prog, pt, mem, task>> /\ ~ Loaded' /\ phase = "map" /\ phase' = "panicked"
  BY SMT, SMTT(60) DEF out_of_frames, already_mapped, panic, Loaded, Wanted, Mapping
<1>2. \A t \in DOMAIN tables : t \in DOMAIN tables' /\ tables[t].flags \subseteq tables'[t].flags
  <2>1. CASE out_of_frames
    BY <2>1 DEF out_of_frames
  <2>2. CASE already_mapped
    BY <2>2, TablesGrow, SMT, SMTT(60) DEF already_mapped
  <2> QED BY <2>1, <2>2, SMT, SMTT(60)
<1>3. task \in Nat
  BY PlanTasks DEF IInv, TypeOK
<1>4. \A j \in 1 .. task : j < task => RangeOf(j) \subseteq DOMAIN pt
  BY DEF RInv, AllPassed
<1> QED BY <1>1, <1>2, <1>3, <1>4, PagesKept

\* A new page is owned by the loop that maps it: all earlier loops have theirs.
LEMMA RightsMap ==
  ASSUME IInv, RInv, map_page
  PROVE  RInv'
<1> DEFINE f == Min(free)
<1>1. /\ UNCHANGED <<prog, phase, task>> /\ phase = "map" /\ page <= T.last
      /\ page \notin DOMAIN pt /\ TakeFrames
      /\ pt' = Put(pt, page, [frame |-> f, flags |-> T.flags])
      /\ mem' = IF T.zero THEN [mem EXCEPT ![f] = [o \in Offsets |-> ZERO]] ELSE mem
  BY SMT, SMTT(60) DEF map_page, Wanted, Mapping
<1>2. prog \in Programs /\ task \in 1 .. Len(Plan) /\ page \in Nat /\ page >= T.first /\ task \in Nat
  BY <1>1, PlanTasks DEF IInv, TypeOK, Control
<1>3. T.first \in Nat /\ T.last \in Nat /\ T = Plan[task]
  BY <1>2, TaskShape, Zenon DEF T
<1>4. f \in free /\ f \in DOMAIN mem
  BY <1>1, Taken, Zenon DEF IInv, TypeOK
<1> HIDE DEF f
<1>5. /\ page \in DOMAIN pt' /\ pt'[page].frame = f /\ pt'[page].flags = T.flags
      /\ \A p \in DOMAIN pt' : p # page => p \in DOMAIN pt /\ pt'[p] = pt[p]
      /\ DOMAIN pt \subseteq DOMAIN pt'
  BY <1>1 DEF Put
<1>6. Owner(page, task)
  <2>1. page \in RangeOf(task)
    BY <1>1, <1>2, <1>3 DEF RangeOf
  <2>2. \A j \in 1 .. task - 1 : RangeOf(j) \subseteq DOMAIN pt
    BY <1>2, SMT, SMTT(60) DEF RInv, AllPassed
  <2> QED BY <1>1, <2>1, <2>2, Zenon DEF Owner
<1>7. /\ \A j : RangeOf(j)' = RangeOf(j)
      /\ \A p, j : Owner(p, j)' <=> Owner(p, j)
  BY <1>1, OwnersFixed, SMT, SMTT(60)
<1>8. Plan' = Plan /\ ~ Loaded'
  BY <1>1, PlanFixed DEF Loaded
<1>9. Ledger'
  <2>1. /\ TableOf(page) \in DOMAIN tables'
        /\ T.flags \cap {"W", "U"} \subseteq tables'[TableOf(page)].flags
        /\ \A t \in DOMAIN tables : t \in DOMAIN tables' /\ tables[t].flags \subseteq tables'[t].flags
    BY <1>1, TablesGrow, SMT, SMTT(60)
  <2> SUFFICES ASSUME NEW p \in DOMAIN pt' \ BootPages
               PROVE  /\ \E j \in 1 .. task : Owner(p, j) /\ pt'[p].flags = Plan[j].flags
                      /\ TableOf(p) \in DOMAIN tables'
                      /\ pt'[p].flags \cap {"W", "U"} \subseteq tables'[TableOf(p)].flags
    BY <1>1, <1>7, <1>8, SMT, SMTT(60) DEF Ledger
  <2>2. CASE p = page
    <3>1. task \in 1 .. task
      BY <1>2, SMT, SMTT(60)
    <3> QED BY <1>3, <1>5, <1>6, <2>1, <2>2, <3>1, Zenon
  <2>3. CASE p # page
    BY <1>5, <2>1, <2>3, ZenonT(40) DEF RInv, Ledger
  <2> QED BY <2>2, <2>3, Zenon
<1>10. AllPassed'
  BY <1>1, <1>5, <1>7, <1>8, Zenon DEF RInv, AllPassed
<1>11. Zeroed'
  <2> SUFFICES ASSUME NEW p \in DOMAIN pt' \ BootPages, NEW j \in 1 .. task, Owner(p, j),
                      j > Len(prog.headers) + 1, NEW o \in Offsets
               PROVE  mem'[pt'[p].frame][o] = ZERO
    <3>1. \A p, o : Fresh(p, o)' = ZERO
      BY <1>1, Zenon DEF Fresh, ZERO
    <3> QED BY <1>1, <1>7, <3>1, SMT, SMTT(60) DEF Zeroed
  <2>1. CASE p = page
    <3>1. j = task
      BY <1>2, <1>6, <2>1, OneOwner, SMT, SMTT(60)
    <3>2. T.zero
      BY <1>2, <1>3, <3>1, ZeroTasks
    <3> QED BY <1>1, <1>4, <1>5, <2>1, <3>2
  <2>2. CASE p # page
    <3>1. p \in DOMAIN pt /\ pt'[p] = pt[p] /\ pt[p].frame # f /\ pt[p].frame \in DOMAIN mem
      BY <1>4, <1>5, <2>2, Zenon DEF IInv, TypeOK, FramesExclusive
    <3>2. mem[pt[p].frame][o] = ZERO
      <4>1. Fresh(p, o) = ZERO
        BY <1>1, Zenon DEF Fresh
      <4> QED BY <3>1, <4>1, Zenon DEF RInv, Zeroed
    <3>3. mem'[pt[p].frame] = mem[pt[p].frame]
      BY <1>1, <3>1, Zenon
    <3> QED BY <3>1, <3>2, <3>3, Zenon
  <2> QED BY <2>1, <2>2, SMT, SMTT(60)
<1> QED BY <1>9, <1>10, <1>11, SMT, SMTT(60) DEF RInv

\* Bytes are copied only while the segments are loaded, before the pool is mapped.
LEMMA RightsCopy ==
  ASSUME IInv, RInv, copy_page
  PROVE  RInv'
<1>1. UNCHANGED <<prog, pt, tables, task, phase>> /\ phase = "copy"
  BY SMT, SMTT(60) DEF copy_page, Copying
<1>2. task \in Nat /\ task <= Len(prog.headers) + 1 /\ Len(prog.headers) \in Nat
  BY <1>1, PlanTasks, SegmentsFirst, SMT, SMTT(60) DEF IInv, TypeOK, Control, T
<1>3. /\ \A j : RangeOf(j)' = RangeOf(j)
      /\ \A p, j : Owner(p, j)' <=> Owner(p, j)
  BY <1>1, OwnersFixed
<1>4. Plan' = Plan
  BY <1>1, PlanFixed
<1>5. Ledger'
  BY <1>1, <1>3, <1>4, Zenon DEF RInv, Ledger
<1>6. AllPassed'
  BY <1>1, <1>3, <1>4, Zenon DEF RInv, AllPassed, Loaded
<1>7. Zeroed'
  BY <1>1, <1>2, SMT, SMTT(60) DEF Zeroed
<1> QED BY <1>5, <1>6, <1>7 DEF RInv

\* Each byte that setup_user_stack stores is at its address.
LEMMA RightsStack ==
  ASSUME IInv, RInv, setup_user_stack
  PROVE  RInv'
<1>1. /\ UNCHANGED <<prog, pt, tables, task>> /\ phase = "arguments" /\ phase' = "enter"
      /\ Loaded /\ Loaded'
  BY Zenon DEF setup_user_stack, Loaded
<1>2. /\ \A j : RangeOf(j)' = RangeOf(j)
      /\ \A p, j : Owner(p, j)' <=> Owner(p, j)
  BY <1>1, OwnersFixed
<1>3. Plan' = Plan
  BY <1>1, PlanFixed
<1>4. Ledger'
  BY <1>1, <1>2, <1>3, Zenon DEF RInv, Ledger
<1>5. AllPassed'
  BY <1>1, <1>2, <1>3, Zenon DEF RInv, AllPassed
<1>6. Zeroed'
  <2> SUFFICES ASSUME NEW p \in DOMAIN pt \ BootPages, NEW j \in 1 .. task, Owner(p, j),
                      j > Len(prog.headers) + 1, NEW o \in Offsets
               PROVE  mem'[pt[p].frame][o] = Fresh(p, o)'
    BY <1>1, <1>2, SMT, SMTT(60) DEF Zeroed
  <2>1. p \in Nat
    <3>1. prog \in Programs /\ task \in 1 .. Len(Plan) /\ Len(Plan) \in Nat
      BY PlanTasks, SMT, SMTT(60) DEF IInv, TypeOK
    <3>2. j \in 1 .. Len(Plan)
      BY <3>1, SMT, SMTT(60)
    <3>3. Plan[j].first \in Nat /\ Plan[j].last \in Nat
      BY <3>1, <3>2, TaskShape, Zenon
    <3> QED BY <3>3 DEF Owner, RangeOf
  <2> DEFINE n == p * PAGE_SIZE + o - sp
  <2>2. mem'[pt[p].frame][o] = IF n \in Arguments THEN StackByte(n) ELSE mem[pt[p].frame][o]
    BY <2>1, StackBytes, Zenon
  <2>3. mem[pt[p].frame][o] = ZERO
    <3>1. Fresh(p, o) = ZERO
      BY <1>1, Zenon DEF Fresh
    <3> QED BY <3>1, Zenon DEF RInv, Zeroed
  <2>4. Fresh(p, o)' = IF n \in Arguments THEN StackByte(n) ELSE ZERO
    <3>1. Arguments' = Arguments
      <4>1. Len(StackWords) = 19 /\ Len(StackWords)' = 19
        BY SMT, SMTT(60) DEF StackWords
      <4> QED BY <4>1, Zenon DEF Arguments
    <3> QED BY <1>1, <3>1, Zenon DEF Fresh, StackByte, ZERO
  <2> HIDE DEF n
  <2>5. CASE n \in Arguments
    BY <2>2, <2>4, <2>5, Zenon
  <2>6. CASE n \notin Arguments
    BY <2>2, <2>3, <2>4, <2>6, Zenon
  <2> QED BY <2>5, <2>6, Zenon
<1> QED BY <1>4, <1>5, <1>6, Zenon DEF RInv

LEMMA RightsNext ==
  ASSUME IInv, RInv, [Next]_vars
  PROVE  RInv'
<1>1. Running => UNCHANGED vars
  BY Zenon DEF Running
<1> QED BY <1>1, RightsLoops, RightsPanics, RightsMap, RightsCopy, RightsStack, Zenon DEF Next, Load

\* The pages of a segment are those of its loop.
LEMMA SegmentOwner ==
  ASSUME prog \in Programs, NEW i \in Loadable
  PROVE  /\ i \in 1 .. Len(prog.headers) /\ i + 1 \in 1 .. Len(Plan)
         /\ Plan[i + 1].flags = page_flags(prog.headers[i])
         /\ RangeOf(i + 1) = SegmentPages(i)
<1>1. i \in 1 .. Len(prog.headers) /\ Len(prog.headers) \in Nat /\ Len(Plan) = Len(prog.headers) + 4
  BY PlanTasks DEF Loadable
<1>2. Plan[i + 1] = load_segment(i)
  BY <1>1, PlanTasks, Zenon
<1>3. load_segment(i).flags = page_flags(prog.headers[i])
      /\ load_segment(i).first = SegmentRange(prog.headers[i]).first
      /\ load_segment(i).last = SegmentRange(prog.headers[i]).last
  BY Zenon DEF load_segment, Task
<1>4. i + 1 \in 1 .. Len(Plan)
  BY <1>1, SMT, SMTT(60)
<1> QED BY <1>1, <1>2, <1>3, <1>4, Zenon DEF RangeOf, SegmentPages, Pages

\* The loop of a header maps nothing unless the header is a loadable segment.
LEMMA EmptySegment ==
  ASSUME prog \in Programs, NEW k \in 2 .. Len(prog.headers) + 1, NEW p \in RangeOf(k)
  PROVE  k - 1 \in Loadable /\ p \in SegmentPages(k - 1)
<1>1. Len(prog.headers) \in Nat
  BY PlanTasks
<1>2. PICK i \in 1 .. Len(prog.headers) : k = i + 1 /\ k - 1 = i
  <2>1. k - 1 \in 1 .. Len(prog.headers) /\ k = (k - 1) + 1
    BY <1>1
  <2> QED BY <2>1
<1>3. Plan[k] = load_segment(i)
  BY <1>2, PlanTasks, Zenon
<1>4. p \in SegmentRange(prog.headers[i]).first .. SegmentRange(prog.headers[i]).last
  BY <1>3, SMT, SMTT(60) DEF RangeOf, load_segment, Task
<1>5. i \in Loadable
  <2>1. SUFFICES ASSUME ~(prog.headers[i].load /\ prog.headers[i].memsz # 0) PROVE FALSE
    BY Zenon DEF Loadable
  <2>2. SegmentRange(prog.headers[i]) = [first |-> 1, last |-> 0]
    BY <2>1, Zenon DEF SegmentRange
  <2> QED BY <1>4, <2>2
<1> QED BY <1>2, <1>4, <1>5, SMT, SMTT(60) DEF SegmentPages, Pages

\* A page that the kernel's heap and the boot loader leave alone is owned by the first
\* segment or the first range that contains it.
LEMMA NotTheKernels ==
  ASSUME IInv, RInv, Loaded, NEW k \in 1 .. Len(Plan), NEW p \in RangeOf(k), p \notin BootPages,
         p \notin Pages(KernelHeap)
  PROVE  /\ p \in DOMAIN pt /\ TableOf(p) \in DOMAIN tables
         /\ pt[p].flags \cap {"W", "U"} \subseteq tables[TableOf(p)].flags
         /\ \E j \in 2 .. k : Owner(p, j) /\ pt[p].flags = Plan[j].flags /\ j \in 1 .. task
<1>1. task = Len(Plan) /\ prog \in Programs /\ Len(Plan) \in Nat
  BY PlanTasks DEF RInv, AllPassed, IInv, TypeOK
<1>2. p \in DOMAIN pt
  BY <1>1, Zenon DEF RInv, AllPassed
<1>3. PICK j \in 1 .. task : Owner(p, j) /\ pt[p].flags = Plan[j].flags
  BY <1>2, Zenon DEF RInv, Ledger
<1>4. j # 1
  <2>1. Plan[1] = init_heap
    BY <1>1, PlanTasks, Zenon
  <2>2. RangeOf(1) = Pages(KernelHeap)
    BY <2>1, SMT, SMTT(60) DEF RangeOf, Pages, init_heap, Task
  <2> QED BY <1>3, <2>2, Zenon DEF Owner
<1>5. j <= k
  <2>1. SUFFICES ASSUME k \in 1 .. j - 1 PROVE FALSE
    BY <1>1
  <2> QED BY <1>3, <2>1 DEF Owner
<1>6. j \in 2 .. k
  BY <1>1, <1>4, <1>5
<1> QED BY <1>2, <1>3, <1>6, Zenon DEF RInv, Ledger

\* The invariant holds throughout, from init_heap to the first user instruction.
THEOREM LoaderInvariance ==
  Spec => []IInv
BY LoaderInit, LoaderNext, PTL DEF Spec

\* The loops of the loader keep their indices in range and copy into mapped frames only.
THEOREM LoaderTypeCorrect ==
  Spec => []TypeOK
<1>1. IInv => TypeOK
  BY DEF IInv
<1> QED BY <1>1, LoaderInvariance, PTL

\* A frame that allocate_frame gave becomes one page or one page table, whatever the layout
\* of the program and wherever the loader stops.
THEOREM LoaderFramesExclusive ==
  Spec => []FramesExclusive
<1>1. IInv => FramesExclusive
  BY Zenon DEF IInv
<1> QED BY <1>1, LoaderInvariance, PTL

\* User code never reaches a page the loader did not make for it, nor a byte left in a
\* frame by its earlier use.
THEOREM LoaderNoStaleBytes ==
  Spec => []NoStaleBytes
<1>1. IInv => NoStaleBytes
  BY Zenon DEF IInv, Cleared, NoStaleBytes, Allows, UserPages
<1> QED BY <1>1, LoaderInvariance, PTL

\* load_segment's expect("Page should be mapped") never fails for a program whose segments
\* are no longer in the file than in memory: the loop before it went over all their pages.
THEOREM LoaderCopyFindsPage ==
  Spec => []CopyFindsPage
<1>1. IInv => CopyFindsPage
  <2> SUFFICES ASSUME IInv, Copying,
                      \A i \in Loadable : prog.headers[i].filesz <= prog.headers[i].memsz
               PROVE  PageOf(current_vaddr) \in DOMAIN pt
    BY Zenon DEF CopyFindsPage
  <2> DEFINE i == T.header
             ph == prog.headers[i]
             vaddr == base_addr + ph.vaddr
  <2>1. prog \in Programs /\ task \in 1 .. Len(Plan) /\ copied \in Nat /\ i # 0
        /\ T.first <= T.last /\ copied < ph.filesz
        /\ \A p \in Nat : p >= T.first /\ p <= T.last => p \in DOMAIN pt
    BY Zenon DEF IInv, TypeOK, Control, Passed, Copying, Segment
  <2>2. i \in 1 .. Len(prog.headers) /\ T = load_segment(i)
    BY <2>1, HeaderTask, Zenon DEF T
  <2>3. ph \in Header /\ base_addr \in Nat
    BY <2>1, <2>2, ElfLoaderAssumption, SMT, SMTT(60) DEF base_addr
  <2>4. ph.vaddr \in Nat /\ ph.filesz \in Nat /\ ph.memsz \in Nat
    BY <2>3, Zenon DEF Header
  <2>5. T.first = SegmentRange(ph).first /\ T.last = SegmentRange(ph).last
    <3>1. load_segment(i).first = SegmentRange(ph).first
          /\ load_segment(i).last = SegmentRange(ph).last
      BY Zenon DEF load_segment, Task
    <3> QED BY <2>2, <3>1, Zenon
  <2>6. ph.load /\ ph.memsz # 0
    <3>1. ~(ph.load /\ ph.memsz # 0) => SegmentRange(ph).first = 1 /\ SegmentRange(ph).last = 0
      BY Zenon DEF SegmentRange
    <3>2. ~(ph.load /\ ph.memsz # 0) => T.first = 1 /\ T.last = 0
      BY <2>5, <3>1, Zenon
    <3> QED BY ONLY <2>1, <3>2, SMT, SMTT(60)
  <2>7. T.first = PageOf(vaddr) /\ T.last = PageOf(vaddr + ph.memsz - 1)
    BY <2>5, <2>6, Zenon DEF SegmentRange
  <2>8. ph.filesz <= ph.memsz
    BY <2>2, <2>6, Zenon DEF Loadable
  <2>9. current_vaddr = vaddr + copied
    BY Zenon DEF current_vaddr, Segment
  <2> HIDE DEF ph, i
  <2>10. /\ vaddr \in Nat /\ vaddr + copied \in Nat /\ vaddr + ph.memsz - 1 \in Nat
         /\ vaddr <= vaddr + copied /\ vaddr + copied <= vaddr + ph.memsz - 1
    <3>1. vaddr \in Nat
      BY <2>3, <2>4, SMT, SMTT(60)
    <3>2. ph.filesz \in Nat /\ ph.memsz \in Nat /\ ph.filesz <= ph.memsz /\ copied < ph.filesz
          /\ copied \in Nat
      BY <2>1, <2>4, <2>8, Zenon
    <3> HIDE DEF vaddr
    <3> QED BY <3>1, <3>2, SMT, SMTT(60)
  <2> HIDE DEF vaddr
  <2>11. /\ PageOf(vaddr + copied) \in Nat /\ PageOf(vaddr) <= PageOf(vaddr + copied)
         /\ PageOf(vaddr + copied) <= PageOf(vaddr + ph.memsz - 1)
    <3>1. PAGE_SIZE \in Nat \ {0}
      BY ElfLoaderAssumption
    <3> QED BY <2>10, <3>1, DivMod, DivMonotone, Zenon DEF PageOf
  <2> QED BY <2>1, <2>7, <2>9, <2>11, Zenon
<1> QED BY <1>1, LoaderInvariance, PTL

\* Both invariants together.
THEOREM LoaderRights ==
  Spec => [](IInv /\ RInv)
BY RightsInit, RightsNext, LoaderInvariance, PTL DEF Spec

-----------------------------------------------------------------------------
\* The stack's loop does not skip a mapped page: it panics.  The pages that it has passed are
\* its own, of no segment, no other range and not the boot loader's.
StackOwn ==
  /\ BootPages \subseteq DOMAIN pt
  /\ task = Len(Plan) /\ phase # "panicked" =>
       \A p \in RangeOf(task) : p < page \/ Loaded => p \notin BootPages /\ Owner(p, task)

LEMMA StackRange ==
  ASSUME prog \in Programs
  PROVE  RangeOf(Len(Plan)) = Pages(Stack)
<1>1. Plan[Len(Plan)] = map_stack
  BY PlanTasks, Zenon
<1>2. map_stack.first = Stack.first /\ map_stack.last = Stack.last
  BY ONLY SMT, SMTT(60) DEF map_stack, Task
<1> QED BY <1>1, <1>2, Zenon DEF RangeOf, Pages

LEMMA StackOwnInit ==
  ASSUME Init
  PROVE  StackOwn
<1>1. DOMAIN pt = BootPages /\ task = 1 /\ prog \in Programs
  BY Zenon DEF Init
<1>2. Len(Plan) # 1
  BY <1>1, PlanTasks, SMT, SMTT(60)
<1> QED BY <1>1, <1>2, Zenon DEF StackOwn

\* The steps that map no page and stay in a loop.
LEMMA StackOwnKept ==
  ASSUME StackOwn, prog' = prog, DOMAIN pt' = DOMAIN pt,
         phase' # "panicked" =>
           UNCHANGED <<task, page>> /\ phase # "panicked" /\ (Loaded' => Loaded)
  PROVE  StackOwn'
<1>1. /\ \A j : RangeOf(j)' = RangeOf(j)
      /\ \A p, j : Owner(p, j)' <=> Owner(p, j)
  BY OwnersFixed
<1>2. Plan' = Plan
  BY PlanFixed, Zenon
<1> QED BY <1>1, <1>2, Zenon DEF StackOwn

LEMMA StackOwnNext ==
  ASSUME IInv, RInv, StackOwn, [Next]_vars
  PROVE  StackOwn'
<1>1. prog \in Programs /\ task \in 1 .. Len(Plan) /\ page \in Nat /\ task \in Nat
      /\ Len(Plan) \in Nat
  BY PlanTasks, SMT, SMTT(60) DEF IInv, TypeOK
<1>2. \A j \in 1 .. Len(Plan) : Plan[j].first \in Nat /\ Plan[j].last \in Nat
  BY <1>1, TaskShape, Zenon
<1>3. task = Len(Plan) => T = Plan[task] /\ ~T.skip
  <2>1. Plan[Len(Plan)] = map_stack
    BY <1>1, PlanTasks, SMT, SMTT(60)
  <2> QED BY <2>1, SMT, SMTT(60) DEF T, map_stack, Task
<1>4. ASSUME prog' = prog
      PROVE  /\ \A j : RangeOf(j)' = RangeOf(j)
             /\ \A p, j : Owner(p, j)' <=> Owner(p, j)
             /\ Plan' = Plan
  BY <1>4, OwnersFixed, PlanFixed, Zenon
<1>5. CASE copy_page \/ setup_user_stack \/ enter_userspace
  <2>1. /\ prog' = prog /\ pt' = pt /\ UNCHANGED <<task, page>> /\ phase # "panicked"
        /\ Loaded' => Loaded
    BY <1>5 DEF copy_page, setup_user_stack, enter_userspace, Copying, Loaded, space
  <2> QED BY <2>1, StackOwnKept, Zenon
<1>6. CASE page_missing \/ out_of_frames \/ already_mapped
  <2>1. prog' = prog /\ pt' = pt /\ phase' = "panicked"
    BY <1>6 DEF page_missing, out_of_frames, already_mapped, panic, space
  <2> QED BY <2>1, StackOwnKept, Zenon
<1>7. CASE UNCHANGED vars
  <2>1. prog' = prog /\ pt' = pt /\ UNCHANGED <<task, page, phase>>
    BY <1>7 DEF vars
  <2>2. Loaded' <=> Loaded
    BY <2>1, Zenon DEF Loaded
  <2>3. Plan' = Plan
    BY <1>4, <2>1, Zenon
  <2> QED BY <1>4, <2>1, <2>2, <2>3, Zenon DEF StackOwn
<1>8. CASE page_skipped
  <2>1. prog' = prog /\ pt' = pt /\ task' = task /\ T.skip
    BY <1>8 DEF page_skipped, space
  <2>2. task' # Len(Plan')
    BY <1>3, <1>4, <2>1, Zenon
  <2> QED BY <2>1, <2>2, Zenon DEF StackOwn
<1>9. CASE NextTask /\ UNCHANGED <<prog, pt>>
  <2>1. task' = task + 1 /\ page' = Plan[task + 1].first /\ ~ Loaded' /\ prog' = prog /\ pt' = pt
    BY <1>9 DEF NextTask, Loaded
  <2>2. ASSUME task' = Len(Plan), NEW p \in RangeOf(task') PROVE ~(p < page')
    <3>1. page' = Plan[task'].first /\ task' \in 1 .. Len(Plan)
      BY <1>1, <2>1, <2>2, SMT, SMTT(60)
    <3> QED BY <1>2, <2>2, <3>1, SMT, SMTT(60) DEF RangeOf
  <2> QED BY <1>4, <2>1, <2>2, Zenon DEF StackOwn
<1>10. CASE range_mapped /\ ~NextTask
  <2>1. /\ UNCHANGED <<prog, task, page>> /\ pt' = pt /\ phase = "map" /\ page > Plan[task].last
        /\ phase' = "copy" \/ phase' = "arguments"
    BY <1>10 DEF range_mapped, space, T
  <2>2. ASSUME NEW p \in RangeOf(task) PROVE p < page
    BY <1>1, <1>2, <2>1, SMT, SMTT(60) DEF RangeOf
  <2>3. phase # "panicked"
    BY <2>1
  <2> QED BY <1>4, <2>1, <2>2, <2>3, Zenon DEF StackOwn
<1>11. CASE map_page
  <2>1. /\ UNCHANGED <<prog, phase, task>> /\ phase = "map" /\ page <= T.last
        /\ page \notin DOMAIN pt /\ page' = page + 1
        /\ pt' = Put(pt, page, [frame |-> Min(free), flags |-> T.flags])
    BY <1>11, SMT, SMTT(60) DEF map_page, Wanted, Mapping
  <2>2. DOMAIN pt' = DOMAIN pt \cup {page}
    BY <2>1, Zenon DEF Put
  <2>3. \A j \in 1 .. task - 1 : RangeOf(j) \subseteq DOMAIN pt
    BY <1>1, SMT, SMTT(60) DEF RInv, AllPassed
  <2>4. phase # "panicked" /\ ~ Loaded' /\ BootPages \subseteq DOMAIN pt
    BY <2>1, Zenon DEF StackOwn, Loaded
  <2>5. ASSUME task = Len(Plan), NEW p \in RangeOf(task), p < page'
        PROVE  p \notin BootPages /\ Owner(p, task)
    <3>1. CASE p = page
      BY <2>1, <2>3, <2>4, <2>5, <3>1, Zenon DEF Owner
    <3>2. CASE p # page
      <4>1. p < page
        BY <1>1, <1>2, <2>1, <2>5, <3>2, SMT, SMTT(60) DEF RangeOf
      <4> QED BY <2>4, <2>5, <4>1, Zenon DEF StackOwn
    <3> QED BY <3>1, <3>2, Zenon
  <2> QED BY <1>4, <2>1, <2>2, <2>4, <2>5, Zenon DEF StackOwn
<1>12. segment_copied => NextTask /\ UNCHANGED <<prog, pt>>
  BY DEF segment_copied, space
<1>13. range_mapped => UNCHANGED <<prog, pt>>
  BY DEF range_mapped, space
<1>14. Running => UNCHANGED vars
  BY Zenon DEF Running
<1> QED BY <1>5, <1>6, <1>7, <1>8, <1>9, <1>10, <1>11, <1>12, <1>13, <1>14, Zenon DEF Next, Load

\* The three invariants together.
THEOREM LoaderStackOwn ==
  Spec => [](IInv /\ RInv /\ StackOwn)
BY StackOwnInit, StackOwnNext, LoaderRights, PTL DEF Spec

\* load_segment gives a page the rights of the first segment that uses it, whatever segments
\* use it later and whatever shares the page tables above it.
THEOREM LoaderSegmentRights ==
  Spec => []SegmentRights
<1>1. IInv /\ RInv => SegmentRights
  <2> SUFFICES ASSUME IInv, RInv, Loaded, NEW i \in Loadable,
                      NEW p \in SegmentPages(i) \ (BootPages \cup Pages(KernelHeap)),
                      \A j \in Loadable : j < i => p \notin SegmentPages(j)
               PROVE  /\ Allows(p, "U")
                      /\ Allows(p, "W") <=> prog.headers[i].write
                      /\ Executable(p) <=> prog.headers[i].exec
    BY Zenon DEF SegmentRights
  <2>1. prog \in Programs
    BY Zenon DEF IInv, TypeOK
  <2>2. i \in 1 .. Len(prog.headers) /\ i + 1 \in 1 .. Len(Plan)
        /\ Plan[i + 1].flags = page_flags(prog.headers[i]) /\ RangeOf(i + 1) = SegmentPages(i)
        /\ Len(prog.headers) \in Nat
    BY <2>1, SegmentOwner, PlanTasks, Zenon
  <2>3. PICK j \in 2 .. i + 1 : Owner(p, j) /\ pt[p].flags = Plan[j].flags
    BY <2>2, NotTheKernels, ZenonT(40)
  <2>4. j = i + 1
    <3>1. j \in 2 .. Len(prog.headers) + 1 /\ p \in RangeOf(j)
      BY <2>2, <2>3 DEF Owner
    <3>2. j - 1 \in Loadable /\ p \in SegmentPages(j - 1)
      BY <2>1, <3>1, EmptySegment, Zenon
    <3>3. ~(j - 1 < i)
      BY <3>2, Zenon
    <3> QED BY <2>2, <2>3, <3>1, <3>3, SMT, SMTT(60)
  <2>5. pt[p].flags = page_flags(prog.headers[i])
    BY <2>2, <2>3, <2>4, Zenon
  <2>6. pt[p].flags \cap {"W", "U"} \subseteq tables[TableOf(p)].flags
    BY <2>2, NotTheKernels, Zenon
  <2>7. prog.headers[i].write \in BOOLEAN /\ prog.headers[i].exec \in BOOLEAN
    <3>1. prog.headers[i] \in Header
      BY <2>1, <2>2, ElfLoaderAssumption, SMT, SMTT(60)
    <3> QED BY <3>1, Zenon DEF Header
  <2>8. /\ "U" \in pt[p].flags /\ ("W" \in pt[p].flags <=> prog.headers[i].write)
        /\ ("NX" \in pt[p].flags <=> ~ prog.headers[i].exec)
    BY <2>5, Zenon DEF page_flags
  <2> QED BY <2>6, <2>7, <2>8, Zenon DEF Allows, Executable
<1> QED BY <1>1, LoaderRights, PTL

\* When the program starts, the mmap pool, the brk heap and the stack are mapped for it with
\* the rights of data, and all zeros but for the words of setup_user_stack.
THEOREM LoaderRangesReady ==
  Spec => []RangesReady
<1>1. IInv /\ RInv => RangesReady
  <2> SUFFICES ASSUME IInv, RInv, Loaded,
                      NEW p \in (Pages(Pool) \cup Pages(BrkHeap) \cup Pages(Stack))
                                \ (ImagePages \cup BootPages)
               PROVE  /\ Allows(p, "U") /\ Allows(p, "W") /\ ~Executable(p)
                      /\ \A o \in Offsets : mem[pt[p].frame][o] = Fresh(p, o)
    BY Zenon DEF RangesReady
  <2>1. prog \in Programs /\ Len(prog.headers) \in Nat /\ Len(Plan) = Len(prog.headers) + 4
    BY PlanTasks, Zenon DEF IInv, TypeOK
  <2>2. PICK k \in 1 .. Len(Plan) : p \in RangeOf(k) /\ k > Len(prog.headers) + 1
    <3> DEFINE n == Len(prog.headers)
    <3>1. Plan[n + 2] = map_pool /\ Plan[n + 3] = map_heap /\ Plan[n + 4] = map_stack
      BY <2>1, PlanTasks, Zenon
    <3>2. /\ RangeOf(n + 2) = Pages(Pool) /\ RangeOf(n + 3) = Pages(BrkHeap)
          /\ RangeOf(n + 4) = Pages(Stack)
      <4>1. /\ map_pool.first = Pool.first /\ map_pool.last = Pool.last
            /\ map_heap.first = BrkHeap.first /\ map_heap.last = BrkHeap.last
            /\ map_stack.first = Stack.first /\ map_stack.last = Stack.last
        BY ONLY SMT, SMTT(60) DEF map_pool, map_heap, map_stack, Task
      <4> QED BY <3>1, <4>1, Zenon DEF RangeOf, Pages
    <3>3. /\ n + 2 \in 1 .. Len(Plan) /\ n + 3 \in 1 .. Len(Plan) /\ n + 4 \in 1 .. Len(Plan)
          /\ n + 2 > n + 1 /\ n + 3 > n + 1 /\ n + 4 > n + 1
      BY <2>1, SMT, SMTT(60)
    <3> HIDE DEF n
    <3> QED BY <3>2, <3>3 DEF n
  <2>3. p \notin Pages(KernelHeap)
    <3>1. PICK r \in {Pool, BrkHeap, Stack} : p \in Pages(r)
      BY SMT, SMTT(60)
    <3>2. r.first \in Nat /\ r.last \in Nat /\ KernelHeap.first \in Nat /\ KernelHeap.last \in Nat
      BY ElfLoaderAssumption, SMT, SMTT(60) DEF PageRange
    <3>3. r.last < KernelHeap.first
      BY LayoutAssumption, SMT, SMTT(60)
    <3> QED BY <3>1, <3>2, <3>3, SMT, SMTT(60) DEF Pages
  <2>4. PICK j \in 2 .. k : Owner(p, j) /\ pt[p].flags = Plan[j].flags /\ j \in 1 .. task
    BY <2>2, <2>3, NotTheKernels, Zenon
  <2>5. j > Len(prog.headers) + 1
    <3>1. SUFFICES ASSUME j \in 2 .. Len(prog.headers) + 1 PROVE FALSE
      BY <2>1, SMT, SMTT(60)
    <3>2. j - 1 \in Loadable /\ p \in SegmentPages(j - 1)
      BY <2>1, <2>4, <3>1, EmptySegment, SMT, SMTT(60) DEF Owner
    <3> QED BY <3>2, SMT, SMTT(60) DEF ImagePages
  <2>6. j \in 1 .. Len(Plan)
    BY <2>1, <2>2, SMT, SMTT(60)
  <2>7. pt[p].flags = {"U", "W", "NX"}
    BY <2>1, <2>4, <2>5, <2>6, ZeroTasks, SMT, SMTT(60)
  <2>8. p \in DOMAIN pt /\ pt[p].flags \cap {"W", "U"} \subseteq tables[TableOf(p)].flags
    BY <2>2, <2>3, NotTheKernels, Zenon
  <2>9. \A o \in Offsets : mem[pt[p].frame][o] = Fresh(p, o)
    BY <2>4, <2>5, <2>8, Zenon DEF RInv, Zeroed
  <2> QED BY <2>7, <2>8, <2>9, Zenon DEF Allows, Executable
<1> QED BY <1>1, LoaderRights, PTL

-----------------------------------------------------------------------------
\* What is in the pages of the image while it is being copied.

\* The programs that the loader is written for: no segment longer in the file than in
\* memory, no two segments with a byte in common, and none on a page that the boot loader
\* or the kernel's heap has taken.
Conforming ==
  /\ \A i \in Loadable : prog.headers[i].filesz <= prog.headers[i].memsz
  /\ \A i, j \in Loadable :
       i # j => \/ prog.headers[i].vaddr + prog.headers[i].memsz <= prog.headers[j].vaddr
                \/ prog.headers[j].vaddr + prog.headers[j].memsz <= prog.headers[i].vaddr
  /\ ImagePages \cap (BootPages \cup Pages(KernelHeap)) = {}

Address(i, k) == base_addr + prog.headers[i].vaddr + k

\* The number of bytes of a segment that have been copied so far.
Done(i) ==
  IF i + 1 < task THEN prog.headers[i].filesz
  ELSE IF i + 1 = task /\ phase = "copy" THEN copied ELSE 0

Holds(i, k) ==
  PageOf(Address(i, k)) \in DOMAIN pt =>
    UserByte(Address(i, k)) = IF k < Done(i) THEN prog.headers[i].offset + k ELSE ZERO

\* The mapped part of a segment holds the bytes copied so far, and zeros.
Content ==
  /\ phase = "copy" => copied <= Segment.filesz
  /\ phase # "panicked" => \A i \in Loadable : \A k \in 0 .. prog.headers[i].memsz - 1 : Holds(i, k)

CInv == Conforming => Content

\* Two addresses on one page, and how far a page reaches.
LEMMA SamePage ==
  ASSUME NEW n \in Nat \ {0}, NEW a \in Nat, NEW c \in Nat
  PROVE  /\ a \div n = c \div n => a - c = (a % n) - (c % n)
         /\ c <= a /\ a - c < n - (c % n) => a \div n = c \div n
<1> DEFINE p == a \div n
           q == c \div n
           r == a % n
           s == c % n
<1>1. p \in Nat /\ q \in Nat /\ r \in 0 .. n - 1 /\ s \in 0 .. n - 1
  BY DivMod, Zenon
<1>2. a = n * p + r /\ c = n * q + s
  BY SMT, SMTT(60)
<1> HIDE DEF p, q, r, s
<1>3. p = q => a - c = r - s
  <2>1. n * p \in Nat /\ n * q \in Nat
    BY <1>1
  <2>2. p = q => n * p = n * q
    OBVIOUS
  <2> QED BY <1>1, <1>2, <2>1, <2>2
<1>4. ASSUME c <= a, a - c < n - s PROVE p = q
  <2>1. q <= p
    BY <1>4, DivMonotone DEF p, q
  <2>2. SUFFICES ASSUME p >= q + 1 PROVE FALSE
    BY <1>1, <2>1
  <2>3. PICK k \in Nat : p = q + 1 + k
    <3>1. p - q - 1 \in Nat /\ p = q + 1 + (p - q - 1)
      BY <1>1, <2>2, SMT, SMTT(60)
    <3> QED BY <3>1, SMT, SMTT(60)
  <2>4. n * p = n * q + n + n * k
    BY <1>1, <2>3
  <2>5. n * k \in Nat /\ n * q \in Nat
    BY <1>1, <2>3, SMT, SMTT(60)
  <2> QED BY <1>1, <1>2, <1>4, <2>4, <2>5, SMT, SMTT(60)
<1> QED BY <1>3, <1>4 DEF p, q, r, s

\* The addresses of a segment are in its pages.
LEMMA SegmentBytes ==
  ASSUME prog \in Programs, NEW i \in Loadable
  PROVE  /\ i \in Nat /\ prog.headers[i].vaddr \in Nat /\ prog.headers[i].memsz \in Nat
         /\ prog.headers[i].filesz \in Nat /\ prog.headers[i].offset \in Nat
         /\ base_addr \in Nat
         /\ load_segment(i).first <= load_segment(i).last
         /\ \A k \in 0 .. prog.headers[i].memsz - 1 :
              /\ k \in Nat /\ Address(i, k) \in Nat /\ PageOf(Address(i, k)) \in Nat
              /\ PageOf(Address(i, k)) \in SegmentPages(i)
<1> DEFINE ph == prog.headers[i]
<1>1. i \in 1 .. Len(prog.headers) /\ ph.load /\ ph.memsz # 0 /\ i \in Nat
  BY PlanTasks, SMT, SMTT(60) DEF Loadable
<1>2. ph \in Header /\ base_addr \in Nat /\ PAGE_SIZE \in Nat \ {0}
  BY <1>1, ElfLoaderAssumption, SMT, SMTT(60) DEF base_addr
<1>3. ph.vaddr \in Nat /\ ph.memsz \in Nat /\ ph.filesz \in Nat /\ ph.offset \in Nat
  BY <1>2, SMT, SMTT(60) DEF Header
<1>4. /\ load_segment(i).first = PageOf(base_addr + ph.vaddr)
      /\ load_segment(i).last = PageOf(base_addr + ph.vaddr + ph.memsz - 1)
      /\ SegmentPages(i) = PageOf(base_addr + ph.vaddr) .. PageOf(base_addr + ph.vaddr + ph.memsz - 1)
  BY <1>1, Zenon DEF load_segment, Task, SegmentRange, SegmentPages, Pages
<1>5. \A k \in 0 .. ph.memsz - 1 : Address(i, k) = base_addr + ph.vaddr + k
  BY DEF Address
<1> HIDE DEF ph
<1> DEFINE v == base_addr + ph.vaddr
<1>6. v \in Nat /\ v + ph.memsz - 1 \in Nat /\ v <= v + ph.memsz - 1
  BY <1>1, <1>2, <1>3, SMT, SMTT(60)
<1>7. ASSUME NEW k \in 0 .. ph.memsz - 1
      PROVE  /\ v + k \in Nat /\ PageOf(v + k) \in Nat
             /\ PageOf(v) <= PageOf(v + k) /\ PageOf(v + k) <= PageOf(v + ph.memsz - 1)
             /\ PageOf(v) \in Nat /\ PageOf(v + ph.memsz - 1) \in Nat
  <2>1. v + k \in Nat /\ v <= v + k /\ v + k <= v + ph.memsz - 1
    BY <1>3, <1>6
  <2> HIDE DEF v
  <2> QED BY <1>2, <1>6, <2>1, DivMod, DivMonotone, Zenon DEF PageOf
<1>8. 0 \in 0 .. ph.memsz - 1 /\ v + 0 = v
  BY <1>1, <1>3, <1>6, SMT, SMTT(60)
<1>9. load_segment(i).first <= load_segment(i).last
  <2>1. PageOf(v) <= PageOf(v + ph.memsz - 1)
    BY <1>2, <1>6, DivMonotone, Zenon DEF PageOf
  <2> QED BY <1>4, <2>1
<1>10. \A k \in 0 .. ph.memsz - 1 :
         Address(i, k) \in Nat /\ PageOf(Address(i, k)) \in Nat /\ PageOf(Address(i, k)) \in SegmentPages(i)
  <2> SUFFICES ASSUME NEW k \in 0 .. ph.memsz - 1
               PROVE  /\ Address(i, k) \in Nat /\ PageOf(Address(i, k)) \in Nat
                      /\ PageOf(Address(i, k)) \in SegmentPages(i)
    OBVIOUS
  <2>1. Address(i, k) = v + k
    BY <1>5, SMT, SMTT(60)
  <2> HIDE DEF v
  <2>2. PageOf(v + k) \in PageOf(v) .. PageOf(v + ph.memsz - 1)
    BY <1>7, SMT, SMTT(60)
  <2> QED BY <1>4, <1>7, <2>1, <2>2 DEF v
<1> QED BY <1>1, <1>2, <1>3, <1>9, <1>10, SMT, SMTT(60) DEF ph

\* The program, and with it which bytes it has where, stays what it is.
LEMMA ImageFixed ==
  ASSUME prog' = prog
  PROVE  /\ Loadable' = Loadable /\ base_addr' = base_addr
         /\ \A i, k : Address(i, k)' = Address(i, k)
         /\ Conforming' <=> Conforming
<1>1. base_addr' = base_addr
  BY DEF base_addr
<1>2. Loadable' = Loadable /\ ImagePages' = ImagePages
  BY <1>1, Zenon DEF Loadable, ImagePages, SegmentPages, SegmentRange
<1> QED BY <1>1, <1>2, Zenon DEF Address, Conforming

LEMMA ImageInit ==
  ASSUME Init
  PROVE  CInv
<1>1. DOMAIN pt = BootPages /\ phase = "map" /\ prog \in Programs
  BY Zenon DEF Init
<1>2. ASSUME Conforming, NEW i \in Loadable, NEW k \in 0 .. prog.headers[i].memsz - 1 PROVE Holds(i, k)
  <2>1. PageOf(Address(i, k)) \in SegmentPages(i)
    BY <1>1, SegmentBytes, SMT, SMTT(60)
  <2>2. PageOf(Address(i, k)) \notin BootPages
    BY <1>2, <2>1, SMT, SMTT(60) DEF Conforming, ImagePages
  <2> QED BY <1>1, <2>2, Zenon DEF Holds
<1> QED BY <1>1, <1>2, Zenon DEF CInv, Content

\* The steps that change neither the pages nor what is in them.
LEMMA ImageKept ==
  ASSUME Content, UNCHANGED <<prog, pt, mem>>, phase # "panicked",
         phase' = "copy" => copied' <= prog.headers[Plan[task'].header].filesz,
         phase' # "panicked" => \A i \in Loadable : Done(i)' = Done(i)
  PROVE  Content'
<1>1. Plan' = Plan
  BY PlanFixed, Zenon
<1>2. Loadable' = Loadable /\ \A i, k : Address(i, k)' = Address(i, k)
  BY ImageFixed
<1>3. Segment' = prog.headers[Plan[task'].header]
  BY <1>1, Zenon DEF Segment, T
<1>4. ASSUME phase' # "panicked", NEW i \in Loadable, NEW k \in 0 .. prog.headers[i].memsz - 1
      PROVE  Holds(i, k)'
  <2>1. Holds(i, k) /\ Done(i)' = Done(i)
    BY <1>4, Zenon DEF Content
  <2>2. UserByte(Address(i, k))' = UserByte(Address(i, k))
    BY <1>2 DEF UserByte, PageOf
  <2> QED BY <1>2, <2>1, <2>2, Zenon DEF Holds, PageOf
<1> QED BY <1>2, <1>3, <1>4, Zenon DEF Content

\* The control of the loops: a segment counts as copied when its last byte is.
LEMMA ImageLoops ==
  ASSUME IInv, RInv, Conforming, Content,
         \/ page_skipped \/ range_mapped \/ segment_copied \/ page_missing
         \/ enter_userspace \/ UNCHANGED vars
  PROVE  Content'
<1>1. prog \in Programs /\ task \in 1 .. Len(Plan) /\ task \in Nat /\ copied \in Nat /\ Len(Plan) \in Nat
  BY PlanTasks, SMT, SMTT(60) DEF IInv, TypeOK
<1>2. UNCHANGED <<prog, pt, mem>>
  BY Zenon DEF page_skipped, range_mapped, segment_copied, page_missing, enter_userspace, panic,
         space, vars
<1>3. \A i \in Loadable : i \in 1 .. Len(prog.headers) /\ i \in Nat /\ i + 1 < Len(Plan)
                          /\ Plan[i + 1] = load_segment(i) /\ prog.headers[i].filesz \in Nat
  BY <1>1, PlanTasks, SegmentBytes, SMT, SMTT(60) DEF Loadable
<1>4. phase = "copy" => copied <= prog.headers[Plan[task].header].filesz
  BY Zenon DEF Content, Segment, T
<1>5. \A i \in Loadable : i + 1 = task => T = load_segment(i) /\ T.header = i
  BY <1>3, SMT, SMTT(60) DEF T, load_segment, Task
<1>6. \A i \in Loadable : Done(i)' = IF i + 1 < task' THEN prog.headers[i].filesz
                                     ELSE IF i + 1 = task' /\ phase' = "copy" THEN copied' ELSE 0
  BY <1>2 DEF Done
<1>7. CASE page_skipped \/ UNCHANGED vars
  <2>1. UNCHANGED <<phase, task, copied>>
    BY <1>7, SMT, SMTT(60) DEF page_skipped, vars
  <2>2. \A i \in Loadable : Done(i)' = Done(i)
    BY <1>6, <2>1 DEF Done
  <2>3. CASE phase = "panicked"
    BY <2>1, <2>3, Zenon DEF Content
  <2>4. CASE phase # "panicked"
    BY <1>2, <1>4, <2>1, <2>2, <2>4, ImageKept, Zenon
  <2> QED BY <2>3, <2>4, SMT, SMTT(60)
<1>8. CASE page_missing
  <2>1. phase = "copy" /\ phase' = "panicked"
    BY <1>8, SMT, SMTT(60) DEF page_missing, panic, Copying
  <2> QED BY <1>2, <2>1, ImageKept, SMT, SMTT(60)
<1>9. CASE enter_userspace
  <2>1. phase # "copy" /\ phase' # "copy" /\ task' = task /\ phase # "panicked"
    BY <1>9, SMT, SMTT(60) DEF enter_userspace
  <2>2. \A i \in Loadable : Done(i)' = Done(i)
    BY <1>6, <2>1, SMT, SMTT(60) DEF Done
  <2> QED BY <1>2, <2>1, <2>2, ImageKept, SMT, SMTT(60)
<1>10. CASE segment_copied
  <2>1. phase = "copy" /\ copied >= prog.headers[Plan[task].header].filesz /\ phase' = "map"
        /\ task' = task + 1
    BY <1>10 DEF segment_copied, Segment, T, NextTask
  <2>2. ASSUME NEW i \in Loadable PROVE Done(i)' = Done(i)
    <3>1. CASE i + 1 = task
      <4>1. Plan[task].header = i
        BY <1>5, <3>1, SMT, SMTT(60) DEF T
      <4>2. copied = prog.headers[i].filesz
        BY <1>1, <1>3, <1>4, <2>1, <4>1, SMT, SMTT(60)
      <4>3. i + 1 < task' /\ ~(i + 1 < task)
        BY <1>1, <1>3, <2>1, <3>1, SMT, SMTT(60)
      <4> QED BY <1>6, <2>1, <3>1, <4>2, <4>3, SMT, SMTT(60) DEF Done
    <3>2. CASE i + 1 # task
      <4>1. i + 1 < task' <=> i + 1 < task
        BY <1>1, <1>3, <2>1, <3>2, SMT, SMTT(60)
      <4> QED BY <1>6, <2>1, <3>2, <4>1, SMT, SMTT(60) DEF Done
    <3> QED BY <3>1, <3>2, SMT, SMTT(60)
  <2> QED BY <1>2, <2>1, <2>2, ImageKept, SMT, SMTT(60)
<1>11. CASE range_mapped
  <2>1. phase = "map" /\ copied' = 0
    BY <1>11 DEF range_mapped
  <2>2. CASE phase' = "copy" /\ task' = task /\ T.header # 0
    <3>1. T.header \in 1 .. Len(prog.headers)
      BY <1>1, <2>2, HeaderTask DEF T
    <3>2. prog.headers[T.header] \in Header
      BY <1>1, <3>1, ElfLoaderAssumption, SMT, SMTT(60)
    <3>3. copied' <= prog.headers[Plan[task'].header].filesz
      BY <2>1, <2>2, <3>2, SMT, SMTT(60) DEF Header, T
    <3>4. \A i \in Loadable : Done(i)' = Done(i)
      BY <1>6, <2>1, <2>2, SMT, SMTT(60) DEF Done
    <3> QED BY <1>2, <2>1, <3>3, <3>4, ImageKept, Zenon
  <2>3. CASE ~(T.header # 0 /\ T.first <= T.last /\ Segment.filesz > 0) /\ NextTask
    <3>1. phase' = "map" /\ task' = task + 1
      BY <2>3, SMT, SMTT(60) DEF NextTask
    <3>2. ASSUME NEW i \in Loadable PROVE Done(i)' = Done(i)
      <4>1. CASE i + 1 = task
        <5>1. T.header = i /\ T.first <= T.last /\ i # 0
          BY <1>1, <1>3, <1>5, <4>1, SegmentBytes, SMT, SMTT(60)
        <5>2. prog.headers[i].filesz = 0
          BY <1>3, <2>3, <5>1 DEF Segment
        <5>3. i + 1 < task' /\ ~(i + 1 < task)
          BY <1>1, <1>3, <3>1, <4>1, SMT, SMTT(60)
        <5> QED BY <1>6, <2>1, <5>2, <5>3, SMT, SMTT(60) DEF Done
      <4>2. CASE i + 1 # task
        <5>1. i + 1 < task' <=> i + 1 < task
          BY <1>1, <1>3, <3>1, <4>2, SMT, SMTT(60)
        <5> QED BY <1>6, <2>1, <3>1, <5>1, SMT, SMTT(60) DEF Done
      <4> QED BY <4>1, <4>2
    <3> QED BY <1>2, <2>1, <3>1, <3>2, ImageKept
  <2>4. CASE phase' = "arguments" /\ task' = task
    <3>1. \A i \in Loadable : Done(i)' = Done(i)
      BY <1>6, <2>1, <2>4 DEF Done
    <3> QED BY <1>2, <2>1, <2>4, <3>1, ImageKept, SMT, SMTT(60)
  <2> QED BY <1>11, <2>2, <2>3, <2>4, SMT, SMTT(60) DEF range_mapped
<1> QED BY <1>7, <1>8, <1>9, <1>10, <1>11, SMT, SMTT(60)

LEMMA ImagePanics ==
  ASSUME Content, out_of_frames \/ already_mapped
  PROVE  Content'
<1>1. UNCHANGED <<prog, pt, mem>> /\ phase = "map" /\ phase' = "panicked"
  BY SMT, SMTT(60) DEF out_of_frames, already_mapped, panic, Wanted, Mapping
<1> QED BY <1>1, ImageKept

\* A new page of the image is all zeros, and nothing of it has been copied yet.
LEMMA ImageMap ==
  ASSUME IInv, RInv, Conforming, Content, map_page
  PROVE  Content'
<1> DEFINE f == Min(free)
<1>1. /\ UNCHANGED <<prog, phase, task, copied>> /\ phase = "map" /\ page <= T.last
      /\ page \notin DOMAIN pt /\ TakeFrames
      /\ pt' = Put(pt, page, [frame |-> f, flags |-> T.flags])
      /\ mem' = IF T.zero THEN [mem EXCEPT ![f] = [o \in Offsets |-> ZERO]] ELSE mem
  BY Zenon DEF map_page, Wanted, Mapping
<1>2. prog \in Programs /\ task \in 1 .. Len(Plan) /\ page \in Nat /\ page >= T.first /\ task \in Nat
      /\ Len(Plan) \in Nat /\ Len(prog.headers) \in Nat /\ Len(Plan) = Len(prog.headers) + 4
  BY <1>1, PlanTasks, SMT, SMTT(60) DEF IInv, TypeOK, Control
<1>3. T.first \in Nat /\ T.last \in Nat /\ T = Plan[task]
  BY <1>2, TaskShape, Zenon DEF T
<1>4. f \in free /\ f \in DOMAIN mem
  BY <1>1, Taken, Zenon DEF IInv, TypeOK
<1> HIDE DEF f
<1>5. /\ page \in DOMAIN pt' /\ pt'[page].frame = f
      /\ \A p \in DOMAIN pt' : p # page => p \in DOMAIN pt /\ pt'[p] = pt[p]
  BY <1>1, SMT, SMTT(60) DEF Put
<1>6. Loadable' = Loadable /\ base_addr' = base_addr /\ \A i, k : Address(i, k)' = Address(i, k)
  BY <1>1, ImageFixed, SMT, SMTT(60)
<1>7. SUFFICES ASSUME NEW i \in Loadable, NEW k \in 0 .. prog.headers[i].memsz - 1 PROVE Holds(i, k)'
  BY <1>1, <1>6 DEF Content
<1> DEFINE a == Address(i, k)
           p == PageOf(a)
<1>8. a \in Nat /\ p \in SegmentPages(i) /\ a % PAGE_SIZE \in Offsets
  BY <1>2, SegmentBytes, DivMod, ElfLoaderAssumption, ZenonT(40) DEF Offsets
<1>9. i \in Nat /\ i + 1 \in 1 .. Len(Plan) /\ RangeOf(i + 1) = SegmentPages(i)
  BY <1>2, SegmentOwner, SegmentBytes, Zenon
<1>10. Done(i)' = Done(i)
  BY <1>1, Zenon DEF Done
<1>11. Holds(i, k)' <=> (p \in DOMAIN pt' => mem'[pt'[p].frame][a % PAGE_SIZE] =
                           IF k < Done(i)' THEN prog.headers[i].offset + k ELSE ZERO)
  BY <1>1, <1>6, Zenon DEF Holds, UserByte, PageOf
<1>12. Holds(i, k) <=> (p \in DOMAIN pt => mem[pt[p].frame][a % PAGE_SIZE] =
                           IF k < Done(i) THEN prog.headers[i].offset + k ELSE ZERO)
  BY SMT, SMTT(60) DEF Holds, UserByte
<1> HIDE DEF a, p
<1>13. CASE p = page
  <2>1. task # 1
    <3>1. SUFFICES ASSUME task = 1 PROVE FALSE
      BY SMT, SMTT(60)
    <3>2. T = init_heap
      BY <1>2, <1>3, <3>1, PlanTasks, SMT, SMTT(60)
    <3>3. page \in Pages(KernelHeap)
      <4>1. T.first = KernelHeap.first /\ T.last = KernelHeap.last
        BY <3>2 DEF init_heap, Task
      <4> QED BY <1>1, <1>2, <1>3, <4>1, SMT, SMTT(60) DEF Pages
    <3> QED BY <1>8, <1>13, <3>3, SMT, SMTT(60) DEF Conforming, ImagePages
  <2>2. T.zero
    <3>1. CASE task > Len(prog.headers) + 1
      BY <1>2, <1>3, <3>1, ZeroTasks, SMT, SMTT(60)
    <3>2. CASE task <= Len(prog.headers) + 1
      <4>1. task - 1 \in 1 .. Len(prog.headers) /\ (task - 1) + 1 = task
        BY <1>2, <2>1, <3>2, SMT, SMTT(60)
      <4>2. T = load_segment(task - 1)
        BY <1>2, <1>3, <4>1, PlanTasks, SMT, SMTT(60)
      <4> QED BY <1>2, <4>1, <4>2, SegmentTask, SMT, SMTT(60)
    <3> QED BY <1>2, <3>1, <3>2, SMT, SMTT(60)
  <2>3. mem'[f][a % PAGE_SIZE] = ZERO
    BY <1>1, <1>4, <1>8, <2>2, SMT, SMTT(60)
  <2>4. ~(i + 1 < task)
    <3>1. SUFFICES ASSUME i + 1 < task PROVE FALSE
      BY SMT, SMTT(60)
    <3>2. i + 1 \in 1 .. task
      BY <1>2, <1>9, <3>1
    <3>3. RangeOf(i + 1) \subseteq DOMAIN pt
      BY <3>1, <3>2, Zenon DEF RInv, AllPassed
    <3> QED BY <1>1, <1>8, <1>9, <1>13, <3>3
  <2>5. Done(i) = 0
    BY <1>1, <2>4, SMT, SMTT(60) DEF Done
  <2>6. ~(k < Done(i)')
    BY <1>2, <1>10, <2>5, SegmentBytes, SMT, SMTT(60)
  <2> QED BY <1>5, <1>11, <1>13, <2>3, <2>6, SMT, SMTT(60)
<1>14. CASE p # page
  <2>1. SUFFICES ASSUME p \in DOMAIN pt'
                 PROVE  mem'[pt'[p].frame][a % PAGE_SIZE] =
                          IF k < Done(i)' THEN prog.headers[i].offset + k ELSE ZERO
    BY <1>11, SMT, SMTT(60)
  <2>2. p \in DOMAIN pt /\ pt'[p] = pt[p] /\ pt[p].frame # f /\ pt[p].frame \in DOMAIN mem
    BY <1>4, <1>5, <1>14, <2>1, SMT, SMTT(60) DEF IInv, TypeOK, FramesExclusive
  <2>3. mem'[pt[p].frame] = mem[pt[p].frame]
    BY <1>1, <2>2, SMT, SMTT(60)
  <2>4. Holds(i, k)
    BY <1>1, SMT, SMTT(60) DEF Content
  <2> QED BY <1>10, <1>12, <2>2, <2>3, <2>4, Zenon
<1> QED BY <1>13, <1>14

\* copy_page writes the next bytes of its segment, and no byte of another segment or of
\* what was copied before, also on a page that two segments share.
LEMMA ImageCopy ==
  ASSUME IInv, RInv, Conforming, Content, copy_page
  PROVE  Content'
<1> DEFINE cur == current_vaddr
           po == cur % PAGE_SIZE
           n == Min({PAGE_SIZE - po, Segment.filesz - copied})
           g == pt[PageOf(cur)].frame
           Byte(o) == Segment.offset + copied + (o - po)
           Piece == po .. po + n - 1
           i0 == T.header
<1>1. /\ UNCHANGED <<prog, pt, phase, task>> /\ phase = "copy"
      /\ copied < Segment.filesz /\ PageOf(cur) \in DOMAIN pt
      /\ mem' = [mem EXCEPT ![g] = [o \in Offsets |-> IF o \in Piece THEN Byte(o) ELSE @[o]]]
      /\ copied' = copied + n
  BY SMT, SMTT(60) DEF copy_page, Copying
<1>2. prog \in Programs /\ task \in 1 .. Len(Plan) /\ copied \in Nat /\ T.header # 0
      /\ T.first <= T.last /\ task \in Nat
  BY <1>1, PlanTasks DEF IInv, TypeOK, Control
<1>3. i0 \in 1 .. Len(prog.headers) /\ T = load_segment(i0)
  BY <1>2, HeaderTask DEF T
<1>4. i0 \in Loadable
  <2>1. SUFFICES ASSUME ~(prog.headers[i0].load /\ prog.headers[i0].memsz # 0) PROVE FALSE
    BY <1>3, SMT, SMTT(60) DEF Loadable
  <2>2. SegmentRange(prog.headers[i0]).first = 1 /\ SegmentRange(prog.headers[i0]).last = 0
    BY <2>1, SMT, SMTT(60) DEF SegmentRange
  <2>3. load_segment(i0).first = 1 /\ load_segment(i0).last = 0
    BY <2>2 DEF load_segment, Task
  <2> QED BY <1>2, <1>3, <2>3
<1>5. i0 + 1 = task
  <2>1. task <= Len(prog.headers) + 1 /\ Len(prog.headers) \in Nat
    BY <1>2, SegmentsFirst, PlanTasks DEF T
  <2>2. task # 1
    <3>1. Plan[1].header = 0
      BY <1>2, PlanTasks DEF init_heap, Task
    <3> QED BY <1>2, <3>1 DEF T
  <2>3. task - 1 \in 1 .. Len(prog.headers) /\ (task - 1) + 1 = task
    BY <1>2, <2>1, <2>2
  <2>4. T = load_segment(task - 1)
    BY <1>2, <2>3, PlanTasks, SMT, SMTT(60) DEF T
  <2>5. i0 = task - 1
    BY <2>4, SMT, SMTT(60) DEF load_segment, Task
  <2> QED BY <2>3, <2>5, SMT, SMTT(60)
<1>6. /\ Segment = prog.headers[i0] /\ cur = base_addr + Segment.vaddr + copied
      /\ Segment.vaddr \in Nat /\ Segment.memsz \in Nat /\ Segment.filesz \in Nat
      /\ Segment.offset \in Nat /\ base_addr \in Nat /\ Segment.filesz <= Segment.memsz
  <2>1. Segment = prog.headers[i0]
    BY SMT, SMTT(60) DEF Segment
  <2>2. Segment.filesz <= Segment.memsz
    BY <1>4, <2>1 DEF Conforming
  <2> QED BY <1>2, <1>4, <2>1, <2>2, SegmentBytes, SMT, SMTT(60) DEF current_vaddr
<1> HIDE DEF cur, i0
<1>7. cur \in Nat /\ PAGE_SIZE \in Nat \ {0}
  <2>1. cur \in Nat
    BY <1>2, <1>6, SMT, SMTT(60)
  <2> QED BY <2>1, ElfLoaderAssumption
<1>8. po \in 0 .. PAGE_SIZE - 1
  BY <1>7, DivMod
<1> HIDE DEF po
<1>9. n \in Nat /\ n <= PAGE_SIZE - po /\ n <= Segment.filesz - copied
  <2>1. PAGE_SIZE - po \in Nat
    BY <1>7, <1>8
  <2>2. Segment.filesz - copied \in Nat
    BY <1>1, <1>2, <1>6, SMT, SMTT(60)
  <2> QED BY <2>1, <2>2, Lesser
<1> HIDE DEF n
<1>10. g \in DOMAIN mem /\ mem \in [DOMAIN mem -> [Offsets -> Int]]
  BY <1>1 DEF IInv, TypeOK
<1>11. /\ \A o \in Offsets : mem'[g][o] = IF o \in Piece THEN Byte(o) ELSE mem[g][o]
       /\ \A h \in DOMAIN mem : h # g => mem'[h] = mem[h]
  <2> HIDE DEF g, Piece, Byte
  <2> QED BY <1>1, <1>10
<1>12. copied' <= Segment.filesz /\ copied' \in Nat /\ copied <= copied'
  BY <1>1, <1>2, <1>6, <1>9, SMT, SMTT(60)
<1>13. Loadable' = Loadable /\ base_addr' = base_addr /\ \A i, k : Address(i, k)' = Address(i, k)
  BY <1>1, ImageFixed
<1>14. Segment' = Segment
  BY <1>1, PlanFixed, SMT, SMTT(60) DEF Segment, T
<1>15. SUFFICES ASSUME NEW i \in Loadable, NEW k \in 0 .. prog.headers[i].memsz - 1 PROVE Holds(i, k)'
  BY <1>1, <1>12, <1>13, <1>14, SMT, SMTT(60) DEF Content
<1> DEFINE ph == prog.headers[i]
           a == Address(i, k)
           p == PageOf(a)
           o == a % PAGE_SIZE
<1>16. a \in Nat /\ o \in Offsets /\ a = base_addr + ph.vaddr + k /\ ph.vaddr \in Nat
       /\ ph.memsz \in Nat /\ i \in Nat /\ k \in Nat
  <2>1. a \in Nat /\ k \in Nat
    BY <1>2, SegmentBytes, Zenon
  <2>2. o \in Offsets
    <3> HIDE DEF a
    <3> QED BY <1>7, <2>1, DivMod, SMT, SMTT(60) DEF Offsets
  <2> QED BY <1>2, <2>1, <2>2, SegmentBytes, Zenon DEF Address
<1>17. Holds(i, k)' <=> (p \in DOMAIN pt => mem'[pt[p].frame][o] =
                           IF k < Done(i)' THEN ph.offset + k ELSE ZERO)
  BY <1>1, <1>13, Zenon DEF Holds, UserByte, PageOf
<1>18. Holds(i, k) <=> (p \in DOMAIN pt => mem[pt[p].frame][o] =
                           IF k < Done(i) THEN ph.offset + k ELSE ZERO)
  BY SMT, SMTT(60) DEF Holds, UserByte
<1>19. Holds(i, k)
  BY <1>1, SMT, SMTT(60) DEF Content
<1>20. /\ i = i0 => Done(i) = copied /\ Done(i)' = copied'
       /\ i # i0 => Done(i)' = Done(i)
  <2>1. i = i0 => ~(i + 1 < task) /\ i + 1 = task
    BY <1>2, <1>5, SMT, SMTT(60)
  <2>2. i # i0 => i + 1 # task
    BY <1>2, <1>3, <1>5, <1>16, SMT, SMTT(60)
  <2>3. Done(i)' = IF i + 1 < task THEN prog.headers[i].filesz
                   ELSE IF i + 1 = task /\ phase = "copy" THEN copied' ELSE 0
    BY <1>1 DEF Done
  <2> QED BY <1>1, <2>1, <2>2, <2>3, SMT, SMTT(60) DEF Done
<1>21. p = PageOf(cur) => a - cur = o - po
  BY <1>7, <1>16, SamePage, Zenon DEF PageOf, po
<1>22. cur <= a /\ a - cur < PAGE_SIZE - po => p = PageOf(cur)
  BY <1>7, <1>16, SamePage, Zenon DEF PageOf, po
<1> HIDE DEF a, o, p
<1>23. CASE p = PageOf(cur) /\ o \in Piece
  <2>1. /\ a - cur = o - po /\ o - po \in 0 .. n - 1 /\ o \in Nat
    BY <1>7, <1>8, <1>9, <1>16, <1>21, <1>23, SMT, SMTT(60) DEF Offsets
  <2>2. /\ a >= base_addr + Segment.vaddr + copied /\ a < base_addr + Segment.vaddr + copied + n
    <3>1. a - cur \in 0 .. n - 1
      BY <2>1, SMT, SMTT(60)
    <3>2. a \in Nat /\ cur \in Nat /\ n \in Nat
      BY <1>7, <1>9, <1>16, SMT, SMTT(60)
    <3>3. a >= cur /\ a < cur + n
      BY ONLY <3>1, <3>2, SMT, SMTT(60)
    <3> QED BY <1>6, <3>3
  <2>3. i = i0
    <3>1. a >= base_addr + Segment.vaddr /\ a < base_addr + Segment.vaddr + Segment.memsz
      <4>1. /\ Segment.vaddr \in Nat /\ Segment.memsz \in Nat /\ Segment.filesz \in Nat
            /\ base_addr \in Nat /\ Segment.filesz <= Segment.memsz /\ copied \in Nat /\ n \in Nat
            /\ n <= Segment.filesz - copied /\ a \in Nat
        BY <1>2, <1>6, <1>9, <1>16, SMT, SMTT(60)
      <4> QED BY ONLY <2>2, <4>1, SMT, SMTT(60)
    <3>2. a >= base_addr + ph.vaddr /\ a < base_addr + ph.vaddr + ph.memsz
      BY <1>6, <1>16
    <3>3. SUFFICES ASSUME i # i0 PROVE FALSE
      BY SMT, SMTT(60)
    <3>4. ph.vaddr + ph.memsz <= Segment.vaddr \/ Segment.vaddr + Segment.memsz <= ph.vaddr
      BY <1>4, <1>6, <3>3, SMT, SMTT(60) DEF Conforming
    <3> HIDE DEF ph
    <3> QED BY <1>6, <1>16, <3>1, <3>2, <3>4, SMT, SMTT(60)
  <2>4. ph = Segment
    BY <1>6, <2>3, SMT, SMTT(60)
  <2> HIDE DEF ph
  <2>5. k = copied + (o - po) /\ k < copied'
    <3>1. a - cur = k - copied
      <4>1. /\ a = base_addr + Segment.vaddr + k /\ cur = base_addr + Segment.vaddr + copied
            /\ base_addr \in Nat /\ Segment.vaddr \in Nat /\ k \in Nat /\ copied \in Nat
        BY <1>2, <1>6, <1>16, <2>4, Zenon
      <4> QED BY ONLY <4>1, SMT, SMTT(60)
    <3>2. k - copied \in 0 .. n - 1 /\ k - copied = o - po
      BY <2>1, <3>1
    <3> QED BY <1>1, <1>2, <1>8, <1>9, <2>1, <3>2, SMT, SMTT(60)
  <2>6. Byte(o) = ph.offset + k
    <3>1. /\ ph.offset = Segment.offset /\ Segment.offset \in Nat /\ copied \in Nat
          /\ po \in 0 .. PAGE_SIZE - 1 /\ PAGE_SIZE \in Nat /\ o \in Nat
      BY <1>2, <1>6, <1>7, <1>8, <2>1, <2>4, Zenon
    <3>2. Segment.offset + copied + (o - po) = Segment.offset + (copied + (o - po))
      BY ONLY <3>1, SMT, SMTT(60)
    <3> QED BY <2>5, <3>1, <3>2, Zenon
  <2>7. mem'[pt[p].frame][o] = Byte(o)
    BY <1>11, <1>16, <1>23, SMT, SMTT(60)
  <2> QED BY <1>17, <1>20, <2>3, <2>5, <2>6, <2>7, SMT, SMTT(60)
<1>24. CASE ~(p = PageOf(cur) /\ o \in Piece)
  <2>1. SUFFICES ASSUME p \in DOMAIN pt
                 PROVE mem'[pt[p].frame][o] = IF k < Done(i)' THEN ph.offset + k ELSE ZERO
    BY <1>17, SMT, SMTT(60)
  <2>2. mem'[pt[p].frame][o] = mem[pt[p].frame][o]
    <3>1. CASE p = PageOf(cur)
      BY <1>11, <1>16, <1>24, <3>1, SMT, SMTT(60)
    <3>2. CASE p # PageOf(cur)
      <4>1. pt[p].frame # g /\ pt[p].frame \in DOMAIN mem
        BY <1>1, <2>1, <3>2, SMT, SMTT(60) DEF IInv, FramesExclusive, TypeOK
      <4> QED BY <1>11, <4>1, SMT, SMTT(60)
    <3> QED BY <3>1, <3>2, SMT, SMTT(60)
  <2>3. k < Done(i)' <=> k < Done(i)
    <3>1. CASE i # i0
      BY <1>20, <3>1, SMT, SMTT(60)
    <3>2. CASE i = i0
      <4>1. SUFFICES ASSUME k < copied', ~(k < copied) PROVE FALSE
        BY <1>2, <1>12, <1>16, <1>20, <3>2, SMT, SMTT(60)
      <4>2. ph = Segment
        BY <1>6, <3>2, SMT, SMTT(60)
      <4> HIDE DEF ph
      <4>3. a - cur = k - copied
        <5>1. /\ a = base_addr + Segment.vaddr + k /\ cur = base_addr + Segment.vaddr + copied
              /\ base_addr \in Nat /\ Segment.vaddr \in Nat /\ k \in Nat /\ copied \in Nat
          BY <1>2, <1>6, <1>16, <4>2, Zenon
        <5> QED BY ONLY <5>1, SMT, SMTT(60)
      <4>4. k - copied \in 0 .. n - 1
        <5>1. k \in Nat /\ copied \in Nat /\ n \in Nat /\ copied' = copied + n
          BY <1>1, <1>2, <1>9, <1>16, Zenon
        <5> QED BY ONLY <4>1, <5>1
      <4>5. cur <= a /\ a - cur < PAGE_SIZE - po
        BY <1>7, <1>8, <1>9, <1>16, <4>3, <4>4, SMT, SMTT(60)
      <4>6. p = PageOf(cur) /\ a - cur = o - po
        BY <1>21, <1>22, <4>5, SMT, SMTT(60)
      <4>7. o - po \in 0 .. n - 1
        BY <4>3, <4>4, <4>6, SMT, SMTT(60)
      <4>8. o \in Piece
        BY <1>7, <1>8, <1>9, <1>16, <4>7 DEF Offsets
      <4> QED BY <1>24, <4>6, <4>8, SMT, SMTT(60)
    <3> QED BY <3>1, <3>2, SMT, SMTT(60)
  <2> QED BY <1>18, <1>19, <2>1, <2>2, <2>3, SMT, SMTT(60)
<1> QED BY <1>23, <1>24, SMT, SMTT(60)

\* The words of setup_user_stack are on the stack's own pages, none of the image's.
LEMMA ImageStack ==
  ASSUME IInv, RInv, StackOwn, Conforming, Content, setup_user_stack
  PROVE  Content'
<1>1. /\ UNCHANGED <<prog, pt, task, copied>> /\ phase = "arguments" /\ phase' = "enter" /\ Loaded
  BY Zenon DEF setup_user_stack, Loaded
<1>2. /\ prog \in Programs /\ task = Len(Plan) /\ Len(prog.headers) \in Nat
      /\ Len(Plan) = Len(prog.headers) + 4 /\ PAGE_SIZE \in Nat \ {0}
  BY <1>1, PlanTasks, ElfLoaderAssumption, Zenon DEF IInv, TypeOK, RInv, AllPassed
<1>3. Loadable' = Loadable /\ \A i, k : Address(i, k)' = Address(i, k)
  BY <1>1, ImageFixed, Zenon
<1>4. SUFFICES ASSUME NEW i \in Loadable, NEW k \in 0 .. prog.headers[i].memsz - 1 PROVE Holds(i, k)'
  BY <1>1, <1>3, Zenon DEF Content
<1> DEFINE a == Address(i, k)
           p == PageOf(a)
           o == a % PAGE_SIZE
<1>5. a \in Nat /\ p \in Nat /\ p \in SegmentPages(i) /\ o \in Offsets /\ p * PAGE_SIZE + o = a
  BY <1>2, SegmentBytes, AddressPage, DivMod, ZenonT(40) DEF Offsets, PageOf
<1>6. i + 1 \in 1 .. Len(Plan) - 1 /\ RangeOf(i + 1) = SegmentPages(i)
  <2>1. i \in 1 .. Len(prog.headers) /\ RangeOf(i + 1) = SegmentPages(i)
    BY <1>2, SegmentOwner, Zenon
  <2> QED BY <1>2, <2>1, SMT, SMTT(60)
<1>7. Done(i)' = Done(i)
  <2>1. phase # "copy" /\ phase' # "copy"
    BY <1>1
  <2> QED BY <1>1, <2>1, Zenon DEF Done
<1>8. Holds(i, k)' <=> (p \in DOMAIN pt => mem'[pt[p].frame][o] =
                          IF k < Done(i) THEN prog.headers[i].offset + k ELSE ZERO)
  BY <1>1, <1>3, <1>7, Zenon DEF Holds, UserByte, PageOf, ZERO
<1>9. Holds(i, k) <=> (p \in DOMAIN pt => mem[pt[p].frame][o] =
                         IF k < Done(i) THEN prog.headers[i].offset + k ELSE ZERO)
  BY Zenon DEF Holds, UserByte
<1>10. Holds(i, k)
  BY <1>1 DEF Content
<1> HIDE DEF a, p, o
<1>11. a - sp \notin Arguments
  <2>1. SUFFICES ASSUME a - sp \in Arguments PROVE FALSE
    BY Zenon
  <2>2. a - sp \in 0 .. 32 * WORD_SIZE - 1 /\ sp + (a - sp) = a
    BY <1>5, <2>1, Reserved, StackAssumption, SMT, SMTT(60)
  <2>3. p \in Pages(Stack)
    BY <2>2, Reserved, Zenon DEF p
  <2>4. RangeOf(task) = Pages(Stack)
    BY <1>2, StackRange, Zenon
  <2>5. Owner(p, task)
    BY <1>1, <1>2, <2>3, <2>4, SMT, SMTT(60) DEF StackOwn
  <2> QED BY <1>2, <1>5, <1>6, <2>5, Zenon DEF Owner
<1>12. p \in DOMAIN pt => mem'[pt[p].frame][o] = mem[pt[p].frame][o]
  <2>1. SUFFICES ASSUME p \in DOMAIN pt PROVE mem'[pt[p].frame][o] = mem[pt[p].frame][o]
    BY Zenon
  <2>2. mem'[pt[p].frame][o] = IF p * PAGE_SIZE + o - sp \in Arguments
                               THEN StackByte(p * PAGE_SIZE + o - sp) ELSE mem[pt[p].frame][o]
    BY <1>5, <2>1, StackBytes, Zenon
  <2>3. p * PAGE_SIZE + o - sp = a - sp
    <3>1. sp \in Nat /\ p * PAGE_SIZE \in Nat /\ o \in Int
      BY <1>2, <1>5, Reserved, SMT, SMTT(60) DEF Offsets
    <3> QED BY <1>5, <3>1, SMT, SMTT(60)
  <2> QED BY <1>11, <2>2, <2>3, Zenon
<1> QED BY <1>8, <1>9, <1>10, <1>12, Zenon

LEMMA ImageNext ==
  ASSUME IInv, RInv, StackOwn, CInv, [Next]_vars
  PROVE  CInv'
<1>1. prog' = prog
  BY Zenon DEF Next, Load, Running, page_skipped, out_of_frames, already_mapped, map_page, range_mapped,
         copy_page, page_missing, segment_copied, setup_user_stack, enter_userspace, panic, vars
<1>2. Conforming' <=> Conforming
  BY <1>1, ImageFixed
<1>3. SUFFICES ASSUME Conforming, Content PROVE Content'
  BY <1>2 DEF CInv
<1>4. Running => UNCHANGED vars
  BY DEF Running
<1> QED BY <1>3, <1>4, ImageLoops, ImagePanics, ImageMap, ImageCopy, ImageStack, Zenon DEF Next, Load

\* When a conforming program starts, its memory is the image that its headers describe.
THEOREM LoaderImageLoaded ==
  Spec => [](Conforming => ImageLoaded)
<1>1. IInv /\ RInv /\ CInv => (Conforming => ImageLoaded)
  <2> SUFFICES ASSUME IInv, RInv, CInv, Conforming, Loaded, NEW i \in Loadable,
                      NEW k \in 0 .. prog.headers[i].memsz - 1
               PROVE  UserByte(base_addr + prog.headers[i].vaddr + k) =
                        IF k < prog.headers[i].filesz THEN prog.headers[i].offset + k ELSE ZERO
    BY SMT, SMTT(60) DEF ImageLoaded
  <2>1. prog \in Programs /\ task = Len(Plan) /\ task \in Nat /\ phase # "panicked"
        /\ Len(prog.headers) \in Nat /\ Len(Plan) = Len(prog.headers) + 4
    BY PlanTasks, SMT, SMTT(60) DEF IInv, TypeOK, RInv, AllPassed, Loaded
  <2>2. i \in 1 .. Len(prog.headers) /\ i + 1 \in 1 .. task /\ RangeOf(i + 1) = SegmentPages(i)
    BY <2>1, SegmentOwner, SMT, SMTT(60)
  <2>3. PageOf(Address(i, k)) \in DOMAIN pt
    <3>1. RangeOf(i + 1) \subseteq DOMAIN pt
      BY <2>2 DEF RInv, AllPassed
    <3> QED BY <2>1, <2>2, <3>1, SegmentBytes, SMT, SMTT(60)
  <2>4. Done(i) = prog.headers[i].filesz
    <3>1. i + 1 < task
      BY <2>1, <2>2, SMT, SMTT(60)
    <3> QED BY <3>1 DEF Done
  <2>5. Holds(i, k)
    BY <2>1 DEF CInv, Content
  <2> QED BY <2>3, <2>4, <2>5, SMT, SMTT(60) DEF Holds, Address
<1>2. Spec => [](IInv /\ RInv /\ CInv)
  BY ImageInit, ImageNext, LoaderStackOwn, PTL DEF Spec
<1> QED BY <1>1, <1>2, PTL

-----------------------------------------------------------------------------
\* What the program reads on its stack.

\* The bytes of the reserved area are those of the words, and zeros after them.
LEMMA StackRead ==
  ASSUME IInv, RInv, StackOwn, phase \in {"enter", "user"}, NEW n \in 0 .. 32 * WORD_SIZE - 1
  PROVE  UserByte(sp + n) = IF n \in Arguments THEN StackByte(n) ELSE ZERO
<1> DEFINE p == PageOf(sp + n)
           o == (sp + n) % PAGE_SIZE
<1>1. Loaded /\ phase # "panicked"
  BY DEF Loaded
<1>2. /\ prog \in Programs /\ task = Len(Plan) /\ Len(prog.headers) \in Nat
      /\ Len(Plan) = Len(prog.headers) + 4
  BY <1>1, PlanTasks, Zenon DEF IInv, TypeOK, RInv, AllPassed
<1>3. /\ sp \in Nat /\ p \in Nat /\ p \in Pages(Stack) /\ o \in Offsets
      /\ p * PAGE_SIZE + o = sp + n
  BY Reserved, Zenon
<1>4. p * PAGE_SIZE + o - sp = n
  <2>1. p * PAGE_SIZE \in Nat /\ o \in Int /\ n \in Int
    BY <1>3, ElfLoaderAssumption, SMT, SMTT(60) DEF Offsets
  <2> HIDE DEF p, o
  <2> DEFINE x == p * PAGE_SIZE
  <2>2. x \in Int /\ o \in Int /\ sp \in Int /\ n \in Int /\ x + o = sp + n
    BY <1>3, <2>1
  <2> HIDE DEF x
  <2>3. x + o - sp = n
    BY ONLY <2>2, SMT, SMTT(60)
  <2> QED BY <2>3, Zenon DEF x
<1>5. UserByte(sp + n) = mem[pt[p].frame][o]
  BY DEF UserByte
<1> HIDE DEF p, o
<1>6. p \in RangeOf(task)
  BY <1>2, <1>3, StackRange, Zenon
<1>7. p \notin BootPages /\ Owner(p, task)
  BY <1>1, <1>2, <1>6, Zenon DEF StackOwn
<1>8. task \in 1 .. task /\ task > Len(prog.headers) + 1
  BY <1>2, SMT, SMTT(60)
<1>9. p \in DOMAIN pt
  BY <1>1, <1>6, <1>8, Zenon DEF RInv, AllPassed
<1>10. mem[pt[p].frame][o] = Fresh(p, o)
  BY <1>3, <1>7, <1>8, <1>9, Zenon DEF RInv, Zeroed
<1>11. Fresh(p, o) = IF n \in Arguments THEN StackByte(n) ELSE ZERO
  BY <1>4, Zenon DEF Fresh
<1> QED BY <1>5, <1>10, <1>11, Zenon

\* The words of the reserved area: 19 that setup_user_stack stored, and zeros after them.
LEMMA WordRead ==
  ASSUME IInv, RInv, StackOwn, phase \in {"enter", "user"}, NEW w \in 0 .. 31
  PROVE  UserWord(w) = IF w < 19 THEN StackWords[w + 1] ELSE 0
<1> DEFINE W == WORD_SIZE
           byte(j) == UserByte(sp + w * WORD_SIZE + j)
           stored == {v \in 1 .. Len(StackWords) :
                        \A j \in 0 .. WORD_SIZE - 1 : byte(j) = StackByte((v - 1) * WORD_SIZE + j)}
<1>1. W \in Nat \ {0} /\ sp \in Nat /\ w \in Nat /\ Len(StackWords) = 19
  <2>1. Len(StackWords) = 19
    BY DEF StackWords
  <2> QED BY <2>1, Reserved, StackAssumption
<1>2. UserWord(w) = IF \A j \in 0 .. WORD_SIZE - 1 : byte(j) = ZERO THEN 0
                    ELSE IF stored = {} THEN JUNK ELSE StackWords[CHOOSE v \in stored : TRUE]
  BY Zenon DEF UserWord
<1>3. /\ w * W \in Nat /\ w * W + W <= 32 * W
      /\ w < 19 => w * W + W <= 19 * W
      /\ w >= 19 => 19 * W <= w * W
  <2>1. \A x, y \in Nat, z \in Nat : x <= y => x * z <= y * z
    <3> SUFFICES ASSUME NEW x \in Nat, NEW y \in Nat, NEW z \in Nat, x <= y PROVE x * z <= y * z
      OBVIOUS
    <3>1. PICK d \in Nat : y = x + d
      <4>1. y - x \in Nat /\ y = x + (y - x)
        OBVIOUS
      <4> QED BY <4>1
    <3>2. y * z = x * z + d * z /\ x * z \in Nat /\ d * z \in Nat
      BY <3>1
    <3> QED BY <3>2
  <2>2. w * W \in Nat /\ (w + 1) * W = w * W + W /\ w + 1 \in Nat
    BY <1>1
  <2>3. w + 1 <= 32 /\ (w < 19 => w + 1 <= 19) /\ (w >= 19 => 19 <= w)
    BY <1>1
  <2>4. /\ (w + 1) * W <= 32 * W
        /\ w < 19 => (w + 1) * W <= 19 * W
        /\ w >= 19 => 19 * W <= w * W
    <3>1. 32 \in Nat /\ 19 \in Nat /\ W \in Nat
      BY <1>1
    <3> QED BY <1>1, <2>1, <2>2, <2>3, <3>1, Zenon
  <2> QED BY <2>2, <2>4, Zenon
<1>4. ASSUME NEW j \in 0 .. WORD_SIZE - 1
      PROVE  byte(j) = IF w < 19 THEN StackByte(w * WORD_SIZE + j) ELSE ZERO
  <2> DEFINE n == w * WORD_SIZE + j
             m == w * WORD_SIZE
  <2>1. sp + m + j = sp + (m + j) /\ n = m + j
    <3>1. m \in Nat /\ sp \in Nat /\ j \in Nat
      BY <1>1, <1>3
    <3> HIDE DEF m
    <3> QED BY <3>1 DEF m
  <2>2. n \in 0 .. 32 * WORD_SIZE - 1 /\ (n \in 0 .. 19 * WORD_SIZE - 1 <=> w < 19)
    <3>1. /\ m \in Nat /\ j \in Nat /\ j < WORD_SIZE /\ WORD_SIZE \in Nat /\ m + WORD_SIZE <= 32 * WORD_SIZE
          /\ w < 19 => m + WORD_SIZE <= 19 * WORD_SIZE
          /\ ~(w < 19) => 19 * WORD_SIZE <= m
      BY <1>1, <1>3
    <3> HIDE DEF m
    <3>2. m + j \in 0 .. 32 * WORD_SIZE - 1 /\ (m + j \in 0 .. 19 * WORD_SIZE - 1 <=> w < 19)
      BY ONLY <3>1, SMT, SMTT(60)
    <3> QED BY <3>2 DEF m
  <2>3. byte(j) = UserByte(sp + n)
    BY <2>1, Zenon
  <2> HIDE DEF n, byte
  <2>4. UserByte(sp + n) = IF n \in Arguments THEN StackByte(n) ELSE ZERO
    BY <2>2, StackRead, Zenon
  <2>5. n \in Arguments <=> w < 19
    BY <2>2, Reserved, Zenon
  <2> QED BY <2>3, <2>4, <2>5, Zenon DEF n
<1> HIDE DEF byte
<1>5. 0 \in 0 .. WORD_SIZE - 1
  BY <1>1
<1>6. CASE w < 19
  <2>1. ~ \A j \in 0 .. WORD_SIZE - 1 : byte(j) = ZERO
    <3>1. byte(0) = StackByte(w * WORD_SIZE + 0)
      BY <1>4, <1>5, <1>6, Zenon
    <3>2. StackByte(w * WORD_SIZE + 0) # ZERO
      <4>1. w * WORD_SIZE \in Nat
        BY <1>3
      <4> QED BY <4>1 DEF StackByte, ZERO
    <3> QED BY <1>5, <3>1, <3>2, Zenon
  <2>2. w + 1 \in stored
    <3>1. w + 1 \in 1 .. Len(StackWords) /\ (w + 1) - 1 = w
      BY <1>1, <1>6
    <3> QED BY <1>4, <1>6, <3>1, Zenon
  <2>3. ASSUME NEW v \in stored PROVE v = w + 1
    <3>1. v \in 1 .. 19 /\ byte(0) = StackByte((v - 1) * WORD_SIZE + 0)
      BY <1>1, <1>5, <2>3, Zenon
    <3>2. byte(0) = StackByte(w * WORD_SIZE + 0)
      BY <1>4, <1>5, <1>6, Zenon
    <3>3. PICK u \in Nat : u = v - 1 /\ v = u + 1
      <4>1. v - 1 \in Nat /\ v = (v - 1) + 1
        BY <3>1
      <4> QED BY <4>1, Zenon
    <3>4. u * WORD_SIZE = w * WORD_SIZE
      <4>1. u * WORD_SIZE \in Nat /\ w * WORD_SIZE \in Nat
        BY <1>1, <1>3, <3>3
      <4>2. \A x, y \in Nat : StackByte(x + 0) = StackByte(y + 0) => x = y
        BY DEF StackByte
      <4> QED BY <3>1, <3>2, <3>3, <4>1, <4>2, Zenon
    <3>5. \A x, y \in Nat, z \in Nat \ {0} : x * z = y * z => x = y
      <4> SUFFICES ASSUME NEW x \in Nat, NEW y \in Nat, NEW z \in Nat \ {0}, x * z = y * z PROVE x = y
        OBVIOUS
      <4>1. ASSUME NEW c \in Nat, NEW d \in Nat \ {0} PROVE (c + d) * z # c * z
        <5>1. (c + d) * z = c * z + d * z /\ c * z \in Nat /\ d * z \in Nat /\ d * z > 0
          OBVIOUS
        <5> QED BY <5>1
      <4>2. CASE x < y
        <5>1. y - x \in Nat \ {0} /\ y = x + (y - x)
          BY <4>2
        <5> QED BY <4>1, <5>1, Zenon
      <4>3. CASE y < x
        <5>1. x - y \in Nat \ {0} /\ x = y + (x - y)
          BY <4>3
        <5> QED BY <4>1, <5>1, Zenon
      <4> QED BY <4>2, <4>3
    <3>6. u = w
      BY <1>1, <3>3, <3>4, <3>5, Zenon
    <3> QED BY <3>3, <3>6, Zenon
  <2> HIDE DEF stored
  <2>4. stored # {} /\ (CHOOSE v \in stored : TRUE) = w + 1
    BY <2>2, <2>3, Zenon
  <2> QED BY <1>2, <1>6, <2>1, <2>4, Zenon
<1>7. CASE ~(w < 19)
  <2>1. \A j \in 0 .. WORD_SIZE - 1 : byte(j) = ZERO
    BY <1>4, <1>7, Zenon
  <2> HIDE DEF stored
  <2> QED BY <1>2, <1>7, <2>1, Zenon
<1> QED BY <1>6, <1>7, Zenon

\* The C library finds in the auxiliary vector what setup_user_stack put there, read back
\* from the frames of the stack, and AT_RANDOM points to zeros.
THEOREM LoaderAuxvFound ==
  Spec => []AuxvFound
<1>1. IInv /\ RInv /\ StackOwn => AuxvFound
  <2> SUFFICES ASSUME IInv, RInv, StackOwn, phase \in {"enter", "user"} PROVE AuxvFound
    BY DEF AuxvFound
  <2>1. \A w \in 0 .. 31 : UserWord(w) = IF w < 19 THEN StackWords[w + 1] ELSE 0
    BY WordRead, Zenon
  <2>2. /\ UserWord(3) = 3 /\ UserWord(4) = phdr_addr /\ UserWord(5) = 4 /\ UserWord(6) = 56
        /\ UserWord(7) = 5 /\ UserWord(8) = Len(prog.headers) /\ UserWord(9) = 6
        /\ UserWord(10) = PAGE_SIZE /\ UserWord(11) = 7 /\ UserWord(12) = 0 /\ UserWord(13) = 9
        /\ UserWord(14) = entry_addr /\ UserWord(15) = 25 /\ UserWord(16) = sp + 30 * WORD_SIZE
        /\ UserWord(17) = 0
    BY <2>1 DEF StackWords, AT_NULL, AT_PHDR, AT_PHENT, AT_PHNUM, AT_PAGESZ, AT_BASE, AT_ENTRY,
                AT_RANDOM
  <2>3. AuxvPairs = 0 .. 6
    <3>1. \A i \in 0 .. 6 : UserWord(3 + 2 * i) # 0
      <4>1. \A i \in 0 .. 6 : i = 0 \/ i = 1 \/ i = 2 \/ i = 3 \/ i = 4 \/ i = 5 \/ i = 6
        OBVIOUS
      <4> QED BY <2>2, <4>1, SMT, SMTT(60)
    <3>2. (STACK_WORDS - 3) \div 2 - 1 = 13
      BY DEF STACK_WORDS
    <3>3. \A i \in 0 .. 13 : (\A j \in 0 .. i : UserWord(3 + 2 * j) # 0) <=> i \in 0 .. 6
      <4>1. UserWord(3 + 2 * 7) = 0
        BY <2>2
      <4>2. \A i \in 0 .. 13 : i \notin 0 .. 6 => 7 \in 0 .. i
        OBVIOUS
      <4>3. \A i \in 0 .. 6 : \A j \in 0 .. i : j \in 0 .. 6
        OBVIOUS
      <4> QED BY <3>1, <4>1, <4>2, <4>3, SMT, SMTT(60)
    <3>4. 0 .. 6 \subseteq 0 .. 13
      OBVIOUS
    <3> QED BY <3>2, <3>3, <3>4, SMT, SMTT(60) DEF AuxvPairs, AT_NULL
  <2>4. ASSUME NEW n \in 0 .. 6, NEW key, NEW v, UserWord(3 + 2 * n) = key, UserWord(4 + 2 * n) = v
        PROVE  Auxv(key) = {v}
    <3>1. \A i \in 0 .. 6 : UserWord(3 + 2 * i) = IF i <= 4 THEN 3 + i ELSE IF i = 5 THEN 9 ELSE 25
      <4>1. \A i \in 0 .. 6 : i = 0 \/ i = 1 \/ i = 2 \/ i = 3 \/ i = 4 \/ i = 5 \/ i = 6
        OBVIOUS
      <4> QED BY <2>2, <4>1, SMT, SMTT(60)
    <3>2. \A i \in 0 .. 6 : UserWord(3 + 2 * i) = UserWord(3 + 2 * n) => i = n
      BY ONLY <3>1, n \in 0 .. 6
    <3>3. {i \in AuxvPairs : UserWord(3 + 2 * i) = key} = {n}
      BY <2>3, <2>4, <3>2
    <3> QED BY <2>4, <3>3, SMT, SMTT(60) DEF Auxv
  <2>5. /\ Auxv(3) = {phdr_addr} /\ Auxv(5) = {Len(prog.headers)} /\ Auxv(6) = {PAGE_SIZE}
        /\ Auxv(9) = {entry_addr} /\ Auxv(25) = {sp + 30 * WORD_SIZE}
    <3>1. Auxv(3) = {phdr_addr}
      <4>1. UserWord(3 + 2 * 0) = 3 /\ UserWord(4 + 2 * 0) = phdr_addr /\ 0 \in 0 .. 6
        BY <2>2
      <4> QED BY <2>4, <4>1, SMT, SMTT(60)
    <3>2. Auxv(5) = {Len(prog.headers)}
      <4>1. UserWord(3 + 2 * 2) = 5 /\ UserWord(4 + 2 * 2) = Len(prog.headers) /\ 2 \in 0 .. 6
        BY <2>2, SMT, SMTT(60)
      <4> QED BY <2>4, <4>1, Zenon
    <3>3. Auxv(6) = {PAGE_SIZE}
      <4>1. UserWord(3 + 2 * 3) = 6 /\ UserWord(4 + 2 * 3) = PAGE_SIZE /\ 3 \in 0 .. 6
        BY <2>2
      <4> QED BY <2>4, <4>1, SMT, SMTT(60)
    <3>4. Auxv(9) = {entry_addr}
      <4>1. UserWord(3 + 2 * 5) = 9 /\ UserWord(4 + 2 * 5) = entry_addr /\ 5 \in 0 .. 6
        BY <2>2, SMT, SMTT(60)
      <4> QED BY <2>4, <4>1, SMT, SMTT(60)
    <3>5. Auxv(25) = {sp + 30 * WORD_SIZE}
      <4>1. UserWord(3 + 2 * 6) = 25 /\ UserWord(4 + 2 * 6) = sp + 30 * WORD_SIZE /\ 6 \in 0 .. 6
        BY <2>2
      <4> QED BY <2>4, <4>1, SMT, SMTT(60)
    <3> QED BY <3>1, <3>2, <3>3, <3>4, <3>5, SMT, SMTT(60)
  <2>6. \A j \in 0 .. 2 * WORD_SIZE - 1 :
          /\ sp <= sp + 30 * WORD_SIZE + j /\ sp + 30 * WORD_SIZE + j < stack_top
          /\ UserByte(sp + 30 * WORD_SIZE + j) = ZERO
    <3> SUFFICES ASSUME NEW j \in 0 .. 2 * WORD_SIZE - 1
                 PROVE  /\ sp <= sp + 30 * WORD_SIZE + j /\ sp + 30 * WORD_SIZE + j < stack_top
                        /\ UserByte(sp + 30 * WORD_SIZE + j) = ZERO
      BY Zenon
    <3>1. WORD_SIZE \in Nat /\ sp \in Nat /\ sp + 32 * WORD_SIZE <= stack_top /\ stack_top \in Int
      BY Reserved, StackAssumption, ElfLoaderAssumption, SMT, SMTT(60) DEF stack_top, PageRange
    <3>2. /\ sp + 30 * WORD_SIZE + j = sp + (30 * WORD_SIZE + j)
          /\ 30 * WORD_SIZE + j \in 0 .. 32 * WORD_SIZE - 1
          /\ 30 * WORD_SIZE + j \notin 0 .. 19 * WORD_SIZE - 1
          /\ sp <= sp + 30 * WORD_SIZE + j /\ sp + 30 * WORD_SIZE + j < stack_top
      BY <3>1, SMT, SMTT(60)
    <3>3. UserByte(sp + (30 * WORD_SIZE + j)) = ZERO
      BY <3>2, StackRead, Reserved, Zenon
    <3> QED BY <3>2, <3>3, Zenon
  <2>7. Auxv(25) # {} /\ \A addr \in Auxv(25) : addr = sp + 30 * WORD_SIZE
    BY <2>5, Zenon
  <2> QED BY <2>5, <2>6, <2>7, Zenon
          DEF AuxvFound, AT_PHDR, AT_PHNUM, AT_PAGESZ, AT_ENTRY, AT_RANDOM
<1> QED BY <1>1, LoaderStackOwn, PTL
=============================================================================
