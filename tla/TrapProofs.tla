----------------------------- MODULE TrapProofs -----------------------------
(***************************************************************************)
(* How the kernel is entered, and what it answers.                         *)
(*                                                                         *)
(* The scancode ring is a bounded FIFO for every ring size, on its own and *)
(* below the handlers.  The handlers interrupt nothing but user code, the  *)
(* PIC is never left blocked and no key is left behind, for every ring     *)
(* size, number of keys and width of TICKS, and for every mask the         *)
(* firmware leaves.                                                        *)
(*                                                                         *)
(* The system calls show and send text once and in order, keep the serial  *)
(* port UTF-8, give out one random stream and fill exact structures, for   *)
(* every text, pointer, seed and number of calls.                          *)
(***************************************************************************)
EXTENDS Interrupts, Syscalls, WellFoundedInduction, TLAPS

(* The ring. *)

\* The distance from tail to head, going round.
LEMMA WrapSub ==
  ASSUME NEW N \in Nat \ {0}, NEW h \in 0 .. N - 1, NEW t \in 0 .. N - 1
  PROVE  (h - t) % N = IF h >= t THEN h - t ELSE h - t + N
  OBVIOUS

\* The slot after t, reduced modulo N, is again a slot.
LEMMA WrapNext ==
  ASSUME NEW N \in Nat \ {0}, NEW t \in 0 .. N - 1
  PROVE  (t + 1) % N = IF t + 1 < N THEN t + 1 ELSE 0
  OBVIOUS

\* The head and tail of the ring never leave the array, for every BUFFER_SIZE.
THEOREM KbTypeCorrect == KbSpec => []KbTypeOK
<1> USE BufferAssumption
<1>1. KbInit => KbTypeOK
  BY DEF KbInit, KbTypeOK
<1>2. KbTypeOK /\ [KbNext]_kbvars => KbTypeOK'
  <2> SUFFICES ASSUME KbTypeOK, [KbNext]_kbvars PROVE KbTypeOK'
    OBVIOUS
  <2>0. (head + 1) % BUFFER_SIZE \in 0 .. BUFFER_SIZE - 1 /\ (tail + 1) % BUFFER_SIZE \in 0 .. BUFFER_SIZE - 1
    BY WrapNext DEF KbTypeOK
  <2>1. CASE pop_scancode
    BY <2>0, <2>1 DEF pop_scancode, KbTypeOK
  <2>2. ASSUME NEW s \in Scancodes, add_scancode(s) PROVE KbTypeOK'
    BY <2>0, <2>2 DEF add_scancode, KbTypeOK
  <2>3. CASE UNCHANGED kbvars
    BY <2>3 DEF kbvars, KbTypeOK
  <2> QED BY <2>1, <2>2, <2>3 DEF KbNext
<1> QED BY <1>1, <1>2, PTL DEF KbSpec

-----------------------------------------------------------------------------
(* Refinement *)

Count == (head - tail) % BUFFER_SIZE
Slot(t, i) == (t + i - 1) % BUFFER_SIZE

\* The slot of the i-th waiting scancode: the index wraps at most once.
LEMMA SlotIs ==
  ASSUME NEW t \in 0 .. BUFFER_SIZE - 1, NEW i \in 1 .. BUFFER_SIZE
  PROVE  /\ Slot(t, i) \in 0 .. BUFFER_SIZE - 1
         /\ Slot(t, i) = IF t + i - 1 < BUFFER_SIZE THEN t + i - 1 ELSE t + i - 1 - BUFFER_SIZE
  BY BufferAssumption DEF Slot

\* Waiting is a sequence of Count scancodes.
RingShape ==
  /\ Count \in 0 .. BUFFER_SIZE - 1
  /\ Count = IF head >= tail THEN head - tail ELSE head - tail + BUFFER_SIZE
  /\ Waiting \in Seq(Scancodes)
  /\ Len(Waiting) = Count
  /\ \A i \in 1 .. Count : Waiting[i] = buffer[Slot(tail, i)]

\* What Waiting is, once the indices are in range.
LEMMA WaitingShape == KbTypeOK => RingShape
<1> SUFFICES ASSUME KbTypeOK PROVE RingShape
  OBVIOUS
<1> USE BufferAssumption
<1>1. /\ Count = IF head >= tail THEN head - tail ELSE head - tail + BUFFER_SIZE
      /\ Count \in 0 .. BUFFER_SIZE - 1
  BY WrapSub DEF KbTypeOK, Count
<1>2. Waiting = [i \in 1 .. Count |-> buffer[Slot(tail, i)]]
  BY DEF Waiting, Count, Slot
<1>3. ASSUME NEW i \in 1 .. Count
      PROVE  buffer[Slot(tail, i)] \in Scancodes
  <2>1. Slot(tail, i) \in 0 .. BUFFER_SIZE - 1
    BY <1>1, SlotIs, SMT, SMTT(60) DEF KbTypeOK
  <2> QED BY <2>1 DEF KbTypeOK
<1>4. Waiting \in Seq(Scancodes) /\ Len(Waiting) = Count
  BY <1>1, <1>2, <1>3
<1> QED BY <1>1, <1>2, <1>4 DEF RingShape

\* The empty ring is the empty queue.
LEMMA FifoInit == KbInit => Fifo!Init
<1> SUFFICES ASSUME KbInit PROVE Fifo!Init
  OBVIOUS
<1>1. (0 - 0) % BUFFER_SIZE = 0
  BY WrapSub, BufferAssumption
<1>2. Waiting = <<>>
  BY <1>1 DEF KbInit, Waiting
<1> QED BY <1>2 DEF KbInit, Fifo!Init

\* An add either appends to the waiting scancodes or, when BUFFER_SIZE - 1 wait, drops.
LEMMA AddOffers ==
  ASSUME KbTypeOK, RingShape, RingShape', NEW s \in Scancodes, add_scancode(s)
  PROVE  Fifo!Offer(s)
<1> USE BufferAssumption
<1> DEFINE N == BUFFER_SIZE
           next_head == (head + 1) % N
<1>1. next_head = IF head + 1 < N THEN head + 1 ELSE 0
  BY WrapNext, Zenon DEF KbTypeOK
<1>2. IF next_head # tail
      THEN buffer' = [buffer EXCEPT ![head] = s] /\ head' = next_head
      ELSE UNCHANGED <<buffer, head>>
  BY DEF add_scancode
<1>3. UNCHANGED <<tail, popped>>
  BY DEF add_scancode
<1> HIDE DEF next_head
<1>4. next_head # tail <=> Count < N - 1
  BY <1>1, SMT, SMTT(60) DEF KbTypeOK, RingShape
<1>5. CASE next_head = tail
  <2>1. Waiting' = Waiting
    BY <1>2, <1>3, <1>5 DEF Waiting
  <2>2. ~(Len(Waiting) < N - 1)
    BY <1>4, <1>5 DEF RingShape
  <2> QED BY <1>3, <2>1, <2>2 DEF Fifo!Offer
<1>6. CASE next_head # tail
  <2>1. buffer' = [buffer EXCEPT ![head] = s] /\ head' = next_head /\ tail' = tail
    BY <1>2, <1>3, <1>6, SMT, SMTT(60)
  <2>2. Count \in 0 .. N - 2 /\ Count' = Count + 1
    BY <1>1, <1>4, <1>6, <2>1, SMT, SMTT(60) DEF KbTypeOK, RingShape
  <2>3. ASSUME NEW i \in 1 .. Count
        PROVE  Waiting'[i] = Waiting[i]
    <3>1. Slot(tail, i) \in 0 .. N - 1 /\ Slot(tail, i) # head
      <4>1. tail \in 0 .. N - 1 /\ head \in 0 .. N - 1 /\ i \in 1 .. N
        BY <2>2 DEF KbTypeOK
      <4>2. /\ Slot(tail, i) \in 0 .. N - 1
            /\ Slot(tail, i) = IF tail + i - 1 < N THEN tail + i - 1 ELSE tail + i - 1 - N
        BY <4>1, SlotIs
      <4>3. Count = IF head >= tail THEN head - tail ELSE head - tail + N
        BY DEF RingShape
      <4> QED BY <2>2, <4>1, <4>2, <4>3
    <3>2. Waiting'[i] = buffer'[Slot(tail, i)]
      BY <2>1, <2>2, SMT, SMTT(60) DEF RingShape
    <3>3. buffer'[Slot(tail, i)] = buffer[Slot(tail, i)]
      BY <2>1, <3>1 DEF KbTypeOK
    <3> QED BY <3>2, <3>3 DEF RingShape
  <2>4. Waiting'[Count + 1] = s
    <3>1. Slot(tail, Count + 1) = head
      BY <2>2, SlotIs, SMT, SMTT(60) DEF KbTypeOK, RingShape
    <3>2. Waiting'[Count + 1] = buffer'[Slot(tail, Count + 1)]
      BY <2>1, <2>2, SMT, SMTT(60) DEF RingShape
    <3> QED BY <2>1, <3>1, <3>2 DEF KbTypeOK
  <2>5. Waiting' = Append(Waiting, s)
    <3>1. /\ Waiting' \in Seq(Scancodes) /\ Len(Waiting') = Count + 1
          /\ Waiting \in Seq(Scancodes) /\ Len(Waiting) = Count /\ Count \in Nat
      BY <2>2 DEF RingShape
    <3>2. /\ Append(Waiting, s) \in Seq(Scancodes) /\ Len(Append(Waiting, s)) = Count + 1
          /\ \A i \in 1 .. Count : Append(Waiting, s)[i] = Waiting[i]
          /\ Append(Waiting, s)[Count + 1] = s
      BY <3>1
    <3>3. \A i \in 1 .. Count + 1 : Waiting'[i] = Append(Waiting, s)[i]
      BY <2>3, <2>4, <3>1, <3>2
    <3> QED BY <3>1, <3>2, <3>3
  <2> QED BY <1>3, <1>4, <1>6, <2>5 DEF Fifo!Offer, RingShape
<1> QED BY <1>5, <1>6

\* A pop takes the oldest waiting scancode, or answers None when none waits.
LEMMA PopTakes ==
  ASSUME KbTypeOK, RingShape, RingShape', pop_scancode
  PROVE  Fifo!Take
<1> USE BufferAssumption
<1> DEFINE N == BUFFER_SIZE
           next_tail == (tail + 1) % N
<1>1. CASE head = tail
  <2>1. UNCHANGED <<buffer, head, tail>> /\ popped' = None
    BY <1>1 DEF pop_scancode
  <2>2. Waiting' = Waiting
    BY <2>1 DEF Waiting
  <2>3. Waiting = <<>>
    BY <1>1 DEF RingShape, KbTypeOK
  <2> QED BY <2>1, <2>2, <2>3 DEF Fifo!Take
<1>2. CASE head # tail
  <2>1. popped' = buffer[tail] /\ tail' = next_tail /\ buffer' = buffer /\ head' = head
    BY <1>2 DEF pop_scancode
  <2>2. next_tail = IF tail + 1 < N THEN tail + 1 ELSE 0
    BY WrapNext, Zenon DEF KbTypeOK
  <2> HIDE DEF next_tail
  <2>3. Count \in 1 .. N - 1 /\ Count' = Count - 1
    BY <1>2, <2>1, <2>2, SMT, SMTT(60) DEF KbTypeOK, RingShape
  <2>4. Waiting[1] = buffer[tail]
    <3>1. Slot(tail, 1) = tail
      BY SlotIs DEF KbTypeOK
    <3> QED BY <2>3, <3>1 DEF RingShape
  <2>5. ASSUME NEW i \in 1 .. Count - 1
        PROVE  Waiting'[i] = Waiting[i + 1]
    <3>1. Slot(next_tail, i) = Slot(tail, i + 1)
      <4>1. /\ tail \in 0 .. N - 1 /\ next_tail \in 0 .. N - 1
            /\ i \in 1 .. N /\ i + 1 \in 1 .. N
        BY <2>2, <2>3, SMT, SMTT(60) DEF KbTypeOK
      <4>2. Slot(next_tail, i) = IF next_tail + i - 1 < N THEN next_tail + i - 1
                                 ELSE next_tail + i - 1 - N
        BY <4>1, SlotIs, SMT, SMTT(60)
      <4>3. Slot(tail, i + 1) = IF tail + (i + 1) - 1 < N THEN tail + (i + 1) - 1
                                ELSE tail + (i + 1) - 1 - N
        <5> DEFINE j == i + 1
        <5>1. j \in 1 .. N
          BY <4>1
        <5> HIDE DEF j
        <5>2. Slot(tail, j) = IF tail + j - 1 < N THEN tail + j - 1 ELSE tail + j - 1 - N
          BY <4>1, <5>1, SlotIs, Zenon
        <5> QED BY <5>2 DEF j
      <4> QED BY <2>2, <4>1, <4>2, <4>3, SMT, SMTT(60)
    <3>2. Waiting'[i] = buffer[Slot(next_tail, i)]
      BY <2>1, <2>3, SMT, SMTT(60) DEF RingShape
    <3>3. Waiting[i + 1] = buffer[Slot(tail, i + 1)]
      BY <2>3, SMT, SMTT(60) DEF RingShape
    <3> QED BY <3>1, <3>2, <3>3, SMT, SMTT(60)
  <2>6. Waiting # <<>> /\ Head(Waiting) = buffer[tail] /\ Waiting' = Tail(Waiting)
    <3>1. /\ Waiting' \in Seq(Scancodes) /\ Len(Waiting') = Count - 1
          /\ Waiting \in Seq(Scancodes) /\ Len(Waiting) = Count /\ Count \in Nat \ {0}
      BY <2>3, SMT, SMTT(60) DEF RingShape
    <3>2. Waiting # <<>> /\ Head(Waiting) = Waiting[1]
      BY <3>1
    <3>3. /\ Tail(Waiting) \in Seq(Scancodes) /\ Len(Tail(Waiting)) = Count - 1
          /\ \A i \in 1 .. Count - 1 : Tail(Waiting)[i] = Waiting[i + 1]
      BY <3>1, <3>2
    <3>4. \A i \in 1 .. Count - 1 : Waiting'[i] = Tail(Waiting)[i]
      BY <2>5, <3>3, SMT, SMTT(60)
    <3>5. Waiting' = Tail(Waiting)
      BY <3>1, <3>3, <3>4
    <3> QED BY <2>4, <3>2, <3>5
  <2> QED BY <2>1, <2>6 DEF Fifo!Take
<1> QED BY <1>1, <1>2

\* The ring implements the bounded FIFO of BUFFER_SIZE - 1 scancodes, for every
\* BUFFER_SIZE and every set of scancodes.
THEOREM KbRefinement == KbSpec => ImplementsFifo
<1>1. KbTypeOK /\ RingShape /\ RingShape' /\ [KbNext]_kbvars => [Fifo!Next]_(Fifo!vars)
  <2> SUFFICES ASSUME KbTypeOK, RingShape, RingShape', [KbNext]_kbvars PROVE [Fifo!Next]_(Fifo!vars)
    OBVIOUS
  <2>1. CASE pop_scancode
    BY <2>1, PopTakes DEF Fifo!Next
  <2>2. ASSUME NEW s \in Scancodes, add_scancode(s) PROVE Fifo!Next
    BY <2>2, AddOffers DEF Fifo!Next
  <2>3. CASE UNCHANGED kbvars
    BY <2>3 DEF kbvars, Fifo!vars, Waiting
  <2> QED BY <2>1, <2>2, <2>3 DEF KbNext
<1> QED BY <1>1, KbTypeCorrect, WaitingShape, FifoInit, PTL DEF KbSpec, ImplementsFifo, Fifo!Spec

-----------------------------------------------------------------------------
(* The handlers. *)

UserFrame == [mode |-> "user", iflag |-> TRUE]

InService(m) ==
  IF m = "timer" THEN {TIMER} ELSE IF m \in {"keyboard", "keyboard_eoi"} THEN {KEYBOARD} ELSE {}

\* IF is set in user code only; what is saved, in service, masked and gated follows from
\* what the CPU executes.  A keyboard request is not pending again before its byte is read.
Control ==
  /\ OnlyHandledVectors
  /\ iflag <=> mode = "user"
  /\ mode \in BootModes \cup {"user"} => frames = <<>>
  /\ mode \in HandlerModes \cup {"syscall"} => frames = <<UserFrame>>
  /\ isr = InService(mode)
  /\ mode # "start" => idt = {TIMER, KEYBOARD}
  /\ mode \notin {"start", "idt"} => mask = {COM1}
  /\ KeyboardNeverStuck
  /\ mode = "keyboard" => KEYBOARD \notin irr
  /\ early => kbc # <<>> /\ KEYBOARD \notin irr /\ mode \notin {"keyboard", "keyboard_eoi"}
IInv == TypeOK /\ Control

\* What a return finds on a stack of one saved context.
LEMMA ReturnToUser ==
  ASSUME frames = <<UserFrame>>, Return
  PROVE  mode' = "user" /\ iflag' = TRUE /\ frames' = <<>>
  BY DEF Return, Saved, UserFrame

\* What a system call, an exception or an interrupt saves of user code.
LEMMA SavesUser ==
  ASSUME TypeOK, Control, mode = "user",
         frames' = Append(frames, [mode |-> mode, iflag |-> iflag])
  PROVE  frames' = <<UserFrame>> /\ frames' \in Seq([mode : Modes, iflag : BOOLEAN])
<1>1. iflag = TRUE
  BY Zenon DEF TypeOK, Control
<1>2. [mode |-> mode, iflag |-> iflag] = UserFrame
  BY <1>1, Zenon DEF UserFrame
<1>3. frames = <<>>
  BY DEF Control
<1>4. UserFrame \in [mode : Modes, iflag : BOOLEAN]
  BY DEF UserFrame, Modes
<1> QED BY <1>2, <1>3, <1>4

\* The end of interrupt finds one request in service.
LEMMA EoiClears ==
  ASSUME NEW irq \in IRQS, isr = {irq}, notify_end_of_interrupt
  PROVE  isr' = {}
<1>1. irq \in Int
  BY DEF IRQS, TIMER, KEYBOARD, COM1
<1> QED BY <1>1 DEF notify_end_of_interrupt

\* The ring keeps its shape when a scancode is added.
LEMMA AddKeepsType ==
  ASSUME KbTypeOK, NEW s \in Scancodes, add_scancode(s)
  PROVE  KbTypeOK'
<1>1. (head + 1) % BUFFER_SIZE \in 0 .. BUFFER_SIZE - 1
  BY BufferAssumption DEF KbTypeOK
<1> QED BY <1>1 DEF add_scancode, KbTypeOK

LEMMA InterruptsInit == Init => IInv
<1> SUFFICES ASSUME Init PROVE IInv
  OBVIOUS
<1> USE BufferAssumption, InterruptsAssumption
<1>1. KbTypeOK
  BY DEF Init, KbInit, KbTypeOK
<1>2. TypeOK
  <2>1. iflag \in BOOLEAN /\ ran \in BOOLEAN /\ early \in BOOLEAN
    BY Zenon DEF Init
  <2>2. frames \in Seq([mode : Modes, iflag : BOOLEAN]) /\ kbc \in Seq(Scancodes)
    BY DEF Init
  <2>3. /\ mode \in Modes /\ pressed \in 0 .. MaxKeys /\ TICKS \in 0 .. TickModulus - 1
        /\ idt \subseteq IRQS /\ mask \subseteq IRQS /\ irr \subseteq IRQS /\ isr \subseteq IRQS
    BY DEF Init, Modes, BootModes, IRQS, TIMER
  <2> QED BY <1>1, <2>1, <2>2, <2>3 DEF TypeOK
<1>3. Control
  BY DEF Init, Control, BootModes, HandlerModes, InService, OnlyHandledVectors, KeyboardNeverStuck
<1> QED BY <1>2, <1>3, Zenon DEF IInv

\* The boot code: every step of _start before the user program.
LEMMA BootStep == IInv /\ Boot => IInv'
<1> SUFFICES ASSUME IInv, Boot PROVE IInv'
  BY SMT, SMTT(60)
<1> USE DEF IInv, Control, TypeOK, OnlyHandledVectors, KeyboardNeverStuck, InService, BootModes,
            HandlerModes, Modes, pic
<1>0. KbTypeOK' <=> KbTypeOK
  BY SMT, SMTT(60) DEF Boot, init_idt, PICS_initialize, init_timer, enter_userspace, boot_panics, KbTypeOK, kbvars
<1>1. CASE init_idt
  BY <1>0, <1>1, SMT, SMTT(60) DEF init_idt, IRQS, TIMER, KEYBOARD, COM1
<1>2. CASE PICS_initialize
  <2>0. iflag' \in BOOLEAN /\ ran' \in BOOLEAN /\ early' \in BOOLEAN
    BY <1>0, <1>2, Zenon DEF PICS_initialize, pic
  <2>1. TypeOK'
    BY <1>0, <1>2, <2>0, SMT, SMTT(60) DEF PICS_initialize, IRQS, TIMER, KEYBOARD, COM1
  <2>2. Control'
    <3>1. early' <=> kbc' # <<>>
      BY <1>2, Zenon DEF PICS_initialize
    <3> QED BY <1>2, <3>1 DEF PICS_initialize, IRQS, TIMER, KEYBOARD, COM1
  <2> QED BY <2>1, <2>2, SMT, SMTT(60)
<1>3. CASE init_timer
  BY <1>0, <1>3, SMT, SMTT(60) DEF init_timer
<1>4. CASE enter_userspace
  BY <1>0, <1>4, SMT, SMTT(60) DEF enter_userspace
<1>5. CASE boot_panics
  BY <1>0, <1>5 DEF boot_panics
<1> QED BY <1>1, <1>2, <1>3, <1>4, <1>5, Zenon DEF Boot

\* User code, and the contexts that a system call or an exception saves.
LEMMA UserStepKeeps == IInv /\ (User \/ Syscall \/ hlt_loop) => IInv'
<1> SUFFICES ASSUME IInv, User \/ Syscall \/ hlt_loop PROVE IInv'
  BY SMT, SMTT(60)
<1> USE DEF IInv, Control, TypeOK, OnlyHandledVectors, KeyboardNeverStuck, InService, BootModes,
            HandlerModes, Modes, pic
<1>0. KbTypeOK' <=> KbTypeOK
  BY Zenon DEF User, Syscall, UserStep, syscall, exception_handler, sysretq, sys_exit, hlt_loop,
         KbTypeOK, kbvars, vars
<1>1. CASE UserStep
  BY <1>0, <1>1, SMT, SMTT(60) DEF UserStep
<1>2. CASE syscall
  <2>1. mode = "user" /\ frames' = <<UserFrame>> /\ frames' \in Seq([mode : Modes, iflag : BOOLEAN])
    BY <1>2, SavesUser DEF syscall, UserRuns
  <2>2. TypeOK'
    BY <1>0, <1>2, <2>1, Zenon DEF syscall
  <2>3. Control'
    BY <1>2, <2>1, Zenon DEF syscall
  <2> QED BY <2>2, <2>3, SMT, SMTT(60)
<1>3. CASE exception_handler
  <2>1. mode = "user" /\ frames' = <<UserFrame>> /\ frames' \in Seq([mode : Modes, iflag : BOOLEAN])
    BY <1>3, SavesUser DEF exception_handler, UserRuns
  <2>2. TypeOK'
    BY <1>0, <1>3, <2>1, Zenon DEF exception_handler
  <2>3. Control'
    BY <1>3, <2>1, Zenon DEF exception_handler
  <2> QED BY <2>2, <2>3
<1>4. CASE sysretq
  <2>1. mode' = "user" /\ iflag' = TRUE /\ frames' = <<>>
    BY <1>4, ReturnToUser, Zenon DEF sysretq
  <2> QED BY <1>0, <1>4, <2>1 DEF sysretq
<1>5. CASE sys_exit
  BY <1>0, <1>5, Zenon DEF sys_exit
<1>6. CASE hlt_loop
  BY <1>0, <1>6, Zenon DEF hlt_loop, vars, ivars
<1> QED BY <1>1, <1>2, <1>3, <1>4, <1>5, <1>6, Zenon DEF User, Syscall

\* A device raises its line, and the CPU takes what the PIC offers.
LEMMA DeviceStep == IInv /\ (Devices \/ \E irq \in IRQS : Deliver(irq)) => IInv'
<1> SUFFICES ASSUME IInv, Devices \/ \E irq \in IRQS : Deliver(irq) PROVE IInv'
  BY SMT, SMTT(60)
<1> USE DEF IInv, Control, TypeOK, OnlyHandledVectors, KeyboardNeverStuck, InService, BootModes,
            HandlerModes, Modes
<1>0. KbTypeOK' <=> KbTypeOK
  BY Zenon DEF Devices, PitEdge, Com1Edge, KeyPress, Deliver, KbTypeOK, kbvars
<1>1. CASE PitEdge
  <2>1. TypeOK'
    BY <1>0, <1>1, Zenon DEF PitEdge, IRQS, TIMER, KEYBOARD
  <2>2. Control'
    BY <1>0, <1>1, SMT, SMTT(60) DEF PitEdge, IRQS, TIMER, KEYBOARD
  <2> QED BY <2>1, <2>2, Zenon
<1>2. CASE Com1Edge
  BY <1>0, <1>2, SMT, SMTT(60) DEF Com1Edge, IRQS, KEYBOARD, COM1
<1>3. ASSUME NEW s \in Scancodes, KeyPress(s) PROVE IInv'
  BY <1>0, <1>3, InterruptsAssumption DEF KeyPress, IRQS
<1>4. ASSUME NEW irq \in IRQS, Deliver(irq) PROVE IInv'
  <2>1. mode = "user" /\ frames = <<>> /\ isr = {} /\ irq \in irr
    BY <1>4, Zenon DEF Deliver, Deliverable
  <2>2. irq \in {TIMER, KEYBOARD}
    BY <1>4, <2>1, SMT, SMTT(60) DEF Deliver, Deliverable, IRQS
  <2>3. mode' = IF irq = TIMER THEN "timer" ELSE "keyboard"
    BY <1>4, <2>1, <2>2 DEF Deliver, Handler
  <2>4. frames' = <<UserFrame>> /\ frames' \in Seq([mode : Modes, iflag : BOOLEAN])
    BY <1>4, <2>1, SavesUser, Zenon DEF Deliver
  <2>5. TypeOK'
    BY <1>0, <1>4, <2>1, <2>2, <2>3, <2>4, ZenonT(40) DEF Deliver, IRQS, TIMER, KEYBOARD
  <2>6. Control'
    <3>1. CASE irq = TIMER
      <4>1. mode' = "timer" /\ isr' = {TIMER} /\ (KEYBOARD \in irr' <=> KEYBOARD \in irr)
        BY <1>4, <2>1, <2>3, <3>1 DEF Deliver, TIMER, KEYBOARD
      <4> QED BY <1>4, <2>1, <2>4, <4>1, Zenon DEF Deliver
    <3>2. CASE irq = KEYBOARD
      <4>1. mode' = "keyboard" /\ isr' = {KEYBOARD} /\ KEYBOARD \notin irr' /\ ~early
        BY <1>4, <2>1, <2>3, <3>2, SMT, SMTT(60) DEF Deliver, TIMER, KEYBOARD
      <4> QED BY <1>4, <2>1, <2>4, <3>2, <4>1, Zenon DEF Deliver
    <3> QED BY <2>2, <3>1, <3>2
  <2> QED BY <2>5, <2>6, Zenon
<1> QED BY <1>1, <1>2, <1>3, <1>4, Zenon DEF Devices

\* The handlers return to user code with nothing in service.
LEMMA HandlerStep == IInv /\ Handlers => IInv'
<1> SUFFICES ASSUME IInv, Handlers PROVE IInv'
  OBVIOUS
<1> USE DEF IInv, Control, TypeOK, OnlyHandledVectors, KeyboardNeverStuck, InService, BootModes,
            HandlerModes, Modes
<1>1. CASE timer_handler
  <2>1. mode' = "user" /\ iflag' = TRUE /\ frames' = <<>> /\ isr' = {}
    BY <1>1, ReturnToUser, EoiClears, SMT, SMTT(60) DEF timer_handler, IRQS
  <2>2. TICKS' \in 0 .. TickModulus - 1
    BY <1>1, InterruptsAssumption, SMT, SMTT(60) DEF timer_handler
  <2>3. KbTypeOK'
    BY <1>1 DEF timer_handler, KbTypeOK, kbvars
  <2> QED BY <1>1, <2>1, <2>2, <2>3, SMT, SMTT(60) DEF timer_handler
<1>2. CASE keyboard_handler
  <2>1. ~early /\ kbc # <<>> /\ Head(kbc) \in Scancodes /\ Tail(kbc) \in Seq(Scancodes)
    BY <1>2, SMT, SMTT(60) DEF keyboard_handler
  <2>2. KbTypeOK'
    BY <1>2, <2>1, AddKeepsType, SMT, SMTT(60) DEF keyboard_handler
  <2> QED BY <1>2, <2>1, <2>2, Zenon DEF keyboard_handler, IRQS
<1>3. CASE keyboard_handler_eoi
  <2>1. mode' = "user" /\ iflag' = TRUE /\ frames' = <<>> /\ isr' = {}
    BY <1>3, ReturnToUser, EoiClears, SMT, SMTT(60) DEF keyboard_handler_eoi, IRQS
  <2>2. KbTypeOK'
    BY <1>3 DEF keyboard_handler_eoi, KbTypeOK, kbvars
  <2> QED BY <1>3, <2>1, <2>2, SMT, SMTT(60) DEF keyboard_handler_eoi
<1> QED BY <1>1, <1>2, <1>3, Zenon DEF Handlers

LEMMA InterruptsNext == IInv /\ [Next]_vars => IInv'
<1> SUFFICES ASSUME IInv, [Next]_vars PROVE IInv'
  OBVIOUS
<1>1. CASE Next
  BY <1>1, BootStep, UserStepKeeps, DeviceStep, HandlerStep, SMT, SMTT(60) DEF Next
<1>2. CASE UNCHANGED vars
  <2>1. UNCHANGED <<buffer, head, tail, popped, mode, frames, iflag, idt, mask, irr, isr, kbc, ran,
                    early, pressed, TICKS>>
    BY <1>2 DEF vars, kbvars, ivars
  <2> QED BY <2>1, SMT, SMTT(60) DEF IInv, TypeOK, KbTypeOK, Control, OnlyHandledVectors, KeyboardNeverStuck
<1> QED BY <1>1, <1>2

LEMMA InterruptsInvariance == Spec => []IInv
  BY InterruptsInit, InterruptsNext, PTL DEF Spec

\* Every variable of the model keeps its type, TICKS and the ring's indices included.
THEOREM InterruptsTypeCorrect == Spec => []TypeOK
<1>1. IInv => TypeOK
  BY DEF IInv
<1> QED BY <1>1, InterruptsInvariance, PTL

\* The handlers of interrupts.rs run over user code only, so the plain spin locks they take
\* are free: none is held by code below them.
THEOREM HandlersFindLocksFree == Spec => []HandlersOnlyInterruptUser
<1>1. Len(<<UserFrame>>) = 1 /\ <<UserFrame>>[1] = UserFrame
  OBVIOUS
<1>2. IInv => HandlersOnlyInterruptUser
  BY <1>1, Zenon DEF IInv, Control, HandlersOnlyInterruptUser, Saved, UserFrame
<1> QED BY <1>2, InterruptsInvariance, PTL

\* A request is in service exactly while its handler runs: each handler sends one end of
\* interrupt, and none is sent for another request.
THEOREM PicNeverBlocked == Spec => []InServiceMatchesHandler
<1>1. IInv => InServiceMatchesHandler
  BY SMT, SMTT(60) DEF IInv, Control, InServiceMatchesHandler, InService
<1> QED BY <1>1, InterruptsInvariance, PTL

\* The CPU never takes a vector without a gate, whatever mask the firmware left.
THEOREM VectorsHandled == Spec => []OnlyHandledVectors
<1>1. IInv => OnlyHandledVectors
  BY SMT, SMTT(60) DEF IInv, Control
<1> QED BY <1>1, InterruptsInvariance, PTL

\* The handler reads the port once for every byte and never reads an empty one.
THEOREM KeyboardServed == Spec => []KeyboardNeverStuck
<1>1. IInv => KeyboardNeverStuck
  BY DEF IInv, Control
<1> QED BY <1>1, InterruptsInvariance, PTL

\* Whatever interleaving of interrupts, keys and system calls the system goes through, the
\* scancodes that wait in the ring are a bounded FIFO: only keyboard_handler touches it, with
\* a byte that was in the controller.
THEOREM RingInSystem == Spec => ImplementsFifo
<1>1. Init => KbInit
  BY DEF Init
<1>2. IInv /\ [Next]_vars => [KbNext]_kbvars
  <2> SUFFICES ASSUME IInv, [Next]_vars PROVE KbNext \/ UNCHANGED kbvars
    OBVIOUS
  <2>1. CASE keyboard_handler
    <3>1. kbc \in Seq(Scancodes) /\ kbc # <<>>
      BY <2>1, Zenon DEF keyboard_handler, IInv, TypeOK, Control, KeyboardNeverStuck
    <3>2. Head(kbc) \in Scancodes
      BY <3>1, SMT, SMTT(60)
    <3> QED BY <2>1, <3>2, Zenon DEF keyboard_handler, KbNext
  <2>2. CASE ~keyboard_handler
    BY <2>2, Zenon DEF Next, Boot, User, Syscall, Handlers, Devices, hlt_loop, vars, init_idt,
         PICS_initialize, init_timer, enter_userspace, boot_panics, UserStep, syscall,
         exception_handler, sysretq, sys_exit, timer_handler, keyboard_handler_eoi, PitEdge,
         Com1Edge, KeyPress, Deliver
  <2> QED BY <2>1, <2>2
<1>3. Spec => KbSpec
  BY <1>1, <1>2, InterruptsInvariance, PTL DEF Spec, KbSpec
<1> QED BY <1>3, KbRefinement, PTL

-----------------------------------------------------------------------------
(* The system calls. *)

\* Induction.
LEMMA Induct ==
  ASSUME NEW S, 0 \in S, \A n \in Nat : n \in S => n + 1 \in S
  PROVE  Nat \subseteq S
<1> DEFINE R == {ss \in Nat \X Nat : ss[1] < ss[2]}
           T == Nat \ S
<1>1. IsWellFoundedOn(R, Nat)
  BY NatLessThanWellFounded, Zenon DEF OpToRel
<1>2. SUFFICES ASSUME T # {} PROVE FALSE
  OBVIOUS
<1>3. PICK x \in T : \A y \in T : ~(<<y, x>> \in R)
  <2> HIDE DEF R
  <2>1. T \subseteq Nat OBVIOUS
  <2> HIDE DEF T
  <2> QED BY <1>1, <1>2, <2>1, WFMin, Zenon
<1>4. x \in Nat /\ x # 0
  OBVIOUS
<1>5. x - 1 \in Nat /\ x - 1 < x /\ x - 1 + 1 = x
  BY <1>4
<1>6. x - 1 \notin T
  <2>1. <<x - 1, x>> \in Nat \X Nat /\ <<x - 1, x>>[1] = x - 1 /\ <<x - 1, x>>[2] = x
    BY <1>4, <1>5
  <2> QED BY <1>3, <1>5, <2>1, Zenon
<1> QED BY <1>4, <1>5, <1>6

\* Induction up to a bound.
LEMMA InductTo ==
  ASSUME NEW n \in Nat, NEW S, 0 \in S, \A k \in 0 .. n - 1 : k \in S => k + 1 \in S
  PROVE  \A k \in 0 .. n : k \in S
<1> DEFINE U == {k \in Nat : k <= n => k \in S}
<1>1. 0 \in U
  OBVIOUS
<1>2. ASSUME NEW k \in Nat, k \in U PROVE k + 1 \in U
  BY <1>2, SMT, SMTT(60)
<1> HIDE DEF U
<1>3. Nat \subseteq U
  BY <1>1, <1>2, Induct
<1> QED BY <1>3 DEF U

-----------------------------------------------------------------------------
\* The generator.

\* f is the function that Seeds(seed, n) chooses.
IsSeeds(seed, n, f) ==
  f = [k \in 0 .. n |-> IF k = 0 THEN seed ELSE next_seed(f[k - 1])]

\* The recursive definition of Seeds has a solution.
LEMMA SeedsExist ==
  ASSUME NEW seed, NEW n \in Nat
  PROVE  IsSeeds(seed, n, Seeds(seed, n))
<1> DEFINE S == {m \in Nat : \E f : IsSeeds(seed, m, f)}
<1>1. 0 \in S
  <2>1. IsSeeds(seed, 0, [k \in 0 .. 0 |-> seed])
    BY DEF IsSeeds
  <2> QED BY <2>1
<1>2. ASSUME NEW m \in Nat, m \in S PROVE m + 1 \in S
  <2>1. PICK f : IsSeeds(seed, m, f)
    BY <1>2
  <2> DEFINE g == [k \in 0 .. m + 1 |-> IF k <= m THEN f[k] ELSE next_seed(f[m])]
  <2>2. IsSeeds(seed, m + 1, g)
    BY <2>1 DEF IsSeeds
  <2> QED BY <2>2
<1>3. n \in S
  <2> HIDE DEF S
  <2> QED BY <1>1, <1>2, Induct
<1>4. PICK f : IsSeeds(seed, n, f)
  BY <1>3, SMT, SMTT(60)
<1> QED BY <1>4, Zenon DEF IsSeeds, Seeds

\* What next_seed makes of each seed in turn.
LEMMA SeedsStep ==
  ASSUME NEW seed, NEW n \in Nat
  PROVE  /\ Seeds(seed, n)[0] = seed
         /\ \A k \in 1 .. n : Seeds(seed, n)[k] = next_seed(Seeds(seed, n)[k - 1])
<1> DEFINE f == Seeds(seed, n)
<1>1. f = [k \in 0 .. n |-> IF k = 0 THEN seed ELSE next_seed(f[k - 1])]
  BY SeedsExist DEF IsSeeds
<1> HIDE DEF f
<1>2. f[0] = seed /\ \A k \in 1 .. n : f[k] = next_seed(f[k - 1])
  BY <1>1
<1> QED BY <1>2, SMT, SMTT(60) DEF f

Resumes(seed, n, m) ==
  /\ \A k \in 0 .. n : Seeds(seed, n + m)[k] = Seeds(seed, n)[k]
  /\ \A k \in 0 .. m : Seeds(seed, n + m)[n + k] = Seeds(Seeds(seed, n)[n], m)[k]

\* A stream continued from its latest seed is the longer stream: what sys_getrandom relies
\* on when it keeps SEED between calls.
LEMMA SeedsContinue ==
  ASSUME NEW seed, NEW n \in Nat, NEW m \in Nat
  PROVE  Resumes(seed, n, m)
<1> DEFINE a == Seeds(seed, n)
           b == Seeds(seed, n + m)
           c == Seeds(a[n], m)
           S == {k \in Nat : k <= n => b[k] = a[k]}
           U == {k \in Nat : k <= m => b[n + k] = c[k]}
<1>1. /\ a[0] = seed /\ \A k \in 1 .. n : a[k] = next_seed(a[k - 1])
      /\ b[0] = seed /\ \A k \in 1 .. n + m : b[k] = next_seed(b[k - 1])
      /\ c[0] = a[n] /\ \A k \in 1 .. m : c[k] = next_seed(c[k - 1])
  <2>1. n + m \in Nat
    OBVIOUS
  <2> QED BY <2>1, SeedsStep
<1> HIDE DEF a, b, c
<1>2. Nat \subseteq S
  <2>1. 0 \in S
    BY <1>1, SMT, SMTT(60)
  <2>2. ASSUME NEW k \in Nat, k \in S PROVE k + 1 \in S
    <3>1. SUFFICES ASSUME k + 1 <= n PROVE b[k + 1] = a[k + 1]
      OBVIOUS
    <3>2. k + 1 \in 1 .. n /\ k + 1 \in 1 .. n + m /\ (k + 1) - 1 = k /\ b[k] = a[k]
      BY <2>2, <3>1, SMT, SMTT(60)
    <3> QED BY <1>1, <3>2
  <2> HIDE DEF S
  <2> QED BY <2>1, <2>2, Induct, SMT, SMTT(60)
<1>3. b[n] = a[n]
  BY <1>2, SMT, SMTT(60)
<1>4. Nat \subseteq U
  <2>1. 0 \in U
    BY <1>1, <1>3, SMT, SMTT(60)
  <2>2. ASSUME NEW k \in Nat, k \in U PROVE k + 1 \in U
    <3>1. SUFFICES ASSUME k + 1 <= m PROVE b[n + (k + 1)] = c[k + 1]
      BY SMT, SMTT(60)
    <3>2. k + 1 \in 1 .. m /\ n + (k + 1) \in 1 .. n + m /\ (k + 1) - 1 = k
          /\ n + (k + 1) - 1 = n + k /\ b[n + k] = c[k]
      BY <2>2, <3>1, SMT, SMTT(60)
    <3> QED BY <1>1, <3>2, SMT, SMTT(60)
  <2> HIDE DEF U
  <2> QED BY <2>1, <2>2, Induct
<1>5. (\A k \in 0 .. n : b[k] = a[k]) /\ (\A k \in 0 .. m : b[n + k] = c[k])
  BY <1>2, <1>4
<1> QED BY <1>5, Zenon DEF a, b, c, Resumes

-----------------------------------------------------------------------------
\* Sequences and their concatenation.

\* A sequence as a function.
LEMMA SeqFacts ==
  ASSUME NEW A, NEW s \in Seq(A)
  PROVE  /\ Len(s) \in Nat /\ DOMAIN s = 1 .. Len(s) /\ s = [k \in 1 .. Len(s) |-> s[k]]
         /\ \A k \in 1 .. Len(s) : s[k] \in A
BY SMT, SMTT(60)

\* A concatenation, entry by entry.
LEMMA CatFacts ==
  ASSUME NEW A, NEW s \in Seq(A), NEW t \in Seq(A)
  PROVE  /\ s \o t \in Seq(A) /\ Len(s \o t) = Len(s) + Len(t)
         /\ \A k \in 1 .. Len(s) : (s \o t)[k] = s[k]
         /\ \A k \in 1 .. Len(t) : (s \o t)[Len(s) + k] = t[k]
         /\ \A k \in 1 .. Len(s) + Len(t) : k > Len(s) => (s \o t)[k] = t[k - Len(s)]
OBVIOUS

\* A concatenation stays in the alphabet.
LEMMA CatType ==
  ASSUME NEW A
  PROVE  \A s, t \in Seq(A) : s \o t \in Seq(A)
OBVIOUS

\* Sequences with the same entries are equal.
LEMMA SeqEqual ==
  ASSUME NEW A, NEW s \in Seq(A), NEW t \in Seq(A), Len(s) = Len(t),
         \A k \in 1 .. Len(s) : s[k] = t[k]
  PROVE  s = t
OBVIOUS

\* Concatenation is associative.
LEMMA CatAssociative ==
  ASSUME NEW A
  PROVE  \A s, t, u \in Seq(A) : (s \o t) \o u = s \o (t \o u)
BY SMT, SMTT(60)

\* The empty sequence adds nothing.
LEMMA CatEmpty ==
  ASSUME NEW A, NEW s \in Seq(A)
  PROVE  s \o <<>> = s /\ <<>> \o s = s
OBVIOUS

\* f is the function that Concat(ss) chooses, for the first n of its sequences.
IsUpto(ss, n, f) ==
  f = [k \in 0 .. n |-> IF k = 0 THEN <<>> ELSE f[k - 1] \o ss[k]]

\* The recursive definition of Concat has a solution.
LEMMA UptoExists ==
  ASSUME NEW ss, NEW n \in Nat
  PROVE  \E f : IsUpto(ss, n, f)
<1> DEFINE S == {m \in Nat : \E f : IsUpto(ss, m, f)}
<1>1. 0 \in S
  <2>1. IsUpto(ss, 0, [k \in 0 .. 0 |-> <<>>])
    BY DEF IsUpto
  <2> QED BY <2>1
<1>2. ASSUME NEW m \in Nat, m \in S PROVE m + 1 \in S
  <2>1. PICK f : IsUpto(ss, m, f)
    BY <1>2
  <2> DEFINE g == [k \in 0 .. m + 1 |-> IF k <= m THEN f[k] ELSE f[m] \o ss[m + 1]]
  <2>2. IsUpto(ss, m + 1, g)
    BY <2>1 DEF IsUpto
  <2> QED BY <2>2, SMT, SMTT(60)
<1> HIDE DEF S
<1>3. n \in S
  BY <1>1, <1>2, Induct
<1> QED BY <1>3 DEF S

\* f is the sequence of partial concatenations whose last element is Concat(ss).
Partial(ss, f) ==
  /\ f[0] = <<>> /\ f[Len(ss)] = Concat(ss)
  /\ \A k \in 0 .. Len(ss) - 1 : f[k + 1] = f[k] \o ss[k + 1]

\* Concat adds one sequence at a time.
LEMMA ConcatUpto ==
  ASSUME NEW ss, Len(ss) \in Nat
  PROVE  \E f : Partial(ss, f)
<1> DEFINE f == CHOOSE f : f = [k \in 0 .. Len(ss) |-> IF k = 0 THEN <<>> ELSE f[k - 1] \o ss[k]]
<1>1. IsUpto(ss, Len(ss), f)
  BY UptoExists, Zenon DEF IsUpto
<1>2. Concat(ss) = f[Len(ss)]
  BY SMT, SMTT(60) DEF Concat
<1> HIDE DEF f
<1>3. f[0] = <<>> /\ \A k \in 0 .. Len(ss) - 1 : f[k + 1] = f[k] \o ss[k + 1]
  <2>1. f = [k \in 0 .. Len(ss) |-> IF k = 0 THEN <<>> ELSE f[k - 1] \o ss[k]]
    BY <1>1, Zenon DEF IsUpto
  <2>2. f[0] = <<>>
    BY <2>1
  <2>3. ASSUME NEW k \in 0 .. Len(ss) - 1 PROVE f[k + 1] = f[k] \o ss[k + 1]
    <3>1. k + 1 \in 0 .. Len(ss) /\ k + 1 # 0 /\ (k + 1) - 1 = k
      OBVIOUS
    <3>2. f[k + 1] = f[(k + 1) - 1] \o ss[k + 1]
      BY <2>1, <3>1, Zenon
    <3> QED BY <3>1, <3>2, Zenon
  <2> QED BY <2>2, <2>3, Zenon
<1> QED BY <1>2, <1>3, Zenon DEF Partial

\* What has been joined so far stays in the alphabet.
LEMMA PartialType ==
  ASSUME NEW A, NEW ss \in Seq(Seq(A)), NEW f, Partial(ss, f)
  PROVE  \A k \in 0 .. Len(ss) : f[k] \in Seq(A)
<1> DEFINE n == Len(ss)
           S == {k \in 0 .. n : f[k] \in Seq(A)}
<1>1. n \in Nat /\ \A k \in 1 .. n : ss[k] \in Seq(A)
  BY SeqFacts
<1>2. f[0] = <<>> /\ \A k \in 0 .. n - 1 : f[k + 1] = f[k] \o ss[k + 1]
  BY Zenon DEF Partial
<1> HIDE DEF n
<1>3. 0 \in S
  <2>1. 0 \in 0 .. n /\ <<>> \in Seq(A)
    BY <1>1
  <2> QED BY <1>2, <2>1, Zenon
<1>4. ASSUME NEW k \in 0 .. n - 1, k \in S PROVE k + 1 \in S
  <2>1. k + 1 \in 1 .. n /\ k + 1 \in 0 .. n
    BY <1>1
  <2>2. f[k + 1] = f[k] \o ss[k + 1] /\ ss[k + 1] \in Seq(A) /\ f[k] \in Seq(A)
    BY <1>1, <1>2, <1>4, <2>1, Zenon
  <2>3. f[k] \o ss[k + 1] \in Seq(A)
    <3>1. \A s, t \in Seq(A) : s \o t \in Seq(A)
      OBVIOUS
    <3> QED BY <2>2, <3>1, Zenon
  <2> QED BY <2>1, <2>2, <2>3, Zenon
<1> HIDE DEF S
<1>5. \A k \in 0 .. n : k \in S
  BY <1>1, <1>3, <1>4, InductTo, Zenon
<1> QED BY <1>5, Zenon DEF S, n

\* So does the whole.
LEMMA ConcatType ==
  ASSUME NEW A, NEW ss \in Seq(Seq(A))
  PROVE  Concat(ss) \in Seq(A)
<1>1. Len(ss) \in Nat
  BY SeqFacts
<1>2. PICK f : Partial(ss, f)
  BY <1>1, ConcatUpto, Zenon
<1>3. f[Len(ss)] \in Seq(A)
  BY <1>1, <1>2, PartialType
<1> QED BY <1>2, <1>3, Zenon DEF Partial

\* Concatenating in two parts.
LEMMA ConcatCat ==
  ASSUME NEW A, NEW ss \in Seq(Seq(A)), NEW tt \in Seq(Seq(A))
  PROVE  Concat(ss \o tt) = Concat(ss) \o Concat(tt)
<1> DEFINE n == Len(ss)
           m == Len(tt)
           uu == ss \o tt
<1>1. /\ n \in Nat /\ m \in Nat /\ Len(uu) = n + m /\ Len(uu) \in Nat
      /\ \A k \in 1 .. n : uu[k] = ss[k]
      /\ \A k \in 1 .. m : uu[n + k] = tt[k]
      /\ \A k \in 1 .. m : tt[k] \in Seq(A)
  BY CatFacts, SeqFacts, SMT, SMTT(60)
<1> HIDE DEF uu
<1>2. PICK f : Partial(ss, f)
  BY <1>1, ConcatUpto, Zenon
<1>3. PICK g : Partial(tt, g)
  BY <1>1, ConcatUpto, Zenon
<1>4. PICK h : Partial(uu, h)
  BY <1>1, ConcatUpto, Zenon
<1>5. /\ f[0] = <<>> /\ f[n] = Concat(ss) /\ \A k \in 0 .. n - 1 : f[k + 1] = f[k] \o ss[k + 1]
      /\ g[0] = <<>> /\ g[m] = Concat(tt) /\ \A k \in 0 .. m - 1 : g[k + 1] = g[k] \o tt[k + 1]
  BY <1>2, <1>3, Zenon DEF Partial
<1>6. /\ h[0] = <<>> /\ h[n + m] = Concat(uu)
      /\ \A k \in 0 .. (n + m) - 1 : h[k + 1] = h[k] \o uu[k + 1]
  BY <1>1, <1>4, Zenon DEF Partial
<1>7. \A k \in 0 .. n : f[k] \in Seq(A)
  BY <1>2, PartialType, Zenon
<1>8. \A k \in 0 .. m : g[k] \in Seq(A)
  BY <1>3, PartialType, Zenon
<1> HIDE DEF n, m
<1>9. n \in 0 .. n /\ m \in 0 .. m /\ 0 \in 0 .. n /\ 0 \in 0 .. m /\ n + 0 = n
  BY <1>1
<1> DEFINE S == {k \in 0 .. n : h[k] = f[k]}
           U == {k \in 0 .. m : h[n + k] = f[n] \o g[k]}
<1>10. \A k \in 0 .. n : k \in S
  <2>1. 0 \in S
    BY <1>5, <1>6, <1>9, Zenon
  <2>2. ASSUME NEW k \in 0 .. n - 1, k \in S PROVE k + 1 \in S
    <3>1. k + 1 \in 1 .. n /\ k \in 0 .. (n + m) - 1 /\ k + 1 \in 0 .. n
      BY <1>1
    <3>2. h[k + 1] = h[k] \o uu[k + 1] /\ uu[k + 1] = ss[k + 1] /\ h[k] = f[k]
          /\ f[k + 1] = f[k] \o ss[k + 1]
      BY <1>1, <1>5, <1>6, <2>2, <3>1, Zenon
    <3> QED BY <3>1, <3>2, Zenon
  <2> HIDE DEF S
  <2> QED BY <1>1, <2>1, <2>2, InductTo, Zenon
<1>11. h[n] = f[n]
  BY <1>9, <1>10, Zenon
<1>12. \A k \in 0 .. m : k \in U
  <2>1. 0 \in U
    <3>1. f[n] \o g[0] = f[n]
      BY <1>5, <1>7, <1>9, CatEmpty, Zenon
    <3> QED BY <1>9, <1>11, <3>1, Zenon
  <2>2. ASSUME NEW k \in 0 .. m - 1, k \in U PROVE k + 1 \in U
    <3>1. k + 1 \in 1 .. m /\ n + k \in 0 .. (n + m) - 1 /\ n + (k + 1) = (n + k) + 1
          /\ k \in 0 .. m /\ k + 1 \in 0 .. m
      BY <1>1
    <3>2. /\ h[(n + k) + 1] = h[n + k] \o uu[(n + k) + 1]
          /\ uu[n + (k + 1)] = tt[k + 1] /\ tt[k + 1] \in Seq(A)
          /\ h[n + k] = f[n] \o g[k] /\ g[k] \in Seq(A) /\ f[n] \in Seq(A)
          /\ g[k + 1] = g[k] \o tt[k + 1]
      BY <1>1, <1>5, <1>6, <1>7, <1>8, <1>9, <2>2, <3>1, Zenon
    <3>3. (f[n] \o g[k]) \o tt[k + 1] = f[n] \o (g[k] \o tt[k + 1])
      <4>1. \A s, t, u \in Seq(A) : (s \o t) \o u = s \o (t \o u)
        BY SMT, SMTT(60)
      <4> QED BY <3>2, <4>1, Zenon
    <3>4. h[n + (k + 1)] = f[n] \o g[k + 1]
      BY <3>1, <3>2, <3>3, Zenon
    <3> QED BY <3>1, <3>4, Zenon
  <2> HIDE DEF U
  <2> QED BY <1>1, <2>1, <2>2, InductTo, Zenon
<1>13. h[n + m] = f[n] \o g[m]
  BY <1>9, <1>12, Zenon
<1> QED BY <1>5, <1>6, <1>13, Zenon DEF uu

\* Sequences of one entry each join to the sequence of the entries.
LEMMA ConcatSingles ==
  ASSUME NEW A, NEW s \in Seq(A)
  PROVE  Concat([k \in DOMAIN s |-> <<s[k]>>]) = s
<1> DEFINE ss == [k \in DOMAIN s |-> <<s[k]>>]
           n == Len(s)
           cut(k) == [j \in 1 .. k |-> s[j]]
<1>1. n \in Nat /\ Len(ss) = n /\ s = cut(n)
      /\ \A k \in 1 .. n : ss[k] = <<s[k]>> /\ s[k] \in A
  OBVIOUS
<1> HIDE DEF ss
<1>2. PICK f : Partial(ss, f)
  BY <1>1, ConcatUpto, Zenon
<1>3. f[0] = <<>> /\ f[n] = Concat(ss) /\ \A k \in 0 .. n - 1 : f[k + 1] = f[k] \o ss[k + 1]
  BY <1>1, <1>2, Zenon DEF Partial
<1> HIDE DEF n
<1> DEFINE S == {k \in 0 .. n : f[k] = cut(k)}
<1>4. 0 \in S
  <2>1. cut(0) = <<>> /\ 0 \in 0 .. n
    BY <1>1
  <2> QED BY <1>3, <2>1, Zenon
<1>5. ASSUME NEW k \in 0 .. n - 1, k \in S PROVE k + 1 \in S
  <2>1. k + 1 \in 1 .. n /\ k + 1 \in 0 .. n
    BY <1>1
  <2>2. f[k + 1] = f[k] \o ss[k + 1] /\ ss[k + 1] = <<s[k + 1]>> /\ f[k] = cut(k)
    BY <1>1, <1>3, <1>5, <2>1, Zenon
  <2>3. cut(k) \o <<s[k + 1]>> = cut(k + 1)
    BY <1>1, <2>1, SMT, SMTT(60)
  <2>4. f[k + 1] = cut(k + 1)
    BY <2>2, <2>3, Zenon
  <2> QED BY <2>1, <2>4, Zenon
<1> HIDE DEF S
<1>6. \A k \in 0 .. n : k \in S
  BY <1>1, <1>4, <1>5, InductTo, Zenon
<1>7. f[n] = cut(n)
  <2>1. n \in 0 .. n
    BY <1>1
  <2> QED BY <1>6, <2>1, Zenon DEF S
<1>8. Concat(ss) = s
  BY <1>1, <1>3, <1>7, Zenon
<1> QED BY <1>8, Zenon DEF ss

-----------------------------------------------------------------------------
\* Text and characters.

Marks(s) == [k \in DOMAIN s |-> IF s[k] >= 0 THEN <<s[k]>> ELSE <<>>]

\* The pieces that Text joins.
LEMMA MarksType ==
  ASSUME NEW s \in Seq(Int)
  PROVE  /\ Marks(s) \in Seq(Seq(Nat)) /\ Len(Marks(s)) = Len(s)
         /\ \A k \in 1 .. Len(s) : Marks(s)[k] = IF s[k] >= 0 THEN <<s[k]>> ELSE <<>>
<1>1. DOMAIN s = 1 .. Len(s) /\ Len(s) \in Nat /\ \A k \in 1 .. Len(s) : s[k] \in Int
  OBVIOUS
<1>2. \A k \in 1 .. Len(s) : (IF s[k] >= 0 THEN <<s[k]>> ELSE <<>>) \in Seq(Nat)
  BY <1>1
<1>3. Marks(s) = [k \in 1 .. Len(s) |-> IF s[k] >= 0 THEN <<s[k]>> ELSE <<>>]
  BY <1>1, Zenon DEF Marks
<1> QED BY <1>1, <1>2, <1>3, SMT, SMTT(60)

\* A text is made of bytes and codes.
LEMMA TextType ==
  ASSUME NEW s \in Seq(Int)
  PROVE  Text(s) \in Seq(Nat)
BY MarksType, ConcatType, Zenon DEF Text, Marks

\* The text of an output that grows grows by the text of what is added.
LEMMA TextCat ==
  ASSUME NEW s \in Seq(Int), NEW t \in Seq(Int)
  PROVE  Text(s \o t) = Text(s) \o Text(t)
<1> DEFINE u == s \o t
<1>1. /\ u \in Seq(Int) /\ Len(u) = Len(s) + Len(t) /\ Len(s) \in Nat /\ Len(t) \in Nat
      /\ \A k \in 1 .. Len(s) : u[k] = s[k]
      /\ \A k \in 1 .. Len(t) : u[Len(s) + k] = t[k]
  BY CatFacts, SMT, SMTT(60)
<1>2. /\ Marks(s) \in Seq(Seq(Nat)) /\ Len(Marks(s)) = Len(s)
      /\ \A k \in 1 .. Len(s) : Marks(s)[k] = IF s[k] >= 0 THEN <<s[k]>> ELSE <<>>
  BY MarksType, SMT, SMTT(60)
<1>3. /\ Marks(t) \in Seq(Seq(Nat)) /\ Len(Marks(t)) = Len(t)
      /\ \A k \in 1 .. Len(t) : Marks(t)[k] = IF t[k] >= 0 THEN <<t[k]>> ELSE <<>>
  BY MarksType
<1> HIDE DEF u
<1>4. /\ Marks(u) \in Seq(Seq(Nat)) /\ Len(Marks(u)) = Len(u)
      /\ \A k \in 1 .. Len(u) : Marks(u)[k] = IF u[k] >= 0 THEN <<u[k]>> ELSE <<>>
  BY <1>1, MarksType, Zenon
<1>5. Marks(u) = Marks(s) \o Marks(t)
  <2>1. PICK x \in Seq(Seq(Nat)) : x = Marks(s)
    BY <1>2, Zenon
  <2>2. PICK y \in Seq(Seq(Nat)) : y = Marks(t)
    BY <1>3, Zenon
  <2>3. PICK v \in Seq(Seq(Nat)) : v = x \o y
    BY CatFacts, Zenon
  <2>4. /\ Len(v) = Len(x) + Len(y)
        /\ \A k \in 1 .. Len(x) : v[k] = x[k]
        /\ \A k \in 1 .. Len(y) : v[Len(x) + k] = y[k]
    BY ONLY <2>3, x \in Seq(Seq(Nat)), y \in Seq(Seq(Nat)), CatFacts, SMT, SMTT(60)
  <2>5. /\ Len(v) = Len(u)
        /\ \A k \in 1 .. Len(s) : v[k] = Marks(s)[k]
        /\ \A k \in 1 .. Len(t) : v[Len(s) + k] = Marks(t)[k]
    BY <1>1, <1>2, <1>3, <2>1, <2>2, <2>4, Zenon
  <2>6. ASSUME NEW k \in 1 .. Len(s) PROVE Marks(u)[k] = v[k]
    <3>1. k \in 1 .. Len(u)
      BY <1>1
    <3> QED BY <1>1, <1>2, <1>4, <2>5, <3>1, ZenonT(40)
  <2>7. ASSUME NEW k \in 1 .. Len(t) PROVE Marks(u)[Len(s) + k] = v[Len(s) + k]
    <3>1. Len(s) + k \in 1 .. Len(u)
      BY <1>1
    <3>2. Marks(u)[Len(s) + k] = IF t[k] >= 0 THEN <<t[k]>> ELSE <<>>
      BY <1>1, <1>4, <3>1, Zenon
    <3> QED BY <1>3, <2>5, <3>2, Zenon
  <2>8. ASSUME NEW k \in 1 .. Len(u) PROVE Marks(u)[k] = v[k]
    <3>1. k \in 1 .. Len(s) \/ \E j \in 1 .. Len(t) : k = Len(s) + j
      <4>1. CASE k <= Len(s)
        BY <1>1, <4>1
      <4>2. CASE k > Len(s)
        <5>1. k - Len(s) \in 1 .. Len(t) /\ k = Len(s) + (k - Len(s))
          BY <1>1, <4>2, SMT, SMTT(60)
        <5> QED BY <5>1, Zenon
      <4> QED BY <1>1, <4>1, <4>2, SMT, SMTT(60)
    <3> QED BY <2>6, <2>7, <3>1, Zenon
  <2>9. Marks(u) = v
    BY <1>4, <2>5, <2>8, SeqEqual, SMT, SMTT(60)
  <2> QED BY <2>1, <2>2, <2>3, <2>9, Zenon
<1>6. Concat(Marks(s) \o Marks(t)) = Concat(Marks(s)) \o Concat(Marks(t))
  BY <1>2, <1>3, ConcatCat
<1>7. Concat(Marks(u)) = Concat(Marks(s)) \o Concat(Marks(t))
  BY <1>5, <1>6, Zenon
<1> QED BY <1>7, Zenon DEF Text, Marks, u

\* What has no lines of the kernel is its own text.
LEMMA TextOfBytes ==
  ASSUME NEW s \in Seq(Nat)
  PROVE  Text(s) = s
<1>1. Marks(s) = [k \in DOMAIN s |-> <<s[k]>>]
  <2>1. \A k \in DOMAIN s : (IF s[k] >= 0 THEN <<s[k]>> ELSE <<>>) = <<s[k]>>
    OBVIOUS
  <2> QED BY <2>1, Zenon DEF Marks
<1>2. Concat([k \in DOMAIN s |-> <<s[k]>>]) = s
  BY ConcatSingles, Zenon
<1> QED BY <1>1, <1>2, Zenon DEF Text, Marks

\* A line of the kernel's own is no text of the program.
LEMMA TextOfMark ==
  ASSUME NEW m \in Int, m < 0
  PROVE  Text(<<m>>) = <<>>
<1> DEFINE ss == Marks(<<m>>)
<1>1. Len(ss) = 1 /\ ss[1] = <<>>
  BY DEF Marks
<1> HIDE DEF ss
<1>2. PICK f : Partial(ss, f)
  BY <1>1, ConcatUpto, SMT, SMTT(60)
<1>3. f[0] = <<>> /\ f[1] = Concat(ss) /\ f[0 + 1] = f[0] \o ss[0 + 1]
  BY <1>1, <1>2, SMT, SMTT(60) DEF Partial
<1>4. Concat(ss) = <<>>
  BY <1>1, <1>3
<1> QED BY <1>4, Zenon DEF ss, Text, Marks

Ascii == 0 .. 127
Byte == 0 .. 223

\* Whole characters stay whole when two valid strings meet.
LEMMA Utf8Cat ==
  ASSUME NEW s \in Seq(Nat), NEW t \in Seq(Nat), from_utf8(s), from_utf8(t)
  PROVE  from_utf8(s \o t)
<1>1. PICK u \in Seq(Nat) : u = s \o t
  BY CatFacts, Zenon
<1>2. /\ Len(u) = Len(s) + Len(t) /\ Len(s) \in Nat /\ Len(t) \in Nat
      /\ DOMAIN u = 1 .. Len(u) /\ DOMAIN s = 1 .. Len(s) /\ DOMAIN t = 1 .. Len(t)
      /\ \A k \in 1 .. Len(s) : u[k] = s[k]
      /\ \A k \in 1 .. Len(t) : u[Len(s) + k] = t[k]
  BY <1>1, CatFacts, SMT, SMTT(60)
<1>3. ASSUME NEW k \in 1 .. Len(u)
      PROVE  /\ u[k] < 128 \/ Lead(u[k]) \/ Continuation(u[k])
             /\ Lead(u[k]) => k < Len(u) /\ Continuation(u[k + 1])
             /\ Continuation(u[k]) => k > 1 /\ Lead(u[k - 1])
  <2>1. CASE k <= Len(s)
    <3>1. k \in 1 .. Len(s) /\ u[k] = s[k]
      BY <1>2, <2>1
    <3>2. /\ s[k] < 128 \/ Lead(s[k]) \/ Continuation(s[k])
          /\ Lead(s[k]) => k < Len(s) /\ Continuation(s[k + 1])
          /\ Continuation(s[k]) => k > 1 /\ Lead(s[k - 1])
      BY <1>2, <3>1, Zenon DEF from_utf8
    <3>3. k < Len(s) => k < Len(u) /\ u[k + 1] = s[k + 1]
      <4>1. k < Len(s) => k < Len(u) /\ k + 1 \in 1 .. Len(s)
        BY <1>2, <3>1, SMT, SMTT(60)
      <4> QED BY <1>2, <4>1, Zenon
    <3>4. k > 1 => u[k - 1] = s[k - 1]
      <4>1. k > 1 => k - 1 \in 1 .. Len(s)
        BY <1>2, <3>1
      <4> QED BY <1>2, <4>1, Zenon
    <3> QED BY <3>1, <3>2, <3>3, <3>4, ZenonT(40)
  <2>2. CASE k > Len(s)
    <3>1. PICK j \in 1 .. Len(t) : k = Len(s) + j
      <4>1. k - Len(s) \in 1 .. Len(t) /\ k = Len(s) + (k - Len(s))
        BY <1>2, <2>2, SMT, SMTT(60)
      <4> QED BY <4>1, Zenon
    <3>2. u[k] = t[j]
      BY <1>2, <3>1, Zenon
    <3>3. /\ t[j] < 128 \/ Lead(t[j]) \/ Continuation(t[j])
          /\ Lead(t[j]) => j < Len(t) /\ Continuation(t[j + 1])
          /\ Continuation(t[j]) => j > 1 /\ Lead(t[j - 1])
      BY <1>2, Zenon DEF from_utf8
    <3>4. j < Len(t) => k < Len(u) /\ u[k + 1] = t[j + 1]
      <4>1. SUFFICES ASSUME j < Len(t) PROVE k < Len(u) /\ u[k + 1] = t[j + 1]
        BY SMT, SMTT(60)
      <4>2. k < Len(u) /\ j + 1 \in 1 .. Len(t) /\ k + 1 = Len(s) + (j + 1)
        BY <1>2, <3>1, <4>1, SMT, SMTT(60)
      <4>3. u[Len(s) + (j + 1)] = t[j + 1]
        BY <1>2, <4>2, Zenon
      <4> QED BY <4>2, <4>3, Zenon
    <3>5. j > 1 => k > 1 /\ u[k - 1] = t[j - 1]
      <4>1. SUFFICES ASSUME j > 1 PROVE k > 1 /\ u[k - 1] = t[j - 1]
        BY SMT, SMTT(60)
      <4>2. k > 1 /\ j - 1 \in 1 .. Len(t) /\ k - 1 = Len(s) + (j - 1)
        BY <1>2, <3>1, <4>1, SMT, SMTT(60)
      <4>3. u[Len(s) + (j - 1)] = t[j - 1]
        BY <1>2, <4>2, Zenon
      <4> QED BY <4>2, <4>3, Zenon
    <3> QED BY <3>2, <3>3, <3>4, <3>5, Zenon
  <2> QED BY <1>2, <2>1, <2>2
<1>4. from_utf8(u)
  BY <1>2, <1>3, Zenon DEF from_utf8
<1> QED BY <1>1, <1>4, Zenon

\* ASCII is UTF-8.
LEMMA Utf8Ascii ==
  ASSUME NEW s \in Seq(Ascii)
  PROVE  from_utf8(s)
<1>1. \A k \in DOMAIN s : s[k] \in Ascii
  BY SeqFacts, Zenon
<1>2. \A b \in Ascii : b < 128 /\ ~ Lead(b) /\ ~ Continuation(b)
  BY DEF Ascii, Lead, Continuation
<1> QED BY <1>1, <1>2, Zenon DEF from_utf8

Points(s) ==
  [k \in DOMAIN s |->
     IF Continuation(s[k]) THEN <<>> ELSE
     IF s[k] < 128 THEN <<s[k]>> ELSE <<(s[k] - 192) * 64 + s[k + 1] - 128>>]

\* The characters of ASCII bytes are the bytes.
LEMMA CharsAscii ==
  ASSUME NEW s \in Seq(Ascii)
  PROVE  chars(s) = s
<1>1. \A k \in DOMAIN s : s[k] < 128 /\ ~ Continuation(s[k])
  <2>1. \A k \in DOMAIN s : s[k] \in Ascii
    BY SeqFacts, Zenon
  <2>2. \A b \in Ascii : b < 128 /\ ~ Continuation(b)
    BY DEF Ascii, Continuation
  <2> QED BY <2>1, <2>2, Zenon
<1>2. Points(s) = [k \in DOMAIN s |-> <<s[k]>>]
  BY <1>1, Zenon DEF Points
<1>3. Concat([k \in DOMAIN s |-> <<s[k]>>]) = s
  BY ConcatSingles, Zenon
<1> QED BY <1>2, <1>3, Zenon DEF chars, Points

\* chars gives code points.
LEMMA CharsType ==
  ASSUME NEW s \in Seq(Byte), from_utf8(s)
  PROVE  chars(s) \in Seq(Nat)
<1>1. DOMAIN s = 1 .. Len(s) /\ Len(s) \in Nat /\ \A k \in 1 .. Len(s) : s[k] \in Byte
  BY SeqFacts, Zenon
<1>2. ASSUME NEW k \in 1 .. Len(s), ~ Continuation(s[k]), ~ (s[k] < 128)
      PROVE  <<(s[k] - 192) * 64 + s[k + 1] - 128>> \in Seq(Nat)
  <2>1. Lead(s[k]) /\ Continuation(s[k + 1])
    BY <1>1, <1>2, Zenon DEF from_utf8
  <2>2. \A b, c : Lead(b) /\ Continuation(c) => (b - 192) * 64 + c - 128 \in Nat
    BY DEF Lead, Continuation
  <2>3. (s[k] - 192) * 64 + s[k + 1] - 128 \in Nat
    BY <2>1, <2>2, Zenon
  <2>4. \A n \in Nat : <<n>> \in Seq(Nat)
    OBVIOUS
  <2> QED BY <2>3, <2>4, Zenon
<1>3. \A k \in 1 .. Len(s) : <<s[k]>> \in Seq(Nat)
  <2>1. \A n \in Byte : <<n>> \in Seq(Nat)
    BY DEF Byte
  <2> QED BY <1>1, <2>1, Zenon
<1>4. <<>> \in Seq(Nat)
  OBVIOUS
<1>5. Points(s) \in [1 .. Len(s) -> Seq(Nat)]
  BY <1>1, <1>2, <1>3, <1>4, Zenon DEF Points
<1>6. Points(s) \in Seq(Seq(Nat))
  BY <1>1, <1>5
<1>7. Concat(Points(s)) \in Seq(Nat)
  BY <1>6, ConcatType, Zenon
<1> QED BY <1>7, Zenon DEF chars, Points

-----------------------------------------------------------------------------
\* What write and writev put out.

Code == 0 .. 255

\* The bytes d reached the console, and the answer acknowledges all of them.
Shown(w, d) ==
  /\ w.screen \in Seq(Code) /\ w.serial \in Seq(Byte) /\ from_utf8(w.serial)
  /\ w.answer = Len(d)
  /\ d \in Seq(Ascii) => w.screen = d /\ w.serial = d

\* Nothing did, and the answer acknowledges nothing.
Silent(w) == w.screen = <<>> /\ w.serial = <<>> /\ w.answer \in {0, EBADF}

\* Sequences over a smaller alphabet are sequences over a larger one.
LEMMA Widen ==
  ASSUME NEW A, NEW B, A \subseteq B
  PROVE  Seq(A) \subseteq Seq(B)
OBVIOUS

\* sys_write on stdout or stderr shows the buffer and acknowledges all of it.
LEMMA WriteShown ==
  ASSUME NEW fd \in {STDOUT, STDERR}, NEW buf \in Seq(Byte)
  PROVE  Shown(sys_write(fd, buf), buf)
<1>1. CASE from_utf8(buf)
  <2> DEFINE glyphs == [k \in DOMAIN chars(buf) |-> print_char(chars(buf)[k])]
  <2>1. sys_write(fd, buf) = [screen |-> glyphs, serial |-> buf, answer |-> Len(buf)]
    BY <1>1, Zenon DEF sys_write
  <2>2. PICK c \in Seq(Nat) : c = chars(buf)
    BY <1>1, CharsType, Zenon
  <2>3. \A n \in Nat : print_char(n) \in Code
    BY DEF print_char, Code
  <2>4. glyphs \in Seq(Code)
    <3>1. DOMAIN c = 1 .. Len(c) /\ Len(c) \in Nat /\ \A k \in 1 .. Len(c) : c[k] \in Nat
      BY SeqFacts, Zenon
    <3>2. [k \in DOMAIN c |-> print_char(c[k])] \in [1 .. Len(c) -> Code]
      BY <2>3, <3>1, Zenon
    <3>3. \A n \in Nat : [1 .. n -> Code] \subseteq Seq(Code)
      OBVIOUS
    <3> QED BY <2>2, <3>1, <3>2, <3>3, Zenon
  <2>5. ASSUME buf \in Seq(Ascii) PROVE glyphs = buf
    <3>1. chars(buf) = buf
      BY <2>5, CharsAscii, Zenon
    <3>2. DOMAIN buf = 1 .. Len(buf) /\ buf = [k \in 1 .. Len(buf) |-> buf[k]]
          /\ \A k \in 1 .. Len(buf) : buf[k] \in Ascii
      BY <2>5, SeqFacts, Zenon
    <3>3. \A b \in Ascii : print_char(b) = b
      BY SMT, SMTT(60) DEF Ascii, print_char
    <3> QED BY <3>1, <3>2, <3>3, Zenon
  <2> HIDE DEF glyphs
  <2>6. /\ sys_write(fd, buf).screen = glyphs /\ sys_write(fd, buf).serial = buf
        /\ sys_write(fd, buf).answer = Len(buf)
    BY ONLY <2>1
  <2> QED BY <1>1, <2>4, <2>5, <2>6, Zenon DEF Shown
<1>2. CASE ~ from_utf8(buf)
  <2>1. sys_write(fd, buf) = [screen |-> buf, serial |-> <<>>, answer |-> Len(buf)]
    BY <1>2, Zenon DEF sys_write
  <2>2. sys_write(fd, buf).screen = buf /\ sys_write(fd, buf).serial = <<>>
        /\ sys_write(fd, buf).answer = Len(buf)
    BY ONLY <2>1
  <2>3. buf \notin Seq(Ascii)
    BY <1>2, Utf8Ascii, Zenon
  <2>4. buf \in Seq(Code)
    <3>1. Byte \subseteq Code
      BY DEF Byte, Code
    <3> QED BY <3>1, Widen, Zenon
  <2>5. <<>> \in Seq(Byte) /\ from_utf8(<<>>)
    BY DEF from_utf8
  <2> QED BY <2>2, <2>3, <2>4, <2>5, Zenon DEF Shown
<1> QED BY <1>1, <1>2, Zenon

\* Two ASCII strings make one, and only they do.
LEMMA AsciiCat ==
  ASSUME NEW d \in Seq(Byte), NEW e \in Seq(Byte), d \o e \in Seq(Ascii)
  PROVE  d \in Seq(Ascii) /\ e \in Seq(Ascii)
<1>1. PICK u \in Seq(Ascii) : u = d \o e
  BY Zenon
<1>2. /\ Len(u) = Len(d) + Len(e) /\ Len(d) \in Nat /\ Len(e) \in Nat
      /\ d = [k \in 1 .. Len(d) |-> d[k]] /\ e = [k \in 1 .. Len(e) |-> e[k]]
      /\ \A k \in 1 .. Len(d) : u[k] = d[k]
      /\ \A k \in 1 .. Len(e) : u[Len(d) + k] = e[k]
  BY <1>1, CatFacts, SeqFacts
<1>3. \A k \in 1 .. Len(u) : u[k] \in Ascii
  BY SeqFacts, Zenon
<1>4. ASSUME NEW k \in 1 .. Len(d) PROVE d[k] \in Ascii
  <2>1. k \in 1 .. Len(u)
    BY <1>2
  <2> QED BY <1>2, <1>3, <2>1, Zenon
<1>5. ASSUME NEW k \in 1 .. Len(e) PROVE e[k] \in Ascii
  <2>1. Len(d) + k \in 1 .. Len(u)
    BY <1>2
  <2>2. u[Len(d) + k] \in Ascii
    BY <1>3, <2>1, Zenon
  <2> QED BY <1>2, <2>2, Zenon
<1>6. d \in [1 .. Len(d) -> Ascii] /\ e \in [1 .. Len(e) -> Ascii]
  BY <1>2, <1>4, <1>5, Zenon
<1>7. \A n \in Nat : [1 .. n -> Ascii] \subseteq Seq(Ascii)
  OBVIOUS
<1> QED BY <1>2, <1>6, <1>7, Zenon

\* Two writes, one after the other, show the one buffer and then the other.
LEMMA ThenShown ==
  ASSUME NEW d \in Seq(Byte), NEW e \in Seq(Byte), NEW x, NEW y, Shown(x, d), Shown(y, e)
  PROVE  Shown(then(x, y), d \o e)
<1>1. /\ x.screen \in Seq(Code) /\ x.serial \in Seq(Byte) /\ from_utf8(x.serial)
      /\ x.answer = Len(d) /\ (d \in Seq(Ascii) => x.screen = d /\ x.serial = d)
  BY Zenon DEF Shown
<1>2. /\ y.screen \in Seq(Code) /\ y.serial \in Seq(Byte) /\ from_utf8(y.serial)
      /\ y.answer = Len(e) /\ (e \in Seq(Ascii) => y.screen = e /\ y.serial = e)
  BY Zenon DEF Shown
<1>3. ~(Len(d) < 0) /\ ~(Len(e) < 0) /\ Len(d \o e) = Len(d) + Len(e)
  BY CatFacts, SeqFacts
<1>4. then(x, y) = [screen |-> x.screen \o y.screen, serial |-> x.serial \o y.serial,
                    answer |-> x.answer + y.answer]
  BY <1>1, <1>2, <1>3, Zenon DEF then
<1>5. /\ then(x, y).screen = x.screen \o y.screen /\ then(x, y).serial = x.serial \o y.serial
      /\ then(x, y).answer = x.answer + y.answer
  <2>1. PICK p, q, r : p = x.screen \o y.screen /\ q = x.serial \o y.serial
                       /\ r = x.answer + y.answer
    BY Zenon
  <2>2. then(x, y) = [screen |-> p, serial |-> q, answer |-> r]
    BY <1>4, <2>1, Zenon
  <2>3. then(x, y).screen = p /\ then(x, y).serial = q /\ then(x, y).answer = r
    BY ONLY <2>2, SMT, SMTT(60)
  <2> QED BY <2>1, <2>3, Zenon
<1>6. x.screen \o y.screen \in Seq(Code)
  BY <1>1, <1>2, CatType, SMT, SMTT(60)
<1>7. x.serial \o y.serial \in Seq(Byte)
  BY <1>1, <1>2, CatType
<1>8. from_utf8(x.serial \o y.serial)
  <2>1. Seq(Byte) \subseteq Seq(Nat)
    <3>1. Byte \subseteq Nat
      BY DEF Byte
    <3> QED BY <3>1, Widen, Zenon
  <2>2. PICK a \in Seq(Nat) : a = x.serial
    BY <1>1, <2>1, Zenon
  <2>3. PICK b \in Seq(Nat) : b = y.serial
    BY <1>2, <2>1, Zenon
  <2>4. from_utf8(a) /\ from_utf8(b)
    BY <1>1, <1>2, <2>2, <2>3, Zenon
  <2>5. from_utf8(a \o b)
    BY <2>4, Utf8Cat, Zenon
  <2> QED BY <2>2, <2>3, <2>5, Zenon
<1>9. d \o e \in Seq(Ascii) => x.screen \o y.screen = d \o e /\ x.serial \o y.serial = d \o e
  <2>1. d \o e \in Seq(Ascii) => d \in Seq(Ascii) /\ e \in Seq(Ascii)
    BY AsciiCat, Zenon
  <2> QED BY <1>1, <1>2, <2>1, Zenon
<1> QED BY <1>1, <1>2, <1>3, <1>5, <1>6, <1>7, <1>8, <1>9, Zenon DEF Shown

\* f is the function that sys_writev(fd, iov) chooses, for the first n buffers.
Nothing == [screen |-> <<>>, serial |-> <<>>, answer |-> 0]

IsDone(fd, iov, n, f) ==
  f = [k \in 0 .. n |-> IF k = 0 THEN Nothing ELSE then(f[k - 1], sys_write(fd, iov[k]))]

\* The loop of sys_writev has a solution.
LEMMA DoneExists ==
  ASSUME NEW fd, NEW iov, NEW n \in Nat
  PROVE  \E f : IsDone(fd, iov, n, f)
<1> DEFINE S == {m \in Nat : \E f : IsDone(fd, iov, m, f)}
<1>1. 0 \in S
  <2>1. IsDone(fd, iov, 0, [k \in 0 .. 0 |-> Nothing])
    BY DEF IsDone
  <2> QED BY <2>1
<1>2. ASSUME NEW m \in Nat, m \in S PROVE m + 1 \in S
  <2>1. PICK f : IsDone(fd, iov, m, f)
    BY <1>2, SMT, SMTT(60)
  <2> DEFINE g == [k \in 0 .. m + 1 |-> IF k <= m THEN f[k]
                                        ELSE then(f[m], sys_write(fd, iov[m + 1]))]
  <2>2. IsDone(fd, iov, m + 1, g)
    BY <2>1 DEF IsDone
  <2> QED BY <2>2
<1> HIDE DEF S
<1>3. n \in S
  BY <1>1, <1>2, Induct
<1> QED BY <1>3 DEF S

\* f is the sequence of what the loop of sys_writev has done after each buffer.
Progress(fd, iov, f) ==
  /\ f[0] = Nothing /\ f[Len(iov)] = sys_writev(fd, iov)
  /\ \A k \in 0 .. Len(iov) - 1 : f[k + 1] = then(f[k], sys_write(fd, iov[k + 1]))

\* sys_writev writes one buffer at a time.
LEMMA WritevDone ==
  ASSUME NEW fd, NEW iov, Len(iov) \in Nat
  PROVE  \E f : Progress(fd, iov, f)
<1> DEFINE f == CHOOSE f : f = [k \in 0 .. Len(iov) |->
                                  IF k = 0 THEN Nothing ELSE then(f[k - 1], sys_write(fd, iov[k]))]
<1>1. IsDone(fd, iov, Len(iov), f)
  <2>1. \E g : IsDone(fd, iov, Len(iov), g)
    BY DoneExists, Zenon
  <2> QED BY <2>1, Zenon DEF IsDone
<1>2. sys_writev(fd, iov) = f[Len(iov)]
  BY Zenon DEF sys_writev, Nothing
<1> HIDE DEF f
<1>3. f[0] = Nothing /\ \A k \in 0 .. Len(iov) - 1 : f[k + 1] = then(f[k], sys_write(fd, iov[k + 1]))
  BY <1>1 DEF IsDone
<1> QED BY <1>2, <1>3, Zenon DEF Progress

\* On a descriptor of the console the loop goes on to the last buffer.
LEMMA WritevShown ==
  ASSUME NEW fd \in {STDOUT, STDERR}, NEW iov \in Seq(Seq(Byte))
  PROVE  Shown(sys_writev(fd, iov), Concat(iov))
<1>1. Len(iov) \in Nat /\ \A k \in 1 .. Len(iov) : iov[k] \in Seq(Byte)
  BY SeqFacts, Zenon
<1>2. PICK f : Progress(fd, iov, f)
  BY <1>1, WritevDone, Zenon
<1>3. PICK g : Partial(iov, g)
  BY <1>1, ConcatUpto, Zenon
<1>4. \A k \in 0 .. Len(iov) : g[k] \in Seq(Byte)
  BY <1>3, PartialType, Zenon
<1> DEFINE S == {k \in 0 .. Len(iov) : Shown(f[k], g[k])}
<1>5. 0 \in S
  <2>1. Shown(Nothing, <<>>)
    <3>1. Nothing.screen = <<>> /\ Nothing.serial = <<>> /\ Nothing.answer = 0
      BY DEF Nothing
    <3>2. <<>> \in Seq(Code) /\ <<>> \in Seq(Byte) /\ from_utf8(<<>>) /\ Len(<<>>) = 0
      BY DEF from_utf8
    <3> QED BY <3>1, <3>2, Zenon DEF Shown
  <2>2. 0 \in 0 .. Len(iov)
    BY <1>1
  <2> QED BY <1>2, <1>3, <2>1, <2>2, Zenon DEF Progress, Partial
<1>6. ASSUME NEW k \in 0 .. Len(iov) - 1, k \in S PROVE k + 1 \in S
  <2>1. k \in 0 .. Len(iov) /\ k + 1 \in 0 .. Len(iov) /\ k + 1 \in 1 .. Len(iov)
    BY <1>1
  <2>2. iov[k + 1] \in Seq(Byte) /\ g[k] \in Seq(Byte) /\ Shown(f[k], g[k])
    BY <1>1, <1>4, <1>6, <2>1, Zenon
  <2>3. Shown(sys_write(fd, iov[k + 1]), iov[k + 1])
    BY <2>2, WriteShown, Zenon
  <2>4. PICK x, y, d, e : x = f[k] /\ y = sys_write(fd, iov[k + 1]) /\ d = g[k] /\ e = iov[k + 1]
    BY Zenon
  <2>5. Shown(then(x, y), d \o e)
    <3>1. d \in Seq(Byte) /\ e \in Seq(Byte) /\ Shown(x, d) /\ Shown(y, e)
      BY <2>2, <2>3, <2>4, Zenon
    <3> QED BY <3>1, ThenShown, Zenon
  <2>6. f[k + 1] = then(x, y) /\ g[k + 1] = d \o e
    BY <1>2, <1>3, <2>4, Zenon DEF Progress, Partial
  <2> QED BY <2>1, <2>5, <2>6, Zenon
<1> HIDE DEF S
<1>7. \A k \in 0 .. Len(iov) : k \in S
  BY <1>1, <1>5, <1>6, InductTo, Zenon
<1>8. Len(iov) \in 0 .. Len(iov)
  BY <1>1
<1>9. Shown(f[Len(iov)], g[Len(iov)])
  BY <1>7, <1>8, Zenon DEF S
<1> QED BY <1>2, <1>3, <1>9, Zenon DEF Progress, Partial

\* On any other, the first buffer ends it.
LEMMA WritevSilent ==
  ASSUME NEW fd, fd \notin {STDOUT, STDERR}, NEW iov, Len(iov) \in Nat
  PROVE  Silent(sys_writev(fd, iov))
<1>1. PICK f : Progress(fd, iov, f)
  BY WritevDone, Zenon
<1> DEFINE S == {k \in 0 .. Len(iov) : Silent(f[k])}
<1>2. 0 \in S
  <2>1. Silent(Nothing)
    BY DEF Silent, Nothing
  <2>2. 0 \in 0 .. Len(iov)
    OBVIOUS
  <2> QED BY <1>1, <2>1, <2>2, Zenon DEF Progress
<1>3. ASSUME NEW k \in 0 .. Len(iov) - 1, k \in S PROVE k + 1 \in S
  <2>1. k + 1 \in 0 .. Len(iov)
    OBVIOUS
  <2>2. PICK w : w = sys_write(fd, iov[k + 1])
    BY Zenon
  <2>3. w = [screen |-> <<>>, serial |-> <<>>, answer |-> EBADF]
    BY <2>2, Zenon DEF sys_write
  <2>4. PICK x : x = f[k] /\ Silent(x)
    BY <1>3, Zenon
  <2>5. Silent(then(x, w))
    BY <2>3, <2>4 DEF Silent, then, EBADF
  <2>6. f[k + 1] = then(x, w)
    BY <1>1, <2>2, <2>4, Zenon DEF Progress
  <2> QED BY <2>1, <2>5, <2>6, Zenon
<1> HIDE DEF S
<1>4. \A k \in 0 .. Len(iov) : k \in S
  BY <1>2, <1>3, InductTo, Zenon
<1>5. Len(iov) \in 0 .. Len(iov)
  OBVIOUS
<1>6. Silent(f[Len(iov)])
  BY <1>4, <1>5, Zenon DEF S
<1> QED BY <1>1, <1>6, Zenon DEF Progress

-----------------------------------------------------------------------------
\* The outputs after a call.

ScreenCell == {Notice} \cup 0 .. 255
SerialCell == {Log, Notice} \cup 0 .. 223

Outputs ==
  /\ screen \in Seq(ScreenCell) /\ serial \in Seq(SerialCell) /\ sent \in Seq(Byte)
  /\ AsciiShownOnce /\ SerialIsUtf8

\* How the alphabets contain each other.
LEMMA Cells ==
  /\ Seq(ScreenCell) \subseteq Seq(Int) /\ Seq(SerialCell) \subseteq Seq(Int)
  /\ Seq(Byte) \subseteq Seq(Nat) /\ Seq(Nat) \subseteq Seq(Int) /\ Seq(Ascii) \subseteq Seq(Nat)
  /\ Seq(Code) \subseteq Seq(ScreenCell) /\ Seq(Byte) \subseteq Seq(SerialCell)
  /\ Seq(Code) \subseteq Seq(Nat)
<1>1. /\ ScreenCell \subseteq Int /\ SerialCell \subseteq Int /\ Byte \subseteq Nat
      /\ Nat \subseteq Int /\ Code \subseteq ScreenCell /\ Byte \subseteq SerialCell
      /\ Code \subseteq Nat /\ Ascii \subseteq Nat
  BY DEF ScreenCell, SerialCell, Byte, Code, Notice, Log, Ascii
<1> QED BY <1>1, Widen, Zenon

\* The two ways to say that bytes are ASCII.
LEMMA AsciiIff ==
  ASSUME NEW d \in Seq(Byte)
  PROVE  (\A k \in DOMAIN d : d[k] < 128) <=> d \in Seq(Ascii)
<1>1. /\ Len(d) \in Nat /\ DOMAIN d = 1 .. Len(d) /\ d = [k \in 1 .. Len(d) |-> d[k]]
      /\ \A k \in 1 .. Len(d) : d[k] \in Byte
  BY SeqFacts, Zenon
<1>2. \A b \in Byte : b < 128 <=> b \in Ascii
  BY DEF Byte, Ascii
<1>3. \A n \in Nat : [1 .. n -> Ascii] \subseteq Seq(Ascii)
  OBVIOUS
<1>4. ASSUME \A k \in DOMAIN d : d[k] < 128 PROVE d \in Seq(Ascii)
  <2>1. d \in [1 .. Len(d) -> Ascii]
    BY <1>1, <1>2, <1>4, Zenon
  <2> QED BY <1>1, <1>3, <2>1, Zenon
<1>5. ASSUME d \in Seq(Ascii) PROVE \A k \in DOMAIN d : d[k] < 128
  <2>1. \A k \in 1 .. Len(d) : d[k] \in Ascii
    BY <1>5, SeqFacts, Zenon
  <2> QED BY <1>1, <1>2, <2>1, Zenon
<1> QED BY <1>4, <1>5, Zenon

\* A call that adds ts to the screen, the text y to the serial port and acknowledges d.
LEMMA OutputsKept ==
  ASSUME Outputs, NEW ts \in Seq(ScreenCell), NEW y \in Seq(Nat), NEW d \in Seq(Byte),
         screen' = screen \o ts, serial' \in Seq(SerialCell), sent' = sent \o d,
         Text(serial') = Text(serial) \o y, from_utf8(y),
         d \in Seq(Ascii) => Text(ts) = d /\ y = d
  PROVE  Outputs'
<1>1. screen \in Seq(ScreenCell) /\ serial \in Seq(SerialCell) /\ sent \in Seq(Byte)
      /\ AsciiShownOnce /\ from_utf8(Text(serial))
  BY Zenon DEF Outputs, SerialIsUtf8
<1>2. screen' \in Seq(ScreenCell) /\ sent' \in Seq(Byte)
  BY <1>1, CatType
<1>3. Text(screen') = Text(screen) \o Text(ts)
  <2>1. screen \in Seq(Int) /\ ts \in Seq(Int)
    BY <1>1, Cells, Zenon
  <2>2. Text(screen \o ts) = Text(screen) \o Text(ts)
    BY <2>1, TextCat, Zenon
  <2> QED BY <2>2, Zenon
<1>4. SerialIsUtf8'
  <2>1. PICK x \in Seq(Nat) : x = Text(serial)
    BY <1>1, Cells, TextType, Zenon
  <2>2. from_utf8(x \o y)
    BY <1>1, <2>1, Utf8Cat, Zenon
  <2>3. from_utf8(Text(serial'))
    BY <2>1, <2>2, Zenon
  <2> QED BY <2>3, Zenon DEF SerialIsUtf8
<1>5. AsciiShownOnce'
  <2>1. SUFFICES ASSUME \A k \in DOMAIN sent' : sent'[k] < 128
                 PROVE  Text(screen') = sent' /\ Text(serial') = sent'
    BY Zenon DEF AsciiShownOnce
  <2>2. sent' \in Seq(Ascii)
    BY <1>2, <2>1, AsciiIff, Zenon
  <2>3. sent \in Seq(Ascii) /\ d \in Seq(Ascii)
    <3>1. sent \o d \in Seq(Ascii)
      BY <2>2, Zenon
    <3> QED BY <1>1, <3>1, AsciiCat, Zenon
  <2>4. \A k \in DOMAIN sent : sent[k] < 128
    BY <1>1, <2>3, AsciiIff, Zenon
  <2>5. Text(screen) = sent /\ Text(serial) = sent
    BY <1>1, <2>4, Zenon DEF AsciiShownOnce
  <2> QED BY <1>3, <2>3, <2>5, Zenon
<1> QED BY <1>2, <1>4, <1>5, Zenon DEF Outputs

\* A line of the kernel adds no text.
LEMMA MarkAdded ==
  ASSUME NEW s \in Seq(SerialCell), NEW m \in {Log, Notice}
  PROVE  s \o <<m>> \in Seq(SerialCell) /\ Text(s \o <<m>>) = Text(s)
<1>1. PICK l \in Seq(SerialCell) : l = <<m>>
  <2>1. \A A : \A x \in A : <<x>> \in Seq(A)
    BY ONLY TRUE
  <2>2. m \in SerialCell
    BY Zenon DEF SerialCell
  <2> QED BY <2>1, <2>2, Zenon
<1>2. m \in Int /\ m < 0
  BY DEF Log, Notice
<1>3. Text(l) = <<>>
  BY <1>1, <1>2, TextOfMark, Zenon
<1>4. s \in Seq(Int) /\ l \in Seq(Int)
  BY Cells, Zenon
<1>5. Text(s \o l) = Text(s) \o Text(l)
  BY <1>4, TextCat, Zenon
<1>6. Text(s) \o <<>> = Text(s)
  BY <1>4, TextType, CatEmpty, Zenon
<1>7. s \o l \in Seq(SerialCell)
  BY CatType, Zenon
<1> QED BY <1>1, <1>3, <1>5, <1>6, <1>7, Zenon

\* handle_syscall puts its lines around what the call sends.
LEMMA HandleOutputs ==
  ASSUME Outputs, NEW nr, NEW ptr, NEW answer,
         NEW ts \in Seq(ScreenCell), NEW w \in Seq(SerialCell), NEW d \in Seq(Byte),
         handle_syscall(nr, ptr, ts, w, answer), sent' = sent \o d,
         from_utf8(Text(w)), d \in Seq(Ascii) => Text(ts) = d /\ Text(w) = d
  PROVE  Outputs'
<1>1. serial \in Seq(SerialCell) /\ Log \in {Log, Notice}
  BY Zenon DEF Outputs
<1>2. PICK a \in Seq(SerialCell) : a = serial \o <<Log>> /\ Text(a) = Text(serial)
  BY <1>1, MarkAdded, Zenon
<1>3. PICK b \in Seq(SerialCell) : b = a \o w /\ Text(b) = Text(a) \o Text(w)
  <2>1. a \in Seq(Int) /\ w \in Seq(Int)
    BY Cells, Zenon
  <2>2. Text(a \o w) = Text(a) \o Text(w)
    BY <2>1, TextCat, Zenon
  <2> QED BY <2>2, CatType, Zenon
<1>4. PICK c \in Seq(SerialCell) : c = b \o <<Log>> /\ Text(c) = Text(b)
  BY <1>1, MarkAdded, Zenon
<1>5. screen' = screen \o ts /\ serial' = serial \o <<Log>> \o w \o <<Log>>
  BY Zenon DEF handle_syscall
<1>6. serial' = c
  BY <1>2, <1>3, <1>4, <1>5, Zenon
<1>7. Text(serial') = Text(serial) \o Text(w) /\ serial' \in Seq(SerialCell)
  BY <1>2, <1>3, <1>4, <1>6, Zenon
<1>8. Text(w) \in Seq(Nat)
  BY Cells, TextType, Zenon
<1> QED BY <1>5, <1>7, <1>8, OutputsKept, Zenon

\* Lines of the kernel only.
Lines(s) == s \in {<<>>, <<Notice>>}

\* Lines of the kernel are no text of the program.
LEMMA LinesText ==
  ASSUME NEW s, Lines(s)
  PROVE  s \in Seq(ScreenCell) /\ s \in Seq(SerialCell) /\ Text(s) = <<>>
<1>1. /\ <<>> \in Seq(ScreenCell) /\ <<>> \in Seq(SerialCell) /\ <<>> \in Seq(Nat)
      /\ <<Notice>> \in Seq(ScreenCell) /\ <<Notice>> \in Seq(SerialCell)
      /\ Notice \in Int /\ Notice < 0
  BY DEF ScreenCell, SerialCell, Notice
<1>2. Text(<<>>) = <<>>
  BY <1>1, TextOfBytes, Zenon
<1>3. Text(<<Notice>>) = <<>>
  BY <1>1, TextOfMark, Zenon
<1> QED BY <1>1, <1>2, <1>3, Zenon DEF Lines

\* An empty answer acknowledges nothing.
LEMMA EmptyFacts ==
  <<>> \in Seq(Byte) /\ from_utf8(<<>>) /\ (sent \in Seq(Byte) => sent \o <<>> = sent)
<1>1. <<>> \in Seq(Byte) /\ from_utf8(<<>>)
  BY DEF from_utf8
<1> QED BY <1>1, CatEmpty, Zenon

\* A call that prints lines of the kernel only.
LEMMA QuietOutputs ==
  ASSUME Outputs, NEW nr, NEW ptr, NEW answer, NEW ts, NEW w, Lines(ts), Lines(w),
         handle_syscall(nr, ptr, ts, w, answer), UNCHANGED sent
  PROVE  Outputs'
<1>1. /\ ts \in Seq(ScreenCell) /\ w \in Seq(SerialCell) /\ Text(ts) = <<>> /\ Text(w) = <<>>
  BY LinesText, Zenon
<1>2. sent' = sent \o <<>> /\ <<>> \in Seq(Byte) /\ from_utf8(Text(w))
  BY <1>1, EmptyFacts, Zenon DEF Outputs
<1> QED BY <1>1, <1>2, HandleOutputs, Zenon

\* A call that halts the kernel.
LEMMA StopOutputs ==
  ASSUME Outputs, NEW nr, NEW final, NEW ts, Lines(ts), stop(nr, final, ts)
  PROVE  Outputs'
<1>1. ts \in Seq(ScreenCell) /\ Text(ts) = <<>>
  BY LinesText, Zenon
<1>2. PICK a \in Seq(SerialCell) : a = serial \o <<Log>> /\ Text(a) = Text(serial)
  BY MarkAdded, Zenon DEF Outputs
<1>3. PICK b \in Seq(SerialCell) : b = a \o <<Notice>> /\ Text(b) = Text(a)
  BY MarkAdded, Zenon
<1>4. serial' = b
  BY <1>2, <1>3, Zenon DEF stop
<1>5. Text(serial) \o <<>> = Text(serial) /\ <<>> \in Seq(Nat)
  <2>1. Text(serial) \in Seq(Nat)
    BY Cells, TextType, Zenon DEF Outputs
  <2> QED BY <2>1, CatEmpty
<1>6. Text(serial') = Text(serial) \o <<>>
  BY <1>2, <1>3, <1>4, <1>5, Zenon
<1>7. sent' = sent \o <<>> /\ <<>> \in Seq(Byte) /\ from_utf8(<<>>)
  BY EmptyFacts, Zenon DEF Outputs, stop
<1>8. screen' = screen \o ts
  BY Zenon DEF stop
<1> QED BY <1>1, <1>4, <1>5, <1>6, <1>7, <1>8, OutputsKept, Zenon

\* A call that writes.
LEMMA WriteOutputs ==
  ASSUME Outputs, NEW nr, NEW data \in Seq(Byte), NEW w, write_call(nr, data, w),
         Shown(w, data) \/ Silent(w)
  PROVE  Outputs' /\ result' \in Int
<1>1. /\ handle_syscall(nr, 0, w.screen, w.serial, w.answer)
      /\ sent' = sent \o [k \in 1 .. w.answer |-> data[k]] /\ result' = w.answer
  BY Zenon DEF write_call, handle_syscall
<1>2. CASE Shown(w, data)
  <2>1. /\ w.screen \in Seq(Code) /\ w.serial \in Seq(Byte) /\ from_utf8(w.serial)
        /\ w.answer = Len(data) /\ (data \in Seq(Ascii) => w.screen = data /\ w.serial = data)
    BY <1>2, Zenon DEF Shown
  <2>2. Len(data) \in Nat /\ data = [k \in 1 .. Len(data) |-> data[k]]
    BY SeqFacts, Zenon
  <2>3. sent' = sent \o data
    BY <1>1, <2>1, <2>2, Zenon
  <2>4. /\ w.screen \in Seq(ScreenCell) /\ w.serial \in Seq(SerialCell)
        /\ Text(w.screen) = w.screen /\ Text(w.serial) = w.serial
    BY <2>1, Cells, TextOfBytes, Zenon
  <2>5. from_utf8(Text(w.serial))
        /\ (data \in Seq(Ascii) => Text(w.screen) = data /\ Text(w.serial) = data)
    BY <2>1, <2>4, Zenon
  <2>6. Outputs'
    BY <1>1, <2>3, <2>4, <2>5, HandleOutputs, Zenon
  <2>7. result' \in Int
    BY <1>1, <2>1, <2>2
  <2> QED BY <2>6, <2>7
<1>3. CASE Silent(w)
  <2>1. w.screen = <<>> /\ w.serial = <<>> /\ w.answer \in {0, EBADF}
    BY <1>3, Zenon DEF Silent
  <2>2. w.answer \in Int /\ 1 .. w.answer = {}
    BY <2>1 DEF EBADF
  <2>3. \A f : [k \in {} |-> f[k]] = <<>>
    OBVIOUS
  <2>4. [k \in 1 .. w.answer |-> data[k]] = <<>>
    BY <2>2, <2>3, Zenon
  <2>5. UNCHANGED sent
    BY <1>1, <2>4, EmptyFacts, Zenon DEF Outputs
  <2>6. Lines(w.screen) /\ Lines(w.serial)
    BY <2>1, Zenon DEF Lines
  <2>7. Outputs'
    BY <1>1, <2>5, <2>6, QuietOutputs, Zenon
  <2> QED BY <1>1, <2>2, <2>7, Zenon
<1> QED BY <1>2, <1>3, Zenon

-----------------------------------------------------------------------------
\* What every call keeps.

\* The registers, the memory and the counters.
Registers ==
  /\ status \in {"running", "exited", "halted"} /\ memory \in [1 .. CELLS -> Int]
  /\ fs \in Canonical \cup {<<0, 0>>} /\ gs \in Canonical \cup {<<0, 0>>}
  /\ result \in Int /\ calls \in 0 .. MaxCalls

RandomBytes == 0 .. 255

\* The bytes given out are the stream's first ones, and SEED is where it stands.
Stream ==
  /\ random \in Seq(RandomBytes) /\ SEED \in 0 .. MODULUS - 1
  /\ SEED = Seeds(SEED0, Len(random))[Len(random)] /\ RandomIsOneStream

\* Handled or stopped, with lines of the kernel as the only output.
Answered ==
  \E nr, ptr, ts, w : \E answer \in Int :
    Lines(ts) /\ Lines(w) /\ handle_syscall(nr, ptr, ts, w, answer)

Stopped ==
  \E nr, ts : \E final \in {"exited", "halted"} : Lines(ts) /\ stop(nr, final, ts)

Stub ==
  /\ Answered \/ Stopped
  /\ UNCHANGED <<sent, SEED, random>>
  /\ memory' \in [1 .. CELLS -> Int]
  /\ fs' \in Canonical \cup {<<0, 0>>} /\ gs' \in Canonical \cup {<<0, 0>>}

\* No line and one line are lines.
LEMMA NoLines == Lines(<<>>) /\ Lines(<<Notice>>)
BY Zenon DEF Lines

\* Halting changes no register and no memory.
LEMMA StopIsStub ==
  ASSUME Registers, NEW nr, NEW final \in {"exited", "halted"}, NEW ts, Lines(ts),
         stop(nr, final, ts)
  PROVE  Stub
<1>1. Stopped
  BY Zenon DEF Stopped
<1>2. UNCHANGED <<memory, fs, gs, SEED, sent, random>>
  BY Zenon DEF stop
<1> QED BY <1>1, <1>2, Zenon DEF Stub, Registers

\* A call that only answers.
LEMMA OnlyAnswerIsStub ==
  ASSUME Registers, NEW nr, NEW p, NEW answer \in Int, only_answer(nr, p, answer)
  PROVE  Stub
<1>1. handle_syscall(nr, p, <<>>, <<>>, answer) /\ UNCHANGED <<memory, fs, gs, SEED, sent, random>>
  BY Zenon DEF only_answer
<1>2. Answered
  BY <1>1, NoLines, Zenon DEF Answered
<1> QED BY <1>1, <1>2, Zenon DEF Stub, Registers

\* An answer at a pointer: stored whole, or a page fault that halts.
LEMMA AnswerAtIsStub ==
  ASSUME Registers, NEW nr, NEW p, NEW cells, \A o \in DOMAIN cells : cells[o] \in Int,
         answer_at(nr, p, cells)
  PROVE  Stub
<1>1. CASE \A o \in DOMAIN cells : p + o \in DOMAIN memory
  <2>1. /\ handle_syscall(nr, p, <<>>, <<>>, 0) /\ memory' = Store(p, cells)
        /\ UNCHANGED <<fs, gs, SEED, sent, random>>
    BY <1>1, Zenon DEF answer_at
  <2>2. Answered
    <3>1. 0 \in Int
      OBVIOUS
    <3> QED BY <2>1, <3>1, NoLines, Zenon DEF Answered
  <2>3. memory' \in [1 .. CELLS -> Int]
    <3>1. memory \in [1 .. CELLS -> Int] /\ DOMAIN memory = 1 .. CELLS
      BY Zenon DEF Registers
    <3>2. \A a \in 1 .. CELLS : (IF a - p \in DOMAIN cells THEN cells[a - p] ELSE memory[a]) \in Int
      BY <3>1, Zenon
    <3> QED BY <2>1, <3>1, <3>2, Zenon DEF Store
  <2> QED BY <2>1, <2>2, <2>3, Zenon DEF Stub, Registers
<1>2. CASE ~ \A o \in DOMAIN cells : p + o \in DOMAIN memory
  <2>1. stop(nr, "halted", <<>>)
    BY <1>2, Zenon DEF answer_at
  <2> QED BY <2>1, NoLines, StopIsStub, Zenon
<1> QED BY <1>1, <1>2, Zenon

\* A signal stub, with and without a pointer.
LEMMA SignalIsStub ==
  ASSUME Registers, NEW nr, NEW p, NEW cells, \A o \in DOMAIN cells : cells[o] \in Int,
         signal_stub(nr, p, cells)
  PROVE  Stub
<1>1. 0 \in Int
  OBVIOUS
<1> QED BY <1>1, OnlyAnswerIsStub, AnswerAtIsStub, Zenon DEF signal_stub

\* Only canonical addresses reach FsBase and GsBase.
LEMMA ArchPrctlIsStub ==
  ASSUME Registers, sys_arch_prctl
  PROVE  Stub
<1>1. ASSUME NEW b \in Bases, NEW set_fs \in BOOLEAN,
             IF b \notin Canonical THEN stop("arch_prctl", "halted", <<>>)
             ELSE /\ handle_syscall("arch_prctl", 0, <<>>, <<>>, 0)
                  /\ fs' = IF set_fs THEN b ELSE fs
                  /\ gs' = IF set_fs THEN gs ELSE b
                  /\ UNCHANGED <<memory, SEED, sent, random>>
      PROVE  Stub
  <2>1. CASE b \notin Canonical
    BY <1>1, <2>1, NoLines, StopIsStub, Zenon
  <2>2. CASE b \in Canonical
    <3>1. /\ handle_syscall("arch_prctl", 0, <<>>, <<>>, 0)
          /\ fs' = IF set_fs THEN b ELSE fs
          /\ gs' = IF set_fs THEN gs ELSE b
          /\ UNCHANGED <<memory, SEED, sent, random>>
      BY <1>1, <2>2, Zenon
    <3>2. 0 \in Int
      OBVIOUS
    <3>3. Answered
      BY <3>1, <3>2, NoLines, Zenon DEF Answered
    <3>4. fs' \in Canonical \cup {<<0, 0>>} /\ gs' \in Canonical \cup {<<0, 0>>}
      BY <2>2, <3>1, Zenon DEF Registers
    <3> QED BY <3>1, <3>3, <3>4, Zenon DEF Stub, Registers
  <2> QED BY <2>1, <2>2, Zenon
<1>2. ASSUME NEW x \in Canonical \cup {<<0, 0>>}
      PROVE  \A o \in 0 .. 1 : [k \in 0 .. 1 |-> x[k + 1]][o] \in Int
  <2>1. x \in Nat \X Nat
    BY SyscallsAssumption
  <2> QED BY <2>1
<1>3. ASSUME NEW p \in Ptrs, answer_at("get_fs", p, [o \in 0 .. 1 |-> fs[o + 1]]) PROVE Stub
  <2>1. PICK cells : cells = [o \in 0 .. 1 |-> fs[o + 1]]
    BY Zenon
  <2>2. \A o \in DOMAIN cells : cells[o] \in Int
    BY <1>2, <2>1, Zenon DEF Registers
  <2> QED BY <1>3, <2>1, <2>2, AnswerAtIsStub, Zenon
<1>4. ASSUME NEW p \in Ptrs, answer_at("get_gs", p, [o \in 0 .. 1 |-> gs[o + 1]]) PROVE Stub
  <2>1. PICK cells : cells = [o \in 0 .. 1 |-> gs[o + 1]]
    BY Zenon
  <2>2. \A o \in DOMAIN cells : cells[o] \in Int
    BY <1>2, <2>1, Zenon DEF Registers
  <2> QED BY <1>4, <2>1, <2>2, AnswerAtIsStub, Zenon
<1>5. ASSUME only_answer("arch_prctl", 0, EINVAL) PROVE Stub
  <2>1. EINVAL \in Int
    BY DEF EINVAL
  <2> QED BY <1>5, <2>1, OnlyAnswerIsStub, Zenon
<1> QED BY <1>1, <1>3, <1>4, <1>5, Zenon DEF sys_arch_prctl

\* The three signal calls.
LEMMA SignalsAreStubs ==
  ASSUME Registers, sys_rt_sigaction \/ sys_rt_sigprocmask \/ sys_sigaltstack
  PROVE  Stub
<1>1. CASE sys_rt_sigaction
  <2>1. \A o \in DOMAIN [o \in 0 .. 7 |-> 0] : [o_1 \in 0 .. 7 |-> 0][o] \in Int
    OBVIOUS
  <2> QED BY <1>1, <2>1, SignalIsStub, Zenon DEF sys_rt_sigaction
<1>2. CASE sys_rt_sigprocmask
  <2>1. \A o \in DOMAIN [o \in 0 .. 1 |-> 0] : [o_1 \in 0 .. 1 |-> 0][o] \in Int
    OBVIOUS
  <2> QED BY <1>2, <2>1, SignalIsStub, Zenon DEF sys_rt_sigprocmask
<1>3. CASE sys_sigaltstack
  <2>1. PICK cells : cells = [o \in {0, 1, 2, 4, 5} |-> IF o = 2 THEN SS_DISABLE ELSE 0]
    BY Zenon
  <2>2. \A o \in DOMAIN cells : cells[o] \in Int
    BY <2>1 DEF SS_DISABLE
  <2> QED BY <1>3, <2>1, <2>2, SignalIsStub, Zenon DEF sys_sigaltstack
<1> QED BY <1>1, <1>2, <1>3, Zenon

\* fstat, the fixed answers, the unknown numbers and exit.
LEMMA FilesAreStubs ==
  ASSUME Registers, sys_fstat \/ other_stubs \/ unhandled \/ exit
  PROVE  Stub
<1>1. 0 \in Int /\ 1 \in Int /\ EBADF \in Int /\ ENOTTY \in Int /\ ENOSYS \in Int
  BY DEF EBADF, ENOTTY, ENOSYS
<1>2. CASE sys_fstat
  <2>1. PICK cells : cells = [o \in 0 .. 35 |-> IF o = 6 THEN S_IFCHR ELSE 0]
    BY Zenon
  <2>2. \A o \in DOMAIN cells : cells[o] \in Int
    BY <2>1 DEF S_IFCHR
  <2> QED BY <1>1, <1>2, <2>1, <2>2, AnswerAtIsStub, OnlyAnswerIsStub, Zenon DEF sys_fstat
<1>3. CASE other_stubs
  BY <1>1, <1>3, OnlyAnswerIsStub, Zenon DEF other_stubs
<1>4. CASE unhandled
  <2>1. Answered
    BY <1>1, <1>4, NoLines, Zenon DEF unhandled, Answered
  <2> QED BY <1>4, <2>1, Zenon DEF unhandled, Stub, Registers
<1>5. CASE exit
  BY <1>5, NoLines, StopIsStub, Zenon DEF exit
<1> QED BY <1>2, <1>3, <1>4, <1>5, Zenon

\* The counter of the calls.
LEMMA Counted ==
  ASSUME Registers, calls < MaxCalls, calls' = calls + 1
  PROVE  calls' \in 0 .. MaxCalls
BY SyscallsAssumption DEF Registers

\* A handled call keeps the kernel running.
LEMMA HandledRegisters ==
  ASSUME Registers, NEW nr, NEW ptr, NEW ts, NEW w, NEW answer \in Int,
         handle_syscall(nr, ptr, ts, w, answer), memory' \in [1 .. CELLS -> Int],
         fs' \in Canonical \cup {<<0, 0>>}, gs' \in Canonical \cup {<<0, 0>>}
  PROVE  Registers'
<1>1. calls < MaxCalls /\ calls' = calls + 1 /\ UNCHANGED status /\ result' = answer
  BY Zenon DEF handle_syscall
<1>2. calls' \in 0 .. MaxCalls
  BY <1>1, Counted, Zenon
<1> QED BY <1>1, <1>2, Zenon DEF Registers

\* A call that leaves SEED alone leaves the stream alone.
LEMMA StreamKept ==
  ASSUME Stream, UNCHANGED <<SEED, random>>
  PROVE  Stream'
BY Zenon DEF Stream, RandomIsOneStream

\* The calls that write no text.
LEMMA StubKeeps ==
  ASSUME Registers, Outputs, Stream, Stub
  PROVE  Registers' /\ Outputs' /\ Stream'
<1>1. Stream'
  BY StreamKept, Zenon DEF Stub
<1>2. CASE Answered
  <2>1. PICK nr, ptr, ts, w : \E answer \in Int :
          Lines(ts) /\ Lines(w) /\ handle_syscall(nr, ptr, ts, w, answer)
    BY <1>2, Zenon DEF Answered
  <2>2. PICK answer \in Int : Lines(ts) /\ Lines(w) /\ handle_syscall(nr, ptr, ts, w, answer)
    BY <2>1, Zenon
  <2>3. Outputs'
    BY <2>2, QuietOutputs, Zenon DEF Stub
  <2>4. Registers'
    BY <2>2, HandledRegisters, Zenon DEF Stub
  <2> QED BY <1>1, <2>3, <2>4, Zenon
<1>3. CASE Stopped
  <2>1. PICK nr, ts : \E final \in {"exited", "halted"} : Lines(ts) /\ stop(nr, final, ts)
    BY <1>3, Zenon DEF Stopped
  <2>2. PICK final \in {"exited", "halted"} : Lines(ts) /\ stop(nr, final, ts)
    BY <2>1, Zenon
  <2>3. Outputs'
    BY <2>2, StopOutputs, Zenon
  <2>4. calls < MaxCalls /\ calls' = calls + 1 /\ status' = final
        /\ UNCHANGED <<memory, fs, gs, result>>
    BY <2>2, Zenon DEF stop
  <2>5. calls' \in 0 .. MaxCalls
    BY <2>4, Counted, Zenon
  <2>6. Registers'
    BY <2>4, <2>5, Zenon DEF Registers
  <2> QED BY <1>1, <2>3, <2>6, Zenon
<1> QED BY <1>2, <1>3, Zenon DEF Stub

\* The calls that write text, for any outcome that is shown or silent.
LEMMA WriteCallKeeps ==
  ASSUME Registers, Outputs, Stream, NEW nr, NEW data \in Seq(Byte), NEW w,
         write_call(nr, data, w), Shown(w, data) \/ Silent(w)
  PROVE  Registers' /\ Outputs' /\ Stream'
<1>1. Outputs' /\ result' \in Int
  BY WriteOutputs, Zenon
<1>2. handle_syscall(nr, 0, w.screen, w.serial, w.answer) /\ UNCHANGED <<memory, fs, gs, SEED, random>>
  BY Zenon DEF write_call
<1>3. w.answer \in Int
  BY <1>1, <1>2, Zenon DEF handle_syscall
<1>4. Registers'
  <2>1. /\ memory' \in [1 .. CELLS -> Int] /\ fs' \in Canonical \cup {<<0, 0>>}
        /\ gs' \in Canonical \cup {<<0, 0>>}
    BY <1>2, Zenon DEF Registers
  <2> QED BY <1>2, <1>3, <2>1, HandledRegisters, Zenon
<1> QED BY <1>1, <1>2, <1>4, StreamKept, Zenon

\* The buffers of a program, and what one write does with them.
LEMMA BufsAreBytes ==
  /\ \A b \in Bufs : b \in Seq(Byte)
  /\ \A v \in Vectors : v \in Seq(Seq(Byte)) /\ Concat(v) \in Seq(Byte) /\ Len(v) \in Nat
<1>1. \A b \in Bufs : b \in Seq(Byte)
  BY SyscallsAssumption, Zenon DEF Byte
<1>2. Seq(Bufs) \subseteq Seq(Seq(Byte))
  BY <1>1, Widen, Zenon
<1>3. ASSUME NEW v \in Vectors PROVE v \in Seq(Seq(Byte)) /\ Concat(v) \in Seq(Byte) /\ Len(v) \in Nat
  <2>1. v \in Seq(Seq(Byte))
    BY <1>2, SyscallsAssumption, Zenon
  <2> QED BY <2>1, ConcatType, SeqFacts, Zenon
<1> QED BY <1>1, <1>3, Zenon

\* write and writev, on the console and on any other descriptor.
LEMMA WriteKeeps ==
  ASSUME Registers, Outputs, Stream, write \/ writev
  PROVE  Registers' /\ Outputs' /\ Stream'
<1>1. CASE write
  <2>1. PICK fd \in FDs, buf \in Bufs : write_call("write", buf, sys_write(fd, buf))
    BY <1>1, Zenon DEF write
  <2>2. buf \in Seq(Byte)
    BY BufsAreBytes, Zenon
  <2>3. CASE fd \in {STDOUT, STDERR}
    BY <2>1, <2>2, <2>3, WriteShown, WriteCallKeeps, ZenonT(40)
  <2>4. CASE fd \notin {STDOUT, STDERR}
    <3>1. Silent(sys_write(fd, buf))
      BY <2>4 DEF Silent, sys_write
    <3> QED BY <2>1, <2>2, <3>1, WriteCallKeeps, ZenonT(40)
  <2> QED BY <2>3, <2>4, Zenon
<1>2. CASE writev
  <2>1. PICK fd \in FDs, iov \in Vectors : write_call("writev", Concat(iov), sys_writev(fd, iov))
    BY <1>2, Zenon DEF writev
  <2>2. iov \in Seq(Seq(Byte)) /\ Concat(iov) \in Seq(Byte) /\ Len(iov) \in Nat
    BY BufsAreBytes, Zenon
  <2>3. CASE fd \in {STDOUT, STDERR}
    BY <2>1, <2>2, <2>3, WritevShown, WriteCallKeeps, Zenon
  <2>4. CASE fd \notin {STDOUT, STDERR}
    BY <2>1, <2>2, <2>4, WritevSilent, WriteCallKeeps, Zenon
  <2> QED BY <2>3, <2>4, Zenon
<1> QED BY <1>1, <1>2, Zenon

-----------------------------------------------------------------------------
\* The stream.

\* Every seed is a u64.
LEMMA SeedRange ==
  ASSUME NEW seed \in 0 .. MODULUS - 1, NEW n \in Nat
  PROVE  \A k \in 0 .. n : Seeds(seed, n)[k] \in 0 .. MODULUS - 1
<1> DEFINE f == Seeds(seed, n)
           S == {k \in 0 .. n : f[k] \in 0 .. MODULUS - 1}
<1>1. f[0] = seed /\ \A k \in 1 .. n : f[k] = next_seed(f[k - 1])
  BY SeedsStep
<1>2. \A x \in 0 .. MODULUS - 1 : next_seed(x) \in 0 .. MODULUS - 1
  <2>1. ASSUME NEW x \in 0 .. MODULUS - 1 PROVE next_seed(x) \in 0 .. MODULUS - 1
    <3>1. x \in Nat /\ MULTIPLIER \in Nat /\ MODULUS \in Nat \ {0}
      BY SyscallsAssumption
    <3>2. PICK y \in Nat : y = x * MULTIPLIER + 1
      BY <3>1
    <3>3. y % MODULUS \in 0 .. MODULUS - 1
      BY ONLY <3>1, <3>2
    <3> QED BY <3>2, <3>3, Zenon DEF next_seed
  <2> QED BY <2>1, Zenon
<1> HIDE DEF f
<1>3. 0 \in S
  BY <1>1
<1>4. ASSUME NEW k \in 0 .. n - 1, k \in S PROVE k + 1 \in S
  <2>1. k + 1 \in 1 .. n /\ k + 1 \in 0 .. n /\ (k + 1) - 1 = k
    OBVIOUS
  <2>2. f[k + 1] = next_seed(f[k])
    BY <1>1, <2>1
  <2>3. f[k] \in 0 .. MODULUS - 1
    BY <1>4, Zenon
  <2> QED BY <1>2, <2>1, <2>2, <2>3, Zenon
<1>5. \A k \in 0 .. n : k \in S
  <2> HIDE DEF S
  <2> QED BY <1>3, <1>4, InductTo, Zenon
<1> QED BY <1>5, Zenon DEF f

\* (SEED >> 33) as u8 is a byte.
LEMMA RandomByteRange ==
  ASSUME NEW x \in 0 .. MODULUS - 1
  PROVE  RandomByte(x) \in RandomBytes
<1>1. x \in Nat /\ SHIFT \in Nat \ {0}
  BY SyscallsAssumption
<1>2. PICK y \in Nat : y = x \div SHIFT
  BY <1>1, SMT, SMTT(60)
<1>3. y % 256 \in 0 .. 255
  BY ONLY <1>2
<1> QED BY <1>2, <1>3, Zenon DEF RandomByte, RandomBytes

Starts(r, f) == \A k \in 1 .. Len(r) : r[k] = f[k]
IsStretch(r, f) == r = [k \in 1 .. Len(r) |-> f[k]]
Continues(s, f, m) == \A k \in 1 .. Len(s) : s[k] = f[m + k]

\* A stretch of the stream after another is a stretch of the stream.
LEMMA StreamGrows ==
  ASSUME NEW f, NEW r \in Seq(RandomBytes), NEW s \in Seq(RandomBytes),
         Starts(r, f), Continues(s, f, Len(r))
  PROVE  IsStretch(r \o s, f)
<1>0. PICK m \in Nat, n \in Nat :
        /\ Len(r) = m /\ \A k \in 1 .. m : r[k] = f[k]
        /\ Len(s) = n /\ \A k \in 1 .. n : s[k] = f[m + k]
  BY SeqFacts, Zenon DEF Starts, Continues
<1>1. /\ r \o s \in Seq(RandomBytes) /\ Len(r \o s) = m + n
      /\ \A k \in 1 .. m : (r \o s)[k] = r[k]
      /\ \A k \in 1 .. n : (r \o s)[m + k] = s[k]
  <2>1. /\ r \o s \in Seq(RandomBytes) /\ Len(r \o s) = Len(r) + Len(s)
        /\ \A k \in 1 .. Len(r) : (r \o s)[k] = r[k]
        /\ \A k \in 1 .. Len(s) : (r \o s)[Len(r) + k] = s[k]
    BY CatFacts
  <2> QED BY <1>0, <2>1, Zenon
<1>2. \A k \in 1 .. m + n : (r \o s)[k] = f[k]
  <2>1. ASSUME NEW k \in 1 .. m + n PROVE (r \o s)[k] = f[k]
    <3>1. CASE k <= m
      <4>1. k \in 1 .. m
        BY <3>1
      <4>2. (r \o s)[k] = r[k]
        BY <1>1, <4>1, Zenon
      <4> QED BY <1>0, <4>1, <4>2, Zenon
    <3>2. CASE k > m
      <4>1. PICK j \in 1 .. n : m + j = k
        <5>1. k - m \in 1 .. n /\ m + (k - m) = k
          BY <3>2
        <5> QED BY <5>1, Zenon
      <4>2. (r \o s)[m + j] = s[j] /\ s[j] = f[m + j]
        BY <1>0, <1>1, Zenon
      <4> QED BY <4>1, <4>2, Zenon
    <3>3. k <= m \/ k > m
      BY ONLY m \in Nat, n \in Nat, k \in 1 .. m + n
    <3> QED BY <3>1, <3>2, <3>3, Zenon
  <2> QED BY <2>1, Zenon
<1>3. \A t \in Seq(RandomBytes) : t = [k \in 1 .. Len(t) |-> t[k]]
  BY SeqFacts, Zenon
<1> QED BY <1>1, <1>2, <1>3, Zenon DEF IsStretch

\* sys_getrandom goes on where the call before it stopped.
LEMMA GetrandomKeeps ==
  ASSUME Registers, Outputs, Stream, sys_getrandom
  PROVE  Registers' /\ Outputs' /\ Stream'
<1>1. PICK n \in Sizes :
        /\ handle_syscall("getrandom", 0, <<>>, <<>>, n)
        /\ SEED' = Seeds(SEED, n)[n]
        /\ random' = random \o [k \in 1 .. n |-> RandomByte(Seeds(SEED, n)[k])]
        /\ UNCHANGED <<memory, fs, gs, sent>>
  BY Zenon DEF sys_getrandom
<1>2. n \in Nat /\ n \in Int
  BY SyscallsAssumption
<1>3. Outputs'
  BY <1>1, NoLines, QuietOutputs, Zenon
<1>4. Registers'
  <2>1. /\ memory' \in [1 .. CELLS -> Int] /\ fs' \in Canonical \cup {<<0, 0>>}
        /\ gs' \in Canonical \cup {<<0, 0>>}
    BY <1>1, Zenon DEF Registers
  <2> QED BY <1>1, <1>2, <2>1, HandledRegisters, Zenon
<1>5. PICK m \in Nat : m = Len(random)
  BY SeqFacts, Zenon DEF Stream
<1>6. PICK g : g = Seeds(SEED, n)
  BY Zenon
<1>7. PICK f : f = [k \in 0 .. m + n |-> RandomByte(Seeds(SEED0, m + n)[k])]
  BY Zenon
<1>8. /\ \A k \in 0 .. m : Seeds(SEED0, m + n)[k] = Seeds(SEED0, m)[k]
      /\ \A k \in 0 .. n : Seeds(SEED0, m + n)[m + k] = g[k]
  <2>1. SEED = Seeds(SEED0, m)[m]
    BY <1>5, Zenon DEF Stream
  <2>2. /\ \A k \in 0 .. m : Seeds(SEED0, m + n)[k] = Seeds(SEED0, m)[k]
        /\ \A k \in 0 .. n : Seeds(SEED0, m + n)[m + k] = Seeds(Seeds(SEED0, m)[m], n)[k]
    <3>1. Resumes(SEED0, m, n)
      BY <1>2, SeedsContinue, Zenon
    <3> QED BY <3>1, Zenon DEF Resumes
  <2> QED BY <1>6, <2>1, <2>2, Zenon
<1>9. \A k \in 0 .. n : g[k] \in 0 .. MODULUS - 1
  BY <1>2, <1>6, SeedRange, Zenon DEF Stream
<1>10. /\ \A k \in 1 .. m : k \in 0 .. m /\ k \in 0 .. m + n
       /\ \A k \in 1 .. n : k \in 0 .. n /\ m + k \in 0 .. m + n
       /\ n \in 0 .. n /\ m + n \in Nat
       /\ \A k \in 1 .. m + n : k \in 0 .. m + n
  BY ONLY <1>2, m \in Nat
<1>11. PICK s \in Seq(RandomBytes) :
         s = [k \in 1 .. n |-> RandomByte(g[k])] /\ Len(s) = n
  <2>1. \A k \in 1 .. n : RandomByte(g[k]) \in RandomBytes
    BY <1>9, <1>10, RandomByteRange, Zenon
  <2>2. \A A : \A x \in [1 .. n -> A] : x \in Seq(A) /\ Len(x) = n
    BY ONLY <1>2
  <2> QED BY <2>1, <2>2, Zenon
<1>12. \A k \in 1 .. n : s[k] = f[m + k]
  <2>1. ASSUME NEW k \in 1 .. n PROVE s[k] = f[m + k]
    <3>1. s[k] = RandomByte(g[k])
      BY <1>11, Zenon
    <3>2. f[m + k] = RandomByte(Seeds(SEED0, m + n)[m + k])
      BY <1>7, <1>10, Zenon
    <3> QED BY <1>8, <1>10, <3>1, <3>2, Zenon
  <2> QED BY <2>1, Zenon
<1>13. \A k \in 1 .. m : random[k] = f[k]
  <2>1. ASSUME NEW k \in 1 .. m PROVE random[k] = f[k]
    <3>1. random = [j \in 1 .. m |-> RandomByte(Seeds(SEED0, m)[j])]
      BY <1>5, Zenon DEF Stream, RandomIsOneStream
    <3>2. random[k] = RandomByte(Seeds(SEED0, m)[k])
      BY <3>1, Zenon
    <3>3. f[k] = RandomByte(Seeds(SEED0, m + n)[k])
      BY <1>7, <1>10, Zenon
    <3> QED BY <1>8, <1>10, <3>2, <3>3, Zenon
  <2> QED BY <2>1, Zenon
<1>14. random' = random \o s
  BY <1>1, <1>6, <1>11, Zenon
<1>15. random' = [k \in 1 .. Len(random') |-> f[k]]
  <2>1. Starts(random, f) /\ Continues(s, f, Len(random))
    BY <1>5, <1>11, <1>12, <1>13, Zenon DEF Starts, Continues
  <2>2. random \in Seq(RandomBytes)
    BY Zenon DEF Stream
  <2>3. IsStretch(random \o s, f)
    BY <2>1, <2>2, StreamGrows, Zenon
  <2> QED BY <1>14, <2>3, Zenon DEF IsStretch
<1>16. random' \in Seq(RandomBytes) /\ Len(random') = m + n
  <2>1. \A A : \A x, y \in Seq(A) : x \o y \in Seq(A) /\ Len(x \o y) = Len(x) + Len(y)
    BY ONLY TRUE
  <2> QED BY <1>5, <1>11, <1>14, <2>1, Zenon DEF Stream
<1>17. RandomIsOneStream'
  <2>1. \A k \in 1 .. m + n : f[k] = RandomByte(Seeds(SEED0, m + n)[k])
    BY <1>7, <1>10, Zenon
  <2> QED BY <1>15, <1>16, <2>1, Zenon DEF RandomIsOneStream
<1>18. SEED' = Seeds(SEED0, Len(random'))[Len(random')] /\ SEED' \in 0 .. MODULUS - 1
  BY <1>1, <1>6, <1>8, <1>9, <1>10, <1>16, Zenon
<1>19. Stream'
  BY <1>16, <1>17, <1>18, Zenon DEF Stream
<1> QED BY <1>3, <1>4, <1>19, Zenon

-----------------------------------------------------------------------------
\* The invariant.

CallsInv == Registers /\ Outputs /\ Stream

\* It holds before the first call.
LEMMA CallsStart ==
  ASSUME CallsInit
  PROVE  CallsInv
<1>1. Registers
  <2>1. memory \in [1 .. CELLS -> Int]
    BY SMT, SMTT(60) DEF CallsInit, Garbage
  <2>2. calls \in 0 .. MaxCalls /\ result \in Int
    BY SyscallsAssumption DEF CallsInit
  <2> QED BY <2>1, <2>2, Zenon DEF CallsInit, Registers
<1>2. Outputs
  <2>1. Lines(<<>>) /\ screen = <<>> /\ serial = <<>> /\ sent = <<>>
    BY NoLines, Zenon DEF CallsInit
  <2> QED BY <2>1, LinesText, EmptyFacts, Zenon DEF Outputs, AsciiShownOnce, SerialIsUtf8
<1>3. Stream
  <2>1. random = <<>> /\ SEED = SEED0
    BY Zenon DEF CallsInit
  <2>2. Len(<<>>) = 0 /\ 0 \in Nat /\ <<>> \in Seq(RandomBytes)
    OBVIOUS
  <2>3. Seeds(SEED0, 0)[0] = SEED0
    BY <2>2, SeedsStep, Zenon
  <2>4. \A g : <<>> = [k \in 1 .. 0 |-> g[k]]
    OBVIOUS
  <2>5. PICK h : h = [k \in 1 .. 0 |-> RandomByte(Seeds(SEED0, 0)[k])]
    BY Zenon
  <2>6. h = <<>>
    <3>1. h = [k \in 1 .. 0 |-> h[k]]
      BY <2>5, Zenon
    <3> QED BY <2>4, <3>1, Zenon
  <2>7. RandomIsOneStream
    BY <2>1, <2>2, <2>5, <2>6, Zenon DEF RandomIsOneStream
  <2> QED BY <2>1, <2>2, <2>3, <2>7, SyscallsAssumption, Zenon DEF Stream
<1> QED BY <1>1, <1>2, <1>3, Zenon DEF CallsInv

\* Every call keeps it.
LEMMA CallsStep ==
  ASSUME CallsInv, [CallsNext]_calls_vars
  PROVE  CallsInv'
<1>1. Registers /\ Outputs /\ Stream
  BY Zenon DEF CallsInv
<1>2. CASE write \/ writev
  BY <1>1, <1>2, WriteKeeps, Zenon DEF CallsInv
<1>3. CASE sys_getrandom
  BY <1>1, <1>3, GetrandomKeeps, Zenon DEF CallsInv
<1>4. CASE sys_arch_prctl
  BY <1>1, <1>4, ArchPrctlIsStub, StubKeeps, Zenon DEF CallsInv
<1>5. CASE sys_rt_sigaction \/ sys_rt_sigprocmask \/ sys_sigaltstack
  BY <1>1, <1>5, SignalsAreStubs, StubKeeps, Zenon DEF CallsInv
<1>6. CASE sys_fstat \/ other_stubs \/ unhandled \/ exit
  BY <1>1, <1>6, FilesAreStubs, StubKeeps, Zenon DEF CallsInv
<1>7. CASE UNCHANGED calls_vars
  <2>1. UNCHANGED <<status, screen, serial, memory, fs, gs, SEED, result, sent, random, calls>>
    BY <1>7, Zenon DEF calls_vars
  <2>2. Outputs'
    BY <1>1, <2>1, Zenon DEF Outputs, AsciiShownOnce, SerialIsUtf8
  <2> QED BY <1>1, <2>1, <2>2, StreamKept, Zenon DEF CallsInv, Registers
<1>8. CASE idle
  BY <1>7, <1>8, Zenon DEF idle
<1> QED BY <1>2, <1>3, <1>4, <1>5, <1>6, <1>7, <1>8, Zenon DEF CallsNext

\* It always holds.
LEMMA CallsInvariant == CallsSpec => []CallsInv
<1>1. CallsInit => CallsInv
  BY CallsStart
<1>2. CallsInv /\ [CallsNext]_calls_vars => CallsInv'
  BY CallsStep
<1> QED BY <1>1, <1>2, PTL DEF CallsSpec

\* For every program, seed and number of calls, the state of handle_syscall keeps its shape:
\* FsBase and GsBase are canonical or never set, SEED is a u64, and what is shown are bytes.
THEOREM CallsTypeCorrect == CallsSpec => []CallsTypeOK
<1>1. CallsInv => CallsTypeOK
  BY Zenon DEF CallsInv, CallsTypeOK, Registers, Outputs, Stream, ScreenCell, SerialCell, Byte,
               RandomBytes
<1> QED BY <1>1, CallsInvariant, PTL

\* For every buffer and every way to divide ASCII output over write and writev, over stdout,
\* stderr and descriptors that fail, screen and serial port show exactly the bytes that the
\* answers acknowledged, in order.
THEOREM CallsAsciiShownOnce == CallsSpec => []AsciiShownOnce
<1>1. CallsInv => AsciiShownOnce
  BY Zenon DEF CallsInv, Outputs
<1> QED BY <1>1, CallsInvariant, PTL

\* Whatever bytes a program writes, sys_write and sys_writev send valid UTF-8 to the serial port.
THEOREM CallsSerialIsUtf8 == CallsSpec => []SerialIsUtf8
<1>1. CallsInv => SerialIsUtf8
  BY Zenon DEF CallsInv, Outputs
<1> QED BY <1>1, CallsInvariant, PTL

\* For every multiplier, modulus, shift and seed, what sys_getrandom has given out over all
\* calls is one stretch of the generator from its first seed: nothing is repeated or skipped.
THEOREM CallsRandomIsOneStream == CallsSpec => []RandomIsOneStream
<1>1. CallsInv => RandomIsOneStream
  BY Zenon DEF CallsInv, Stream
<1> QED BY <1>1, CallsInvariant, PTL

-----------------------------------------------------------------------------
\* The structures.

\* What StructsExact says of a step.
Exact ==
  status' = "running" /\ calls' > calls =>
    /\ ReadsBack(last', memory')
    /\ \A a \in DOMAIN memory :
         memory'[a] # memory[a] => a - last'.ptr \in 0 .. SizeOf(last'.nr) - 1

\* A kernel that halts answers nothing.
LEMMA StopExact ==
  ASSUME NEW nr, NEW final \in {"exited", "halted"}, NEW ts, stop(nr, final, ts)
  PROVE  Exact
<1>1. status' # "running"
  BY DEF stop
<1> QED BY <1>1, Zenon DEF Exact

\* A call without a pointer writes no memory.
LEMMA NullExact ==
  ASSUME NEW nr, NEW ts, NEW w, NEW answer, handle_syscall(nr, 0, ts, w, answer), UNCHANGED memory
  PROVE  Exact
<1>1. last'.ptr = 0
  BY DEF handle_syscall
<1> QED BY <1>1, Zenon DEF Exact, ReadsBack

\* What a call that answers at p finds there.
Stored(nr, p, cells) ==
  /\ last' = [nr |-> nr, ptr |-> p]
  /\ \A o \in DOMAIN cells : memory'[p + o] = cells[o]
  /\ \A a \in DOMAIN memory : memory'[a] # memory[a] => a - p \in DOMAIN cells

\* A call that answers at a pointer has stored its cells there, or the kernel has halted.
LEMMA AnswerStored ==
  ASSUME Registers, NEW nr, NEW p \in Nat, NEW cells, DOMAIN cells \subseteq Nat,
         answer_at(nr, p, cells)
  PROVE  Exact \/ Stored(nr, p, cells)
<1>1. CASE \A o \in DOMAIN cells : p + o \in DOMAIN memory
  <2>1. last' = [nr |-> nr, ptr |-> p] /\ memory' = Store(p, cells)
    BY <1>1, Zenon DEF answer_at, handle_syscall
  <2>2. memory' = [a \in DOMAIN memory |->
                     IF a - p \in DOMAIN cells THEN cells[a - p] ELSE memory[a]]
    BY <2>1, Zenon DEF Store
  <2>3. ASSUME NEW o \in DOMAIN cells PROVE memory'[p + o] = cells[o]
    <3>1. (p + o) - p = o
      OBVIOUS
    <3> QED BY <1>1, <2>2, <3>1, Zenon
  <2>4. ASSUME NEW a \in DOMAIN memory, memory'[a] # memory[a] PROVE a - p \in DOMAIN cells
    BY <2>2, <2>4, Zenon
  <2> QED BY <2>1, <2>3, <2>4, Zenon DEF Stored
<1>2. CASE ~ \A o \in DOMAIN cells : p + o \in DOMAIN memory
  BY <1>2, StopExact, Zenon DEF answer_at
<1> QED BY <1>1, <1>2, Zenon

\* A stored structure is exact when it lies within its size and reads back.
LEMMA StoredExact ==
  ASSUME NEW nr, NEW p, NEW cells, Stored(nr, p, cells),
         DOMAIN cells \subseteq 0 .. SizeOf(nr) - 1,
         ReadsBack([nr |-> nr, ptr |-> p], memory')
  PROVE  Exact
<1>1. last'.ptr = p /\ last'.nr = nr /\ last' = [nr |-> nr, ptr |-> p]
  BY DEF Stored
<1> QED BY <1>1, Zenon DEF Stored, Exact

\* rt_sigaction: no handler.
LEMMA SigactionExact ==
  ASSUME NEW p, Stored("rt_sigaction", p, [o \in 0 .. 7 |-> 0])
  PROVE  Exact
<1>1. \A o \in 0 .. 7 : memory'[p + o] = 0
  BY SMT, SMTT(60) DEF Stored
<1>2. ReadsBack([nr |-> "rt_sigaction", ptr |-> p], memory')
  BY <1>1 DEF ReadsBack
<1>3. DOMAIN [o \in 0 .. 7 |-> 0] \subseteq 0 .. SizeOf("rt_sigaction") - 1
  BY DEF SizeOf
<1> QED BY <1>2, <1>3, StoredExact, Zenon

\* rt_sigprocmask: an empty mask.
LEMMA SigprocmaskExact ==
  ASSUME NEW p, Stored("rt_sigprocmask", p, [o \in 0 .. 1 |-> 0])
  PROVE  Exact
<1>1. \A o \in 0 .. 1 : memory'[p + o] = 0
  BY SMT, SMTT(60) DEF Stored
<1>2. ReadsBack([nr |-> "rt_sigprocmask", ptr |-> p], memory')
  BY <1>1 DEF ReadsBack
<1>3. DOMAIN [o \in 0 .. 1 |-> 0] \subseteq 0 .. SizeOf("rt_sigprocmask") - 1
  BY DEF SizeOf
<1> QED BY <1>2, <1>3, StoredExact, Zenon

\* sigaltstack: disabled, with the padding after ss_flags untouched.
LEMMA SigaltstackExact ==
  ASSUME NEW p,
         Stored("sigaltstack", p, [o \in {0, 1, 2, 4, 5} |-> IF o = 2 THEN SS_DISABLE ELSE 0])
  PROVE  Exact
<1>1. (\A o \in {0, 1, 4, 5} : memory'[p + o] = 0) /\ memory'[p + 2] = SS_DISABLE
  <2>1. PICK c : c = [o \in {0, 1, 2, 4, 5} |-> IF o = 2 THEN SS_DISABLE ELSE 0]
    BY Zenon
  <2>2. \A o \in DOMAIN c : memory'[p + o] = c[o]
    BY <2>1, Zenon DEF Stored
  <2>3. /\ \A o \in {0, 1, 4, 5} : o \in DOMAIN c /\ c[o] = 0
        /\ 2 \in DOMAIN c /\ c[2] = SS_DISABLE
    BY ONLY <2>1, SMT, SMTT(60)
  <2> QED BY <2>2, <2>3, Zenon
<1>2. ReadsBack([nr |-> "sigaltstack", ptr |-> p], memory')
  BY <1>1 DEF ReadsBack
<1>3. DOMAIN [o \in {0, 1, 2, 4, 5} |-> IF o = 2 THEN SS_DISABLE ELSE 0]
        \subseteq 0 .. SizeOf("sigaltstack") - 1
  BY DEF SizeOf
<1> QED BY <1>2, <1>3, StoredExact, Zenon

\* fstat: zero but for st_mode.
LEMMA FstatExact ==
  ASSUME NEW p, Stored("fstat", p, [o \in 0 .. 35 |-> IF o = 6 THEN S_IFCHR ELSE 0])
  PROVE  Exact
<1>1. (\A o \in (0 .. 35) \ {6} : memory'[p + o] = 0) /\ memory'[p + 6] = S_IFCHR
  <2>1. PICK c : c = [o \in 0 .. 35 |-> IF o = 6 THEN S_IFCHR ELSE 0]
    BY Zenon
  <2>2. \A o \in DOMAIN c : memory'[p + o] = c[o]
    BY <2>1, Zenon DEF Stored
  <2>3. /\ \A o \in (0 .. 35) \ {6} : o \in DOMAIN c /\ c[o] = 0
        /\ 6 \in DOMAIN c /\ c[6] = S_IFCHR
    BY ONLY <2>1, SMT, SMTT(60)
  <2> QED BY <2>2, <2>3, Zenon
<1>2. ReadsBack([nr |-> "fstat", ptr |-> p], memory')
  BY <1>1 DEF ReadsBack
<1>3. DOMAIN [o \in 0 .. 35 |-> IF o = 6 THEN S_IFCHR ELSE 0] \subseteq 0 .. SizeOf("fstat") - 1
  BY DEF SizeOf
<1> QED BY <1>2, <1>3, StoredExact, Zenon

\* arch_prctl: the two cells of a base.
LEMMA BaseExact ==
  ASSUME NEW nr \in {"get_fs", "get_gs"}, NEW p, NEW base,
         Stored(nr, p, [o \in 0 .. 1 |-> base[o + 1]])
  PROVE  Exact
<1>1. ReadsBack([nr |-> nr, ptr |-> p], memory')
  BY DEF ReadsBack
<1>2. DOMAIN [o \in 0 .. 1 |-> base[o + 1]] \subseteq 0 .. SizeOf(nr) - 1
  BY DEF SizeOf
<1> QED BY <1>1, <1>2, StoredExact, Zenon

\* Pointers are addresses.
LEMMA PtrsAreNat == \A p \in Ptrs : p \in Nat
BY SyscallsAssumption

\* A call that only answers writes no memory.
LEMMA OnlyAnswerExact ==
  ASSUME NEW nr, NEW answer, only_answer(nr, 0, answer)
  PROVE  Exact
BY NullExact, Zenon DEF only_answer

\* arch_prctl writes a base it is asked for and nothing else.
LEMMA ArchPrctlExact ==
  ASSUME Registers, sys_arch_prctl
  PROVE  Exact
<1>1. ASSUME NEW b \in Bases, NEW set_fs \in BOOLEAN,
             IF b \notin Canonical THEN stop("arch_prctl", "halted", <<>>)
             ELSE /\ handle_syscall("arch_prctl", 0, <<>>, <<>>, 0)
                  /\ fs' = IF set_fs THEN b ELSE fs
                  /\ gs' = IF set_fs THEN gs ELSE b
                  /\ UNCHANGED <<memory, SEED, sent, random>>
      PROVE  Exact
  BY <1>1, StopExact, NullExact, Zenon
<1>2. \A base : DOMAIN [o \in 0 .. 1 |-> base[o + 1]] \subseteq Nat
  OBVIOUS
<1>3. ASSUME NEW p \in Ptrs, answer_at("get_fs", p, [o \in 0 .. 1 |-> fs[o + 1]]) PROVE Exact
  BY <1>2, <1>3, PtrsAreNat, AnswerStored, BaseExact, Zenon
<1>4. ASSUME NEW p \in Ptrs, answer_at("get_gs", p, [o \in 0 .. 1 |-> gs[o + 1]]) PROVE Exact
  BY <1>2, <1>4, PtrsAreNat, AnswerStored, BaseExact, Zenon
<1> QED BY <1>1, <1>3, <1>4, OnlyAnswerExact, Zenon DEF sys_arch_prctl

\* The signal calls write the old value they are asked for and nothing else.
LEMMA SignalsExact ==
  ASSUME Registers, sys_rt_sigaction \/ sys_rt_sigprocmask \/ sys_sigaltstack
  PROVE  Exact
<1>1. CASE sys_rt_sigaction
  <2>1. DOMAIN [o \in 0 .. 7 |-> 0] \subseteq Nat
    OBVIOUS
  <2> QED BY <1>1, <2>1, PtrsAreNat, OnlyAnswerExact, AnswerStored, SigactionExact, Zenon
             DEF sys_rt_sigaction, signal_stub
<1>2. CASE sys_rt_sigprocmask
  <2>1. DOMAIN [o \in 0 .. 1 |-> 0] \subseteq Nat
    OBVIOUS
  <2> QED BY <1>2, <2>1, PtrsAreNat, OnlyAnswerExact, AnswerStored, SigprocmaskExact, Zenon
             DEF sys_rt_sigprocmask, signal_stub
<1>3. CASE sys_sigaltstack
  <2>1. DOMAIN [o \in {0, 1, 2, 4, 5} |-> IF o = 2 THEN SS_DISABLE ELSE 0] \subseteq Nat
    BY SMT, SMTT(60)
  <2> QED BY <1>3, <2>1, PtrsAreNat, OnlyAnswerExact, AnswerStored, SigaltstackExact, Zenon
             DEF sys_sigaltstack, signal_stub
<1> QED BY <1>1, <1>2, <1>3, Zenon

\* fstat writes a stat and nothing else; the others write nothing.
LEMMA FilesExact ==
  ASSUME Registers, sys_fstat \/ other_stubs \/ unhandled \/ exit
  PROVE  Exact
<1>1. CASE sys_fstat
  <2>1. DOMAIN [o \in 0 .. 35 |-> IF o = 6 THEN S_IFCHR ELSE 0] \subseteq Nat
    OBVIOUS
  <2> QED BY <1>1, <2>1, PtrsAreNat, OnlyAnswerExact, AnswerStored, FstatExact, Zenon DEF sys_fstat
<1>2. CASE other_stubs
  BY <1>2, OnlyAnswerExact, Zenon DEF other_stubs
<1>3. CASE unhandled
  BY <1>3, NullExact, Zenon DEF unhandled
<1>4. CASE exit
  BY <1>4, StopExact, Zenon DEF exit
<1> QED BY <1>1, <1>2, <1>3, <1>4, Zenon

\* So does every call.
LEMMA ExactStep ==
  ASSUME CallsInv, [CallsNext]_calls_vars
  PROVE  [Exact]_calls_vars
<1>1. Registers
  BY Zenon DEF CallsInv
<1>2. CASE write \/ writev
  BY <1>2, NullExact, Zenon DEF write, writev, write_call
<1>3. CASE sys_getrandom
  BY <1>3, NullExact, Zenon DEF sys_getrandom
<1>4. CASE sys_arch_prctl
  BY <1>1, <1>4, ArchPrctlExact, Zenon
<1>5. CASE sys_rt_sigaction \/ sys_rt_sigprocmask \/ sys_sigaltstack
  BY <1>1, <1>5, SignalsExact, Zenon
<1>6. CASE sys_fstat \/ other_stubs \/ unhandled \/ exit
  BY <1>1, <1>6, FilesExact, Zenon
<1>7. CASE idle \/ UNCHANGED calls_vars
  BY <1>7, Zenon DEF idle
<1> QED BY <1>2, <1>3, <1>4, <1>5, <1>6, <1>7, Zenon DEF CallsNext

\* For every memory and pointer, what a stub fills reads back as the structure it stands for,
\* and no cell outside of the structure changes.
THEOREM CallsStructsExact == CallsSpec => StructsExact
<1>1. CallsInv /\ [CallsNext]_calls_vars => [Exact]_calls_vars
  BY ExactStep
<1> QED BY <1>1, CallsInvariant, PTL DEF CallsSpec, StructsExact, Exact
=============================================================================
