----------------------------- MODULE Interrupts -----------------------------
(***************************************************************************)
(* Hardware interrupts of the kernel: the master PIC, the PIT, the keyboard*)
(* controller and the one CPU, from _start to the user program and its     *)
(* system calls.  The kernel runs with IF clear; IF is set only by the     *)
(* RFLAGS image that enter_userspace gives to iretq, so the handlers run   *)
(* over user code.  Exceptions raised by user code end in a halting        *)
(* handler.  The devices are external: their actions follow from what      *)
(* src/kernel/src/interrupts.rs reads and writes.                          *)
(***************************************************************************)
EXTENDS KeyboardBuffer

CONSTANTS MaxKeys,      \* bound on the keys pressed in a run
          TickModulus   \* width of TICKS (2^64 in the code)

ASSUME InterruptsAssumption == MaxKeys \in Nat /\ TickModulus \in Nat \ {0}

VARIABLES mode,         \* what the CPU executes
          frames,       \* saved contexts: interrupt frames and syscall's RCX/R11
          iflag,        \* the CPU's interrupt flag
          idt,          \* IRQs with a present gate
          mask,         \* the PIC's mask register
          irr, isr,     \* requested and in-service IRQs
          kbc,          \* bytes in the keyboard and its controller, oldest first
          ran,          \* code other than a handler ran since the last PIT edge
          early,        \* a byte was waiting when the PICs were initialised
          pressed,      \* number of keys pressed so far
          TICKS

pic == <<mask, irr, isr>>
ivars == <<mode, frames, iflag, idt, mask, irr, isr, kbc, ran, early, pressed, TICKS>>
vars == <<kbvars, ivars>>

TIMER == 0
KEYBOARD == 1
COM1 == 4
IRQS == {TIMER, KEYBOARD, COM1}

BootModes == {"start", "idt", "pic", "timer_set"}
HandlerModes == {"timer", "keyboard", "keyboard_eoi"}
Modes == BootModes \cup HandlerModes \cup {"user", "syscall", "halted", "unhandled"}

\* The firmware leaves some mask and maybe a pending request; the bootloader has
\* executed cli.
Init ==
  /\ KbInit
  /\ mode = "start" /\ frames = <<>> /\ iflag = FALSE /\ idt = {}
  /\ mask \in SUBSET IRQS /\ irr \in SUBSET {TIMER} /\ isr = {}
  /\ kbc = <<>> /\ ran = TRUE /\ early = FALSE /\ pressed = 0
  /\ TICKS = 0

-----------------------------------------------------------------------------
\* _start: the steps of the kernel's boot that touch interrupts, in its order.
init_idt ==
  /\ mode = "start"
  /\ mode' = "idt" /\ idt' = {TIMER, KEYBOARD} /\ ran' = TRUE
  /\ UNCHANGED <<kbvars, frames, iflag, pic, kbc, early, pressed, TICKS>>

\* mutant: the mask also opens COM1's line
InitializeOpensCom1 ==
  /\ mode = "idt"
  /\ mode' = "pic" /\ mask' = IRQS \ {TIMER, KEYBOARD, COM1} /\ irr' = {} /\ isr' = {}
  /\ early' = (kbc # <<>>) /\ ran' = TRUE
  /\ UNCHANGED <<kbvars, frames, iflag, idt, kbc, pressed, TICKS>>

\* mutant: the mask opens the timer's line only
InitializeMasksKeyboard ==
  /\ mode = "idt"
  /\ mode' = "pic" /\ mask' = IRQS \ {TIMER} /\ irr' = {} /\ isr' = {}
  /\ early' = (kbc # <<>>) /\ ran' = TRUE
  /\ UNCHANGED <<kbvars, frames, iflag, idt, kbc, pressed, TICKS>>

\* The initialisation words reset the edge detection: a line that is already high
\* makes no request until it falls and rises again.
PICS_initialize ==
  /\ mode = "idt"
  /\ mode' = "pic" /\ mask' = IRQS \ {TIMER, KEYBOARD} /\ irr' = {} /\ isr' = {}
  /\ early' = (kbc # <<>>) /\ ran' = TRUE
  /\ UNCHANGED <<kbvars, frames, iflag, idt, kbc, pressed, TICKS>>

init_timer ==
  /\ mode = "pic"
  /\ mode' = "timer_set" /\ ran' = TRUE
  /\ UNCHANGED <<kbvars, frames, iflag, idt, pic, kbc, early, pressed, TICKS>>

\* pmm::init comes after the PICs, the heap, loader and stack set-up after the timer:
\* each may panic, and the panic handler halts.
boot_panics ==
  /\ mode \in {"pic", "timer_set"}
  /\ mode' = "halted"
  /\ UNCHANGED <<kbvars, frames, iflag, idt, pic, kbc, ran, early, pressed, TICKS>>

\* iretq with RFLAGS = 0x202
enter_userspace ==
  /\ mode = "timer_set"
  /\ mode' = "user" /\ iflag' = TRUE /\ ran' = TRUE
  /\ UNCHANGED <<kbvars, frames, idt, pic, kbc, early, pressed, TICKS>>

-----------------------------------------------------------------------------
\* The PIC offers its highest-priority request that is not masked, unless one of the
\* same or a higher priority is in service.
Deliverable(irq) ==
  /\ iflag /\ irq \in irr \ mask
  /\ \A other \in (irr \ mask) \cup isr : irq <= other
  /\ irq \notin isr

\* User code runs an instruction only when no request is offered at the boundary before it.
UserRuns == mode = "user" /\ \A irq \in IRQS : ~Deliverable(irq)

UserStep ==
  /\ UserRuns /\ ran' = TRUE
  /\ UNCHANGED <<kbvars, mode, frames, iflag, idt, pic, kbc, early, pressed, TICKS>>

\* mutant: SFMASK does not clear IF
SyscallKeepsIF ==
  /\ UserRuns
  /\ mode' = "syscall" /\ frames' = Append(frames, [mode |-> mode, iflag |-> iflag])
  /\ ran' = TRUE
  /\ UNCHANGED <<kbvars, iflag, idt, pic, kbc, early, pressed, TICKS>>

\* syscall: RFLAGS are kept in R11, SFMASK clears IF.
syscall ==
  /\ UserRuns
  /\ mode' = "syscall" /\ frames' = Append(frames, [mode |-> mode, iflag |-> iflag])
  /\ iflag' = FALSE /\ ran' = TRUE
  /\ UNCHANGED <<kbvars, idt, pic, kbc, early, pressed, TICKS>>

Saved == frames[Len(frames)]
Return ==
  /\ mode' = Saved.mode /\ iflag' = Saved.iflag /\ frames' = SubSeq(frames, 1, Len(frames) - 1)

sysretq ==
  /\ mode = "syscall" /\ Return /\ ran' = TRUE
  /\ UNCHANGED <<kbvars, idt, pic, kbc, early, pressed, TICKS>>

\* sys_exit loops on hlt with IF clear; an exception of user code ends in the loop of
\* the page fault, general protection or double fault handler.
sys_exit ==
  /\ mode = "syscall" /\ mode' = "halted"
  /\ UNCHANGED <<kbvars, frames, iflag, idt, pic, kbc, ran, early, pressed, TICKS>>

exception_handler ==
  /\ UserRuns /\ mode' = "halted" /\ iflag' = FALSE
  /\ frames' = Append(frames, [mode |-> mode, iflag |-> iflag])
  /\ UNCHANGED <<kbvars, idt, pic, kbc, ran, early, pressed, TICKS>>

hlt_loop == mode \in {"halted", "unhandled"} /\ UNCHANGED vars

-----------------------------------------------------------------------------
\* The devices and the PIC.
PitEdge ==
  /\ ran /\ ran' = FALSE /\ irr' = irr \cup {TIMER}
  /\ UNCHANGED <<kbvars, mode, frames, iflag, idt, mask, isr, kbc, early, pressed, TICKS>>

Com1Edge ==
  /\ COM1 \notin irr /\ irr' = irr \cup {COM1}
  /\ UNCHANGED <<kbvars, mode, frames, iflag, idt, mask, isr, kbc, ran, early, pressed, TICKS>>

\* A byte that reaches an empty output buffer raises the controller's line.
KeyPress(s) ==
  /\ pressed < MaxKeys /\ pressed' = pressed + 1
  /\ kbc' = Append(kbc, s)
  /\ irr' = IF kbc = <<>> THEN irr \cup {KEYBOARD} ELSE irr
  /\ UNCHANGED <<kbvars, mode, frames, iflag, idt, mask, isr, ran, early, TICKS>>

Handler == [irq \in {TIMER, KEYBOARD} |-> IF irq = TIMER THEN "timer" ELSE "keyboard"]

\* Interrupt gates clear IF; a vector without a gate ends in the double fault handler.
Deliver(irq) ==
  /\ Deliverable(irq)
  /\ irr' = irr \ {irq} /\ isr' = isr \cup {irq}
  /\ mode' = IF irq \in idt THEN Handler[irq] ELSE "unhandled"
  /\ frames' = Append(frames, [mode |-> mode, iflag |-> iflag]) /\ iflag' = FALSE
  /\ UNCHANGED <<kbvars, idt, mask, kbc, ran, early, pressed, TICKS>>

\* Non-specific EOI: the highest-priority request in service ends.
notify_end_of_interrupt == isr' = isr \ {irq \in isr : \A other \in isr : irq <= other}

\* mutant: no end of interrupt
TimerNoEoi ==
  /\ mode = "timer"
  /\ TICKS' = (TICKS + 1) % TickModulus
  /\ Return
  /\ UNCHANGED <<kbvars, idt, pic, kbc, ran, early, pressed>>

timer_handler ==
  /\ mode = "timer"
  /\ TICKS' = (TICKS + 1) % TickModulus
  /\ notify_end_of_interrupt /\ Return
  /\ UNCHANGED <<kbvars, idt, mask, irr, kbc, ran, early, pressed>>

\* mutant: the port is left alone when the ring is full
KeyboardSkipsWhenFull ==
  /\ mode = "keyboard" /\ mode' = "keyboard_eoi"
  /\ IF (head + 1) % BUFFER_SIZE = tail
     THEN UNCHANGED <<kbvars, kbc, irr>>
     ELSE /\ add_scancode(Head(kbc)) /\ kbc' = Tail(kbc)
          /\ irr' = IF kbc' = <<>> THEN irr ELSE irr \cup {KEYBOARD}
  /\ UNCHANGED <<frames, iflag, idt, mask, isr, ran, early, pressed, TICKS>>

\* The read of port 0x60 empties the output buffer; the next byte, if any, fills it and
\* raises the line again, while the first is still in service.
keyboard_handler ==
  /\ mode = "keyboard" /\ mode' = "keyboard_eoi"
  /\ add_scancode(Head(kbc)) /\ kbc' = Tail(kbc)
  /\ irr' = IF kbc' = <<>> THEN irr ELSE irr \cup {KEYBOARD}
  /\ UNCHANGED <<frames, iflag, idt, mask, isr, ran, early, pressed, TICKS>>

keyboard_handler_eoi ==
  /\ mode = "keyboard_eoi"
  /\ notify_end_of_interrupt /\ Return
  /\ UNCHANGED <<kbvars, idt, mask, irr, kbc, ran, early, pressed, TICKS>>

-----------------------------------------------------------------------------
Boot == init_idt \/ PICS_initialize \/ init_timer \/ enter_userspace \/ boot_panics
User == UserStep \/ syscall \/ exception_handler
Syscall == sysretq \/ sys_exit
Handlers == timer_handler \/ keyboard_handler \/ keyboard_handler_eoi
Devices == PitEdge \/ Com1Edge \/ \E s \in Scancodes : KeyPress(s)

Next ==
  \/ Boot \/ User \/ Syscall \/ Handlers \/ Devices \/ hlt_loop
  \/ \E irq \in IRQS : Deliver(irq)

\* Kernel code always runs on, and the CPU takes an offered request.  Nothing is assumed
\* of the user program or of the devices.
Fairness ==
  /\ WF_vars(Boot) /\ WF_vars(Syscall) /\ WF_vars(Handlers)
  /\ WF_vars(\E irq \in IRQS : Deliver(irq))

Spec == Init /\ [][Next]_vars
FairSpec == Spec /\ Fairness

-----------------------------------------------------------------------------
\* Type invariant.
TypeOK ==
  /\ KbTypeOK
  /\ mode \in Modes
  /\ frames \in Seq([mode : Modes, iflag : BOOLEAN])
  /\ iflag \in BOOLEAN /\ ran \in BOOLEAN /\ early \in BOOLEAN
  /\ idt \subseteq IRQS /\ mask \subseteq IRQS /\ irr \subseteq IRQS /\ isr \subseteq IRQS
  /\ kbc \in Seq(Scancodes)
  /\ pressed \in 0 .. MaxKeys /\ TICKS \in 0 .. TickModulus - 1

\* An interrupt handler only ever runs over user code: never over the boot code, a system
\* call or another handler, whose spin locks it could find taken.  It is what makes the
\* plain lock() of timer_handler and keyboard_handler safe on one CPU.
HandlersOnlyInterruptUser ==
  mode \in HandlerModes => Len(frames) = 1 /\ Saved = [mode |-> "user", iflag |-> TRUE]

\* An IRQ is in service exactly while its handler runs, so the PIC is never left blocked
\* behind a handler that has returned.
InServiceMatchesHandler ==
  mode # "unhandled" =>
    isr = CASE mode = "timer" -> {TIMER}
            [] mode \in {"keyboard", "keyboard_eoi"} -> {KEYBOARD}
            [] OTHER -> {}

\* Only the two lines that have a gate in the IDT are ever delivered, whatever the
\* firmware left in the mask register.
OnlyHandledVectors == mode # "unhandled"

\* While a byte waits in the controller its request is pending or its handler is about to
\* read it: the handler reads port 0x60 even when the ring is full, and never reads an
\* empty port.  A byte that waited when the PICs were initialised is the exception.
KeyboardNeverStuck ==
  mode \notin {"start", "idt"} /\ ~early =>
    (kbc # <<>> <=> KEYBOARD \in irr \/ mode = "keyboard")

\* Every key pressed after the PICs were initialised reaches the handler, unless the
\* system halts first.
KeysRead ==
  (mode \notin {"start", "idt"} /\ ~early /\ kbc # <<>>) ~> (kbc = <<>> \/ mode = "halted")

\* Once PICS.initialize has opened IRQ 0 and IRQ 1, as its comment says, every key reaches
\* the handler, also one that waits in the controller from before.
KeyboardOpen ==
  (mode \notin {"start", "idt"} /\ kbc # <<>>) ~> (kbc = <<>> \/ mode = "halted")

\* A tick that is pending once the PICs are initialised is counted, unless the system halts.
TickServed ==
  (mode \notin {"start", "idt"} /\ TIMER \in irr) ~> (mode = "timer" \/ mode = "halted")
=============================================================================
