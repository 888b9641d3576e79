---------------------------- MODULE ConsoleLocks ----------------------------
(***************************************************************************)
(* The two spin locks of the console, SERIAL1 (src/shared/src/serial.rs)   *)
(* and WRITER (src/kernel/src/screen.rs), on the one CPU: the kernel's     *)
(* prints, the system call write, the exception handlers that cut in at    *)
(* any instruction, since IF does not mask them, and the panic handler.    *)
(* Each piece of code is the sequence of what it does to the locks.  The   *)
(* timer and keyboard handlers do not print and are left out.              *)
(***************************************************************************)
EXTENDS Integers, Sequences

CONSTANT MaxDepth   \* bound on nested contexts: how often code is cut short

ASSUME ConsoleLocksAssumption == MaxDepth \in Nat /\ MaxDepth >= 2

VARIABLES stack,    \* the contexts on the CPU, the running one last: their code, where they
                    \* are in it and (history) who held SERIAL1 when they began
          owner,    \* the context that holds each lock, 0 if it is free
          stolen    \* history: contexts that lost SERIAL1 to force_unlock

lock_vars == <<stack, owner, stolen>>

SERIAL1 == "serial"
WRITER == "writer"
LockNames == {SERIAL1, WRITER}

Op(do, lock) == [do |-> do, lock |-> lock]
Locked(lock) == <<Op("lock", lock), Op("write", lock), Op("unlock", lock)>>
Body == <<Op("body", SERIAL1)>>   \* other code: it touches no lock of the console
Halt == <<Op("halt", SERIAL1)>>

serial_print == Locked(SERIAL1)

_print == serial_print \o Locked(WRITER)

print_char == Locked(WRITER)

\* handle_syscall logs the call and its result; write prints to both in between.
sys_write == serial_print \o Body \o print_char \o serial_print \o serial_print

sys_exit == serial_print \o _print \o Halt

\* mutant: the handler still holds the lock when it prints its second line
ExceptionKeepsLock == <<Op("lock", SERIAL1), Op("write", SERIAL1)>> \o serial_print \o Halt

\* page_fault_handler, general_protection_handler and double_fault_handler print several
\* lines; two stand for them.
exception_handler == serial_print \o serial_print \o Halt

print_panic == <<Op("force", SERIAL1), Op("write", SERIAL1), Op("unlock", SERIAL1)>>

\* mutant: the message waits for the lock like every other
PanicWaits == serial_print \o serial_print \o Halt

\* mutant: the handler returns
PanicReturns == print_panic \o print_panic

panic_handler_impl == print_panic \o print_panic \o Halt

\* _start prints between the steps that set the kernel up.
_start == _print \o Body \o _print

Code ==
  [start |-> _start, user |-> Body, write |-> sys_write, exit |-> sys_exit,
   exception |-> exception_handler, panic |-> panic_handler_impl]

-----------------------------------------------------------------------------
Contexts == [code : DOMAIN Code, pc : Nat \ {0}, found : Nat]

Depth == Len(stack)
Top == stack[Depth]
AtEnd(c) == c.pc > Len(Code[c.code])
Doing(do) == ~AtEnd(Top) /\ Code[Top.code][Top.pc].do = do
Wanted == Code[Top.code][Top.pc].lock

Enter(code) == Append(stack, [code |-> code, pc |-> 1, found |-> owner[SERIAL1]])
Advance == stack' = [stack EXCEPT ![Depth] = [Top EXCEPT !.pc = @ + 1]]

LocksInit ==
  /\ stack = <<[code |-> "start", pc |-> 1, found |-> 0]>>
  /\ owner = [l \in LockNames |-> 0] /\ stolen = {}

lock ==
  /\ Doing("lock") /\ owner[Wanted] = 0
  /\ Advance /\ owner' = [owner EXCEPT ![Wanted] = Depth] /\ UNCHANGED stolen

\* Spins until the owner lets go: it does not run before this context ends.
spin == Doing("lock") /\ owner[Wanted] # 0 /\ UNCHANGED lock_vars

write == Doing("write") /\ Advance /\ UNCHANGED <<owner, stolen>>

unlock ==
  /\ Doing("unlock")
  /\ Advance /\ owner' = [owner EXCEPT ![Wanted] = 0] /\ UNCHANGED stolen

\* try_lock, or else force_unlock and lock
force ==
  /\ Doing("force")
  /\ Advance /\ owner' = [owner EXCEPT ![Wanted] = Depth]
  /\ stolen' = stolen \cup ({owner[Wanted]} \ {0})

body == Doing("body") /\ Top.code # "user" /\ Advance /\ UNCHANGED <<owner, stolen>>

halt == Doing("halt") /\ UNCHANGED lock_vars

-----------------------------------------------------------------------------
\* _start ends in iretq, the program runs and makes system calls.
enter_userspace ==
  /\ AtEnd(Top) /\ Top.code = "start"
  /\ stack' = [stack EXCEPT ![Depth] = [code |-> "user", pc |-> 1, found |-> 0]]
  /\ UNCHANGED <<owner, stolen>>

syscall(code) ==
  /\ Top.code = "user" /\ stack' = Enter(code) /\ UNCHANGED <<owner, stolen>>

\* Only a system call comes to its end: sysretq.
sysretq ==
  /\ AtEnd(Top) /\ Depth > 1
  /\ stack' = SubSeq(stack, 1, Depth - 1) /\ UNCHANGED <<owner, stolen>>

\* init_idt comes after the first lines that _start prints.
IdtLoaded == stack[1].code = "start" => stack[1].pc > Len(_print) + 1

\* A fault, a stack overflow or an NMI without a gate, at any instruction
exception ==
  /\ Depth < MaxDepth /\ ~AtEnd(Top) /\ IdtLoaded
  /\ stack' = Enter("exception") /\ UNCHANGED <<owner, stolen>>

\* expect and panic! in the kernel's own code, and the expect in serial::_print.  print_panic
\* ignores write errors.
panic ==
  /\ Depth < MaxDepth
  /\ \/ Doing("body") /\ Top.code # "user"
     \/ Doing("write") /\ Wanted = SERIAL1 /\ Top.code # "panic"
  /\ stack' = Enter("panic") /\ UNCHANGED <<owner, stolen>>

-----------------------------------------------------------------------------
Run == lock \/ write \/ unlock \/ force \/ body \/ enter_userspace \/ sysretq
LocksNext ==
  \/ Run \/ spin \/ halt \/ exception \/ panic
  \/ \E code \in {"write", "exit"} : syscall(code)

\* The CPU keeps running kernel code.  Nothing is assumed of the program, of faults, panics.
LocksSpec == LocksInit /\ [][LocksNext]_lock_vars
FairSpec == LocksSpec /\ WF_lock_vars(Run)

-----------------------------------------------------------------------------
\* Type invariant.
LocksTypeOK ==
  /\ stack \in Seq(Contexts)
  /\ Depth \in 1 .. MaxDepth /\ \A i \in 1 .. Depth : stack[i].pc <= Len(Code[stack[i].code]) + 1
  /\ owner \in [LockNames -> 0 .. Depth] /\ stolen \subseteq 1 .. MaxDepth

\* Who waits is an exception handler that found SERIAL1 taken.  Kernel code, system calls and
\* panics never wait, and nobody waits for the screen, whatever code an exception or a panic
\* cuts short: their handlers print to the serial port only.
OnlyHandlersWait ==
  Doing("lock") /\ owner[Wanted] # 0 =>
    Top.code = "exception" /\ Top.found # 0 /\ Wanted = SERIAL1

\* "The previous owner of the lock is dead/panicking anyway" (serial.rs:60): code that loses
\* SERIAL1 to force_unlock never runs again.
StolenNeverRuns == \A i \in stolen : i < Depth

\* print_panic gets its message out whatever the panic cut short, SERIAL1 held or not, unless
\* an exception strikes while it prints.
PanicSpeaks ==
  \A d \in 1 .. MaxDepth :
    (Depth = d /\ Top.code = "panic") ~> (Depth > d \/ (Depth = d /\ Doing("halt")))

\* An exception that finds SERIAL1 free is reported on the serial port and halts the machine,
\* although WRITER may be held, unless another one strikes or printing panics.
ExceptionReported ==
  \A d \in 1 .. MaxDepth :
    (Depth = d /\ Top.code = "exception" /\ Top.found = 0) ~>
       (Depth > d \/ (Depth = d /\ Doing("halt")))

\* "This is CRITICAL to prevent deadlocks" (serial.rs:36): no code waits for a lock that code
\* below it on the same CPU holds.
NeverSpins == ~(Doing("lock") /\ owner[Wanted] # 0)
=============================================================================
