---------------------------- MODULE SyscallEntry ----------------------------
(***************************************************************************)
(* The way from ring 3 into the kernel and back: enter_userspace, the      *)
(* SYSCALL/SYSRET set-up of syscalls::init and the instructions of         *)
(* syscall_entry (src/kernel/src/syscalls.rs).  Register contents are      *)
(* symbolic: what matters is whose value a register or a stack word holds. *)
(* SYSCALL, SYSRETQ, IRETQ and interrupt delivery follow the CPU; the Rust *)
(* handler follows the calling convention it is compiled to.               *)
(***************************************************************************)
EXTENDS Integers, Sequences, TLC

CONSTANTS STACK_WORDS,   \* 8-byte words of KERNEL_SYSCALL_STACK (2048 in the code)
          UserStacks,    \* the stack pointers user code may hold
          MaxCalls       \* bound on the system calls of a run

ASSUME SyscallEntryAssumption ==
  /\ STACK_WORDS \in Nat /\ STACK_WORDS >= 20 /\ STACK_WORDS % 2 = 0   \* align(16)
  /\ MaxCalls \in Nat

VARIABLES mode,        \* what the CPU executes; "stub" is syscall_entry
          pc,          \* the instruction of syscall_entry, from 1; 0 outside it
          regs, rsp,   \* the general registers; rsp = [stack, at]
          cs, ss, iflag,
          msrs,        \* STAR, SFMASK and KERNEL_SYSCALL_STACK_TOP once init has run
          TEMP_RSP,
          stack,       \* the words of KERNEL_SYSCALL_STACK
          saved,       \* what user code held when it executed syscall
          args,        \* what syscall_handler_inner received
          calls,       \* number of system calls so far
          spoiled      \* a frame was pushed on the user's stack

vars == <<mode, pc, regs, rsp, cs, ss, iflag, msrs, TEMP_RSP, stack, saved, args, calls, spoiled>>

CalleeSaved == {"rbx", "rbp", "r12", "r13", "r14", "r15"}
GPR == CalleeSaved \cup {"rax", "rcx", "rdx", "rsi", "rdi", "r8", "r9", "r10", "r11"}

Junk == <<"junk">>
Zero == <<"zero">>
UserSP(sp) == [stack |-> "user", at |-> sp]
KernelSP(at) == [stack |-> "kernel", at |-> at]

-----------------------------------------------------------------------------
\* gdt.rs: index 1 on; the null descriptor is index 0.
GDT == <<"kernel_code", "kernel_data", "user_data", "user_code", "tss", "tss">>
Descriptor(selector) == GDT[selector \div 8]
RPL(selector) == selector % 4

\* elf_loader::enter_userspace
USER_DATA_SEL == 27    \* 0x1B
USER_CODE_SEL == 35    \* 0x23

\* mutant: SYSRET's base is the user data segment
StarUserBase == [syscall |-> 8, sysret |-> 24 + 3]

\* STAR: 0x08 for SYSCALL, 0x10 | 3 for SYSRET
Star == [syscall |-> 8, sysret |-> 16 + 3]

\* TOP is the array's end less 8 bytes: its last word.
STACK_TOP == STACK_WORDS - 1

Init ==
  /\ mode = "boot" /\ pc = 0 /\ cs = 8 /\ ss = 16 /\ iflag = FALSE
  /\ regs = [r \in GPR |-> Junk] /\ rsp = [stack |-> "boot", at |-> 0]
  /\ msrs = <<>> /\ TEMP_RSP = Zero
  /\ stack = [i \in 0 .. STACK_WORDS - 1 |-> Zero]
  /\ saved = <<>> /\ args = <<>> /\ calls = 0 /\ spoiled = FALSE

\* mutant: SFMASK clears only TF
InitTrapFlagOnly ==
  /\ mode = "boot" /\ mode' = "ready"
  /\ msrs' = [star |-> Star, sfmask |-> {"TF"}, top |-> STACK_TOP]
  /\ UNCHANGED <<pc, regs, rsp, cs, ss, iflag, TEMP_RSP, stack, saved, args, calls, spoiled>>

init ==
  /\ mode = "boot" /\ mode' = "ready"
  /\ msrs' = [star |-> Star, sfmask |-> {"IF", "TF"}, top |-> STACK_TOP]
  /\ UNCHANGED <<pc, regs, rsp, cs, ss, iflag, TEMP_RSP, stack, saved, args, calls, spoiled>>

\* iretq with the user selectors, RFLAGS = 0x202 and every general register cleared
enter_userspace(sp) ==
  /\ mode = "ready" /\ mode' = "user"
  /\ regs' = [r \in GPR |-> Zero] /\ rsp' = UserSP(sp)
  /\ cs' = USER_CODE_SEL /\ ss' = USER_DATA_SEL /\ iflag' = TRUE
  /\ UNCHANGED <<pc, msrs, TEMP_RSP, stack, saved, args, calls, spoiled>>

-----------------------------------------------------------------------------
\* The instructions of syscall_entry.
Ins(op, r, n) == [op |-> op, r |-> r, n |-> n]
push(r) == Ins("push", r, 0)
pop(r) == Ins("pop", r, 0)
load(r, bytes) == Ins("load", r, bytes \div 8)     \* mov r, [rsp + bytes]

Saves == <<Ins("mov_temp_rsp", "none", 0), Ins("lea_top", "none", 0), Ins("mov_rsp_top", "none", 0),
           Ins("push_temp", "none", 0), push("rcx"), push("r11"),
           push("rdi"), push("rsi"), push("rdx"), push("r10"), push("r8"), push("r9"),
           push("rbx"), push("rbp"), push("r12"), push("r13"), push("r14"), push("r15")>>

\* mutant: arg4 is taken from the slot of arg5
MovesWrongSlot ==
         <<Ins("mov_rdi_rax", "none", 0), load("rsi", 88), load("rdx", 80), load("rcx", 72),
           load("r8", 56), load("r9", 56), Ins("push_load", "none", 6)>>

Moves == <<Ins("mov_rdi_rax", "none", 0), load("rsi", 88), load("rdx", 80), load("rcx", 72),
           load("r8", 64), load("r9", 56), Ins("push_load", "none", 6)>>

\* mutant: two registers are restored in the order they were saved
RestoresSwapped ==
            <<Ins("drop", "none", 0), pop("r15"), pop("r14"), pop("r13"), pop("r12"), pop("rbp"),
              pop("rbx"), pop("r8"), pop("r9"), pop("r10"), pop("rdx"), pop("rsi"), pop("rdi"),
              pop("r11"), pop("rcx"), Ins("pop_rsp", "none", 0), Ins("sysretq", "none", 0)>>

Restores == <<Ins("drop", "none", 0), pop("r15"), pop("r14"), pop("r13"), pop("r12"), pop("rbp"),
              pop("rbx"), pop("r9"), pop("r8"), pop("r10"), pop("rdx"), pop("rsi"), pop("rdi"),
              pop("r11"), pop("rcx"), Ins("pop_rsp", "none", 0), Ins("sysretq", "none", 0)>>

Code == Saves \o Moves \o <<Ins("call", "none", 0)>> \o Restores
At(op) == mode = "stub" /\ Code[pc].op = op

\* One instruction on the kernel stack: the registers, the stack pointer and the stack.
Moved(newRegs, newRsp, newStack) ==
  /\ pc' = pc + 1 /\ regs' = newRegs /\ rsp' = newRsp /\ stack' = newStack
  /\ UNCHANGED <<mode, cs, ss, iflag, msrs, TEMP_RSP, saved, args, calls, spoiled>>

Pushed(v) == Moved(regs, KernelSP(rsp.at - 1), [stack EXCEPT ![rsp.at - 1] = v])

mov_temp_rsp ==
  /\ At("mov_temp_rsp") /\ pc' = pc + 1 /\ TEMP_RSP' = rsp
  /\ UNCHANGED <<mode, regs, rsp, cs, ss, iflag, msrs, stack, saved, args, calls, spoiled>>

lea_top == At("lea_top") /\ Moved(regs, [stack |-> "top_variable", at |-> 0], stack)
mov_rsp_top == At("mov_rsp_top") /\ Moved(regs, KernelSP(msrs.top), stack)
push_temp == At("push_temp") /\ Pushed(TEMP_RSP)
push_reg == At("push") /\ Pushed(regs[Code[pc].r])
push_load == At("push_load") /\ Pushed(stack[rsp.at + Code[pc].n])
mov_rdi_rax == At("mov_rdi_rax") /\ Moved([regs EXCEPT !["rdi"] = regs["rax"]], rsp, stack)
load_reg == At("load") /\ Moved([regs EXCEPT ![Code[pc].r] = stack[rsp.at + Code[pc].n]], rsp, stack)
drop == At("drop") /\ Moved(regs, KernelSP(rsp.at + 1), stack)
pop_reg == At("pop") /\ Moved([regs EXCEPT ![Code[pc].r] = stack[rsp.at]], KernelSP(rsp.at + 1), stack)
pop_rsp == At("pop_rsp") /\ Moved(regs, stack[rsp.at], stack)

\* call {handler}: the arguments are those of the C convention, the seventh on the stack.
call ==
  /\ At("call") /\ mode' = "handler" /\ pc' = 0
  /\ args' = <<regs["rdi"], regs["rsi"], regs["rdx"], regs["rcx"], regs["r8"], regs["r9"],
               stack[rsp.at]>>
  /\ UNCHANGED <<regs, rsp, cs, ss, iflag, msrs, TEMP_RSP, stack, saved, calls, spoiled>>

\* The handler returns with the callee-saved registers intact; it owns the stack below
\* the call and the word of its stack argument.
syscall_handler_inner ==
  /\ mode = "handler" /\ mode' = "stub" /\ pc' = Len(Saves) + Len(Moves) + 2
  /\ regs' = [r \in GPR |-> IF r \in CalleeSaved THEN regs[r]
                            ELSE IF r = "rax" THEN <<"result", calls>> ELSE Junk]
  /\ stack' = [i \in 0 .. STACK_WORDS - 1 |-> IF i <= rsp.at THEN Junk ELSE stack[i]]
  /\ args' = <<>>
  /\ UNCHANGED <<rsp, cs, ss, iflag, msrs, TEMP_RSP, saved, calls, spoiled>>

\* sys_exit, a panic or an exception in the handler halts with IF clear.
handler_halts ==
  /\ mode = "handler" /\ mode' = "halted"
  /\ UNCHANGED <<pc, regs, rsp, cs, ss, iflag, msrs, TEMP_RSP, stack, saved, args, calls, spoiled>>

hlt_loop == mode = "halted" /\ UNCHANGED vars

-----------------------------------------------------------------------------
\* The CPU.
\* syscall: RCX = RIP, R11 = RFLAGS, the selectors from STAR, the flags of SFMASK cleared
syscall ==
  /\ mode = "user" /\ calls < MaxCalls /\ mode' = "stub" /\ pc' = 1
  /\ calls' = calls + 1
  /\ saved' = [regs |-> regs, rsp |-> rsp, rip |-> <<"rip", calls'>>, iflag |-> iflag]
  /\ regs' = [regs EXCEPT !["rcx"] = <<"rip", calls'>>, !["r11"] = <<"flags", iflag>>]
  /\ cs' = msrs.star.syscall /\ ss' = msrs.star.syscall + 8
  /\ iflag' = (iflag /\ "IF" \notin msrs.sfmask)
  /\ UNCHANGED <<rsp, msrs, TEMP_RSP, stack, args, spoiled>>

\* sysretq: RIP = RCX, RFLAGS = R11
sysretq ==
  /\ At("sysretq") /\ mode' = "user" /\ pc' = 0
  /\ cs' = msrs.star.sysret + 16 /\ ss' = msrs.star.sysret + 8
  /\ iflag' = regs["r11"][2]
  /\ UNCHANGED <<regs, rsp, msrs, TEMP_RSP, stack, saved, args, calls, spoiled>>

\* User code puts values of its own in every register.
UserCode(sp) ==
  /\ mode = "user" /\ regs' = [r \in GPR |-> <<"user", r, calls>>] /\ rsp' = UserSP(sp)
  /\ saved' = <<>>
  /\ UNCHANGED <<mode, pc, cs, ss, iflag, msrs, TEMP_RSP, stack, args, calls, spoiled>>

\* An interrupt and its return.  From ring 3 the CPU switches to RSP0 of the TSS; from
\* ring 0 the frame of five words goes below the stack pointer as it is.
interrupt ==
  /\ iflag
  /\ spoiled' = (spoiled \/ (RPL(cs) = 0 /\ rsp.stack = "user"))
  /\ stack' = IF RPL(cs) = 0 /\ rsp.stack = "kernel"
              THEN [i \in 0 .. STACK_WORDS - 1 |-> IF i \in rsp.at - 5 .. rsp.at - 1 THEN Junk
                                                   ELSE stack[i]]
              ELSE stack
  /\ UNCHANGED <<mode, pc, regs, rsp, cs, ss, iflag, msrs, TEMP_RSP, saved, args, calls>>

syscall_entry ==
  \/ mov_temp_rsp \/ lea_top \/ mov_rsp_top \/ push_temp \/ push_reg \/ push_load
  \/ mov_rdi_rax \/ load_reg \/ call \/ drop \/ pop_reg \/ pop_rsp \/ sysretq

Next ==
  \/ init \/ syscall \/ syscall_entry \/ syscall_handler_inner \/ handler_halts \/ hlt_loop
  \/ interrupt
  \/ \E sp \in UserStacks : enter_userspace(sp) \/ UserCode(sp)

Spec == Init /\ [][Next]_vars

-----------------------------------------------------------------------------
\* Type invariant: the stack pointer stays in KERNEL_SYSCALL_STACK while it is in use.
TypeOK ==
  /\ mode \in {"boot", "ready", "user", "stub", "handler", "halted"}
  /\ pc \in 0 .. Len(Code) /\ (mode = "stub" <=> pc # 0)
  /\ DOMAIN regs = GPR /\ DOMAIN stack = 0 .. STACK_WORDS - 1
  /\ rsp.stack \in {"boot", "user", "kernel", "top_variable"}
  /\ rsp.stack = "user" => rsp.at \in UserStacks
  /\ rsp.stack = "kernel" => rsp.at \in 0 .. STACK_WORDS - 1
  /\ iflag \in BOOLEAN /\ spoiled \in BOOLEAN /\ calls \in 0 .. MaxCalls

\* When sysretq has returned, every register but RAX, and the user's stack pointer, hold
\* what they held at syscall; RCX and R11 hold what the instruction itself put there, RAX
\* the handler's result.  FEATURES.md promises "Full register preservation".
RegistersPreserved ==
  mode = "user" /\ saved # <<>> =>
    /\ rsp = saved.rsp /\ iflag = saved.iflag
    /\ regs = [saved.regs EXCEPT !["rax"] = <<"result", calls>>, !["rcx"] = saved.rip,
                                 !["r11"] = <<"flags", saved.iflag>>]

\* The handler receives the system call number and the six arguments in the order of the
\* Linux convention, although the moves overwrite registers that still hold arguments.
ArgumentsDelivered ==
  mode = "handler" =>
    args = <<saved.regs["rax"], saved.regs["rdi"], saved.regs["rsi"], saved.regs["rdx"],
             saved.regs["r10"], saved.regs["r8"], saved.regs["r9"]>>

\* No interrupt frame is ever pushed on the user's stack by ring-0 code, neither before
\* the switch to the kernel stack nor after pop rsp: SFMASK keeps interrupts out.
UserStackUntouched == ~spoiled

\* Whatever path set them, CS and SS select descriptors of the GDT that fit the ring: the
\* selectors that SYSRET derives from STAR are those that enter_userspace loaded.
SelectorsMatchGdt ==
  IF mode = "user"
  THEN /\ Descriptor(cs) = "user_code" /\ RPL(cs) = 3
       /\ Descriptor(ss) = "user_data" /\ RPL(ss) = 3
  ELSE /\ Descriptor(cs) = "kernel_code" /\ RPL(cs) = 0
       /\ Descriptor(ss) = "kernel_data" /\ RPL(ss) = 0

\* The stack pointer is a multiple of 16 at the call of the Rust handler: the repository's
\* note says that RSP is divisible by 16 before a function is called.
CallAligned == At("call") => rsp.at % 2 = 0
=============================================================================
