---------------------------- MODULE SyscallProofs ----------------------------
(***************************************************************************)
(* For every size of KERNEL_SYSCALL_STACK, every stack pointer of user     *)
(* code and any number of system calls: syscall_entry preserves registers, *)
(* delivers the arguments, keeps the user's stack clean and runs with the  *)
(* right selectors.  And what the pool of sys_mmap answers, for every page *)
(* size, pool, set of arguments and number of blocks, the lengths that     *)
(* make a 64-bit sum wrap included.                                        *)
(***************************************************************************)
EXTENDS SyscallEntry, UserMemory, TLAPS

-----------------------------------------------------------------------------
(* syscall_entry. *)

\* What syscall_entry pushes, in order; "rsp" stands for TEMP_RSP.
PushOrder == <<"rsp", "rcx", "r11", "rdi", "rsi", "rdx", "r10", "r8", "r9",
               "rbx", "rbp", "r12", "r13", "r14", "r15">>

\* The registers as the first instruction of syscall_entry finds them.
AtEntry == [saved.regs EXCEPT !["rcx"] = saved.rip, !["r11"] = <<"flags", saved.iflag>>]

\* Register files and the words of the kernel stack.
IsRegs(f) == f = [r \in GPR |-> f[r]]
IsStack(f) == f = [w \in 0 .. STACK_WORDS - 1 |-> f[w]]

\* The k-th word below the top of the kernel stack, and the first n of them.
Held(k) == IF k = 1 THEN saved.rsp ELSE AtEntry[PushOrder[k]]
FrameTo(n) == \A k \in 1 .. n : stack[STACK_TOP - k] = Held(k)

\* What the CPU's set-up is in each mode: user code has its selectors and IF set, all other
\* code the kernel's and IF clear.
Machine ==
  /\ mode \in {"boot", "ready", "user", "stub", "handler", "halted"}
  /\ IF mode = "stub" THEN pc \in 1 .. 43 ELSE pc = 0
  /\ IF mode = "user" THEN cs = USER_CODE_SEL /\ ss = USER_DATA_SEL ELSE cs = 8 /\ ss = 16
  /\ mode # "boot" => msrs = [star |-> Star, sfmask |-> {"IF", "TF"}, top |-> STACK_TOP]
  /\ calls \in 0 .. MaxCalls
  /\ IsRegs(regs) /\ IsStack(stack)
  /\ mode = "user" => \E sp \in UserStacks : rsp = UserSP(sp)
  /\ mode \in {"stub", "handler"} =>
       /\ \E sp \in UserStacks : saved.rsp = UserSP(sp)
       /\ IsRegs(saved.regs)
  /\ mode \in {"boot", "ready", "halted"} =>
       rsp.stack \in {"boot", "kernel"} /\ (rsp.stack = "kernel" => rsp.at \in 0 .. STACK_WORDS - 1)

Flags ==
  /\ iflag \in BOOLEAN /\ (iflag <=> mode = "user")
  /\ spoiled = FALSE
  /\ mode \in {"stub", "handler"} => saved.iflag = TRUE

\* The instructions up to the last push: nothing but the stack pointer has changed.
Saving ==
  mode = "stub" /\ pc \in 1 .. 18 =>
    /\ regs = AtEntry
    /\ pc \in {1, 2} => rsp = saved.rsp
    /\ pc = 3 => rsp = [stack |-> "top_variable", at |-> 0]
    /\ pc >= 2 => TEMP_RSP = saved.rsp
    /\ pc >= 4 => rsp = KernelSP(STACK_TOP - (pc - 4)) /\ FrameTo(pc - 4)

\* The moves: an argument is in its place before the register it came from is lost, because
\* each is loaded from the frame.  The call is reached with all seven.
Called == mode = "handler" \/ (mode = "stub" /\ pc = 26)
Moving ==
  (mode = "stub" /\ pc \in 19 .. 26) \/ mode = "handler" =>
    /\ rsp = KernelSP(STACK_TOP - IF Called THEN 16 ELSE 15)
    /\ FrameTo(15)
    /\ mode = "stub" /\ pc = 19 => regs = AtEntry
    /\ Called \/ pc >= 20 => regs["rdi"] = saved.regs["rax"]
    /\ Called \/ pc >= 21 => regs["rsi"] = saved.regs["rdi"]
    /\ Called \/ pc >= 22 => regs["rdx"] = saved.regs["rsi"]
    /\ Called \/ pc >= 23 => regs["rcx"] = saved.regs["rdx"]
    /\ Called \/ pc >= 24 => regs["r8"] = saved.regs["r10"]
    /\ Called \/ pc >= 25 => regs["r9"] = saved.regs["r8"]
    /\ Called => stack[STACK_TOP - 16] = saved.regs["r9"]

\* The pops undo the pushes from the last to the first.
Restoring ==
  mode = "stub" /\ pc >= 27 =>
    /\ rsp = IF pc = 43 THEN saved.rsp
             ELSE KernelSP(STACK_TOP - IF pc = 27 THEN 16 ELSE 43 - pc)
    /\ pc <= 42 => FrameTo(15)
    /\ regs["rax"] = <<"result", calls>>
    /\ \A k \in 2 .. 15 : k > 43 - pc => regs[PushOrder[k]] = AtEntry[PushOrder[k]]

\* User code has its registers back until it changes them.
Back ==
  /\ mode \in {"boot", "ready"} => saved = <<>>
  /\ mode = "user" =>
       \/ saved = <<>>
       \/ /\ rsp = saved.rsp /\ iflag = saved.iflag
          /\ regs = [AtEntry EXCEPT !["rax"] = <<"result", calls>>]

IInv ==
  /\ Machine /\ Flags /\ Saving /\ Moving /\ Restoring /\ Back /\ ArgumentsDelivered

-----------------------------------------------------------------------------
\* e is a followed by b.
Joins(e, a, b) ==
  /\ Len(e) = Len(a) + Len(b)
  /\ \A p \in 1 .. Len(a) : e[p] = a[p]
  /\ \A p \in 1 .. Len(b) : e[Len(a) + p] = b[p]

\* Where the elements of a concatenation are.
LEMMA TwoParts ==
  ASSUME NEW R, NEW a \in Seq(R), NEW b \in Seq(R), NEW e, e = a \o b
  PROVE  e \in Seq(R) /\ Joins(e, a, b)
<1>1. e \in Seq(R) /\ Len(e) = Len(a) + Len(b)
  OBVIOUS
<1>2. \A p \in 1 .. Len(a) : e[p] = a[p]
  OBVIOUS
<1>3. \A p \in 1 .. Len(b) : e[Len(a) + p] = b[p]
  OBVIOUS
<1> QED BY <1>1, <1>2, <1>3 DEF Joins

InFour(e, a, b, c, d) ==
  /\ Len(e) = 43
  /\ \A p \in 1 .. 18 : e[p] = a[p]
  /\ \A p \in 1 .. 7 : e[18 + p] = b[p]
  /\ e[26] = c[1]
  /\ \A p \in 1 .. 17 : e[26 + p] = d[p]

\* The four parts of syscall_entry: saves, moves, the call and restores.
LEMMA FourParts ==
  ASSUME NEW R, NEW a \in Seq(R), NEW b \in Seq(R), NEW c \in Seq(R), NEW d \in Seq(R),
         Len(a) = 18, Len(b) = 7, Len(c) = 1, Len(d) = 17, NEW e, e = a \o b \o c \o d
  PROVE  InFour(e, a, b, c, d)
<1>1. PICK ab \in Seq(R) : ab = a \o b
  BY TwoParts, Zenon
<1>2. Len(ab) = 25 /\ (\A p \in 1 .. 18 : ab[p] = a[p]) /\ \A p \in 1 .. 7 : ab[18 + p] = b[p]
  <2>1. Joins(ab, a, b)
    BY <1>1, TwoParts, Zenon
  <2> QED BY <2>1 DEF Joins
<1>3. PICK abc \in Seq(R) : abc = ab \o c
  BY TwoParts, Zenon
<1>4. Len(abc) = 26 /\ (\A p \in 1 .. 25 : abc[p] = ab[p]) /\ abc[26] = c[1]
  <2>1. Joins(abc, ab, c)
    BY <1>3, TwoParts, Zenon
  <2>2. 1 \in 1 .. Len(c) /\ 25 + 1 = 26
    OBVIOUS
  <2> QED BY <2>1, <2>2, <1>2 DEF Joins
<1>5. PICK f \in Seq(R) : f = abc \o d
  BY TwoParts, Zenon
<1>6. Len(f) = 43 /\ (\A p \in 1 .. 26 : f[p] = abc[p]) /\ \A p \in 1 .. 17 : f[26 + p] = d[p]
  <2>1. Joins(f, abc, d)
    BY <1>5, TwoParts, Zenon
  <2> QED BY <2>1, <1>4 DEF Joins
<1>7. (\A p \in 1 .. 18 : f[p] = a[p]) /\ f[26] = c[1]
  BY <1>2, <1>4, <1>6
<1>8. ASSUME NEW p \in 1 .. 7 PROVE f[18 + p] = b[p]
  <2>1. 18 + p \in 1 .. 25 /\ 18 + p \in 1 .. 26
    OBVIOUS
  <2> QED BY <2>1, <1>2, <1>4, <1>6, Zenon
<1>9. InFour(f, a, b, c, d)
  BY <1>6, <1>7, <1>8, Zenon DEF InFour
<1>10. e = f
  BY <1>1, <1>3, <1>5
<1> QED BY <1>9, <1>10

\* All parts are sequences over one set.
LEMMA PartsAreSequences ==
  \E R : /\ Moves \in Seq(R) /\ Saves \in Seq(R) /\ Restores \in Seq(R)
        /\ <<Ins("call", "none", 0)>> \in Seq(R)
<1> DEFINE R == {Saves[i] : i \in 1 .. 18} \cup {Moves[i] : i \in 1 .. 7}
                  \cup {Restores[i] : i \in 1 .. 17} \cup {Ins("call", "none", 0)}
<1>1. Moves = [i \in 1 .. 7 |-> Moves[i]]
  BY DEF Moves
<1>2. Saves = [i \in 1 .. 18 |-> Saves[i]]
  BY DEF Saves
<1>3. Restores = [i \in 1 .. 17 |-> Restores[i]]
  BY DEF Restores
<1>4. \A f, n :
        n \in Nat /\ f = [i \in 1 .. n |-> f[i]] /\ (\A i \in 1 .. n : f[i] \in R) => f \in Seq(R)
  <2> HIDE DEF R
  <2> QED OBVIOUS
<1>5. <<Ins("call", "none", 0)>> \in Seq(R)
  OBVIOUS
<1>6. \A i \in 1 .. 7 : Moves[i] \in R
  OBVIOUS
<1>7. \A i \in 1 .. 18 : Saves[i] \in R
  OBVIOUS
<1>8. \A i \in 1 .. 17 : Restores[i] \in R
  OBVIOUS
<1>9. 7 \in Nat /\ 18 \in Nat /\ 17 \in Nat
  OBVIOUS
<1> HIDE DEF R
<1>10. Moves \in Seq(R)
  BY <1>1, <1>4, <1>6, <1>9, Zenon
<1>11. Saves \in Seq(R)
  BY <1>2, <1>4, <1>7, <1>9, Zenon
<1>12. Restores \in Seq(R)
  BY <1>3, <1>4, <1>8, <1>9, Zenon
<1> QED BY <1>5, <1>10, <1>11, <1>12, Zenon

\* Where each instruction of syscall_entry is.
LEMMA CodeAt ==
  /\ Len(Code) = 43 /\ Len(Saves) + Len(Moves) + 2 = 27
  /\ Code[1].op = "mov_temp_rsp" /\ Code[2].op = "lea_top" /\ Code[3].op = "mov_rsp_top"
  /\ Code[4].op = "push_temp"
  /\ \A p \in 5 .. 18 : Code[p].op = "push" /\ Code[p].r = PushOrder[p - 3]
  /\ Code[19].op = "mov_rdi_rax"
  /\ Code[20] = load("rsi", 88) /\ Code[21] = load("rdx", 80) /\ Code[22] = load("rcx", 72)
  /\ Code[23] = load("r8", 64) /\ Code[24] = load("r9", 56)
  /\ Code[25] = Ins("push_load", "none", 6) /\ Code[26].op = "call" /\ Code[27].op = "drop"
  /\ \A p \in 28 .. 41 : Code[p].op = "pop" /\ Code[p].r = PushOrder[43 - p]
  /\ Code[42].op = "pop_rsp" /\ Code[43].op = "sysretq"
<1>1. /\ Len(Saves) = 18
      /\ Saves[1].op = "mov_temp_rsp" /\ Saves[2].op = "lea_top" /\ Saves[3].op = "mov_rsp_top"
      /\ Saves[4].op = "push_temp"
      /\ \A p \in 5 .. 18 : Saves[p].op = "push" /\ Saves[p].r = PushOrder[p - 3]
  BY DEF Saves, Ins, push, PushOrder
<1>2. /\ Len(Moves) = 7
      /\ Moves[1].op = "mov_rdi_rax"
      /\ Moves[2] = load("rsi", 88) /\ Moves[3] = load("rdx", 80) /\ Moves[4] = load("rcx", 72)
      /\ Moves[5] = load("r8", 64) /\ Moves[6] = load("r9", 56)
      /\ Moves[7] = Ins("push_load", "none", 6)
  BY DEF Moves, Ins, load
<1>3. /\ Len(Restores) = 17
      /\ Restores[1].op = "drop" /\ Restores[16].op = "pop_rsp" /\ Restores[17].op = "sysretq"
      /\ \A p \in 2 .. 15 : Restores[p].op = "pop" /\ Restores[p].r = PushOrder[17 - p]
  BY DEF Restores, Ins, pop, PushOrder
<1>4. /\ Len(Code) = 43
      /\ \A p \in 1 .. 18 : Code[p] = Saves[p]
      /\ \A p \in 1 .. 7 : Code[18 + p] = Moves[p]
      /\ Code[26] = Ins("call", "none", 0)
      /\ \A p \in 1 .. 17 : Code[26 + p] = Restores[p]
  <2>1. PICK R : /\ Moves \in Seq(R) /\ Saves \in Seq(R) /\ Restores \in Seq(R)
                 /\ <<Ins("call", "none", 0)>> \in Seq(R)
    BY PartsAreSequences
  <2>2. Len(<<Ins("call", "none", 0)>>) = 1 /\ <<Ins("call", "none", 0)>>[1] = Ins("call", "none", 0)
    OBVIOUS
  <2>3. InFour(Code, Saves, Moves, <<Ins("call", "none", 0)>>, Restores)
    BY <2>1, <2>2, <1>1, <1>2, <1>3, FourParts, Zenon DEF Code
  <2> QED BY <2>2, <2>3, Zenon DEF InFour
<1>5. /\ Code[19] = Moves[1] /\ Code[20] = Moves[2] /\ Code[21] = Moves[3] /\ Code[22] = Moves[4]
      /\ Code[23] = Moves[5] /\ Code[24] = Moves[6] /\ Code[25] = Moves[7]
  BY <1>4
<1>6. Code[26].op = "call"
  BY <1>4 DEF Ins
<1>7. Code[27] = Restores[1] /\ Code[42] = Restores[16] /\ Code[43] = Restores[17]
  BY <1>4
<1>8. ASSUME NEW p \in 28 .. 41 PROVE Code[p].op = "pop" /\ Code[p].r = PushOrder[43 - p]
  <2>1. p - 26 \in 2 .. 15 /\ p - 26 \in 1 .. 17 /\ 26 + (p - 26) = p /\ 17 - (p - 26) = 43 - p
    OBVIOUS
  <2> QED BY <2>1, <1>3, <1>4
<1>9. ASSUME NEW p \in 5 .. 18 PROVE Code[p].op = "push" /\ Code[p].r = PushOrder[p - 3]
  BY <1>1, <1>4
<1>10. Code[1] = Saves[1] /\ Code[2] = Saves[2] /\ Code[3] = Saves[3] /\ Code[4] = Saves[4]
  BY <1>4, SMT, SMTT(60)
<1> QED BY <1>1, <1>2, <1>3, <1>4, <1>5, <1>6, <1>7, <1>8, <1>9, <1>10, SMT, SMTT(60)

\* What the load instructions read.
LEMMA Loads ==
  /\ Code[20].r = "rsi" /\ Code[20].n = 11 /\ Code[21].r = "rdx" /\ Code[21].n = 10
  /\ Code[22].r = "rcx" /\ Code[22].n = 9 /\ Code[23].r = "r8" /\ Code[23].n = 8
  /\ Code[24].r = "r9" /\ Code[24].n = 7
  /\ Code[20].op = "load" /\ Code[21].op = "load" /\ Code[22].op = "load"
  /\ Code[23].op = "load" /\ Code[24].op = "load"
BY CodeAt DEF load, Ins

\* At which instructions each operation is found.
LEMMA OpAt ==
  ASSUME pc \in 1 .. 43
  PROVE  /\ Code[pc].op = "mov_temp_rsp" => pc = 1
         /\ Code[pc].op = "lea_top" => pc = 2
         /\ Code[pc].op = "mov_rsp_top" => pc = 3
         /\ Code[pc].op = "push_temp" => pc = 4
         /\ Code[pc].op = "push" => pc \in 5 .. 18 /\ Code[pc].r = PushOrder[pc - 3]
         /\ Code[pc].op = "mov_rdi_rax" => pc = 19
         /\ Code[pc].op = "load" => pc \in 20 .. 24
         /\ Code[pc].op = "push_load" => pc = 25 /\ Code[pc].n = 6
         /\ Code[pc].op = "call" => pc = 26
         /\ Code[pc].op = "drop" => pc = 27
         /\ Code[pc].op = "pop" => pc \in 28 .. 41 /\ Code[pc].r = PushOrder[43 - pc]
         /\ Code[pc].op = "pop_rsp" => pc = 42
         /\ Code[pc].op = "sysretq" => pc = 43
<1>1. \/ pc = 1 \/ pc = 2 \/ pc = 3 \/ pc = 4 \/ pc \in 5 .. 18 \/ pc = 19
      \/ pc \in 20 .. 24 \/ pc = 25 \/ pc = 26 \/ pc = 27 \/ pc \in 28 .. 41 \/ pc = 42 \/ pc = 43
  OBVIOUS
<1>2. ASSUME pc \in 20 .. 24 PROVE Code[pc].op = "load"
  <2>1. pc = 20 \/ pc = 21 \/ pc = 22 \/ pc = 23 \/ pc = 24
    BY <1>2, SMT, SMTT(60)
  <2> QED BY <2>1, Loads
<1>3. Code[25].op = "push_load" /\ Code[25].n = 6
  BY CodeAt DEF Ins
<1>4. CASE pc = 1
  <2>1. Code[pc].op = "mov_temp_rsp"
    BY <1>4, CodeAt, Zenon
  <2> QED BY <1>4, <2>1
<1>5. CASE pc = 2
  <2>1. Code[pc].op = "lea_top"
    BY <1>5, CodeAt, Zenon
  <2> QED BY <1>5, <2>1
<1>6. CASE pc = 3
  <2>1. Code[pc].op = "mov_rsp_top"
    BY <1>6, CodeAt, Zenon
  <2> QED BY <1>6, <2>1
<1>7. CASE pc = 4
  <2>1. Code[pc].op = "push_temp"
    BY <1>7, CodeAt, Zenon
  <2> QED BY <1>7, <2>1
<1>8. CASE pc \in 5 .. 18
  <2>1. Code[pc].op = "push" /\ Code[pc].r = PushOrder[pc - 3]
    BY <1>8, CodeAt, ZenonT(40)
  <2> QED BY <1>8, <2>1
<1>9. CASE pc = 19
  <2>1. Code[pc].op = "mov_rdi_rax"
    BY <1>9, CodeAt, Zenon
  <2> QED BY <1>9, <2>1
<1>10. CASE pc \in 20 .. 24
  <2>1. Code[pc].op = "load"
    BY <1>10, <1>2, Zenon
  <2> QED BY <1>10, <2>1
<1>11. CASE pc = 25
  <2>1. Code[pc].op = "push_load" /\ Code[pc].n = 6
    BY <1>11, <1>3, Zenon
  <2> QED BY <1>11, <2>1
<1>12. CASE pc = 26
  <2>1. Code[pc].op = "call"
    BY <1>12, CodeAt, Zenon
  <2> QED BY <1>12, <2>1
<1>13. CASE pc = 27
  <2>1. Code[pc].op = "drop"
    BY <1>13, CodeAt, Zenon
  <2> QED BY <1>13, <2>1
<1>14. CASE pc \in 28 .. 41
  <2>1. Code[pc].op = "pop" /\ Code[pc].r = PushOrder[43 - pc]
    BY <1>14, CodeAt, Zenon
  <2> QED BY <1>14, <2>1
<1>15. CASE pc = 42
  <2>1. Code[pc].op = "pop_rsp"
    BY <1>15, CodeAt, Zenon
  <2> QED BY <1>15, <2>1
<1>16. CASE pc = 43
  <2>1. Code[pc].op = "sysretq"
    BY <1>16, CodeAt, Zenon
  <2> QED BY <1>16, <2>1
<1> QED BY <1>1, <1>4, <1>5, <1>6, <1>7, <1>8, <1>9,
       <1>10, <1>11, <1>12, <1>13, <1>14, <1>15, <1>16, Zenon

\* The registers at entry: the CPU has changed rcx and r11.
LEMMA Entry ==
  ASSUME IsRegs(saved.regs)
  PROVE  /\ IsRegs(AtEntry)
         /\ AtEntry["rcx"] = saved.rip /\ AtEntry["r11"] = <<"flags", saved.iflag>>
         /\ \A r \in GPR : r # "rcx" /\ r # "r11" => AtEntry[r] = saved.regs[r]
<1>1. PICK f : f = saved.regs
  OBVIOUS
<1>2. f = [r \in GPR |-> f[r]] /\ "rcx" \in GPR /\ "r11" \in GPR
  BY <1>1, Zenon DEF GPR, IsRegs
<1>3. PICK g : g = [f EXCEPT !["rcx"] = saved.rip]
  BY Zenon
<1>4. g = [r \in GPR |-> g[r]] /\ g["rcx"] = saved.rip /\ \A r \in GPR : r # "rcx" => g[r] = f[r]
  BY <1>2, <1>3
<1>5. AtEntry = [g EXCEPT !["r11"] = <<"flags", saved.iflag>>]
  BY <1>1, <1>3, Zenon DEF AtEntry
<1>6. /\ AtEntry = [r \in GPR |-> AtEntry[r]]
      /\ AtEntry["r11"] = <<"flags", saved.iflag>> /\ \A r \in GPR : r # "r11" => AtEntry[r] = g[r]
  BY <1>2, <1>4, <1>5
<1> QED BY <1>1, <1>2, <1>4, <1>6, Zenon DEF IsRegs

LEMMA EntryNow ==
  ASSUME IsRegs(saved'.regs)
  PROVE  IsRegs(AtEntry')
<1>1. PICK f : f = saved'.regs
  OBVIOUS
<1>2. f = [r \in GPR |-> f[r]]
  BY <1>1, Zenon DEF IsRegs
<1>3. PICK g : g = [f EXCEPT !["rcx"] = saved'.rip]
  BY Zenon
<1>4. g = [r \in GPR |-> g[r]]
  BY <1>2, <1>3
<1>5. AtEntry' = [g EXCEPT !["r11"] = <<"flags", saved'.iflag>>]
  BY <1>1, <1>3, Zenon DEF AtEntry
<1> QED BY <1>4, <1>5 DEF IsRegs

LEMMA Pushable ==
  \A k \in 2 .. 15 : PushOrder[k] \in GPR /\ PushOrder[k] # "rax"
BY DEF PushOrder, GPR, CalleeSaved

\* The kernel stack has room for what is pushed on it.
LEMMA Deep ==
  STACK_TOP \in Nat /\ STACK_TOP >= 19 /\ STACK_TOP = STACK_WORDS - 1 /\ STACK_WORDS \in Nat
<1>1. STACK_WORDS \in Nat /\ STACK_WORDS >= 20
  BY SyscallEntryAssumption, Zenon
<1> QED BY <1>1 DEF STACK_TOP

\* A word pushed below the frame extends it.
LEMMA FrameGrows ==
  ASSUME NEW k \in 1 .. 16, IsStack(stack), NEW v,
         stack' = [stack EXCEPT ![STACK_TOP - k] = v], saved' = saved, FrameTo(k - 1)
  PROVE  FrameTo(k - 1)' /\ (v = Held(k) => FrameTo(k)')
<1>1. AtEntry' = AtEntry
  BY DEF AtEntry
<1>2. \A j : Held(j)' = Held(j)
  BY <1>1 DEF Held
<1>3. \A j \in 1 .. 16 : STACK_TOP - j \in 0 .. STACK_WORDS - 1
  BY Deep
<1>4. stack'[STACK_TOP - k] = v /\ \A j \in 1 .. k - 1 : stack'[STACK_TOP - j] = stack[STACK_TOP - j]
  <2>1. DOMAIN stack = 0 .. STACK_WORDS - 1
    BY DEF IsStack
  <2>2. \A j \in 1 .. k - 1 : STACK_TOP - j # STACK_TOP - k /\ j \in 1 .. 16
    BY Deep
  <2> QED BY <2>1, <2>2, <1>3, Zenon
<1>5. \A j \in 1 .. k - 1 : stack'[STACK_TOP - j] = Held(j)
  BY <1>4 DEF FrameTo
<1>6. ASSUME v = Held(k) PROVE \A j \in 1 .. k : stack'[STACK_TOP - j] = Held(j)
  BY <1>4, <1>5, <1>6, SMT, SMTT(60)
<1> QED BY <1>2, <1>5, <1>6 DEF FrameTo

\* What the frame holds at the offsets that the moves read.
LEMMA FrameHolds ==
  ASSUME rsp = KernelSP(STACK_TOP - 15), FrameTo(15), IsRegs(saved.regs)
  PROVE  /\ stack[rsp.at + 11] = saved.regs["rdi"] /\ stack[rsp.at + 10] = saved.regs["rsi"]
         /\ stack[rsp.at + 9] = saved.regs["rdx"] /\ stack[rsp.at + 8] = saved.regs["r10"]
         /\ stack[rsp.at + 7] = saved.regs["r8"] /\ stack[rsp.at + 6] = saved.regs["r9"]
<1>1. /\ rsp.at + 11 = STACK_TOP - 4 /\ rsp.at + 10 = STACK_TOP - 5 /\ rsp.at + 9 = STACK_TOP - 6
      /\ rsp.at + 8 = STACK_TOP - 7 /\ rsp.at + 7 = STACK_TOP - 8 /\ rsp.at + 6 = STACK_TOP - 9
  BY Deep DEF KernelSP
<1>2. /\ PushOrder[4] = "rdi" /\ PushOrder[5] = "rsi" /\ PushOrder[6] = "rdx"
      /\ PushOrder[7] = "r10" /\ PushOrder[8] = "r8" /\ PushOrder[9] = "r9"
  BY Zenon DEF PushOrder
<1>3. /\ Held(4) = saved.regs["rdi"] /\ Held(5) = saved.regs["rsi"] /\ Held(6) = saved.regs["rdx"]
      /\ Held(7) = saved.regs["r10"] /\ Held(8) = saved.regs["r8"] /\ Held(9) = saved.regs["r9"]
  <2>1. \A q \in {"rdi", "rsi", "rdx", "r10", "r8", "r9"} :
          q \in GPR /\ q # "rcx" /\ q # "r11"
    BY SMT, SMTT(60) DEF GPR
  <2>2. \A q \in {"rdi", "rsi", "rdx", "r10", "r8", "r9"} : AtEntry[q] = saved.regs[q]
    BY <2>1, Entry
  <2> QED BY <2>2, <1>2 DEF Held
<1>4. \A k \in 1 .. 15 : stack[STACK_TOP - k] = Held(k)
  BY DEF FrameTo
<1> QED BY <1>1, <1>3, <1>4

\* What the move at place p puts into r.
Argument(p, r, v) ==
  \/ p = 19 /\ r = "rdi" /\ v = saved.regs["rax"]
  \/ p = 20 /\ r = "rsi" /\ v = saved.regs["rdi"]
  \/ p = 21 /\ r = "rdx" /\ v = saved.regs["rsi"]
  \/ p = 22 /\ r = "rcx" /\ v = saved.regs["rdx"]
  \/ p = 23 /\ r = "r8" /\ v = saved.regs["r10"]
  \/ p = 24 /\ r = "r9" /\ v = saved.regs["r8"]

LEMMA FrameStays ==
  ASSUME NEW n, FrameTo(n), stack' = stack, saved' = saved
  PROVE  FrameTo(n)'
BY DEF FrameTo, Held, AtEntry

\* An instruction of the stub that goes to the next one keeps the mode's set-up.
LEMMA StubKeeps ==
  ASSUME Machine, Flags, mode = "stub", pc \in 1 .. 42, pc' = pc + 1,
         UNCHANGED <<mode, cs, ss, iflag, msrs, saved, calls, spoiled>>,
         IsRegs(regs'), IsStack(stack')
  PROVE  Machine' /\ Flags' /\ Back' /\ ArgumentsDelivered' /\ AtEntry' = AtEntry
<1>1. Machine'
  <2>1. pc' \in 1 .. 43
    OBVIOUS
  <2> QED BY <2>1, Zenon DEF Machine
<1>2. Flags'
  BY Zenon DEF Flags
<1>3. Back' /\ ArgumentsDelivered'
  BY DEF Back, ArgumentsDelivered
<1>4. AtEntry' = AtEntry
  BY DEF AtEntry
<1> QED BY <1>1, <1>2, <1>3, <1>4

LEMMA SameState ==
  ASSUME IInv, UNCHANGED vars
  PROVE  IInv'
<1> USE DEF vars
<1>1. AtEntry' = AtEntry
  BY DEF AtEntry
<1>2. Machine' /\ Flags' /\ Back' /\ ArgumentsDelivered'
  BY <1>1, Zenon DEF IInv, Machine, Flags, Back, ArgumentsDelivered
<1>3. Saving'
  BY <1>1, Zenon DEF IInv, Saving, FrameTo, Held
<1>4. Moving'
  BY <1>1, Zenon DEF IInv, Moving, Called, FrameTo, Held
<1>5. Restoring'
  BY <1>1 DEF IInv, Restoring, FrameTo, Held
<1> QED BY <1>2, <1>3, <1>4, <1>5, Zenon DEF IInv

-----------------------------------------------------------------------------
\* The switch to the kernel stack: TEMP_RSP takes the user's stack pointer.
LEMMA SwitchKeeps ==
  ASSUME IInv, mov_temp_rsp \/ lea_top \/ mov_rsp_top
  PROVE  IInv'
<1> USE DEF Moved, At
<1>1. mode = "stub" /\ pc \in 1 .. 43
  BY Zenon DEF IInv, Machine, mov_temp_rsp, lea_top, mov_rsp_top
<1>2. pc \in 1 .. 3
  BY <1>1, OpAt DEF mov_temp_rsp, lea_top, mov_rsp_top
<1>3. /\ pc' = pc + 1 /\ regs' = regs /\ stack' = stack
      /\ UNCHANGED <<mode, cs, ss, iflag, msrs, saved, calls, spoiled>>
  BY Zenon DEF mov_temp_rsp, lea_top, mov_rsp_top
<1>4. Machine' /\ Flags' /\ Back' /\ ArgumentsDelivered' /\ AtEntry' = AtEntry
  <2>1. IsRegs(regs') /\ IsStack(stack')
    BY <1>3 DEF IInv, Machine
  <2>2. pc \in 1 .. 42
    BY <1>2
  <2> QED BY <1>1, <1>3, <2>1, <2>2, StubKeeps, SMT, SMTT(60) DEF IInv
<1>5. Saving'
  <2>0. /\ regs = AtEntry
        /\ pc \in {1, 2} => rsp = saved.rsp
        /\ pc >= 2 => TEMP_RSP = saved.rsp
    <3>1. Saving
      BY Zenon DEF IInv
    <3>2. pc \in 1 .. 18
      BY <1>2
    <3> QED BY <1>1, <3>1, <3>2, Zenon DEF Saving
  <2>1. pc' \in 2 .. 4 /\ pc' \in 1 .. 18 /\ regs' = AtEntry'
    <3>1. pc' \in 2 .. 4 /\ pc' \in 1 .. 18
      BY <1>2, <1>3
    <3> QED BY <1>3, <1>4, <2>0, <3>1, Zenon
  <2>2. CASE pc = 1
    <3>1. rsp' = rsp /\ TEMP_RSP' = rsp
      <4>1. ~ At("lea_top") /\ ~ At("mov_rsp_top")
        BY <2>2, CodeAt
      <4> QED BY <4>1, Zenon DEF mov_temp_rsp, lea_top, mov_rsp_top
    <3>2. rsp = saved.rsp
      BY <2>0, <2>2, Zenon
    <3>3. pc' # 3 /\ ~(pc' >= 4)
      BY <1>3, <2>2
    <3> QED BY <1>3, <2>1, <3>1, <3>2, <3>3, Zenon DEF Saving
  <2>3. CASE pc = 2
    <3>1. rsp' = [stack |-> "top_variable", at |-> 0] /\ TEMP_RSP' = TEMP_RSP
      <4>1. ~ At("mov_temp_rsp") /\ ~ At("mov_rsp_top")
        BY <2>3, CodeAt
      <4> QED BY <4>1, Zenon DEF mov_temp_rsp, lea_top, mov_rsp_top
    <3>2. pc >= 2 /\ pc' \notin {1, 2} /\ ~(pc' >= 4)
      BY <1>3, <2>3
    <3>3. TEMP_RSP' = saved.rsp
      BY <2>0, <3>1, <3>2, Zenon
    <3> QED BY <1>3, <2>1, <3>1, <3>2, <3>3, Zenon DEF Saving
  <2>4. CASE pc = 3
    <3>1. rsp' = KernelSP(msrs.top) /\ TEMP_RSP' = saved.rsp /\ pc' = 4
      <4>1. ~ At("mov_temp_rsp") /\ ~ At("lea_top")
        BY <2>4, CodeAt
      <4>2. rsp' = KernelSP(msrs.top) /\ TEMP_RSP' = TEMP_RSP
        BY <4>1, Zenon DEF mov_temp_rsp, lea_top, mov_rsp_top
      <4>3. pc >= 2 /\ pc' = 4
        BY <1>3, <2>4, SMT, SMTT(60)
      <4> QED BY <2>0, <4>2, <4>3, Zenon
    <3>2. msrs.top = STACK_TOP
      BY <1>1 DEF IInv, Machine
    <3>3. STACK_TOP - (pc' - 4) = STACK_TOP /\ pc' - 4 = 0
      BY <3>1, Deep
    <3>4. FrameTo(0)'
      BY SMT, SMTT(60) DEF FrameTo
    <3> QED BY <2>1, <3>1, <3>2, <3>3, <3>4, <1>3 DEF Saving
  <2> QED BY <1>2, <2>2, <2>3, <2>4, SMT, SMTT(60)
<1>6. Moving' /\ Restoring'
  BY <1>1, <1>2, <1>3 DEF Moving, Restoring
<1> QED BY <1>4, <1>5, <1>6, Zenon DEF IInv

\* A push of the entry's values: the frame grows by the next word of PushOrder.
LEMMA PushKeeps ==
  ASSUME IInv, push_temp \/ push_reg
  PROVE  IInv'
<1> USE DEF Moved, At, Pushed
<1>1. mode = "stub" /\ pc \in 1 .. 43
  BY Zenon  DEF IInv, Machine, push_temp, push_reg
<1>2. pc \in 4 .. 18
  BY <1>1, OpAt, SMT, SMTT(60) DEF push_temp, push_reg
<1>3. PICK k \in 1 .. 15 : k = pc - 3
  BY <1>2, SMT, SMTT(60)
<1>4. regs = AtEntry /\ TEMP_RSP = saved.rsp /\ rsp = KernelSP(STACK_TOP - (k - 1)) /\ FrameTo(k - 1)
  BY <1>1, <1>2, <1>3, SMT, SMTT(60) DEF IInv, Saving
<1>5. rsp.at - 1 = STACK_TOP - k
  BY <1>4, Deep, SMT, SMTT(60) DEF KernelSP
<1>6. /\ pc' = pc + 1 /\ regs' = regs /\ rsp' = KernelSP(STACK_TOP - k)
      /\ stack' = [stack EXCEPT ![STACK_TOP - k] = Held(k)]
      /\ UNCHANGED <<mode, cs, ss, iflag, msrs, TEMP_RSP, saved, calls, spoiled>>
  <2>1. CASE push_temp
    <3>1. k = 1
      BY <2>1, <1>1, <1>3, OpAt, SMT, SMTT(60) DEF push_temp
    <3>2. Held(k) = TEMP_RSP
      BY <3>1, <1>4 DEF Held
    <3> QED BY <2>1, <1>5, <3>2, Zenon DEF push_temp
  <2>2. CASE push_reg
    <3>1. k # 1 /\ Code[pc].r = PushOrder[k]
      BY <2>2, <1>1, <1>3, OpAt DEF push_reg
    <3>2. Held(k) = regs[Code[pc].r]
      BY <3>1, <1>4, SMT, SMTT(60) DEF Held
    <3> QED BY <2>2, <1>5, <3>2, Zenon DEF push_reg
  <2> QED BY <2>1, <2>2
<1>7. Machine' /\ Flags' /\ Back' /\ ArgumentsDelivered' /\ AtEntry' = AtEntry
  <2>1. IsRegs(regs') /\ IsStack(stack')
    BY <1>6, Zenon DEF IInv, Machine, IsStack
  <2>2. pc \in 1 .. 42
    BY <1>2
  <2> QED BY <1>1, <1>6, <2>1, <2>2, StubKeeps DEF IInv
<1>8. FrameTo(k)'
  <2>1. IsStack(stack)
    BY DEF IInv, Machine
  <2>2. k \in 1 .. 16
    OBVIOUS
  <2> QED BY <2>1, <2>2, <1>4, <1>6, FrameGrows, Zenon
<1>9. pc' = k + 4 /\ regs' = AtEntry'
  BY <1>3, <1>2, <1>4, <1>6, <1>7
<1>10. Saving' /\ Moving' /\ Restoring'
  <2>1. CASE k = 15
    <3>1. pc' = 19 /\ mode' = "stub" /\ rsp' = KernelSP(STACK_TOP - 15)
      BY <2>1, <1>1, <1>6, <1>9
    <3>2. ~ Called'
      BY <3>1, SMT, SMTT(60) DEF Called
    <3>3. Moving'
      BY <3>1, <3>2, <2>1, <1>8, <1>9, SMT, SMTT(60) DEF Moving
    <3> QED BY <3>1, <3>3 DEF Saving, Restoring
  <2>2. CASE k # 15
    <3>1. pc' - 4 = k /\ pc' \in 5 .. 18
      BY <2>2, <1>9, SMT, SMTT(60)
    <3>2. Saving'
      BY <3>1, <1>4, <1>6, <1>8, <1>9 DEF Saving
    <3> QED BY <3>1, <3>2, <1>6, <1>1 DEF Moving, Restoring
  <2> QED BY <2>1, <2>2, SMT, SMTT(60)
<1> QED BY <1>7, <1>10, Zenon DEF IInv

\* mov rdi, rax and the loads: each argument comes from the frame, where no move can have
\* lost it.
LEMMA MoveKeeps ==
  ASSUME IInv, mov_rdi_rax \/ load_reg
  PROVE  IInv'
<1> USE DEF Moved, At
<1>1. mode = "stub" /\ pc \in 1 .. 43
  BY Zenon DEF IInv, Machine, mov_rdi_rax, load_reg
<1>2. pc \in 19 .. 24
  BY <1>1, OpAt DEF mov_rdi_rax, load_reg
<1>3. /\ pc' = pc + 1 /\ rsp' = rsp /\ stack' = stack
      /\ UNCHANGED <<mode, cs, ss, iflag, msrs, saved, calls, spoiled>>
  BY Zenon DEF mov_rdi_rax, load_reg
<1>4. ~ Called /\ ~ Called' /\ rsp = KernelSP(STACK_TOP - 15) /\ FrameTo(15)
  BY <1>1, <1>2, <1>3 DEF IInv, Moving, Called
<1>5. IsRegs(saved.regs) /\ IsRegs(regs) /\ IsStack(stack)
  BY <1>1, Zenon DEF IInv, Machine
<1>6. /\ stack[rsp.at + 11] = saved.regs["rdi"] /\ stack[rsp.at + 10] = saved.regs["rsi"]
      /\ stack[rsp.at + 9] = saved.regs["rdx"] /\ stack[rsp.at + 8] = saved.regs["r10"]
      /\ stack[rsp.at + 7] = saved.regs["r8"] /\ stack[rsp.at + 6] = saved.regs["r9"]
  BY <1>4, <1>5, FrameHolds
<1>7. PICK r, v : r \in GPR /\ regs' = [regs EXCEPT ![r] = v] /\ Argument(pc, r, v)
  <2>1. CASE mov_rdi_rax
    <3>1. pc = 19 /\ regs["rax"] = AtEntry["rax"] /\ "rax" \in GPR /\ "rdi" \in GPR
      BY <2>1, <1>1, OpAt DEF mov_rdi_rax, IInv, Moving, GPR
    <3>2. regs["rax"] = saved.regs["rax"]
      BY <3>1, <1>5, Entry, SMT, SMTT(60)
    <3>3. Argument(pc, "rdi", regs["rax"])
      BY <3>1, <3>2 DEF Argument
    <3> QED BY <2>1, <3>1, <3>3, Zenon DEF mov_rdi_rax
  <2>2. CASE load_reg
    <3>1. pc \in 20 .. 24
      BY <2>2, <1>1, OpAt DEF load_reg
    <3>2. pc = 20 \/ pc = 21 \/ pc = 22 \/ pc = 23 \/ pc = 24
      BY <3>1
    <3>3. Code[pc].r \in GPR
      BY <3>2, Loads, ZenonT(40) DEF GPR
    <3>4. Argument(pc, Code[pc].r, stack[rsp.at + Code[pc].n])
      BY <3>2, <1>6, Loads DEF Argument
    <3> QED BY <2>2, <3>3, <3>4, Zenon DEF load_reg
  <2> QED BY <2>1, <2>2
<1>8. IsRegs(regs') /\ regs'[r] = v /\ \A q \in GPR : q # r => regs'[q] = regs[q]
  BY <1>5, <1>7, Zenon DEF IsRegs
<1>9. Machine' /\ Flags' /\ Back' /\ ArgumentsDelivered' /\ AtEntry' = AtEntry
  <2>1. IsStack(stack') /\ pc \in 1 .. 42
    BY <1>2, <1>3, <1>5, SMT, SMTT(60)
  <2> QED BY <1>1, <1>3, <1>8, <2>1, StubKeeps DEF IInv
<1>10. Moving'
  <2>1. FrameTo(15)' /\ rsp' = KernelSP(STACK_TOP - 15) /\ pc' \in 20 .. 25 /\ mode' = "stub"
    BY <1>1, <1>2, <1>3, <1>4, FrameStays, SMT, SMTT(60)
  <2>2. /\ pc' >= 20 => regs'["rdi"] = saved.regs["rax"]
        /\ pc' >= 21 => regs'["rsi"] = saved.regs["rdi"]
        /\ pc' >= 22 => regs'["rdx"] = saved.regs["rsi"]
        /\ pc' >= 23 => regs'["rcx"] = saved.regs["rdx"]
        /\ pc' >= 24 => regs'["r8"] = saved.regs["r10"]
        /\ pc' >= 25 => regs'["r9"] = saved.regs["r8"]
    <3>1. /\ pc >= 20 => regs["rdi"] = saved.regs["rax"]
          /\ pc >= 21 => regs["rsi"] = saved.regs["rdi"]
          /\ pc >= 22 => regs["rdx"] = saved.regs["rsi"]
          /\ pc >= 23 => regs["rcx"] = saved.regs["rdx"]
          /\ pc >= 24 => regs["r8"] = saved.regs["r10"]
      BY <1>1, <1>2, SMT, SMTT(60) DEF IInv, Moving
    <3>2. "rdi" \in GPR /\ "rsi" \in GPR /\ "rdx" \in GPR /\ "rcx" \in GPR /\ "r8" \in GPR
      BY DEF GPR
    <3>3. pc = 19 \/ pc = 20 \/ pc = 21 \/ pc = 22 \/ pc = 23 \/ pc = 24
      BY <1>2, SMT, SMTT(60)
    <3> QED BY <3>1, <3>2, <3>3, <1>3, <1>7, <1>8, SMT, SMTT(60) DEF Argument
  <2> QED BY <2>1, <2>2, <1>3, <1>4, SMT, SMTT(60) DEF Moving
<1>11. Saving' /\ Restoring'
  BY <1>1, <1>2, <1>3 DEF Saving, Restoring
<1> QED BY <1>9, <1>10, <1>11, Zenon DEF IInv

\* push [rsp + 48]: the seventh argument goes below the frame.
LEMMA PushLoadKeeps ==
  ASSUME IInv, push_load
  PROVE  IInv'
<1>1. mode = "stub" /\ pc \in 1 .. 43
  BY Zenon DEF IInv, Machine, push_load, At
<1>2. pc = 25 /\ Code[pc].n = 6
  BY <1>1, OpAt, SMT, SMTT(60) DEF push_load, At
<1>3. ~ Called /\ rsp = KernelSP(STACK_TOP - 15) /\ FrameTo(15)
  BY <1>1, <1>2, SMT, SMTT(60) DEF IInv, Moving, Called
<1>4. IsRegs(saved.regs) /\ IsRegs(regs) /\ IsStack(stack)
  BY <1>1, SMT, SMTT(60) DEF IInv, Machine
<1>5. rsp.at - 1 = STACK_TOP - 16
  BY <1>3, Deep, SMT, SMTT(60) DEF KernelSP
<1>6. stack[rsp.at + Code[pc].n] = saved.regs["r9"]
  BY <1>2, <1>3, <1>4, FrameHolds
<1>7. /\ pc' = 26 /\ regs' = regs /\ rsp' = KernelSP(STACK_TOP - 16)
      /\ stack' = [stack EXCEPT ![STACK_TOP - 16] = saved.regs["r9"]]
      /\ UNCHANGED <<mode, cs, ss, iflag, msrs, saved, calls, spoiled>>
  <2>1. Pushed(saved.regs["r9"]) /\ pc + 1 = 26
    BY <1>2, <1>6, SMT, SMTT(60) DEF push_load
  <2> QED BY <2>1, <1>5, Zenon DEF Pushed, Moved
<1>8. Machine' /\ Flags' /\ Back' /\ ArgumentsDelivered' /\ AtEntry' = AtEntry
  <2>1. IsRegs(regs') /\ IsStack(stack')
    BY <1>4, <1>7, Zenon DEF IsStack
  <2>2. pc \in 1 .. 42 /\ pc' = pc + 1
    BY <1>2, <1>7
  <2> QED BY <1>1, <1>7, <2>1, <2>2, StubKeeps DEF IInv
<1>9. FrameTo(15)' /\ stack'[STACK_TOP - 16] = saved.regs["r9"]
  <2>1. FrameTo(15)'
    <3>1. PICK k \in 1 .. 16 : k = 16
      OBVIOUS
    <3>2. k - 1 = 15
      BY <3>1
    <3>3. FrameTo(k - 1)'
      BY <3>1, <3>2, <1>3, <1>4, <1>7, FrameGrows, Zenon
    <3> QED BY <3>2, <3>3
  <2>2. STACK_TOP - 16 \in 0 .. STACK_WORDS - 1
    BY Deep
  <2>3. stack'[STACK_TOP - 16] = saved.regs["r9"]
    BY <2>2, <1>4, <1>7, Zenon DEF IsStack
  <2> QED BY <2>1, <2>3
<1>10. Moving'
  <2>1. Called' /\ mode' = "stub"
    BY <1>1, <1>7, Zenon DEF Called
  <2>2. /\ regs'["rdi"] = saved.regs["rax"] /\ regs'["rsi"] = saved.regs["rdi"]
        /\ regs'["rdx"] = saved.regs["rsi"] /\ regs'["rcx"] = saved.regs["rdx"]
        /\ regs'["r8"] = saved.regs["r10"] /\ regs'["r9"] = saved.regs["r8"]
    BY <1>1, <1>2, <1>7, SMT, SMTT(60) DEF IInv, Moving
  <2> QED BY <2>1, <2>2, <1>7, <1>9, SMT, SMTT(60) DEF Moving
<1>11. Saving' /\ Restoring'
  BY <1>1, <1>7 DEF Saving, Restoring
<1> QED BY <1>8, <1>10, <1>11, Zenon DEF IInv

\* The call hands over what the moves have put in place.
LEMMA CallKeeps ==
  ASSUME IInv, call
  PROVE  IInv'
<1>1. mode = "stub" /\ pc \in 1 .. 43
  BY Zenon DEF IInv, Machine, call, At
<1>2. pc = 26
  BY <1>1, OpAt DEF call, At
<1>3. Called
  BY <1>1, <1>2 DEF Called
<1>4. /\ mode' = "handler" /\ pc' = 0
      /\ UNCHANGED <<regs, rsp, cs, ss, iflag, msrs, TEMP_RSP, stack, saved, calls, spoiled>>
  BY Zenon DEF call
<1>5. Machine'
  BY <1>1, <1>4, Zenon DEF IInv, Machine
<1>6. Flags'
  BY <1>1, <1>4, Zenon DEF IInv, Flags
<1>7. /\ rsp = KernelSP(STACK_TOP - 16) /\ FrameTo(15) /\ stack[STACK_TOP - 16] = saved.regs["r9"]
      /\ regs["rdi"] = saved.regs["rax"] /\ regs["rsi"] = saved.regs["rdi"]
      /\ regs["rdx"] = saved.regs["rsi"] /\ regs["rcx"] = saved.regs["rdx"]
      /\ regs["r8"] = saved.regs["r10"] /\ regs["r9"] = saved.regs["r8"]
  BY <1>1, <1>2, <1>3, SMT, SMTT(60) DEF IInv, Moving
<1>8. ArgumentsDelivered'
  <2>1. stack[rsp.at] = saved.regs["r9"]
    BY <1>7, SMT, SMTT(60) DEF KernelSP
  <2> QED BY <2>1, <1>4, <1>7, SMT, SMTT(60) DEF ArgumentsDelivered, call
<1>9. Moving'
  <2>1. FrameTo(15)' /\ Called'
    BY <1>4, <1>7, FrameStays, SMT, SMTT(60) DEF Called
  <2> QED BY <2>1, <1>4, <1>7, SMT, SMTT(60) DEF Moving
<1>10. Saving' /\ Restoring' /\ Back'
  BY <1>4 DEF Saving, Restoring, Back
<1> QED BY <1>5, <1>6, <1>8, <1>9, <1>10, Zenon DEF IInv

\* The handler's return: only the word of the stack argument is lost.
LEMMA HandlerKeeps ==
  ASSUME IInv, syscall_handler_inner
  PROVE  IInv'
<1>1. mode = "handler" /\ mode' = "stub" /\ pc' = 27
  BY CodeAt, Zenon DEF syscall_handler_inner
<1>2. UNCHANGED <<rsp, cs, ss, iflag, msrs, TEMP_RSP, saved, calls, spoiled>>
  BY SMT, SMTT(60) DEF syscall_handler_inner
<1>3. IsRegs(regs') /\ regs'["rax"] = <<"result", calls>>
  BY SMT, SMTT(60) DEF syscall_handler_inner, IsRegs, GPR, CalleeSaved
<1>4. IsStack(stack')
  BY DEF syscall_handler_inner, IsStack
<1>5. Machine'
  <2>1. pc' \in 1 .. 43
    BY <1>1
  <2> QED BY <2>1, <1>1, <1>2, <1>3, <1>4, Zenon DEF IInv, Machine
<1>6. Flags'
  BY <1>1, <1>2, Zenon DEF IInv, Flags
<1>7. rsp = KernelSP(STACK_TOP - 16) /\ FrameTo(15)
  BY <1>1, SMT, SMTT(60) DEF IInv, Moving, Called
<1>8. FrameTo(15)'
  <2>1. \A k \in 1 .. 15 : STACK_TOP - k \in 0 .. STACK_WORDS - 1 /\ ~ (STACK_TOP - k <= rsp.at)
    BY <1>7, Deep DEF KernelSP
  <2>2. \A k \in 1 .. 15 : stack'[STACK_TOP - k] = stack[STACK_TOP - k]
    BY <2>1, Zenon DEF syscall_handler_inner
  <2>3. \A k : Held(k)' = Held(k)
    BY <1>2, SMT, SMTT(60) DEF Held, AtEntry
  <2> QED BY <2>2, <2>3, <1>7 DEF FrameTo
<1>9. Restoring'
  <2>1. \A k \in 2 .. 15 : ~ (k > 43 - pc')
    BY <1>1, SMT, SMTT(60)
  <2> QED BY <2>1, <1>1, <1>2, <1>3, <1>7, <1>8, SMT, SMTT(60) DEF Restoring
<1>10. Saving' /\ Moving' /\ Back' /\ ArgumentsDelivered'
  BY <1>1 DEF Saving, Moving, Back, ArgumentsDelivered
<1> QED BY <1>5, <1>6, <1>9, <1>10, Zenon DEF IInv

\* The pops: the k-th word of the frame goes back to the register it came from.
LEMMA PopKeeps ==
  ASSUME IInv, drop \/ pop_reg \/ pop_rsp
  PROVE  IInv'
<1> USE DEF Moved, At
<1>1. mode = "stub" /\ pc \in 1 .. 43
  BY Zenon  DEF IInv, Machine, drop, pop_reg, pop_rsp
<1>2. pc \in 27 .. 42
  BY <1>1, OpAt DEF drop, pop_reg, pop_rsp
<1>3. /\ pc' = pc + 1 /\ stack' = stack
      /\ UNCHANGED <<mode, cs, ss, iflag, msrs, saved, calls, spoiled>>
  BY Zenon DEF drop, pop_reg, pop_rsp
<1>4. /\ rsp = KernelSP(STACK_TOP - IF pc = 27 THEN 16 ELSE 43 - pc) /\ FrameTo(15)
      /\ regs["rax"] = <<"result", calls>>
      /\ \A k \in 2 .. 15 : k > 43 - pc => regs[PushOrder[k]] = AtEntry[PushOrder[k]]
  BY <1>1, <1>2, SMT, SMTT(60) DEF IInv, Restoring
<1>5. IsRegs(saved.regs) /\ IsRegs(regs) /\ IsStack(stack)
  BY <1>1, Zenon DEF IInv, Machine
<1>6. ASSUME IsRegs(regs')
      PROVE  Machine' /\ Flags' /\ Back' /\ ArgumentsDelivered' /\ AtEntry' = AtEntry
  <2>1. IsStack(stack') /\ pc \in 1 .. 42
    BY <1>2, <1>3, <1>5, SMT, SMTT(60)
  <2> QED BY <1>1, <1>3, <1>6, <2>1, StubKeeps DEF IInv
<1>7. Saving' /\ Moving' /\ FrameTo(15)' /\ mode' = "stub" /\ pc' >= 27
  BY <1>1, <1>2, <1>3, <1>4, FrameStays DEF Saving, Moving
<1>8. CASE drop
  <2>1. pc = 27 /\ regs' = regs /\ rsp' = KernelSP(rsp.at + 1)
    BY <1>1, <1>8, OpAt, Zenon DEF drop
  <2>2. rsp.at + 1 = STACK_TOP - 15 /\ pc' = 28
    BY <2>1, <1>3, <1>4, Deep, SMT, SMTT(60) DEF KernelSP
  <2>3. Restoring'
    BY <2>1, <2>2, <1>3, <1>4, <1>7 DEF Restoring
  <2> QED BY <2>1, <2>3, <1>5, <1>6, <1>7, Zenon DEF IInv
<1>9. CASE pop_reg
  <2>1. pc \in 28 .. 41 /\ Code[pc].r = PushOrder[43 - pc]
    BY <1>1, <1>9, OpAt DEF pop_reg
  <2>2. PICK k \in 2 .. 15 : k = 43 - pc
    BY <2>1, SMT, SMTT(60)
  <2>3. rsp.at = STACK_TOP - k /\ rsp.at + 1 = STACK_TOP - (k - 1) /\ pc # 27
    BY <2>1, <2>2, <1>4, Deep, SMT, SMTT(60) DEF KernelSP
  <2>4. stack[rsp.at] = AtEntry[PushOrder[k]]
    BY <2>2, <2>3, <1>4, SMT, SMTT(60) DEF FrameTo, Held
  <2>5. /\ regs' = [regs EXCEPT ![PushOrder[k]] = AtEntry[PushOrder[k]]]
        /\ rsp' = KernelSP(STACK_TOP - (k - 1))
    BY <2>1, <2>2, <2>3, <2>4, <1>9 DEF pop_reg
  <2>6. IsRegs(regs') /\ regs'["rax"] = regs["rax"]
    BY <2>5, <1>5, Pushable, Zenon DEF IsRegs, GPR
  <2>7. ASSUME NEW j \in 2 .. 15, j > 43 - pc'
        PROVE  regs'[PushOrder[j]] = AtEntry[PushOrder[j]]
    <3>1. j = k \/ j > 43 - pc
      BY <2>2, <2>7, <1>2, <1>3
    <3>2. PushOrder[j] \in GPR /\ PushOrder[k] \in GPR
      BY Pushable
    <3>3. regs'[PushOrder[j]] = regs[PushOrder[j]] \/ PushOrder[j] = PushOrder[k]
      BY <3>2, <2>5, <1>5 DEF IsRegs
    <3>4. regs'[PushOrder[k]] = AtEntry[PushOrder[k]]
      BY <3>2, <2>5, <1>5, SMT, SMTT(60) DEF IsRegs
    <3> QED BY <3>1, <3>3, <3>4, <1>4, SMT, SMTT(60)
  <2>8. 43 - pc' = k - 1 /\ pc' # 27 /\ pc' # 43
    BY <2>1, <2>2, <1>3
  <2>9. Restoring'
    BY <2>5, <2>6, <2>7, <2>8, <1>3, <1>4, <1>6, <1>7, Zenon DEF Restoring
  <2> QED BY <2>6, <2>9, <1>6, <1>7, Zenon DEF IInv
<1>10. CASE pop_rsp
  <2>1. pc = 42 /\ regs' = regs /\ rsp' = stack[rsp.at]
    BY <1>1, <1>10, OpAt, Zenon DEF pop_rsp
  <2>2. rsp.at = STACK_TOP - 1 /\ pc' = 43
    BY <2>1, <1>3, <1>4, Deep, SMT, SMTT(60) DEF KernelSP
  <2>3. stack[rsp.at] = saved.rsp
    BY <2>2, <1>4, SMT, SMTT(60) DEF FrameTo, Held
  <2>4. \A k \in 2 .. 15 : regs'[PushOrder[k]] = AtEntry[PushOrder[k]]
    BY <2>1, <1>4, SMT, SMTT(60)
  <2>5. Restoring'
    <3>1. rsp' = saved'.rsp /\ pc' = 43 /\ ~(pc' <= 42)
      BY <2>1, <2>2, <2>3, <1>3, SMT, SMTT(60)
    <3>2. regs'["rax"] = <<"result", calls'>>
      BY <2>1, <1>3, <1>4, Zenon
    <3>3. \A k \in 2 .. 15 : regs'[PushOrder[k]] = AtEntry'[PushOrder[k]]
      BY <2>1, <2>4, <1>5, <1>6, Zenon
    <3> QED BY <3>1, <3>2, <3>3, Zenon DEF Restoring
  <2> QED BY <2>1, <2>5, <1>5, <1>6, <1>7, Zenon DEF IInv
<1> QED BY <1>8, <1>9, <1>10

\* sysretq: user code has everything back.
LEMMA SysretKeeps ==
  ASSUME IInv, sysretq
  PROVE  IInv'
<1>1. mode = "stub" /\ pc \in 1 .. 43
  BY Zenon  DEF IInv, Machine, sysretq, At
<1>2. pc = 43
  BY <1>1, OpAt, Zenon DEF sysretq, At
<1>3. /\ mode' = "user" /\ pc' = 0
      /\ UNCHANGED <<regs, rsp, msrs, TEMP_RSP, stack, saved, args, calls, spoiled>>
  BY Zenon DEF sysretq
<1>4. IsRegs(saved.regs) /\ IsRegs(regs)
  BY <1>1, Zenon DEF IInv, Machine
<1>5. /\ rsp = saved.rsp /\ regs["rax"] = <<"result", calls>>
      /\ \A k \in 2 .. 15 : regs[PushOrder[k]] = AtEntry[PushOrder[k]]
  BY <1>1, <1>2, SMT, SMTT(60) DEF IInv, Restoring
<1>6. \A r \in GPR : r # "rax" => regs[r] = AtEntry[r]
  <2>1. \A r \in GPR : r # "rax" => \E k \in 2 .. 15 : r = PushOrder[k]
    BY SMT, SMTT(60) DEF GPR, CalleeSaved, PushOrder
  <2> QED BY <2>1, <1>5, Zenon
<1>7. regs = [AtEntry EXCEPT !["rax"] = <<"result", calls>>]
  <2>1. IsRegs(AtEntry)
    BY <1>4, Entry, SMT, SMTT(60)
  <2> QED BY <2>1, <1>4, <1>5, <1>6, Zenon DEF IsRegs
<1>8. iflag' = saved.iflag /\ saved.iflag = TRUE
  <2>1. regs["r11"] = <<"flags", saved.iflag>>
    BY <1>4, <1>6, Entry DEF GPR
  <2>2. saved.iflag = TRUE
    BY <1>1, Zenon DEF IInv, Flags
  <2> QED BY <2>1, <2>2, SMT, SMTT(60) DEF sysretq
<1>9. cs' = USER_CODE_SEL /\ ss' = USER_DATA_SEL
  <2>1. msrs = [star |-> Star, sfmask |-> {"IF", "TF"}, top |-> STACK_TOP]
    BY <1>1, Zenon DEF IInv, Machine
  <2> QED BY <2>1, SMT, SMTT(60) DEF sysretq, Star, USER_CODE_SEL, USER_DATA_SEL
<1>10. Machine'
  BY <1>1, <1>3, <1>5, <1>9, Zenon DEF IInv, Machine
<1>11. Flags'
  BY <1>3, <1>8, Zenon DEF IInv, Flags
<1>12. Back'
  <2>1. AtEntry' = AtEntry
    BY <1>3, Zenon DEF AtEntry
  <2> QED BY <2>1, <1>3, <1>5, <1>7, <1>8, Zenon DEF Back
<1>13. Saving' /\ Moving' /\ Restoring' /\ ArgumentsDelivered'
  BY <1>3, Zenon DEF Saving, Moving, Restoring, ArgumentsDelivered
<1> QED BY <1>10, <1>11, <1>12, <1>13, Zenon DEF IInv

\* syscall: the CPU saves RIP and RFLAGS in registers and SFMASK closes the kernel to
\* interrupts.
LEMMA SyscallKeeps ==
  ASSUME IInv, syscall
  PROVE  IInv'
<1>1. mode = "user" /\ mode' = "stub" /\ pc' = 1 /\ calls' \in 0 .. MaxCalls
  <2>1. mode = "user" /\ calls \in 0 .. MaxCalls /\ calls < MaxCalls /\ calls' = calls + 1
    BY Zenon DEF syscall, IInv, Machine
  <2>2. MaxCalls \in Nat
    BY SyscallEntryAssumption, Zenon
  <2>3. calls' \in 0 .. MaxCalls
    BY <2>1, <2>2
  <2>4. mode' = "stub" /\ pc' = 1
    BY Zenon  DEF syscall
  <2> QED BY <2>1, <2>3, <2>4, Zenon
<1>2. msrs = [star |-> Star, sfmask |-> {"IF", "TF"}, top |-> STACK_TOP] /\ iflag = TRUE
  BY <1>1, Zenon DEF IInv, Machine, Flags
<1>3. IsRegs(regs) /\ IsStack(stack) /\ \E sp \in UserStacks : rsp = UserSP(sp)
  BY <1>1, Zenon DEF IInv, Machine
<1>4. UNCHANGED <<rsp, msrs, TEMP_RSP, stack, args, spoiled>>
  BY Zenon DEF syscall
<1>5. saved'.regs = regs /\ saved'.rsp = rsp /\ saved'.iflag = iflag /\ saved'.rip = <<"rip", calls'>>
  BY Zenon DEF syscall
<1>6. regs' = AtEntry'
  BY <1>5, Zenon DEF syscall, AtEntry
<1>7. IsRegs(regs')
  <2>1. IsRegs(AtEntry')
    BY <1>3, <1>5, EntryNow, Zenon
  <2> QED BY <2>1, <1>6, Zenon
<1>8. cs' = 8 /\ ss' = 16
  BY <1>2, SMT, SMTT(60) DEF syscall, Star
<1>9. iflag' = FALSE
  BY <1>2, Zenon DEF syscall
<1>10. Machine'
  <2>1. pc' \in 1 .. 43
    BY <1>1
  <2> QED BY <2>1, <1>1, <1>2, <1>3, <1>4, <1>5, <1>7, <1>8, Zenon DEF Machine
<1>11. Flags'
  BY <1>1, <1>2, <1>4, <1>5, <1>9, ZenonT(20) DEF IInv, Flags
<1>12. Saving'
  BY <1>1, <1>4, <1>5, <1>6, SMT, SMTT(60) DEF Saving
<1>13. Moving' /\ Restoring' /\ Back' /\ ArgumentsDelivered'
  BY <1>1, SMT, SMTT(60) DEF Moving, Restoring, Back, ArgumentsDelivered
<1> QED BY <1>10, <1>11, <1>12, <1>13, Zenon DEF IInv

\* The steps outside syscall_entry.
LEMMA OutsideKeeps ==
  ASSUME IInv,
         \/ init \/ handler_halts \/ hlt_loop \/ interrupt
         \/ \E sp \in UserStacks : enter_userspace(sp) \/ UserCode(sp)
  PROVE  IInv'
<1>1. CASE init
  <2>1. Machine' /\ Flags'
    BY <1>1, Zenon DEF init, IInv, Machine, Flags
  <2> QED BY <2>1, <1>1, Zenon DEF init, IInv, Saving, Moving, Restoring, Back, ArgumentsDelivered
<1>2. CASE handler_halts
  <2>1. mode = "handler" /\ rsp.stack = "kernel" /\ rsp.at \in 0 .. STACK_WORDS - 1
    <3>1. mode = "handler"
      BY <1>2, Zenon DEF handler_halts
    <3>2. rsp = KernelSP(STACK_TOP - 16)
      BY <3>1, Zenon DEF IInv, Moving, Called
    <3> QED BY <3>1, <3>2, Deep DEF KernelSP
  <2>2. Machine' /\ Flags'
    BY <1>2, <2>1, Zenon DEF handler_halts, IInv, Machine, Flags
  <2> QED BY <2>2, <1>2, Zenon DEF handler_halts, IInv, Saving, Moving, Restoring, Back, ArgumentsDelivered
<1>3. CASE hlt_loop
  <2> QED BY <1>3, SameState DEF hlt_loop
<1>4. CASE interrupt
  <2>1. mode = "user" /\ cs = USER_CODE_SEL /\ spoiled = FALSE
    BY <1>4, Zenon DEF interrupt, IInv, Machine, Flags
  <2>2. RPL(cs) # 0
    BY <2>1 DEF RPL, USER_CODE_SEL
  <2>3. spoiled' = spoiled /\ stack' = stack
    BY <1>4, <2>1, <2>2, Zenon DEF interrupt
  <2>4. UNCHANGED vars
    BY <1>4, <2>3, ZenonT(20) DEF interrupt, vars
  <2> QED BY <2>4, SameState
<1>5. ASSUME NEW sp \in UserStacks, enter_userspace(sp)
      PROVE  IInv'
  <2>1. mode = "ready" /\ mode' = "user" /\ saved' = saved
    BY <1>5, Zenon DEF enter_userspace
  <2>2. IsRegs(regs')
    BY <1>5 DEF enter_userspace, IsRegs
  <2>3. Machine' /\ Flags'
    BY <1>5, <2>2, Zenon DEF enter_userspace, IInv, Machine, Flags
  <2>4. saved = <<>>
    BY <2>1, SMTT(20) DEF IInv, Back
  <2> QED BY <2>1, <2>3, <2>4, Zenon DEF IInv, Saving, Moving, Restoring, Back, ArgumentsDelivered
<1>6. ASSUME NEW sp \in UserStacks, UserCode(sp)
      PROVE  IInv'
  <2>1. mode = "user" /\ mode' = "user" /\ saved' = <<>>
    BY <1>6, Zenon DEF UserCode
  <2>2. IsRegs(regs')
    BY <1>6 DEF UserCode, IsRegs
  <2>3. Machine' /\ Flags'
    BY <1>6, <2>2, Zenon DEF UserCode, IInv, Machine, Flags
  <2> QED BY <2>1, <2>3, Zenon DEF IInv, Saving, Moving, Restoring, Back, ArgumentsDelivered
<1> QED BY <1>1, <1>2, <1>3, <1>4, <1>5, <1>6, ZenonT(20)

LEMMA EntryInit == Init => IInv
<1> SUFFICES ASSUME Init PROVE IInv
  BY SMT, SMTT(60)
<1>1. IsRegs(regs) /\ IsStack(stack)
  BY DEF Init, IsRegs, IsStack
<1>2. 0 \in 0 .. MaxCalls
  <2>1. MaxCalls \in Nat
    BY SyscallEntryAssumption, Zenon
  <2> QED BY <2>1
<1>3. Machine
  BY <1>1, <1>2, Zenon DEF Init, Machine
<1>4. Flags
  BY Zenon DEF Init, Flags
<1> QED BY <1>3, <1>4, Zenon DEF Init, IInv, Saving, Moving, Restoring, Back, ArgumentsDelivered

LEMMA EntryNext ==
  ASSUME IInv, [Next]_vars
  PROVE  IInv'
<1>1. CASE syscall_entry
  BY <1>1, SwitchKeeps, PushKeeps, MoveKeeps, PushLoadKeeps, CallKeeps, PopKeeps, SysretKeeps,
     Zenon DEF syscall_entry
<1>2. CASE UNCHANGED vars
  BY <1>2, SameState
<1> QED BY <1>1, <1>2, SyscallKeeps, HandlerKeeps, OutsideKeeps, Zenon DEF Next

-----------------------------------------------------------------------------
\* The invariant of syscall_entry and the code around it, for every stack size.
THEOREM EntryInvariance == Spec => []IInv
BY EntryInit, EntryNext, PTL DEF Spec

\* The stack pointer never leaves KERNEL_SYSCALL_STACK while the kernel stack is in use, and
\* the state has its types.
THEOREM EntryTypeCorrect == Spec => []TypeOK
<1>1. ASSUME IInv PROVE TypeOK
  <2>1. DOMAIN regs = GPR /\ DOMAIN stack = 0 .. STACK_WORDS - 1
    BY <1>1, Zenon DEF IInv, Machine, IsRegs, IsStack
  <2>2. mode \in {"boot", "ready", "user", "stub", "handler", "halted"} /\ calls \in 0 .. MaxCalls
    BY <1>1, Zenon DEF IInv, Machine
  <2>3. pc \in 0 .. Len(Code) /\ (mode = "stub" <=> pc # 0)
    <3>1. IF mode = "stub" THEN pc \in 1 .. 43 ELSE pc = 0
      BY <1>1, Zenon DEF IInv, Machine
    <3>2. Len(Code) = 43
      BY CodeAt, Zenon
    <3> QED BY <3>1, <3>2, SMT, SMTT(60)
  <2>4. iflag \in BOOLEAN /\ spoiled \in BOOLEAN
    BY <1>1, Zenon DEF IInv, Flags
  <2>5. /\ rsp.stack \in {"boot", "user", "kernel", "top_variable"}
        /\ rsp.stack = "user" => rsp.at \in UserStacks
        /\ rsp.stack = "kernel" => rsp.at \in 0 .. STACK_WORDS - 1
    <3>1. CASE mode \in {"boot", "ready", "halted"}
      BY <1>1, <3>1, Zenon DEF IInv, Machine
    <3>2. CASE mode = "user"
      <4>1. PICK sp \in UserStacks : rsp = UserSP(sp)
        BY <1>1, <3>2, Zenon DEF IInv, Machine
      <4>2. rsp.stack = "user" /\ rsp.at = sp
        BY ONLY <4>1, SMT, SMTT(60) DEF UserSP
      <4> QED BY ONLY <4>2, sp \in UserStacks, SMT, SMTT(60)
    <3>3. CASE mode = "handler"
      <4>1. rsp = KernelSP(STACK_TOP - 16)
        BY <1>1, <3>3, Zenon DEF IInv, Moving, Called
      <4>2. rsp.stack = "kernel" /\ rsp.at = STACK_TOP - 16
        BY ONLY <4>1, SMT, SMTT(60) DEF KernelSP
      <4> QED BY ONLY <4>2, Deep, SMT, SMTT(60)
    <3>4. CASE mode = "stub"
      <4>1. pc \in 1 .. 43 /\ \E sp \in UserStacks : saved.rsp = UserSP(sp)
        BY <1>1, <3>4, Zenon DEF IInv, Machine
      <4>2. CASE pc \in 1 .. 18
        <5>1. CASE pc \in {1, 2}
          BY <1>1, <3>4, <4>1, <4>2, <5>1, SMT, SMTT(60) DEF IInv, Saving, UserSP
        <5>2. CASE pc = 3
          BY <1>1, <3>4, <4>2, <5>2, SMT, SMTT(60) DEF IInv, Saving
        <5>3. CASE pc \in 4 .. 18
          <6>1. rsp = KernelSP(STACK_TOP - (pc - 4))
            BY <1>1, <3>4, <4>2, <5>3, SMT, SMTT(60) DEF IInv, Saving
          <6> QED BY <6>1, <5>3, Deep, SMT, SMTT(60) DEF KernelSP
        <5> QED BY <4>2, <5>1, <5>2, <5>3, SMT, SMTT(60)
      <4>3. CASE pc \in 19 .. 26
        <5>1. rsp = KernelSP(STACK_TOP - 16) \/ rsp = KernelSP(STACK_TOP - 15)
          BY <1>1, <3>4, <4>3, SMT, SMTT(60) DEF IInv, Moving
        <5> QED BY <5>1, Deep, SMT, SMTT(60) DEF KernelSP
      <4>4. CASE pc \in 27 .. 43
        <5>1. \/ rsp = saved.rsp
              \/ rsp = KernelSP(STACK_TOP - 16)
              \/ rsp = KernelSP(STACK_TOP - (43 - pc)) /\ pc \in 28 .. 42
          BY <1>1, <3>4, <4>4, SMT, SMTT(60) DEF IInv, Restoring
        <5>2. CASE rsp = saved.rsp
          BY <5>2, <4>1, SMT, SMTT(60) DEF UserSP
        <5>3. CASE rsp # saved.rsp
          BY <5>1, <5>3, Deep, SMT, SMTT(60) DEF KernelSP
        <5> QED BY <5>2, <5>3, SMT, SMTT(60)
      <4> QED BY <4>1, <4>2, <4>3, <4>4, SMTT(20)
    <3> QED BY <2>2, <3>1, <3>2, <3>3, <3>4, Zenon
  <2> QED BY <2>1, <2>2, <2>3, <2>4, <2>5, Zenon DEF TypeOK
<1> QED BY <1>1, EntryInvariance, PTL

\* A system call gives every register but RAX, RCX and R11, and the stack pointer, back as
\* they were (syscall_entry's pushes and pops).
THEOREM EntryRegistersPreserved == Spec => []RegistersPreserved
<1>1. ASSUME IInv PROVE RegistersPreserved
  <2> SUFFICES ASSUME mode = "user", saved # <<>>
               PROVE  /\ rsp = saved.rsp /\ iflag = saved.iflag
                      /\ regs = [saved.regs EXCEPT !["rax"] = <<"result", calls>>,
                                    !["rcx"] = saved.rip, !["r11"] = <<"flags", saved.iflag>>]
    BY DEF RegistersPreserved
  <2>1. /\ rsp = saved.rsp /\ iflag = saved.iflag
        /\ regs = [AtEntry EXCEPT !["rax"] = <<"result", calls>>]
    BY <1>1 DEF IInv, Back
  <2> QED BY <2>1, SMT, SMTT(60) DEF AtEntry
<1> QED BY <1>1, EntryInvariance, PTL

\* syscall_handler_inner receives number and arguments in order.
THEOREM EntryArgumentsDelivered == Spec => []ArgumentsDelivered
<1>1. ASSUME IInv PROVE ArgumentsDelivered
  BY <1>1 DEF IInv
<1> QED BY <1>1, EntryInvariance, PTL

\* No interrupt frame reaches the user's stack: SFMASK keeps interrupts out of the kernel.
THEOREM EntryUserStackUntouched == Spec => []UserStackUntouched
<1>1. ASSUME IInv PROVE UserStackUntouched
  BY <1>1, Zenon DEF IInv, Flags, UserStackUntouched
<1> QED BY <1>1, EntryInvariance, PTL

\* CS and SS fit the ring on every path: SYSRET derives from STAR what iretq loaded.
THEOREM EntrySelectorsMatchGdt == Spec => []SelectorsMatchGdt
<1>1. ASSUME IInv PROVE SelectorsMatchGdt
  <2>1. /\ GDT[1] = "kernel_code" /\ GDT[2] = "kernel_data" /\ GDT[3] = "user_data"
        /\ GDT[4] = "user_code"
    BY DEF GDT
  <2>2. /\ 8 \div 8 = 1 /\ 16 \div 8 = 2 /\ 27 \div 8 = 3 /\ 35 \div 8 = 4
        /\ 8 % 4 = 0 /\ 16 % 4 = 0 /\ 27 % 4 = 3 /\ 35 % 4 = 3
    OBVIOUS
  <2>3. IF mode = "user" THEN cs = 35 /\ ss = 27 ELSE cs = 8 /\ ss = 16
    BY <1>1 DEF IInv, Machine, USER_CODE_SEL, USER_DATA_SEL
  <2> QED BY <2>1, <2>2, <2>3, ZenonT(40) DEF SelectorsMatchGdt, Descriptor, RPL
<1> QED BY <1>1, EntryInvariance, PTL

-----------------------------------------------------------------------------
(* The pool of sys_mmap. *)

\* Rounding up to a multiple of p covers the length and wastes less than p.
LEMMA RoundUp ==
  ASSUME NEW p \in Nat \ {0}, NEW x \in Nat
  PROVE  /\ (x \div p) * p \in Nat
         /\ x - p < (x \div p) * p /\ (x \div p) * p <= x
         /\ ((x \div p) * p) % p = 0
  OBVIOUS

\* The sum of two multiples of p is one.
LEMMA SumAligned ==
  ASSUME NEW p \in Nat \ {0}, NEW x \in Nat, NEW y \in Nat, x % p = 0, y % p = 0
  PROVE  (x + y) % p = 0
<1>0. \A z \in Nat : z = p * (z \div p) + (z % p) /\ z \div p \in Nat
  OBVIOUS
<1>1. PICK k \in Nat : x = k * p
  <2>1. x = (x \div p) * p /\ x \div p \in Nat
    BY <1>0
  <2> QED BY <2>1
<1>2. PICK m \in Nat : y = m * p
  <2>1. y = (y \div p) * p /\ y \div p \in Nat
    BY <1>0
  <2> QED BY <2>1, Zenon
<1>3. x + y = (k + m) * p /\ k + m \in Nat
  BY <1>1, <1>2
<1>4. \A n \in Nat : (n * p) % p = 0
  OBVIOUS
<1> QED BY <1>3, <1>4, Zenon

\* So is their difference.
LEMMA DifferenceAligned ==
  ASSUME NEW p \in Nat \ {0}, NEW x \in Nat, NEW y \in Nat, x % p = 0, y % p = 0, y <= x
  PROVE  (x - y) % p = 0
<1>0. \A z \in Nat : z = p * (z \div p) + (z % p) /\ z \div p \in Nat
  OBVIOUS
<1>1. PICK k \in Nat : x = k * p
  <2>1. x = (x \div p) * p /\ x \div p \in Nat
    BY <1>0
  <2> QED BY <2>1
<1>2. PICK m \in Nat : y = m * p
  <2>1. y = (y \div p) * p /\ y \div p \in Nat
    BY <1>0
  <2> QED BY <2>1, Zenon
<1>3. m <= k
  <2>1. SUFFICES ASSUME k + 1 <= m PROVE FALSE
    OBVIOUS
  <2>2. (k + 1) * p <= m * p
    BY <2>1
  <2>3. (k + 1) * p = x + p
    BY <1>1
  <2> QED BY <1>2, <2>2, <2>3
<1>4. x - y = (k - m) * p /\ k - m \in Nat
  BY <1>1, <1>2, <1>3
<1>5. \A n \in Nat : (n * p) % p = 0
  OBVIOUS
<1> QED BY <1>4, <1>5, Zenon

\* The cursor's new value: the sum, less the modulus if it reached it.
LEMMA CursorStep ==
  ASSUME NEW m \in Nat, NEW next \in 0 .. m - 1, NEW a \in 0 .. m - 1
  PROVE  /\ next + a < m => (next + a) % m = next + a
         /\ ~(next + a < m) => m <= next + a /\ (next + a) % m = (next + a) - m
         /\ (next + a) % m \in Nat
  BY SMT, SMTT(60)

\* What aligned_len computes, with and without wrapping.
LEMMA AlignedLen ==
  ASSUME NEW length \in Lengths
  PROVE  /\ aligned_len(length) \in 0 .. U64 - 1
         /\ aligned_len(length) % PAGE_SIZE = 0
         /\ length + PAGE_SIZE - 1 < U64 =>
              /\ length <= aligned_len(length)
              /\ aligned_len(length) <= length + PAGE_SIZE - 1
<1>0. PAGE_SIZE \in Nat \ {0} /\ U64 \in Nat \ {0} /\ length \in Nat
  BY UserMemoryAssumption
<1> DEFINE w == length + PAGE_SIZE - 1
           x == w % U64
<1>1. x \in 0 .. U64 - 1 /\ (w < U64 => x = w)
  BY <1>0
<1>2. aligned_len(length) = (x \div PAGE_SIZE) * PAGE_SIZE
  BY DEF aligned_len
<1>3. w = length + PAGE_SIZE - 1
  OBVIOUS
<1> HIDE DEF x, w
<1>4. x \in Nat
  BY <1>0, <1>1
<1>5. /\ (x \div PAGE_SIZE) * PAGE_SIZE \in Nat
      /\ x - PAGE_SIZE < (x \div PAGE_SIZE) * PAGE_SIZE
      /\ (x \div PAGE_SIZE) * PAGE_SIZE <= x
      /\ ((x \div PAGE_SIZE) * PAGE_SIZE) % PAGE_SIZE = 0
  BY <1>0, <1>4, RoundUp, Zenon
<1> HIDE DEF aligned_len
<1> QED BY <1>0, <1>1, <1>2, <1>3, <1>5, SMT, SMTT(60)

-----------------------------------------------------------------------------
\* The end of every block, and the start of the pool, are below the cursor as long as no
\* later block wraps.
MemoryInv ==
  /\ MemoryTypeOK
  /\ MMAP_NEXT % PAGE_SIZE = 0
  /\ PoolBlocksDisjoint
  /\ BlocksInPool
  /\ NoWrap(1, Len(blocks)) => MMAP_START <= MMAP_NEXT
  /\ \A i \in 1 .. Len(blocks) :
       NoWrap(i, Len(blocks)) => blocks[i].start + blocks[i].len <= MMAP_NEXT

\* The invariant holds at boot.
LEMMA MemoryInvInit == MemoryInit => MemoryInv
  BY UserMemoryAssumption
  DEF MemoryInit, MemoryInv, MemoryTypeOK, PoolBlocksDisjoint, BlocksInPool

\* A grant of nothing leaves the cursor where it is.
LEMMA EmptyGrant ==
  ASSUME MMAP_NEXT \in 0 .. MMAP_END, 0 \in Lengths
  PROVE  (MMAP_NEXT + aligned_len(0)) % U64 = MMAP_NEXT
<1>0. /\ PAGE_SIZE \in Nat \ {0} /\ U64 \in Nat \ {0} /\ MMAP_END \in Nat /\ MMAP_END < U64
      /\ U64 % PAGE_SIZE = 0
  BY UserMemoryAssumption
<1>1. PAGE_SIZE - 1 < U64
  BY <1>0
<1>2. (0 + PAGE_SIZE - 1) % U64 = PAGE_SIZE - 1
  BY <1>0, <1>1
<1>3. (PAGE_SIZE - 1) \div PAGE_SIZE = 0
  BY <1>0
<1>4. aligned_len(0) = 0
  BY <1>0, <1>2, <1>3 DEF aligned_len
<1>5. MMAP_NEXT \in 0 .. U64 - 1 /\ MMAP_NEXT + 0 = MMAP_NEXT
  BY <1>0
<1>6. MMAP_NEXT % U64 = MMAP_NEXT
  BY <1>0, <1>5
<1> QED BY <1>4, <1>5, <1>6, Zenon

\* A grant moves the cursor to a page boundary in front of the pool's end, and past the
\* block if its sums do not wrap.
LEMMA GrantMoves ==
  ASSUME MMAP_NEXT \in 0 .. MMAP_END, MMAP_NEXT % PAGE_SIZE = 0, NEW length \in Lengths,
         NEW next, next = (MMAP_NEXT + aligned_len(length)) % U64, next <= MMAP_END
  PROVE  /\ next \in 0 .. MMAP_END
         /\ next % PAGE_SIZE = 0
         /\ ~Wraps([start |-> MMAP_NEXT, len |-> length]) => MMAP_NEXT + length <= next
<1>0. /\ PAGE_SIZE \in Nat \ {0} /\ U64 \in Nat \ {0} /\ MMAP_END \in Nat /\ MMAP_END < U64
      /\ U64 % PAGE_SIZE = 0 /\ length \in Nat
  BY UserMemoryAssumption
<1> DEFINE a == aligned_len(length)
<1>1. /\ a \in 0 .. U64 - 1 /\ a % PAGE_SIZE = 0
      /\ length + PAGE_SIZE - 1 < U64 => length <= a /\ a <= length + PAGE_SIZE - 1
  BY AlignedLen, Zenon
<1>2. next = (MMAP_NEXT + a) % U64
  OBVIOUS
<1> HIDE DEF a
<1>3. MMAP_NEXT \in 0 .. U64 - 1 /\ MMAP_NEXT \in Nat /\ a \in Nat
  BY <1>0, <1>1, SMT, SMTT(60)
<1>4. /\ MMAP_NEXT + a < U64 => next = MMAP_NEXT + a
      /\ ~(MMAP_NEXT + a < U64) => U64 <= MMAP_NEXT + a /\ next = (MMAP_NEXT + a) - U64
      /\ next \in Nat
  BY <1>0, <1>1, <1>2, <1>3, CursorStep, Zenon
<1>5. (MMAP_NEXT + a) % PAGE_SIZE = 0 /\ MMAP_NEXT + a \in Nat
  <2>1. MMAP_NEXT + a \in Nat
    BY <1>3
  <2> QED BY <1>0, <1>1, <1>3, <2>1, SumAligned, Zenon
<1>6. next % PAGE_SIZE = 0
  <2>1. CASE MMAP_NEXT + a < U64
    BY <1>4, <1>5, <2>1, Zenon
  <2>2. CASE ~(MMAP_NEXT + a < U64)
    <3>1. U64 \in Nat
      BY <1>0
    <3>2. U64 <= MMAP_NEXT + a /\ next = (MMAP_NEXT + a) - U64
      BY <1>4, <2>2, Zenon
    <3>3. ((MMAP_NEXT + a) - U64) % PAGE_SIZE = 0
      BY ONLY <1>0, <1>5, <3>1, <3>2, DifferenceAligned, Zenon
    <3> QED BY <3>2, <3>3, Zenon
  <2> QED BY <2>1, <2>2, Zenon
<1>7. next \in 0 .. MMAP_END
  BY <1>0, <1>4, SMT, SMTT(60)
<1>8. ASSUME ~Wraps([start |-> MMAP_NEXT, len |-> length]) PROVE MMAP_NEXT + length <= next
  <2>1. ~(MMAP_NEXT + length + PAGE_SIZE - 1 >= U64)
    BY <1>8, Zenon DEF Wraps
  <2>2. MMAP_NEXT + length + PAGE_SIZE - 1 < U64 /\ length + PAGE_SIZE - 1 < U64
    BY <1>0, <1>3, <2>1, SMT, SMTT(60)
  <2>3. length <= a /\ a <= length + PAGE_SIZE - 1
    BY <1>1, <2>2, Zenon
  <2>4. MMAP_NEXT + a < U64
    BY <1>0, <1>3, <2>2, <2>3, SMT, SMTT(60)
  <2>5. next = MMAP_NEXT + a
    BY <1>4, <2>4, Zenon
  <2> QED BY ONLY <1>0, <1>3, <2>3, <2>5, SMT, SMTT(60)
<1> QED BY <1>6, <1>7, <1>8, Zenon

\* Appending a block keeps the invariant: it starts at the old cursor, and ends at or below
\* the new one unless it wraps.
LEMMA GrantKeeps ==
  ASSUME MemoryInv, NEW length \in Lengths, length # 0,
         MMAP_NEXT' = (MMAP_NEXT + aligned_len(length)) % U64,
         MMAP_NEXT' <= MMAP_END,
         result' = as_i64(MMAP_NEXT),
         blocks' = Append(blocks, [start |-> MMAP_NEXT, len |-> length]),
         UNCHANGED CURRENT_BRK
  PROVE  MemoryInv'
<1>0. /\ PAGE_SIZE \in Nat \ {0} /\ U64 \in Nat /\ MMAP_START \in Nat /\ MMAP_END \in Nat
      /\ Lengths \subseteq Nat
  BY UserMemoryAssumption, SMT, SMTT(60)
<1> USE <1>0
<1> DEFINE new == [start |-> MMAP_NEXT, len |-> length]
           Block == [start : 0 .. MMAP_END, len : Lengths]
           n == Len(blocks)
           Clear(i, j) == \A k \in i .. j : ~Wraps(blocks'[k])
<1>1. MMAP_NEXT \in 0 .. MMAP_END /\ MMAP_NEXT % PAGE_SIZE = 0 /\ length \in Nat
  BY Zenon DEF MemoryInv, MemoryTypeOK
<1>2. /\ MMAP_NEXT' \in 0 .. MMAP_END
      /\ MMAP_NEXT' % PAGE_SIZE = 0
      /\ ~Wraps(new) => MMAP_NEXT + length <= MMAP_NEXT'
  BY <1>1, GrantMoves, Zenon
<1>3. new \in Block /\ new.start = MMAP_NEXT /\ new.len = length
  BY <1>1, SMT, SMTT(60)
<1>4. blocks \in Seq(Block) /\ blocks' = Append(blocks, new)
  BY Zenon DEF MemoryInv, MemoryTypeOK
<1>5. as_i64(MMAP_NEXT) \in Int
  BY <1>1, SMT, SMTT(60) DEF as_i64
<1>6. Block = [start : 0 .. MMAP_END, len : Lengths]
  BY Zenon
<1>7. \A r \in Block : r.start \in Nat /\ r.len \in Nat
  <2>1. \A r \in Block : r.start \in 0 .. MMAP_END /\ r.len \in Lengths
    BY Zenon
  <2>2. \A x \in 0 .. MMAP_END : x \in Nat
    OBVIOUS
  <2> QED BY <2>1, <2>2, Zenon
<1> HIDE DEF Block, new
<1>8. /\ blocks' \in Seq(Block)
      /\ Len(blocks') = n + 1 /\ n \in Nat
      /\ \A i \in 1 .. n : blocks'[i] = blocks[i]
      /\ blocks'[n + 1] = new
  BY <1>3, <1>4, SMT, SMTT(60)
<1>9. MemoryTypeOK'
  BY <1>2, <1>5, <1>6, <1>8, Zenon DEF MemoryInv, MemoryTypeOK
<1>10. ASSUME NEW i \in 1 .. n + 1, NEW j \in 0 .. n, Clear(i, j)
       PROVE  NoWrap(i, j)
  <2> SUFFICES ASSUME NEW k \in i .. j PROVE ~Wraps(blocks[k])
    BY Zenon DEF NoWrap
  <2>1. k \in 1 .. n
    BY <1>8, SMT, SMTT(60)
  <2>2. ~Wraps(blocks'[k])
    BY <1>10, Zenon
  <2> QED BY <1>8, <2>1, <2>2, Zenon
<1>11. ASSUME NEW i \in 1 .. n + 1, Clear(i, n + 1)
       PROVE  Clear(i, n) /\ ~Wraps(new)
  <2>1. n + 1 \in i .. n + 1 /\ \A k \in i .. n : k \in i .. n + 1
    BY <1>8, SMT, SMTT(60)
  <2>2. ~Wraps(blocks'[n + 1])
    BY <1>11, <2>1, Zenon
  <2>3. Clear(i, n)
    BY <1>11, <2>1, Zenon
  <2> QED BY <1>8, <2>2, <2>3, Zenon
<1>12. /\ 1 \in 1 .. n + 1 /\ n \in 0 .. n
       /\ \A i \in 1 .. n + 1 : i \in 1 .. n \/ i = n + 1
       /\ \A i \in 1 .. n : i \in 1 .. n + 1 /\ i \in Nat /\ i - 1 \in 0 .. n
       /\ (n + 1) - 1 = n
  BY <1>8, SMT, SMTT(60)
<1> HIDE DEF n, Clear
<1>13. ASSUME Clear(1, n + 1) PROVE MMAP_START <= MMAP_NEXT'
  <2>1. NoWrap(1, n) /\ ~Wraps(new)
    BY <1>10, <1>11, <1>12, <1>13, Zenon
  <2>2. MMAP_START <= MMAP_NEXT
    BY <2>1, Zenon DEF MemoryInv, n
  <2> QED BY <1>1, <1>2, <2>1, <2>2, SMT, SMTT(60)
<1>14. ASSUME NEW i \in 1 .. n + 1, Clear(i, n + 1)
       PROVE  blocks'[i].start + blocks'[i].len <= MMAP_NEXT'
  <2>1. NoWrap(i, n) /\ ~Wraps(new)
    BY <1>10, <1>11, <1>12, <1>14, Zenon
  <2>2. MMAP_NEXT + length <= MMAP_NEXT'
    BY <1>2, <2>1, Zenon
  <2>3. CASE i = n + 1
    BY <1>3, <1>8, <2>2, <2>3, Zenon
  <2>4. CASE i \in 1 .. n
    <3>1. blocks[i].start + blocks[i].len <= MMAP_NEXT
      BY <2>1, <2>4, Zenon DEF MemoryInv, n
    <3>2. blocks[i] \in Block
      BY <1>4, <2>4, SMT, SMTT(60) DEF n
    <3>3. blocks[i].start \in Nat /\ blocks[i].len \in Nat
      BY <1>7, <3>2, Zenon
    <3>4. blocks[i].start + blocks[i].len <= MMAP_NEXT'
      BY ONLY <1>1, <1>2, <2>2, <3>1, <3>3, <1>0, SMT, SMTT(60)
    <3> QED BY <1>8, <2>4, <3>4, Zenon
  <2> QED BY <1>12, <2>3, <2>4, Zenon
<1>15. \A i \in 1 .. n + 1 : blocks'[i].start % PAGE_SIZE = 0
  BY <1>1, <1>3, <1>8, <1>12, Zenon DEF MemoryInv, PoolBlocksDisjoint, n
<1>16. ASSUME NEW i \in 1 .. n + 1, NEW j \in 1 .. n + 1, i < j, Clear(i, j - 1)
       PROVE  blocks'[i].start + blocks'[i].len <= blocks'[j].start
  <2>1. i \in 1 .. n
    BY <1>8, <1>16, SMT, SMTT(60)
  <2>2. j - 1 \in 0 .. n
    BY <1>8, SMT, SMTT(60)
  <2>3. NoWrap(i, j - 1)
    BY <1>10, <1>16, <2>2, Zenon
  <2>4. CASE j = n + 1
    <3>1. NoWrap(i, n)
      BY <1>12, <2>3, <2>4, Zenon
    <3>2. blocks[i].start + blocks[i].len <= MMAP_NEXT
      BY <2>1, <3>1, Zenon DEF MemoryInv, n
    <3> QED BY <1>3, <1>8, <2>1, <2>4, <3>2, Zenon
  <2>5. CASE j \in 1 .. n
    <3>1. blocks[i].start + blocks[i].len <= blocks[j].start
      BY <1>16, <2>1, <2>3, <2>5, Zenon DEF MemoryInv, PoolBlocksDisjoint, n
    <3> QED BY <1>8, <2>1, <2>5, <3>1, Zenon
  <2> QED BY <1>12, <2>4, <2>5, Zenon
<1>17. ASSUME NEW i \in 1 .. n + 1, ~Wraps(blocks'[i])
       PROVE  blocks'[i].start + blocks'[i].len <= MMAP_END
  <2>1. CASE i = n + 1
    <3>1. MMAP_NEXT + length <= MMAP_NEXT'
      BY <1>2, <1>8, <1>17, <2>1, Zenon
    <3>2. MMAP_NEXT + length <= MMAP_END
      BY <1>1, <1>2, <3>1, SMT, SMTT(60)
    <3> QED BY <1>3, <1>8, <2>1, <3>2, Zenon
  <2>2. CASE i \in 1 .. n
    BY <1>8, <1>17, <2>2, Zenon DEF MemoryInv, BlocksInPool, n
  <2> QED BY <1>12, <2>1, <2>2, Zenon
<1>18. ASSUME NEW i \in 1 .. n + 1, Clear(1, i - 1)
       PROVE  MMAP_START <= blocks'[i].start
  <2>1. CASE i = n + 1
    <3>1. NoWrap(1, n)
      BY <1>10, <1>12, <1>18, <2>1, Zenon
    <3>2. MMAP_START <= MMAP_NEXT
      BY <3>1, Zenon DEF MemoryInv, n
    <3> QED BY <1>3, <1>8, <2>1, <3>2, Zenon
  <2>2. CASE i \in 1 .. n
    <3>1. NoWrap(1, i - 1)
      BY <1>10, <1>12, <1>18, <2>2, Zenon
    <3> QED BY <1>8, <2>2, <3>1, Zenon DEF MemoryInv, BlocksInPool, n
  <2> QED BY <1>12, <2>1, <2>2, Zenon
<1>19. Len(blocks') = n + 1
  BY <1>8, Zenon
<1>20. PoolBlocksDisjoint'
  BY <1>15, <1>16, <1>19, Zenon DEF PoolBlocksDisjoint, Clear, NoWrap, Wraps
<1>21. BlocksInPool'
  BY <1>17, <1>18, <1>19, Zenon DEF BlocksInPool, Clear, NoWrap, Wraps
<1>22. NoWrap(1, Len(blocks))' => MMAP_START <= MMAP_NEXT'
  BY <1>13, <1>19, Zenon DEF Clear, NoWrap, Wraps
<1>23. \A i \in 1 .. Len(blocks') :
         NoWrap(i, Len(blocks))' => blocks'[i].start + blocks'[i].len <= MMAP_NEXT'
  BY <1>14, <1>19, Zenon DEF Clear, NoWrap, Wraps
<1> QED BY <1>2, <1>9, <1>20, <1>21, <1>22, <1>23, Zenon DEF MemoryInv

\* Every step keeps the invariant.
LEMMA MemoryInvNext == MemoryInv /\ [MemoryNext]_memory_vars => MemoryInv'
<1> SUFFICES ASSUME MemoryInv, [MemoryNext]_memory_vars PROVE MemoryInv'
  BY SMT, SMTT(60)
<1> USE UserMemoryAssumption
<1>1. ASSUME result' \in Int, CURRENT_BRK' \in 0 .. U64 - 1, UNCHANGED <<MMAP_NEXT, blocks>>
      PROVE  MemoryInv'
  BY <1>1, Zenon DEF MemoryInv, MemoryTypeOK, PoolBlocksDisjoint, BlocksInPool, NoWrap, Wraps
<1>2. \A x \in 0 .. U64 - 1 : as_i64(x) \in Int
  BY DEF as_i64
<1>3. CURRENT_BRK \in 0 .. U64 - 1 /\ MMAP_NEXT \in 0 .. MMAP_END
  BY Zenon DEF MemoryInv, MemoryTypeOK
<1>4. MMAP_NEXT \in 0 .. U64 - 1 /\ ENOMEM \in Int
  BY <1>3 DEF ENOMEM
<1>5. ASSUME NEW addr \in Addrs, sys_brk(addr) PROVE MemoryInv'
  <2>1. CURRENT_BRK' \in 0 .. U64 - 1
    BY <1>3, <1>5, Zenon DEF sys_brk
  <2> QED BY <1>1, <1>2, <1>5, <2>1, Zenon DEF sys_brk
<1>6. ASSUME NEW addr \in Addrs, NEW length \in Lengths, mmap_fixed(addr, length)
      PROVE  MemoryInv'
  BY <1>1, <1>2, <1>3, <1>6, Zenon DEF mmap_fixed
<1>7. ASSUME NEW addr \in Addrs, NEW length \in Lengths, mmap_pool(addr, length)
      PROVE  MemoryInv'
  <2> DEFINE next == (MMAP_NEXT + aligned_len(length)) % U64
  <2>1. UNCHANGED CURRENT_BRK
    BY <1>7, Zenon DEF mmap_pool
  <2>2. CASE result' = ENOMEM /\ UNCHANGED <<MMAP_NEXT, blocks>>
    BY <1>1, <1>3, <1>4, <2>1, <2>2, Zenon
  <2>3. CASE /\ next <= MMAP_END /\ MMAP_NEXT' = next /\ result' = as_i64(MMAP_NEXT)
             /\ blocks' = IF length = 0 THEN blocks
                          ELSE Append(blocks, [start |-> MMAP_NEXT, len |-> length])
    <3>1. CASE length = 0
      <4>1. MMAP_NEXT' = MMAP_NEXT
        BY <1>3, <2>3, <3>1, EmptyGrant, Zenon
      <4> QED BY <1>1, <1>2, <1>3, <1>4, <2>1, <2>3, <3>1, <4>1, Zenon
    <3>2. CASE length # 0
      BY <2>1, <2>3, <3>2, GrantKeeps, Zenon
    <3> QED BY <3>1, <3>2, Zenon
  <2> QED BY <1>7, <2>2, <2>3, Zenon DEF mmap_pool
<1>8. ASSUME NEW addr \in Addrs, NEW length \in Lengths, sys_munmap(addr, length)
      PROVE  MemoryInv'
  <2>1. result' \in Int
    BY <1>8 DEF sys_munmap
  <2> QED BY <1>1, <1>3, <1>8, <2>1, Zenon DEF sys_munmap
<1>9. CASE UNCHANGED memory_vars
  <2>1. result \in Int
    BY Zenon DEF MemoryInv, MemoryTypeOK
  <2> QED BY <1>1, <1>3, <1>9, <2>1, Zenon DEF memory_vars
<1> QED BY <1>5, <1>6, <1>7, <1>8, <1>9, Zenon DEF MemoryNext, sys_mmap

\* The invariant holds throughout.
LEMMA MemoryInvariance == MemorySpec => []MemoryInv
  BY MemoryInvInit, MemoryInvNext, PTL DEF MemorySpec

\* The cursor of sys_mmap never passes the end of the pool, and every block starts below it.
THEOREM UserMemoryTypeCorrect == MemorySpec => []MemoryTypeOK
<1>1. MemoryInv => MemoryTypeOK
  BY DEF MemoryInv
<1> QED BY <1>1, MemoryInvariance, PTL

\* Two blocks that sys_mmap takes from the pool share no byte, unless a sum wrapped at the
\* first of them or between the two.
THEOREM MmapBlocksDisjoint == MemorySpec => []PoolBlocksDisjoint
<1>1. MemoryInv => PoolBlocksDisjoint
  BY DEF MemoryInv
<1> QED BY <1>1, MemoryInvariance, PTL

\* Every block that sys_mmap takes from the pool without a sum that wraps ends where the
\* loader mapped memory, and starts there too until a sum has wrapped.
THEOREM MmapBlocksInPool == MemorySpec => []BlocksInPool
<1>1. MemoryInv => BlocksInPool
  BY DEF MemoryInv
<1> QED BY <1>1, MemoryInvariance, PTL
=============================================================================
