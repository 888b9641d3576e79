---------------------------- MODULE KernelProofs ----------------------------
(***************************************************************************)
(* Proofs about two resources of the kernel: the locks of the console      *)
(* (ConsoleLocks), for every depth of nested contexts, and the frames that *)
(* Pmm hands out, for every page size, word size and memory map.           *)
(***************************************************************************)
EXTENDS Pmm, ConsoleLocks, WellFoundedInduction, TLAPS

-----------------------------------------------------------------------------
(* The locks of the console.  However deep exceptions and panics nest, who  *)
(* waits for one is an exception handler that found the serial port taken,  *)
(* and code that lost the serial port to force_unlock never runs again.     *)

Ops == [do : {"lock", "write", "unlock", "force", "body", "halt"}, lock : LockNames]

\* The operations between which a lock is held, and code that takes a lock, writes and
\* releases it, one lock at a time.
Inside == {"write", "unlock"}
Disciplined(s) ==
  /\ Len(s) >= 1 /\ s[1].do \notin Inside
  /\ \A k \in 1 .. Len(s) :
       /\ s[k].do \in {"lock", "force", "write"} =>
            k < Len(s) /\ s[k + 1].do \in Inside /\ s[k + 1].lock = s[k].lock
       /\ s[k].do \in {"unlock", "body", "halt"} => k = Len(s) \/ s[k + 1].do \notin Inside
       /\ s[k].do = "force" => s[k].lock = SERIAL1

EndsInHalt(s) == s[Len(s)].do = "halt"

Holding(c, l) == ~AtEnd(c) /\ Code[c.code][c.pc].do \in Inside /\ Code[c.code][c.pc].lock = l

\* The inductive invariant: which code may lie where on the stack, and that the owner of a
\* lock is in the middle of printing, as are those who lost it.
Shape ==
  /\ stack[1].code \in {"start", "user"}
  /\ \A i \in 2 .. Depth : stack[i].code \in {"write", "exit", "exception", "panic"}
  /\ \A i \in 2 .. Depth : stack[i].code \in {"write", "exit"} => i = 2 /\ stack[1].code = "user"
  /\ \A i \in 1 .. Depth : stack[i].code \in {"user", "exit", "exception", "panic"} => ~AtEnd(stack[i])

Owners ==
  /\ \A l \in LockNames : owner[l] # 0 => Holding(stack[owner[l]], l)
  /\ \A i \in stolen : i < Depth /\ Holding(stack[i], SERIAL1)
  /\ \A i \in 1 .. Depth :
       stack[i].code = "exception" /\ stack[i].found = 0 =>
         owner[SERIAL1] = 0 \/ owner[SERIAL1] >= i

LocksInv == LocksTypeOK /\ Shape /\ Owners

-----------------------------------------------------------------------------
\* Two pieces of code one after the other.
LEMMA Concatenation ==
  ASSUME NEW S, NEW s \in Seq(S), NEW t \in Seq(S)
  PROVE  /\ s \o t \in Seq(S) /\ Len(s \o t) = Len(s) + Len(t)
         /\ \A k \in 1 .. Len(s) : (s \o t)[k] = s[k]
         /\ \A k \in 1 .. Len(t) : (s \o t)[Len(s) + k] = t[k]
OBVIOUS

\* Code that takes one lock at a time may follow other such code.
LEMMA Joined ==
  ASSUME NEW S, S \subseteq Ops, NEW s \in Seq(S), NEW t \in Seq(S), Disciplined(s), Disciplined(t)
  PROVE  /\ s \o t \in Seq(S) /\ Disciplined(s \o t)
         /\ EndsInHalt(t) => EndsInHalt(s \o t)
<1> DEFINE u == s \o t
<1>1. /\ u \in Seq(S) /\ Len(u) = Len(s) + Len(t)
      /\ \A k \in 1 .. Len(s) : u[k] = s[k]
      /\ \A k \in 1 .. Len(t) : u[Len(s) + k] = t[k]
  BY Concatenation
<1>2. Len(s) \in Nat /\ Len(t) \in Nat /\ Len(s) >= 1 /\ Len(t) >= 1
  BY DEF Disciplined
<1> HIDE DEF u
<1>3. u[1].do \notin Inside /\ Len(u) >= 1
  BY <1>1, <1>2 DEF Disciplined
<1>4. u[Len(s) + 1].do \notin Inside
  BY <1>1, <1>2 DEF Disciplined
<1>5. \A k \in 1 .. Len(u) :
        \/ k \in 1 .. Len(s) /\ u[k] = s[k] /\ (k < Len(s) => u[k + 1] = s[k + 1])
        \/ /\ k - Len(s) \in 1 .. Len(t) /\ u[k] = t[k - Len(s)]
           /\ k < Len(u) => u[k + 1] = t[k - Len(s) + 1]
  <2> TAKE k \in 1 .. Len(u)
  <2>1. CASE k <= Len(s)
    <3>1. k \in 1 .. Len(s) /\ (k < Len(s) => k + 1 \in 1 .. Len(s))
      BY <1>2, <2>1
    <3> QED BY <1>1, <3>1
  <2>2. CASE k > Len(s)
    <3>1. k - Len(s) \in 1 .. Len(t) /\ k = Len(s) + (k - Len(s))
      BY <1>1, <1>2, <2>2
    <3>2. k < Len(u) => k - Len(s) + 1 \in 1 .. Len(t) /\ k + 1 = Len(s) + (k - Len(s) + 1)
      BY <1>1, <1>2, <2>2
    <3> QED BY <1>1, <3>1, <3>2, Zenon
  <2> QED BY <1>2, <2>1, <2>2
<1>6. Disciplined(u)
  <2> SUFFICES ASSUME NEW k \in 1 .. Len(u)
               PROVE  /\ u[k].do \in {"lock", "force", "write"} =>
                           k < Len(u) /\ u[k + 1].do \in Inside /\ u[k + 1].lock = u[k].lock
                      /\ u[k].do \in {"unlock", "body", "halt"} =>
                           k = Len(u) \/ u[k + 1].do \notin Inside
                      /\ u[k].do = "force" => u[k].lock = SERIAL1
    BY <1>3 DEF Disciplined
  <2>1. CASE k \in 1 .. Len(s) /\ u[k] = s[k] /\ (k < Len(s) => u[k + 1] = s[k + 1])
    BY <1>1, <1>2, <1>4, <2>1, SMT, SMTT(60) DEF Disciplined
  <2>2. CASE /\ k - Len(s) \in 1 .. Len(t) /\ u[k] = t[k - Len(s)]
             /\ k < Len(u) => u[k + 1] = t[k - Len(s) + 1]
    <3>1. PICK j \in 1 .. Len(t) : /\ j = k - Len(s) /\ u[k] = t[j]
                                   /\ k < Len(u) => u[k + 1] = t[j + 1]
      BY <2>2
    <3>2. (k < Len(u) <=> j < Len(t)) /\ (k = Len(u) <=> j = Len(t))
      BY <1>1, <1>2, <3>1
    <3> QED BY <3>1, <3>2, SMT, SMTT(60) DEF Disciplined
  <2> QED BY <1>5, <2>1, <2>2
<1>7. EndsInHalt(t) => EndsInHalt(u)
  <2>1. Len(t) \in 1 .. Len(t)
    BY <1>2
  <2>2. u[Len(u)] = t[Len(t)]
    BY <1>1, <2>1, Zenon
  <2> QED BY <2>2 DEF EndsInHalt
<1> QED BY <1>1, <1>6, <1>7 DEF u

SerialOps == {Op(d, SERIAL1) : d \in {"lock", "write", "unlock", "body", "halt"}}
PanicOps == {Op(d, SERIAL1) : d \in {"force", "write", "unlock", "halt"}}

\* The pieces that all code is made of.
LEMMA Pieces ==
  /\ SerialOps \subseteq Ops /\ PanicOps \subseteq Ops
  /\ serial_print \in Seq(SerialOps) /\ serial_print \in Seq(Ops) /\ Disciplined(serial_print)
  /\ print_char \in Seq(Ops) /\ Disciplined(print_char)
  /\ print_panic \in Seq(PanicOps) /\ Disciplined(print_panic)
  /\ Body \in Seq(Ops) /\ Disciplined(Body)
  /\ Halt \in Seq(SerialOps) /\ Halt \in Seq(PanicOps) /\ Halt \in Seq(Ops)
  /\ Disciplined(Halt) /\ EndsInHalt(Halt)
<1> USE DEF Op, SERIAL1, WRITER, LockNames
<1>1. SerialOps \subseteq Ops /\ PanicOps \subseteq Ops
  BY DEF SerialOps, PanicOps, Ops
<1>2. \A l \in LockNames : Locked(l) \in Seq(Ops) /\ Disciplined(Locked(l))
  BY DEF Locked, Disciplined, Inside, Ops
<1>3. serial_print \in Seq(SerialOps)
  BY DEF serial_print, Locked, SerialOps
<1>4. print_panic \in Seq(PanicOps) /\ Disciplined(print_panic)
  BY DEF print_panic, PanicOps, Disciplined, Inside
<1>5. Body \in Seq(Ops) /\ Disciplined(Body)
  BY DEF Body, Ops, Disciplined, Inside
<1>6. Halt \in Seq(SerialOps) /\ Halt \in Seq(PanicOps) /\ Halt \in Seq(Ops)
  BY DEF Halt, SerialOps, PanicOps, Ops
<1>7. Disciplined(Halt) /\ EndsInHalt(Halt)
  BY DEF Halt, Disciplined, EndsInHalt, Inside
<1> QED BY <1>1, <1>2, <1>3, <1>4, <1>5, <1>6, <1>7 DEF serial_print, print_char

\* What the proofs need to know of the code of each context: it takes one lock at a time,
\* handlers touch the serial port only, a panic never waits, and neither they nor exit come
\* to an end.
LEMMA CodeFacts ==
  /\ \A c \in DOMAIN Code : Code[c] \in Seq(Ops) /\ Disciplined(Code[c])
  /\ DOMAIN Code = {"start", "user", "write", "exit", "exception", "panic"}
  /\ \A c \in {"exit", "exception", "panic"} : EndsInHalt(Code[c])
  /\ Code["exception"] \in Seq(SerialOps) /\ Code["panic"] \in Seq(PanicOps)
  /\ Code["user"] = Body
<1> USE Pieces
<1>1. /\ Code["start"] = _start /\ Code["user"] = Body /\ Code["write"] = sys_write
      /\ Code["exit"] = sys_exit /\ Code["exception"] = exception_handler
      /\ Code["panic"] = panic_handler_impl
      /\ DOMAIN Code = {"start", "user", "write", "exit", "exception", "panic"}
  BY DEF Code
<1>2. _print \in Seq(Ops) /\ Disciplined(_print)
  BY Joined DEF _print, print_char
<1>3. _start \in Seq(Ops) /\ Disciplined(_start)
  <2>1. _print \o Body \in Seq(Ops) /\ Disciplined(_print \o Body)
    BY <1>2, Joined
  <2> QED BY <1>2, <2>1, Joined, Zenon DEF _start
<1>4. sys_write \in Seq(Ops) /\ Disciplined(sys_write)
  <2>1. serial_print \o Body \in Seq(Ops) /\ Disciplined(serial_print \o Body)
    BY Joined
  <2>2. serial_print \o Body \o print_char \in Seq(Ops) /\ Disciplined(serial_print \o Body \o print_char)
    BY <2>1, Joined, Zenon
  <2>3. /\ serial_print \o Body \o print_char \o serial_print \in Seq(Ops)
        /\ Disciplined(serial_print \o Body \o print_char \o serial_print)
    BY <2>2, Joined, Zenon
  <2> QED BY <2>3, Joined, Zenon DEF sys_write
<1>5. sys_exit \in Seq(Ops) /\ Disciplined(sys_exit) /\ EndsInHalt(sys_exit)
  <2>1. serial_print \o _print \in Seq(Ops) /\ Disciplined(serial_print \o _print)
    BY <1>2, Joined
  <2> QED BY <2>1, Joined, Zenon DEF sys_exit
<1>6. /\ exception_handler \in Seq(SerialOps) /\ Disciplined(exception_handler)
      /\ EndsInHalt(exception_handler)
  <2>1. serial_print \o serial_print \in Seq(SerialOps) /\ Disciplined(serial_print \o serial_print)
    BY Joined
  <2> QED BY <2>1, Joined, Zenon DEF exception_handler
<1>7. /\ panic_handler_impl \in Seq(PanicOps) /\ Disciplined(panic_handler_impl)
      /\ EndsInHalt(panic_handler_impl)
  <2>1. print_panic \o print_panic \in Seq(PanicOps) /\ Disciplined(print_panic \o print_panic)
    BY Joined
  <2> QED BY <2>1, Joined, Zenon DEF panic_handler_impl
<1>8. exception_handler \in Seq(Ops) /\ panic_handler_impl \in Seq(Ops)
  BY <1>6, <1>7, SMT, SMTT(60)
<1> QED BY <1>1, <1>3, <1>4, <1>5, <1>6, <1>7, <1>8, SMT, SMTT(60)

\* The operation of a context that is not at its end, and the one after it.
LEMMA Operation ==
  ASSUME NEW c \in Contexts, ~AtEnd(c)
  PROVE  LET o == Code[c.code][c.pc]
             n == [c EXCEPT !.pc = c.pc + 1]
         IN  /\ o \in Ops
             /\ o.do \in {"lock", "force", "write"} => Holding(n, o.lock)
             /\ o.do \notin {"lock", "force", "write"} => \A l : ~Holding(n, l)
             /\ n.pc <= Len(Code[c.code]) + 1
             /\ o.do = "force" => o.lock = SERIAL1
             /\ c.code = "exception" => o.lock = SERIAL1
             /\ c.code = "panic" => o.do # "lock"
             /\ c.code = "user" => o.do = "body"
             /\ c.code \in {"exit", "exception", "panic"} /\ o.do # "halt" => ~AtEnd(n)
<1> DEFINE s == Code[c.code]
           k == c.pc
           o == s[k]
           n == [c EXCEPT !.pc = c.pc + 1]
<1>1. s \in Seq(Ops) /\ Disciplined(s)
  BY CodeFacts, SMT, SMTT(60) DEF Contexts
<1>2. Len(s) \in Nat /\ k \in 1 .. Len(s)
  BY <1>1 DEF AtEnd, Contexts
<1>3. o \in Ops
  BY <1>1, <1>2
<1>4. n.code = c.code /\ n.pc = k + 1
  OBVIOUS
<1> HIDE DEF n
<1>5. o.do \in {"lock", "force", "write", "unlock", "body", "halt"}
  BY <1>3, Zenon DEF Ops
<1>6. o.do \in {"lock", "force", "write"} => Holding(n, o.lock)
  BY <1>1, <1>2, <1>4, SMT, SMTT(60) DEF Disciplined, Holding, AtEnd
<1>7. o.do \notin {"lock", "force", "write"} => \A l : ~Holding(n, l)
  <2>1. o.do \notin {"lock", "force", "write"} => k = Len(s) \/ s[k + 1].do \notin Inside
    BY <1>1, <1>2, <1>5, Zenon DEF Disciplined
  <2>2. k = Len(s) => AtEnd(n)
    BY <1>2, <1>4, SMT, SMTT(60) DEF AtEnd
  <2> QED BY <1>4, <2>1, <2>2 DEF Holding
<1>8. n.pc <= Len(s) + 1
  BY <1>2, <1>4
<1>9. o.do = "force" => o.lock = SERIAL1
  BY <1>1, <1>2 DEF Disciplined
<1>10. c.code = "exception" => o.lock = SERIAL1
  BY <1>2, CodeFacts, SMT, SMTT(60) DEF SerialOps, Op
<1>11. c.code = "panic" => o.do # "lock"
  <2>1. c.code = "panic" => o \in PanicOps
    <3>1. Code["panic"] \in Seq(PanicOps)
      BY CodeFacts
    <3> QED BY <1>2, <3>1
  <2>2. \A p \in PanicOps : p.do # "lock"
    BY DEF PanicOps, Op
  <2> QED BY <2>1, <2>2
<1>12. c.code = "user" => o.do = "body"
  BY <1>2, CodeFacts DEF Body, Op
<1>13. c.code \in {"exit", "exception", "panic"} /\ o.do # "halt" => ~AtEnd(n)
  <2>1. c.code \in {"exit", "exception", "panic"} /\ o.do # "halt" => k # Len(s)
    BY CodeFacts, Zenon DEF EndsInHalt
  <2> QED BY <1>2, <1>4, <2>1 DEF AtEnd
<1> QED BY <1>3, <1>6, <1>7, <1>8, <1>9, <1>10, <1>11, <1>12, <1>13, Zenon DEF n


-----------------------------------------------------------------------------
\* The kernel starts alone on the CPU, with both locks free.
LEMMA LocksInvInit ==
  LocksInit => LocksInv
<1> SUFFICES ASSUME LocksInit PROVE LocksInv
  OBVIOUS
<1>1. /\ stack = <<[code |-> "start", pc |-> 1, found |-> 0]>>
      /\ owner = [l \in LockNames |-> 0] /\ stolen = {}
  BY DEF LocksInit
<1>2. Depth = 1 /\ stack[1] = [code |-> "start", pc |-> 1, found |-> 0]
  BY <1>1, SMT, SMTT(60) DEF Depth
<1>3. 1 <= Len(Code["start"]) + 1 /\ "start" \in DOMAIN Code
  BY CodeFacts DEF Disciplined
<1>4. LocksTypeOK
  <2>1. [code |-> "start", pc |-> 1, found |-> 0] \in Contexts
    BY <1>3 DEF Contexts
  <2>2. stack \in Seq(Contexts)
    BY <1>1, <2>1
  <2> QED BY <1>1, <1>2, <1>3, <2>2, ConsoleLocksAssumption, SMT, SMTT(60) DEF LocksTypeOK
<1>5. Shape
  BY <1>2 DEF Shape
<1>6. Owners
  BY <1>1, <1>2 DEF Owners, SERIAL1, LockNames
<1> QED BY <1>4, <1>5, <1>6 DEF LocksInv

\* What the invariant says of the running context.
LEMMA Running ==
  ASSUME LocksInv
  PROVE  /\ Depth \in Nat /\ Depth >= 1 /\ Depth <= MaxDepth /\ Len(stack) = Depth
         /\ \A i \in 1 .. Depth : stack[i] \in Contexts
         /\ stack[1] \in Contexts /\ Top \in Contexts /\ Top = stack[Depth]
         /\ \A l \in LockNames : owner[l] \in 0 .. Depth
         /\ \A l \in LockNames : owner[l] = Depth => Holding(Top, l)
<1>1. stack \in Seq(Contexts) /\ Depth \in 1 .. MaxDepth
      /\ owner \in [LockNames -> 0 .. Depth]
  BY DEF LocksInv, LocksTypeOK
<1>2. Len(stack) = Depth /\ Depth \in Nat /\ Depth >= 1 /\ Depth <= MaxDepth
  BY <1>1, ConsoleLocksAssumption DEF Depth
<1>3. \A i \in 1 .. Depth : stack[i] \in Contexts
  BY <1>1, <1>2
<1>4. Top = stack[Depth]
  BY DEF Top
<1>5. \A l \in LockNames : owner[l] = Depth => Holding(Top, l)
  BY <1>2, <1>4 DEF LocksInv, Owners
<1> QED BY <1>1, <1>2, <1>3, <1>4, <1>5

\* A step of the running context: the others stay where they are.
LEMMA Advanced ==
  ASSUME LocksInv, Advance
  PROVE  /\ Depth' = Depth /\ Top' = [Top EXCEPT !.pc = Top.pc + 1] /\ stack'[Depth] = Top'
         /\ \A i \in 1 .. Depth : i # Depth => stack'[i] = stack[i]
         /\ stack' \in Seq(Contexts)
<1> DEFINE n == [Top EXCEPT !.pc = Top.pc + 1]
<1>1. Depth \in Nat /\ Depth >= 1 /\ Len(stack) = Depth /\ Top \in Contexts
  BY Running
<1>2. stack \in Seq(Contexts) /\ stack' = [stack EXCEPT ![Depth] = n]
  BY DEF LocksInv, LocksTypeOK, Advance
<1>3. n \in Contexts
  BY <1>1 DEF Contexts
<1> HIDE DEF n
<1>4. stack' \in Seq(Contexts) /\ Len(stack') = Depth /\ stack'[Depth] = n
      /\ \A i \in 1 .. Depth : i # Depth => stack'[i] = stack[i]
  BY <1>1, <1>2, <1>3
<1>5. Depth' = Depth
  BY <1>4 DEF Depth
<1>6. Top' = n
  BY <1>4, <1>5 DEF Top
<1> QED BY <1>4, <1>5, <1>6 DEF n


\* The steps of the code itself.
LEMMA CodeSteps ==
  ASSUME LocksInv, lock \/ write \/ unlock \/ force \/ body
  PROVE  LocksInv'
<1> DEFINE o == Code[Top.code][Top.pc]
           n == [Top EXCEPT !.pc = Top.pc + 1]
<1>1. Advance /\ ~AtEnd(Top) /\ o.do # "halt" /\ Wanted = o.lock
      /\ (Top.code = "user" => o.do # "body")
  BY Zenon DEF lock, write, unlock, force, body, Doing, Wanted
<1>2. /\ Depth \in Nat /\ Depth >= 1 /\ Depth <= MaxDepth
      /\ Top \in Contexts /\ Top = stack[Depth]
      /\ \A l \in LockNames : owner[l] \in 0 .. Depth
      /\ \A l \in LockNames : owner[l] = Depth => Holding(Top, l)
  BY Running, Zenon
<1>3. /\ Depth' = Depth /\ stack'[Depth] = n
      /\ \A i \in 1 .. Depth : i # Depth => stack'[i] = stack[i]
      /\ stack' \in Seq(Contexts)
  BY <1>1, Advanced, Zenon
<1>4. /\ o \in Ops
      /\ o.do \in {"lock", "force", "write"} => Holding(n, o.lock)
      /\ o.do \notin {"lock", "force", "write"} => \A l : ~Holding(n, l)
      /\ n.pc <= Len(Code[Top.code]) + 1
      /\ o.do = "force" => o.lock = SERIAL1
      /\ Top.code # "user"
      /\ Top.code \in {"exit", "exception", "panic"} => ~AtEnd(n)
  <2>1. /\ o \in Ops
        /\ o.do \in {"lock", "force", "write"} => Holding(n, o.lock)
        /\ o.do \notin {"lock", "force", "write"} => \A l : ~Holding(n, l)
        /\ n.pc <= Len(Code[Top.code]) + 1
        /\ o.do = "force" => o.lock = SERIAL1
        /\ Top.code = "user" => o.do = "body"
        /\ Top.code \in {"exit", "exception", "panic"} /\ o.do # "halt" => ~AtEnd(n)
    BY <1>1, <1>2, Operation, Zenon
  <2> QED BY <1>1, <2>1, Zenon
<1>5. o.lock \in LockNames /\ n.code = Top.code /\ n.found = Top.found
  <2>1. n.code = Top.code /\ n.found = Top.found
    BY <1>2 DEF Contexts
  <2>2. o \in Ops
    BY <1>4, Zenon
  <2> HIDE DEF o, n
  <2>3. o.lock \in LockNames
    BY <2>2, SMT, SMTT(60) DEF Ops
  <2> QED BY <2>1, <2>3, Zenon
<1>6. \A l : Holding(Top, l) => o.do \in {"write", "unlock"} /\ l = o.lock
  BY SMT, SMTT(60) DEF Holding, Inside
<1> HIDE DEF o, n
<1>7. /\ owner' \in [LockNames -> 0 .. Depth] /\ stolen' \subseteq 1 .. MaxDepth
      /\ \A l \in LockNames : owner'[l] # 0 =>
           \/ owner'[l] = Depth /\ Holding(n, l)
           \/ owner'[l] = owner[l] /\ owner[l] # Depth
      /\ \A i \in stolen' : i \in stolen \/ (i = owner[SERIAL1] /\ i # 0 /\ i # Depth)
      /\ owner'[SERIAL1] \in {0, Depth, owner[SERIAL1]}
  <2>1. owner \in [LockNames -> 0 .. Depth] /\ stolen \subseteq 1 .. MaxDepth
    BY DEF LocksInv, LocksTypeOK
  <2>2. SERIAL1 \in LockNames
    BY SMT, SMTT(60) DEF LockNames
  <2>3. CASE lock
    <3>1. o.do = "lock" /\ owner' = [owner EXCEPT ![o.lock] = Depth] /\ stolen' = stolen
      BY <1>1, <2>3, SMT, SMTT(60) DEF lock, Doing, o
    <3> QED BY <1>2, <1>4, <1>5, <1>6, <2>1, <2>2, <3>1, SMT, SMTT(60)
  <2>4. CASE write
    <3>1. o.do = "write" /\ owner' = owner /\ stolen' = stolen
      BY <2>4, SMT, SMTT(60) DEF write, Doing, o
    <3> QED BY <1>2, <1>4, <1>5, <1>6, <2>1, <2>2, <3>1, SMT, SMTT(60)
  <2>5. CASE unlock
    <3>1. o.do = "unlock" /\ owner' = [owner EXCEPT ![o.lock] = 0] /\ stolen' = stolen
      BY <1>1, <2>5, SMT, SMTT(60) DEF unlock, Doing, o
    <3> QED BY <1>2, <1>4, <1>5, <1>6, <2>1, <2>2, <3>1, SMT, SMTT(60)
  <2>6. CASE force
    <3>1. o.do = "force" /\ owner' = [owner EXCEPT ![o.lock] = Depth]
          /\ stolen' = stolen \cup ({owner[o.lock]} \ {0})
      BY <1>1, <2>6, SMT, SMTT(60) DEF force, Doing, o
    <3>2. o.lock = SERIAL1 /\ owner[SERIAL1] # Depth
      BY <1>2, <1>4, <1>6, <2>2, <3>1
    <3>3. stolen' \subseteq 1 .. MaxDepth
      <4>1. owner[SERIAL1] # 0 => owner[SERIAL1] \in 1 .. MaxDepth
        BY <1>2, <2>2, ConsoleLocksAssumption, SMT, SMTT(60)
      <4> QED BY <2>1, <3>1, <3>2, <4>1, Zenon
    <3> QED BY <1>2, <1>4, <1>5, <1>6, <2>1, <2>2, <3>1, <3>2, <3>3, SMT, SMTT(60)
  <2>7. CASE body
    <3>1. o.do = "body" /\ owner' = owner /\ stolen' = stolen
      BY <2>7, SMT, SMTT(60) DEF body, Doing, o
    <3> QED BY <1>2, <1>4, <1>5, <1>6, <2>1, <2>2, <3>1, SMT, SMTT(60)
  <2> QED BY <2>3, <2>4, <2>5, <2>6, <2>7
<1>8. LocksTypeOK'
  <2>1. \A i \in 1 .. Depth : stack'[i].pc <= Len(Code[stack'[i].code]) + 1
    <3>1. \A i \in 1 .. Depth : stack[i].pc <= Len(Code[stack[i].code]) + 1
      BY DEF LocksInv, LocksTypeOK
    <3> QED BY <1>3, <1>4, <1>5, <3>1, Zenon
  <2> QED BY <1>2, <1>3, <1>7, <2>1, ConsoleLocksAssumption, SMT, SMTT(60) DEF LocksTypeOK
<1>9. Shape'
  <2>1. \A i \in 1 .. Depth : stack'[i].code = stack[i].code
    BY <1>2, <1>3, <1>5, SMT, SMTT(60)
  <2>2. \A i \in 1 .. Depth : stack[i].code \in {"user", "exit", "exception", "panic"} => ~AtEnd(stack'[i])
    BY <1>2, <1>3, <1>4, SMT, SMTT(60) DEF LocksInv, Shape
  <2>3. 1 \in 1 .. Depth /\ \A i \in 2 .. Depth : i \in 1 .. Depth
    BY <1>2, SMT, SMTT(60)
  <2> QED BY <1>3, <2>1, <2>2, <2>3, SMT, SMTT(60) DEF LocksInv, Shape
<1>10. Owners'
  <2>1. \A l \in LockNames : owner[l] # 0 => Holding(stack[owner[l]], l)
    BY DEF LocksInv, Owners
  <2>2. \A l \in LockNames : owner'[l] # 0 => Holding(stack'[owner'[l]], l)
    <3> SUFFICES ASSUME NEW l \in LockNames, owner'[l] # 0
                 PROVE  Holding(stack'[owner'[l]], l)
      OBVIOUS
    <3>1. CASE owner'[l] = Depth /\ Holding(n, l)
      BY <1>3, <3>1
    <3>2. CASE owner'[l] = owner[l] /\ owner[l] # Depth
      <4>1. owner[l] \in 1 .. Depth
        BY <1>2, <3>2
      <4> QED BY <1>3, <2>1, <3>2, <4>1
    <3> QED BY <1>7, <3>1, <3>2
  <2>3. \A i \in stolen' : i < Depth /\ Holding(stack'[i], SERIAL1)
    <3>1. SERIAL1 \in LockNames
      BY DEF LockNames
    <3>2. \A i \in stolen : i \in 1 .. Depth /\ i # Depth /\ Holding(stack[i], SERIAL1)
      BY <1>2, ConsoleLocksAssumption DEF LocksInv, LocksTypeOK, Owners
    <3>3. \A i \in stolen' : i \in 1 .. Depth /\ i # Depth /\ Holding(stack[i], SERIAL1)
      BY <1>2, <1>7, <2>1, <3>1, <3>2, SMT, SMTT(60)
    <3> QED BY <1>2, <1>3, <3>3
  <2>4. \A i \in 1 .. Depth :
          stack'[i].code = "exception" /\ stack'[i].found = 0 =>
            owner'[SERIAL1] = 0 \/ owner'[SERIAL1] >= i
    <3>1. \A i \in 1 .. Depth : stack'[i].code = stack[i].code /\ stack'[i].found = stack[i].found
      BY <1>2, <1>3, <1>5
    <3>2. \A i \in 1 .. Depth :
          stack[i].code = "exception" /\ stack[i].found = 0 =>
            owner[SERIAL1] = 0 \/ owner[SERIAL1] >= i
      BY DEF LocksInv, Owners
    <3> QED BY <1>2, <1>7, <3>1, <3>2, SMT, SMTT(60)
  <2> QED BY <1>3, <2>2, <2>3, <2>4, SMT, SMTT(60) DEF Owners
<1> QED BY <1>8, <1>9, <1>10 DEF LocksInv

\* A system call, an exception or a panic begins on top of what runs.
LEMMA Entered ==
  ASSUME LocksInv, NEW code \in {"write", "exit", "exception", "panic"},
         Depth < MaxDepth, stack' = Enter(code), UNCHANGED <<owner, stolen>>,
         code \in {"write", "exit"} => Top.code = "user"
  PROVE  LocksInv'
<1> DEFINE new == [code |-> code, pc |-> 1, found |-> owner[SERIAL1]]
<1>1. /\ Depth \in Nat /\ Depth >= 1 /\ Top = stack[Depth]
      /\ \A l \in LockNames : owner[l] \in 0 .. Depth
      /\ Len(stack) = Depth
  BY Running
<1>2. stack \in Seq(Contexts) /\ stolen \subseteq 1 .. MaxDepth /\ SERIAL1 \in LockNames
      /\ owner \in [LockNames -> 0 .. Depth]
      /\ \A i \in 1 .. Depth : stack[i].pc <= Len(Code[stack[i].code]) + 1
  BY Zenon DEF LocksInv, LocksTypeOK, LockNames
<1>3. code \in DOMAIN Code /\ Len(Code[code]) \in Nat /\ Len(Code[code]) >= 1
  BY CodeFacts, SMT, SMTT(60) DEF Disciplined
<1>4. new \in Contexts
  BY <1>1, <1>2, <1>3 DEF Contexts
<1>5. stack' = Append(stack, new)
  BY DEF Enter
<1>6. ~AtEnd(new) /\ new.code = code /\ new.found = owner[SERIAL1] /\ new.pc = 1
  BY <1>3 DEF AtEnd
<1> HIDE DEF new
<1>7. /\ stack' \in Seq(Contexts) /\ Len(stack') = Depth + 1 /\ stack'[Depth + 1] = new
      /\ \A i \in 1 .. Depth : stack'[i] = stack[i]
  BY <1>1, <1>2, <1>4, <1>5, SMT, SMTT(60)
<1>8. Depth' = Depth + 1
  BY <1>7 DEF Depth
<1>9. \A i \in 1 .. Depth + 1 : (i \in 1 .. Depth /\ stack'[i] = stack[i]) \/ (i = Depth + 1 /\ stack'[i] = new)
  BY <1>1, <1>7, SMT, SMTT(60)
<1>10. LocksTypeOK'
  <2>1. \A i \in 1 .. Depth + 1 : stack'[i].pc <= Len(Code[stack'[i].code]) + 1
    <3>1. new.pc <= Len(Code[new.code]) + 1
      BY <1>3, <1>6
    <3> QED BY <1>2, <1>9, <3>1, Zenon
  <2>2. Depth + 1 \in 1 .. MaxDepth /\ 0 .. Depth \subseteq 0 .. Depth + 1
    BY <1>1, ConsoleLocksAssumption
  <2>3. owner' \in [LockNames -> 0 .. Depth + 1]
    <3>1. \A l \in LockNames : owner[l] \in 0 .. Depth + 1
      BY <1>1, SMT, SMTT(60)
    <3> QED BY <1>2, <3>1
  <2> QED BY <1>2, <1>7, <1>8, <2>1, <2>2, <2>3 DEF LocksTypeOK
<1>11. Shape'
  <2>1. \A i \in 2 .. Depth + 1 : (i \in 2 .. Depth /\ stack'[i] = stack[i]) \/ (i = Depth + 1 /\ stack'[i] = new)
    BY <1>1, <1>9, SMT, SMTT(60)
  <2>2. stack'[1] = stack[1]
    BY <1>1, <1>7, SMT, SMTT(60)
  <2>3. code \in {"write", "exit"} => Depth = 1 /\ stack[1].code = "user"
    <3>1. Depth # 1 => Depth \in 2 .. Depth
      BY <1>1
    <3> QED BY <1>1, <3>1 DEF LocksInv, Shape
  <2>4. \A i \in 1 .. Depth + 1 :
          stack'[i].code \in {"user", "exit", "exception", "panic"} => ~AtEnd(stack'[i])
    BY <1>6, <1>9 DEF LocksInv, Shape
  <2>5. \A i \in 2 .. Depth + 1 : stack'[i].code \in {"write", "exit", "exception", "panic"}
    BY <1>6, <2>1 DEF LocksInv, Shape
  <2>6. \A i \in 2 .. Depth + 1 :
          stack'[i].code \in {"write", "exit"} => i = 2 /\ stack'[1].code = "user"
    BY <1>6, <2>1, <2>2, <2>3, SMT, SMTT(60) DEF LocksInv, Shape
  <2> QED BY <1>8, <2>2, <2>4, <2>5, <2>6, SMT, SMTT(60) DEF LocksInv, Shape
<1>12. Owners'
  <2>1. \A l \in LockNames : owner[l] # 0 => Holding(stack'[owner[l]], l)
    BY <1>1, <1>7 DEF LocksInv, Owners
  <2>2. \A i \in stolen : i < Depth + 1 /\ Holding(stack'[i], SERIAL1)
    <3>1. \A i \in stolen : i \in 1 .. Depth /\ i < Depth + 1 /\ Holding(stack[i], SERIAL1)
      BY <1>1, <1>2, ConsoleLocksAssumption, SMT, SMTT(60) DEF LocksInv, Owners
    <3> QED BY <1>7, <3>1
  <2>3. \A i \in 1 .. Depth + 1 :
          stack'[i].code = "exception" /\ stack'[i].found = 0 =>
            owner[SERIAL1] = 0 \/ owner[SERIAL1] >= i
    BY <1>6, <1>9 DEF LocksInv, Owners
  <2> QED BY <1>8, <2>1, <2>2, <2>3, SMT, SMTT(60) DEF Owners
<1> QED BY <1>10, <1>11, <1>12 DEF LocksInv


\* iretq to the program: _start is done and holds nothing.
LEMMA UserEntered ==
  ASSUME LocksInv, enter_userspace
  PROVE  LocksInv'
<1> DEFINE new == [code |-> "user", pc |-> 1, found |-> 0]
<1>1. /\ Depth \in Nat /\ Depth >= 1 /\ Depth <= MaxDepth /\ Top = stack[Depth] /\ Len(stack) = Depth
      /\ \A l \in LockNames : owner[l] \in 0 .. Depth
      /\ \A l \in LockNames : owner[l] = Depth => Holding(Top, l)
  BY Running, Zenon
<1>2. AtEnd(Top) /\ Top.code = "start" /\ stack' = [stack EXCEPT ![Depth] = new]
      /\ UNCHANGED <<owner, stolen>>
  BY DEF enter_userspace
<1>3. Depth = 1
  <2>1. Depth # 1 => Depth \in 2 .. Depth
    BY <1>1, SMT, SMTT(60)
  <2> QED BY <1>1, <1>2, <2>1 DEF LocksInv, Shape
<1>4. \A l \in LockNames : owner[l] = 0
  BY <1>1, <1>2, <1>3 DEF Holding
<1>5. stolen = {}
  <2>1. stolen \subseteq 1 .. MaxDepth /\ \A i \in stolen : i < Depth
    BY Zenon DEF LocksInv, LocksTypeOK, Owners
  <2>2. MaxDepth \in Nat
    BY ConsoleLocksAssumption, Zenon
  <2> QED BY ONLY <1>3, <2>1, <2>2
<1>6. stack \in Seq(Contexts) /\ owner \in [LockNames -> 0 .. Depth] /\ SERIAL1 \in LockNames
  BY Zenon DEF LocksInv, LocksTypeOK, LockNames
<1>7. new \in Contexts /\ ~AtEnd(new) /\ new.code = "user" /\ new.pc <= Len(Code[new.code]) + 1
  BY CodeFacts, SMT, SMTT(60) DEF AtEnd, Disciplined, Contexts
<1> HIDE DEF new
<1>8. stack' \in Seq(Contexts) /\ Len(stack') = 1 /\ stack'[1] = new
  BY <1>1, <1>2, <1>3, <1>6, <1>7
<1>9. Depth' = 1
  BY <1>8, SMT, SMTT(60) DEF Depth
<1>10. LocksTypeOK'
  BY <1>1, <1>2, <1>3, <1>5, <1>6, <1>7, <1>8, <1>9, SMT, SMTT(60) DEF LocksTypeOK
<1>11. Shape'
  BY <1>7, <1>8, <1>9 DEF Shape
<1>12. Owners'
  BY <1>2, <1>4, <1>5, <1>6, <1>7, <1>8, <1>9, SMT, SMTT(60) DEF Owners
<1> QED BY <1>10, <1>11, <1>12 DEF LocksInv

\* sysretq: a write is done, and below it is the program, which holds nothing.
LEMMA Returned ==
  ASSUME LocksInv, sysretq
  PROVE  LocksInv'
<1>1. /\ Depth \in Nat /\ Depth <= MaxDepth /\ Top = stack[Depth] /\ Len(stack) = Depth
      /\ \A l \in LockNames : owner[l] \in 0 .. Depth
      /\ \A l \in LockNames : owner[l] = Depth => Holding(Top, l)
      /\ stack[1] \in Contexts
  BY Running
<1>2. AtEnd(Top) /\ Depth > 1 /\ stack' = SubSeq(stack, 1, Depth - 1) /\ UNCHANGED <<owner, stolen>>
  BY DEF sysretq
<1>3. Depth = 2 /\ stack[1].code = "user"
  <2>1. Depth \in 2 .. Depth /\ Depth \in 1 .. Depth
    BY <1>1, <1>2, SMT, SMTT(60)
  <2> QED BY <1>1, <1>2, <2>1 DEF LocksInv, Shape
<1>4. \A l : ~Holding(stack[1], l)
  <2>1. ~AtEnd(stack[1])
    BY <1>3 DEF LocksInv, Shape
  <2>2. Code[stack[1].code][stack[1].pc].do = "body"
    BY <1>1, <1>3, <2>1, Operation, Zenon
  <2> QED BY <2>2 DEF Holding, Inside
<1>5. \A l \in LockNames : owner[l] = 0
  <2>1. \A l \in LockNames : owner[l] # 1
    BY <1>4 DEF LocksInv, Owners
  <2>2. \A l \in LockNames : owner[l] # 2
    BY <1>1, <1>2, <1>3 DEF Holding
  <2> QED BY <1>1, <1>3, <2>1, <2>2
<1>6. stolen = {}
  <2>1. \A i \in stolen : i = 1 /\ Holding(stack[i], SERIAL1)
    <3>1. stolen \subseteq 1 .. MaxDepth /\ \A i \in stolen : i < Depth /\ Holding(stack[i], SERIAL1)
      BY Zenon DEF LocksInv, LocksTypeOK, Owners
    <3>2. MaxDepth \in Nat
      BY ConsoleLocksAssumption, Zenon
    <3>3. \A i \in stolen : i \in 1 .. MaxDepth /\ i < 2
      BY <1>3, <3>1
    <3>4. \A i \in stolen : i = 1
      BY ONLY <3>2, <3>3, SMT, SMTT(60)
    <3> QED BY <3>1, <3>4, Zenon
  <2> QED BY <1>4, <2>1, Zenon
<1>7. stack \in Seq(Contexts) /\ owner \in [LockNames -> 0 .. Depth] /\ SERIAL1 \in LockNames
      /\ stack[1].pc <= Len(Code[stack[1].code]) + 1 /\ ~AtEnd(stack[1])
  BY <1>1, <1>3 DEF LocksInv, LocksTypeOK, LockNames, Shape
<1>8. stack' \in Seq(Contexts) /\ Len(stack') = 1 /\ stack'[1] = stack[1]
  BY <1>1, <1>2, <1>3, <1>7
<1>9. Depth' = 1
  BY <1>8 DEF Depth
<1>10. LocksTypeOK'
  <2>1. owner' \in [LockNames -> 0 .. 1]
    BY <1>2, <1>5, <1>7
  <2>2. stolen' = {} /\ 1 \in 1 .. MaxDepth
    BY <1>2, <1>6, ConsoleLocksAssumption, SMT, SMTT(60)
  <2>3. \A i \in 1 .. 1 : stack'[i].pc <= Len(Code[stack'[i].code]) + 1
    BY <1>7, <1>8, SMT, SMTT(60)
  <2> QED BY <1>8, <1>9, <2>1, <2>2, <2>3, SMT, SMTT(60) DEF LocksTypeOK
<1>11. Shape'
  BY <1>3, <1>7, <1>8, <1>9 DEF Shape
<1>12. Owners'
  BY <1>2, <1>3, <1>5, <1>6, <1>7, <1>8, <1>9, SMT, SMTT(60) DEF Owners
<1> QED BY <1>10, <1>11, <1>12 DEF LocksInv

-----------------------------------------------------------------------------
\* Every step keeps the invariant.
LEMMA LocksInvNext ==
  LocksInv /\ [LocksNext]_lock_vars => LocksInv'
<1> SUFFICES ASSUME LocksInv, [LocksNext]_lock_vars PROVE LocksInv'
  BY SMT, SMTT(60)
<1>1. CASE UNCHANGED lock_vars
  <2>1. Depth' = Depth
    BY <1>1 DEF lock_vars, Depth
  <2> QED BY <1>1, <2>1 DEF lock_vars, LocksInv, LocksTypeOK, Shape, Owners
<1>2. CASE Run
  BY <1>2, CodeSteps, UserEntered, Returned, SMT, SMTT(60) DEF Run
<1>3. CASE exception \/ panic
  BY <1>3, Entered DEF exception, panic
<1>4. CASE \E code \in {"write", "exit"} : syscall(code)
  <2>1. PICK code \in {"write", "exit"} : syscall(code)
    BY <1>4
  <2>2. Top.code = "user" /\ stack' = Enter(code) /\ UNCHANGED <<owner, stolen>>
    BY <2>1 DEF syscall
  <2>3. Depth < MaxDepth
    <3>1. Depth \in Nat /\ Depth >= 1 /\ Top = stack[Depth]
      BY Running
    <3>2. Depth # 1 => Depth \in 2 .. Depth
      BY <3>1, SMT, SMTT(60)
    <3>3. Depth = 1
      BY <2>2, <3>1, <3>2, SMT, SMTT(60) DEF LocksInv, Shape
    <3> QED BY <3>3, ConsoleLocksAssumption, SMT, SMTT(60)
  <2> QED BY <2>2, <2>3, Entered, SMT, SMTT(60)
<1>5. CASE spin \/ halt
  BY <1>1, <1>5 DEF spin, halt
<1> QED BY <1>1, <1>2, <1>3, <1>4, <1>5, SMT, SMTT(60) DEF LocksNext

\* The invariant holds at every depth of nesting.
THEOREM LocksInvariance ==
  LocksSpec => []LocksInv
BY LocksInvInit, LocksInvNext, PTL DEF LocksSpec

\* The contexts and the owners of the locks are what the model says they are.
THEOREM LocksTypeCorrect ==
  LocksSpec => []LocksTypeOK
<1>1. LocksInv => LocksTypeOK
  BY SMT, SMTT(60) DEF LocksInv
<1> QED BY <1>1, LocksInvariance, PTL

\* Kernel code, system calls and panics never wait for SERIAL1 or WRITER; an exception
\* handler only does when it cut short the code that holds SERIAL1.
THEOREM LocksOnlyHandlersWait ==
  LocksSpec => []OnlyHandlersWait
<1>1. LocksInv => OnlyHandlersWait
  <2> SUFFICES ASSUME LocksInv, Doing("lock"), owner[Wanted] # 0
               PROVE  Top.code = "exception" /\ Top.found # 0 /\ Wanted = SERIAL1
    BY SMT, SMTT(60) DEF OnlyHandlersWait
  <2> DEFINE o == Code[Top.code][Top.pc]
  <2>1. ~AtEnd(Top) /\ o.do = "lock" /\ Wanted = o.lock
    BY DEF Doing, Wanted
  <2>2. /\ Depth \in Nat /\ Depth >= 1 /\ Top = stack[Depth]
        /\ Top \in Contexts
        /\ \A l \in LockNames : owner[l] \in 0 .. Depth
        /\ \A l \in LockNames : owner[l] = Depth => Holding(Top, l)
        /\ stack[1] \in Contexts
    BY Running, Zenon
  <2>3. /\ o \in Ops /\ Top.code # "panic" /\ Top.code # "user"
        /\ Top.code = "exception" => o.lock = SERIAL1
    BY <2>1, <2>2, Operation, Zenon
  <2>4. Wanted \in LockNames /\ SERIAL1 \in LockNames
    <3>1. o.lock \in LockNames
      BY <2>3, Zenon DEF Ops
    <3> QED BY <2>1, <3>1, Zenon DEF LockNames
  <2>5. owner[Wanted] # Depth
    BY <2>1, <2>2, <2>4, Zenon DEF Holding, Inside
  <2>6. Top.code # "start"
    <3>1. Depth # 1 => Depth \in 2 .. Depth
      BY <2>2
    <3>2. Depth # 1
      BY <2>2, <2>4, <2>5
    <3> QED BY <2>2, <3>1, <3>2, SMT, SMTT(60) DEF LocksInv, Shape
  <2>7. Top.code \notin {"write", "exit"}
    <3> SUFFICES ASSUME Top.code \in {"write", "exit"} PROVE FALSE
      OBVIOUS
    <3>1. Depth # 1 => Depth \in 2 .. Depth
      BY <2>2, SMT, SMTT(60)
    <3>2. Depth = 2 /\ stack[1].code = "user"
      BY <2>2, <3>1, SMT, SMTT(60) DEF LocksInv, Shape
    <3>3. owner[Wanted] = 1
      BY <2>2, <2>4, <2>5, <3>2
    <3>4. Holding(stack[1], Wanted)
      BY <2>4, <3>3, Zenon DEF LocksInv, Owners
    <3> QED BY <2>2, <3>2, <3>4, Operation, Zenon DEF Holding, Inside
  <2>8. Top.code = "exception" /\ Wanted = SERIAL1
    <3>1. Top.code \in {"start", "user", "write", "exit", "exception", "panic"}
      BY <2>2, CodeFacts, SMT, SMTT(60) DEF Contexts
    <3> QED BY <2>1, <2>3, <2>6, <2>7, <3>1, Zenon
  <2>9. Top.found # 0
    <3>1. Top.found = 0 => owner[SERIAL1] = 0 \/ owner[SERIAL1] >= Depth
      BY <2>2, <2>8, SMT, SMTT(60) DEF LocksInv, Owners
    <3> QED BY <2>2, <2>4, <2>5, <2>8, <3>1, SMT, SMTT(60)
  <2> QED BY <2>8, <2>9, SMT, SMTT(60)
<1> QED BY <1>1, LocksInvariance, PTL

\* Code that print_panic took SERIAL1 from is below the panic on the stack for good.
THEOREM LocksStolenNeverRuns ==
  LocksSpec => []StolenNeverRuns
<1>1. LocksInv => StolenNeverRuns
  BY DEF LocksInv, Owners, StolenNeverRuns
<1> QED BY <1>1, LocksInvariance, PTL

-----------------------------------------------------------------------------
(* The frames: arithmetic and choice. *)

\* The least element that Least chooses exists.
LEMMA LeastIn ==
  ASSUME NEW S \in SUBSET Nat, S # {}
  PROVE  Least(S) \in S
<1> DEFINE R == {ss \in Nat \X Nat : ss[1] < ss[2]}
<1>1. IsWellFoundedOn(R, Nat)
  BY NatLessThanWellFounded, Zenon DEF OpToRel
<1>2. PICK x \in S : \A y \in S : ~(<<y, x>> \in R)
  <2> HIDE DEF R
  <2> QED BY <1>1, WFMin, Zenon
<1>3. ASSUME NEW y \in S PROVE x <= y
  <2>1. ~(y < x)
    <3>1. <<y, x>> \in Nat \X Nat /\ <<y, x>>[1] = y /\ <<y, x>>[2] = x
      OBVIOUS
    <3> QED BY <1>2, <3>1, Zenon
  <2> QED BY <2>1
<1> QED BY <1>3, Zenon DEF Least

\* Quotient and remainder of a frame number: its word and its bit.
LEMMA DivMod ==
  ASSUME NEW B \in Nat \ {0}, NEW f \in Nat
  PROVE  /\ f \div B \in Nat
         /\ f % B \in 0 .. B - 1
         /\ f = (f \div B) * B + (f % B)
  OBVIOUS

\* Word w, bit b is the frame w * B + b and no other.
LEMMA DivModUnique ==
  ASSUME NEW B \in Nat \ {0}, NEW w \in Nat, NEW b \in 0 .. B - 1
  PROVE  /\ w * B + b \in Nat
         /\ (w * B + b) \div B = w
         /\ (w * B + b) % B = b
  OBVIOUS

\* div_ceil rounds up to the next multiple.
LEMMA DivCeil ==
  ASSUME NEW a \in Nat, NEW B \in Nat \ {0}
  PROVE  /\ div_ceil(a, B) \in Nat
         /\ a <= div_ceil(a, B) * B
         /\ div_ceil(a, B) * B < a + B
<1> DEFINE n == a + B - 1
<1>1. n \in Nat
  OBVIOUS
<1>2. n \div B \in Nat /\ n % B \in 0 .. B - 1 /\ n = (n \div B) * B + (n % B)
  <2> HIDE DEF n
  <2> QED BY <1>1, DivMod, Zenon
<1>3. (n \div B) * B \in Nat
  BY <1>2
<1> QED BY <1>2, <1>3 DEF div_ceil

\* A product with a positive factor can be compared by its other factor.
LEMMA MulCompare ==
  ASSUME NEW B \in Nat \ {0}, NEW m \in Int, NEW n \in Int
  PROVE  m * B < n * B <=> m < n
  OBVIOUS

\* The three sizes are positive.
LEMMA WordBits == WORD_BITS \in Nat \ {0} /\ PAGE_SIZE \in Nat \ {0} /\ WORD_BYTES \in Nat \ {0}
  BY PmmAssumption DEF WORD_BITS

-----------------------------------------------------------------------------
(* The bitmap operations *)

\* The bits a set of frames occupies in word w, as mark_used and mark_free compute them.
LEMMA FrameBits ==
  ASSUME NEW F \in SUBSET Nat, NEW w \in Nat
  PROVE  {f % WORD_BITS : f \in {g \in F : g \div WORD_BITS = w}}
           = {b \in Bits : w * WORD_BITS + b \in F}
<1> USE WordBits DEF Bits
<1>1. ASSUME NEW f \in F, f \div WORD_BITS = w
      PROVE  f % WORD_BITS \in Bits /\ w * WORD_BITS + (f % WORD_BITS) = f
  BY <1>1, DivMod, Zenon
<1>2. ASSUME NEW b \in Bits
      PROVE  (w * WORD_BITS + b) \div WORD_BITS = w /\ (w * WORD_BITS + b) % WORD_BITS = b
  BY DivModUnique
<1> QED BY <1>1, <1>2, Zenon

\* Setting frames sets exactly their bits.
LEMMA MarkUsed ==
  ASSUME NEW n \in Nat, NEW bm \in [0 .. n - 1 -> SUBSET Bits], NEW F \in SUBSET Nat
  PROVE  /\ mark_used(bm, F) \in [0 .. n - 1 -> SUBSET Bits]
         /\ \A w \in 0 .. n - 1, b \in Bits :
              b \in mark_used(bm, F)[w] <=> (b \in bm[w] \/ w * WORD_BITS + b \in F)
<1> mark_used(bm, F) = [w \in 0 .. n - 1 |-> bm[w] \cup {b \in Bits : w * WORD_BITS + b \in F}]
  BY FrameBits DEF mark_used
<1> QED OBVIOUS

\* Clearing frames clears exactly their bits.
LEMMA MarkFree ==
  ASSUME NEW n \in Nat, NEW bm \in [0 .. n - 1 -> SUBSET Bits], NEW F \in SUBSET Nat
  PROVE  /\ mark_free(bm, F) \in [0 .. n - 1 -> SUBSET Bits]
         /\ \A w \in 0 .. n - 1, b \in Bits :
              b \in mark_free(bm, F)[w] <=> (b \in bm[w] /\ w * WORD_BITS + b \notin F)
<1> mark_free(bm, F) = [w \in 0 .. n - 1 |-> bm[w] \ {b \in Bits : w * WORD_BITS + b \in F}]
  BY FrameBits DEF mark_free
<1> QED OBVIOUS

-----------------------------------------------------------------------------
(* Regions and the place of the bitmap *)

\* A page-aligned region is an interval of frames.
LEMMA FramesInterval ==
  ASSUME NEW start \in Nat, start % PAGE_SIZE = 0, NEW n \in Nat
  PROVE  /\ start \div PAGE_SIZE \in Nat
         /\ start = (start \div PAGE_SIZE) * PAGE_SIZE
         /\ FramesFrom(start, n) =
              {f \in Nat : start \div PAGE_SIZE <= f /\ f < start \div PAGE_SIZE + n}
<1> DEFINE s == start \div PAGE_SIZE
<1>1. s \in Nat /\ start = s * PAGE_SIZE
  BY WordBits, DivMod
<1>2. ASSUME NEW f \in Nat, s <= f, f < s + n
      PROVE  f \in {s + i : i \in 0 .. n - 1}
  <2>1. f - s \in 0 .. n - 1 /\ f = s + (f - s)
    BY <1>1, <1>2
  <2> QED BY <2>1
<1>3. ASSUME NEW i \in 0 .. n - 1
      PROVE  s + i \in Nat /\ s <= s + i /\ s + i < s + n
  BY <1>1
<1> HIDE DEF s
<1>4. {s + i : i \in 0 .. n - 1} = {f \in Nat : s <= f /\ f < s + n}
  BY <1>2, <1>3, SMT, SMTT(60)
<1> QED BY <1>1, <1>4 DEF FramesFrom, s

\* Every descriptor lies below total_frames.
LEMMA Descriptors ==
  ASSUME NEW b \in BootInfos, NEW i \in DOMAIN b.memory_map
  PROVE  /\ b.memory_map[i].phys_start \in Nat
         /\ b.memory_map[i].phys_start % PAGE_SIZE = 0
         /\ b.memory_map[i].page_count \in Nat
         /\ FramesOf(b.memory_map[i]) \subseteq 0 .. (b.max_phys_memory \div PAGE_SIZE) - 1
<1> DEFINE d == b.memory_map[i]
           s == d.phys_start \div PAGE_SIZE
           n == d.page_count
           t == b.max_phys_memory \div PAGE_SIZE
<1>1. d \in MemoryDescriptor /\ b.max_phys_memory \in Nat
  BY PmmAssumption DEF WellFormed
<1>2. d.phys_start \in Nat /\ n \in Nat
  BY <1>1, SMT, SMTT(60) DEF MemoryDescriptor
<1>3. d.phys_start % PAGE_SIZE = 0 /\ d.phys_start + n * PAGE_SIZE <= b.max_phys_memory
  BY PmmAssumption DEF WellFormed
<1>4. s \in Nat /\ d.phys_start = s * PAGE_SIZE /\ FramesOf(d) = {f \in Nat : s <= f /\ f < s + n}
  <2> HIDE DEF d
  <2> QED BY <1>2, <1>3, FramesInterval DEF FramesOf
<1>5. t \in Nat /\ b.max_phys_memory < (t + 1) * PAGE_SIZE
  <2>1. /\ t \in Nat /\ b.max_phys_memory % PAGE_SIZE \in 0 .. PAGE_SIZE - 1
        /\ b.max_phys_memory = t * PAGE_SIZE + (b.max_phys_memory % PAGE_SIZE)
    BY <1>1, WordBits, DivMod, Zenon
  <2> HIDE DEF t
  <2> QED BY <2>1, WordBits, <1>1
<1>6. s + n < t + 1
  <2>1. (s + n) * PAGE_SIZE < (t + 1) * PAGE_SIZE
    <3> HIDE DEF t, s, n, d
    <3>1. (s + n) * PAGE_SIZE = s * PAGE_SIZE + n * PAGE_SIZE
      BY <1>2, <1>4, WordBits
    <3>2. s * PAGE_SIZE \in Nat /\ n * PAGE_SIZE \in Nat /\ (t + 1) * PAGE_SIZE \in Nat
      BY <1>2, <1>4, <1>5, WordBits
    <3> QED BY <3>1, <3>2, <1>1, <1>3, <1>4, <1>5
  <2> HIDE DEF t, s, n, d
  <2> QED BY <2>1, <1>2, <1>4, <1>5, WordBits, MulCompare
<1>7. FramesOf(d) \subseteq 0 .. t - 1
  <2> HIDE DEF t, s, n, d
  <2> QED BY <1>2, <1>4, <1>5, <1>6
<1> QED BY <1>2, <1>3, <1>7, SMT, SMTT(60)

\* The pages that init_internal reserves for the bitmap are exactly the frames its bytes
\* touch.
LEMMA BitmapCover ==
  ASSUME NEW start \in Nat, start % PAGE_SIZE = 0, NEW n \in Nat \ {0}
  PROVE  FramesFrom(start, div_ceil(n, PAGE_SIZE)) =
           {f \in 0 .. (start + n) \div PAGE_SIZE :
              f * PAGE_SIZE < start + n /\ (f + 1) * PAGE_SIZE > start}
<1> USE WordBits
<1> DEFINE s == start \div PAGE_SIZE
           p == div_ceil(n, PAGE_SIZE)
           e == (start + n) \div PAGE_SIZE
<1>1. p \in Nat /\ n <= p * PAGE_SIZE /\ p * PAGE_SIZE < n + PAGE_SIZE
  BY DivCeil
<1>2. /\ s \in Nat /\ start = s * PAGE_SIZE
      /\ FramesFrom(start, p) = {f \in Nat : s <= f /\ f < s + p}
  <2> HIDE DEF p
  <2> QED BY <1>1, FramesInterval
<1>3. e \in Nat /\ start + n < (e + 1) * PAGE_SIZE
  <2>1. start + n \in Nat
    OBVIOUS
  <2>2. /\ e \in Nat /\ (start + n) % PAGE_SIZE \in 0 .. PAGE_SIZE - 1
        /\ start + n = e * PAGE_SIZE + ((start + n) % PAGE_SIZE)
    BY <2>1, DivMod, Zenon
  <2> HIDE DEF e
  <2> QED BY <2>2
<1> HIDE DEF s, p, e
<1>4. ASSUME NEW f \in Nat
      PROVE  (f * PAGE_SIZE < start + n /\ (f + 1) * PAGE_SIZE > start) <=> (s <= f /\ f < s + p)
  <2>1. (f + 1) * PAGE_SIZE > start <=> s <= f
    BY <1>2, MulCompare
  <2>2. f < s + p => f * PAGE_SIZE < start + n
    <3>1. SUFFICES ASSUME f <= s + p - 1 PROVE f * PAGE_SIZE < start + n
      BY <1>1, <1>2, SMT, SMTT(60)
    <3>2. f * PAGE_SIZE <= (s + p - 1) * PAGE_SIZE
      BY <3>1, <1>1, <1>2, MulCompare, SMT, SMTT(60)
    <3>3. (s + p - 1) * PAGE_SIZE = s * PAGE_SIZE + p * PAGE_SIZE - PAGE_SIZE
      BY <1>1, <1>2, SMT, SMTT(60)
    <3> QED BY <3>2, <3>3, <1>1, <1>2, SMT, SMTT(60)
  <2>3. f * PAGE_SIZE < start + n => f < s + p
    <3>1. SUFFICES ASSUME f * PAGE_SIZE < start + n PROVE f * PAGE_SIZE < (s + p) * PAGE_SIZE
      BY <1>1, <1>2, MulCompare
    <3>2. (s + p) * PAGE_SIZE = s * PAGE_SIZE + p * PAGE_SIZE
      BY <1>1, <1>2
    <3> QED BY <3>1, <3>2, <1>1, <1>2, SMT, SMTT(60)
  <2> QED BY <2>1, <2>2, <2>3
<1>5. ASSUME NEW f \in Nat, f * PAGE_SIZE < start + n
      PROVE  f \in 0 .. e
  <2>1. f * PAGE_SIZE < (e + 1) * PAGE_SIZE
    BY <1>3, <1>5
  <2>2. f < e + 1
    BY <2>1, <1>3, MulCompare
  <2> QED BY <2>2, <1>3
<1>6. 0 .. e \subseteq Nat
  BY <1>3
<1>7. {f \in 0 .. e : f * PAGE_SIZE < start + n /\ (f + 1) * PAGE_SIZE > start}
        = {f \in Nat : s <= f /\ f < s + p}
  BY <1>4, <1>5, <1>6, Zenon
<1> QED BY <1>2, <1>7 DEF p, e

\* The bitmap's reserved pages lie inside the conventional region chosen for it.
LEMMA BitmapPlace ==
  ASSUME NEW b \in BootInfos, BitmapHomes(b) # {}
  PROVE  /\ Least(BitmapHomes(b)) \in Conventional(b)
         /\ BitmapAddr(b) \in Nat /\ BitmapAddr(b) % PAGE_SIZE = 0
         /\ BitmapWords(b) \in Nat
         /\ b.max_phys_memory \div PAGE_SIZE \in Nat
         /\ b.max_phys_memory \div PAGE_SIZE <= BitmapWords(b) * WORD_BITS
         /\ BitmapBytes(b) \in Nat \ {0}
         /\ BitmapPages(b) \in Nat
         /\ FramesFrom(BitmapAddr(b), BitmapPages(b))
              \subseteq FramesOf(b.memory_map[Least(BitmapHomes(b))])
<1> USE WordBits
<1> DEFINE t == b.max_phys_memory \div PAGE_SIZE
           h == Least(BitmapHomes(b))
           d == b.memory_map[h]
<1>1. t \in Nat \ {0}
  <2>1. b.max_phys_memory \in Nat /\ b.max_phys_memory >= PAGE_SIZE
    BY PmmAssumption DEF WellFormed
  <2>2. /\ t \in Nat /\ b.max_phys_memory % PAGE_SIZE \in 0 .. PAGE_SIZE - 1
        /\ b.max_phys_memory = t * PAGE_SIZE + (b.max_phys_memory % PAGE_SIZE)
    BY <2>1, DivMod, Zenon
  <2> HIDE DEF t
  <2> QED BY <2>1, <2>2, SMT, SMTT(60)
<1>2. BitmapWords(b) \in Nat \ {0} /\ t <= BitmapWords(b) * WORD_BITS
  <2> BitmapWords(b) = div_ceil(t, WORD_BITS)
    BY DEF BitmapWords
  <2> HIDE DEF t
  <2>1. BitmapWords(b) \in Nat /\ t <= BitmapWords(b) * WORD_BITS
    BY <1>1, DivCeil
  <2> QED BY <2>1, <1>1
<1>3. BitmapBytes(b) \in Nat \ {0}
  BY <1>2 DEF BitmapBytes
<1>4. BitmapPages(b) \in Nat /\ BitmapPages(b) * PAGE_SIZE < BitmapBytes(b) + PAGE_SIZE
  BY <1>3, DivCeil DEF BitmapPages
<1>5. h \in BitmapHomes(b)
  <2>1. b.memory_map \in Seq(MemoryDescriptor)
    BY PmmAssumption DEF WellFormed
  <2>2. BitmapHomes(b) \in SUBSET Nat
    BY <2>1, SMT, SMTT(60) DEF BitmapHomes, Conventional
  <2> QED BY <2>2, LeastIn, SMT, SMTT(60)
<1>6. /\ h \in Conventional(b) /\ h \in DOMAIN b.memory_map
      /\ d.page_count * PAGE_SIZE >= BitmapBytes(b)
  BY <1>5, Zenon DEF BitmapHomes, Conventional
<1>7. d.phys_start \in Nat /\ d.phys_start % PAGE_SIZE = 0 /\ d.page_count \in Nat
  BY <1>6, Descriptors
<1>8. BitmapPages(b) <= d.page_count
  <2> HIDE DEF d
  <2>1. BitmapPages(b) * PAGE_SIZE < (d.page_count + 1) * PAGE_SIZE
    <3>1. (d.page_count + 1) * PAGE_SIZE = d.page_count * PAGE_SIZE + PAGE_SIZE
      BY <1>7
    <3> QED BY <3>1, <1>3, <1>4, <1>6, <1>7
  <2>2. BitmapPages(b) < d.page_count + 1
    BY <2>1, <1>4, <1>7, MulCompare, SMT, SMTT(60)
  <2> QED BY <2>2, <1>4, <1>7, SMT, SMTT(60)
<1>9. FramesFrom(d.phys_start, BitmapPages(b)) \subseteq FramesOf(d)
  <2> HIDE DEF d
  <2> QED BY <1>4, <1>7, <1>8, FramesInterval, SMT, SMTT(60) DEF FramesOf
<1> QED BY <1>1, <1>2, <1>3, <1>4, <1>6, <1>7, <1>9, SMT, SMTT(60) DEF BitmapAddr

\* init_internal leaves zero exactly the bits of the conventional frames that are neither
\* frame 0 nor part of the bitmap.
LEMMA InitialBits ==
  ASSUME NEW b \in BootInfos, BitmapHomes(b) # {}
  PROVE  /\ InitialBitmap(b) \in [0 .. BitmapWords(b) - 1 -> SUBSET Bits]
         /\ \A w \in 0 .. BitmapWords(b) - 1, c \in Bits :
              c \notin InitialBitmap(b)[w] <=>
                /\ w * WORD_BITS + c \in UNION {FramesOf(b.memory_map[i]) : i \in Conventional(b)}
                /\ w * WORD_BITS + c \notin FramesFrom(BitmapAddr(b), BitmapPages(b)) \cup {0}
<1> USE WordBits
<1> DEFINE n == BitmapWords(b)
           t == b.max_phys_memory \div PAGE_SIZE
           C == UNION {FramesOf(b.memory_map[i]) : i \in Conventional(b)}
           D == {b.memory_map[i] : i \in Conventional(b)}
           B == FramesFrom(BitmapAddr(b), BitmapPages(b))
           ones == [w \in 0 .. n - 1 |-> Bits]
           freed == mark_regions_free(ones, D, t)
           homed == mark_region_used(freed, BitmapAddr(b), BitmapPages(b))
<1>1. n \in Nat /\ t \in Nat
  BY BitmapPlace, SMT, SMTT(60)
<1>2. C \subseteq 0 .. t - 1
  BY Descriptors, SMT, SMTT(60) DEF Conventional
<1>3. B \subseteq Nat
  BY BitmapPlace, FramesInterval, SMT, SMTT(60)
<1>4. {f \in UNION {FramesOf(d) : d \in D} : f < t} = C
  <2> DEFINE U == UNION {FramesOf(d) : d \in D}
  <2>1. U = C
    OBVIOUS
  <2> HIDE DEF C, t, U
  <2>2. \A f \in C : f < t
    BY <1>1, <1>2
  <2>3. {f \in U : f < t} = C
    BY <2>1, <2>2
  <2> QED BY <2>3 DEF U
<1>5. freed = mark_free(ones, C)
  BY <1>4, Zenon DEF mark_regions_free
<1>6. homed = mark_used(freed, B)
  BY Zenon DEF mark_region_used
<1>7. InitialBitmap(b) = mark_used(homed, {0})
  BY DEF InitialBitmap
<1> HIDE DEF n, t, C, D, B, freed, homed
<1>8. ones \in [0 .. n - 1 -> SUBSET Bits]
  OBVIOUS
<1>9. C \subseteq Nat
  BY <1>1, <1>2
<1>10. /\ freed \in [0 .. n - 1 -> SUBSET Bits]
       /\ \A w \in 0 .. n - 1, c \in Bits : c \notin freed[w] <=> w * WORD_BITS + c \in C
  <2>1. \A w \in 0 .. n - 1 : ones[w] = Bits
    OBVIOUS
  <2> HIDE DEF ones
  <2> QED BY <1>1, <1>5, <1>8, <1>9, <2>1, MarkFree
<1>11. /\ homed \in [0 .. n - 1 -> SUBSET Bits]
       /\ \A w \in 0 .. n - 1, c \in Bits :
            c \notin homed[w] <=> w * WORD_BITS + c \in C /\ w * WORD_BITS + c \notin B
  BY <1>1, <1>3, <1>6, <1>10, MarkUsed, SMT, SMTT(60)
<1>12. /\ InitialBitmap(b) \in [0 .. n - 1 -> SUBSET Bits]
       /\ \A w \in 0 .. n - 1, c \in Bits :
            c \notin InitialBitmap(b)[w] <=>
              (w * WORD_BITS + c \in C /\ w * WORD_BITS + c \notin B \cup {0})
  <2>1. {0} \in SUBSET Nat
    OBVIOUS
  <2> QED BY <1>1, <1>7, <1>11, <2>1, MarkUsed
<1> QED BY <1>12, SMT, SMTT(60) DEF n, C, B

-----------------------------------------------------------------------------
(* The inductive invariant *)

\* The zero bits are exactly the usable frames not handed out yet.
BitsExact ==
  \A w \in 0 .. bitmap_size_u64 - 1, b \in Bits :
    b \notin bitmap[w] <=> w * WORD_BITS + b \in Usable \ HandedSet

Ready ==
  /\ BitmapHomes(boot) # {}
  /\ total_frames = boot.max_phys_memory \div PAGE_SIZE
  /\ bitmap_size_u64 = BitmapWords(boot)
  /\ bitmap_start_addr = BitmapAddr(boot)
  /\ OnlyUsableHandedOut
  /\ BitsExact

IInv ==
  /\ TypeOK
  /\ HandedOutOnce
  /\ phase # "ready" => handed = <<>>
  /\ phase = "uninit" => bitmap_size_u64 = 0
  /\ phase = "ready" => Ready

\* The reference definition of the bitmap's frames agrees with what init reserves.
LEMMA BitmapFramesReserved ==
  ASSUME boot \in BootInfos, BitmapHomes(boot) # {},
         bitmap_size_u64 = BitmapWords(boot), bitmap_start_addr = BitmapAddr(boot)
  PROVE  BitmapFrames = FramesFrom(BitmapAddr(boot), BitmapPages(boot))
<1> BitmapAddr(boot) \in Nat /\ BitmapAddr(boot) % PAGE_SIZE = 0 /\ BitmapBytes(boot) \in Nat \ {0}
  BY BitmapPlace
<1> FramesFrom(BitmapAddr(boot), BitmapPages(boot)) =
      {f \in 0 .. (BitmapAddr(boot) + BitmapBytes(boot)) \div PAGE_SIZE :
         /\ f * PAGE_SIZE < BitmapAddr(boot) + BitmapBytes(boot)
         /\ (f + 1) * PAGE_SIZE > BitmapAddr(boot)}
  BY BitmapCover DEF BitmapPages
<1> QED BY DEF BitmapFrames, BitmapBytes

\* Usable frames are frames of the bitmap, below total_frames.
LEMMA UsableBounds ==
  ASSUME TypeOK, Ready
  PROVE  /\ Usable \subseteq 0 .. total_frames - 1
         /\ total_frames \in Nat /\ bitmap_size_u64 \in Nat
         /\ total_frames <= bitmap_size_u64 * WORD_BITS
<1>1. ConventionalFrames \subseteq 0 .. total_frames - 1
  BY Descriptors, SMT, SMTT(60) DEF ConventionalFrames, Conventional, TypeOK, Ready
<1>2. total_frames \in Nat /\ bitmap_size_u64 \in Nat /\ total_frames <= bitmap_size_u64 * WORD_BITS
  BY BitmapPlace DEF TypeOK, Ready
<1> QED BY <1>1, <1>2, Zenon DEF Usable

\* When some word is not full, the bit allocate_frame picks is zero and belongs to a
\* usable frame, so the "Out of bounds" return is never taken.
LEMMA FirstZeroUsable ==
  ASSUME IInv, phase = "ready", NotFull # {}
  PROVE  /\ FirstZero \in Nat
         /\ FirstZero \in Usable \ HandedSet
         /\ FirstZero < total_frames
<1> USE WordBits
<1> DEFINE idx == Least(NotFull)
           bit == Least(Bits \ bitmap[idx])
<1>1. bitmap \in [0 .. bitmap_size_u64 - 1 -> SUBSET Bits] /\ bitmap_size_u64 \in Nat
  BY DEF IInv, TypeOK
<1>2. NotFull \in SUBSET Nat
  BY <1>1 DEF NotFull
<1>3. idx \in 0 .. bitmap_size_u64 - 1 /\ bitmap[idx] # Bits
  <2>1. idx \in NotFull
    BY <1>2, LeastIn
  <2> HIDE DEF idx
  <2> QED BY <2>1 DEF NotFull
<1>4. bit \in Bits \ bitmap[idx]
  <2> HIDE DEF idx
  <2>1. bitmap[idx] \in SUBSET Bits
    BY <1>1, <1>3
  <2>2. Bits \ bitmap[idx] # {}
    BY <1>3, <2>1, Zenon
  <2>3. Bits \ bitmap[idx] \in SUBSET Nat
    BY DEF Bits
  <2> QED BY <2>2, <2>3, LeastIn
<1>5. FirstZero = idx * WORD_BITS + bit
  BY DEF FirstZero
<1> HIDE DEF idx, bit
<1>6. FirstZero \in Usable \ HandedSet
  BY <1>3, <1>4, <1>5, SMT, SMTT(60) DEF IInv, Ready, BitsExact
<1>7. Usable \subseteq 0 .. total_frames - 1 /\ total_frames \in Nat
  BY UsableBounds DEF IInv
<1> QED BY <1>6, <1>7

\* When every word is full, every usable frame has been handed out.
LEMMA FullMeansExhausted ==
  ASSUME IInv, phase = "ready", NotFull = {}
  PROVE  HandedSet = Usable
<1> USE WordBits
<1>1. ASSUME NEW f \in Usable PROVE f \in HandedSet
  <2> DEFINE w == f \div WORD_BITS
             b == f % WORD_BITS
  <2>1. /\ f \in Nat /\ total_frames \in Nat /\ f < total_frames /\ bitmap_size_u64 \in Nat
        /\ total_frames <= bitmap_size_u64 * WORD_BITS
    BY UsableBounds DEF IInv
  <2>2. w \in Nat /\ b \in Bits /\ f = w * WORD_BITS + b
    BY <2>1, DivMod, Zenon DEF Bits
  <2> HIDE DEF w, b
  <2>3. w < bitmap_size_u64
    <3>1. w * WORD_BITS < bitmap_size_u64 * WORD_BITS
      BY <2>1, <2>2, SMT, SMTT(60) DEF Bits
    <3> QED BY <3>1, <2>1, <2>2, MulCompare, SMT, SMTT(60)
  <2>4. bitmap[w] = Bits
    BY <2>1, <2>2, <2>3, SMT, SMTT(60) DEF NotFull
  <2> QED BY <2>1, <2>2, <2>3, <2>4 DEF IInv, Ready, BitsExact
<1> QED BY <1>1, Zenon DEF IInv, Ready, OnlyUsableHandedOut

-----------------------------------------------------------------------------
(* Invariance *)

\* The inductive invariant holds before init.
LEMMA InitIInv == Init => IInv
  BY SMT, SMTT(60) DEF Init, IInv, TypeOK, HandedOutOnce

\* init_internal establishes it: the initial bitmap is zero exactly at the usable frames.
LEMMA init_IInv == IInv /\ init => IInv'
<1> SUFFICES ASSUME IInv, init PROVE IInv'
  BY SMT, SMTT(60)
<1> boot \in BootInfos /\ BitmapHomes(boot) # {} /\ handed = <<>>
  BY DEF IInv, TypeOK, init
<1>1. /\ boot' = boot /\ phase' = "ready" /\ handed' = handed /\ result' = result
      /\ total_frames' = boot.max_phys_memory \div PAGE_SIZE
      /\ bitmap_size_u64' = BitmapWords(boot)
      /\ bitmap_start_addr' = BitmapAddr(boot)
      /\ bitmap' = InitialBitmap(boot)
  BY Zenon DEF init
<1>2. TypeOK'
  BY <1>1, BitmapPlace, InitialBits, SMT, SMTT(60) DEF IInv, TypeOK
<1>3. HandedOutOnce'
  BY <1>1, SMT, SMTT(60) DEF HandedOutOnce, IInv
<1>4. BitmapFrames' = FramesFrom(BitmapAddr(boot), BitmapPages(boot))
  <2> DEFINE a == BitmapAddr(boot)
             n == BitmapBytes(boot)
  <2>1. a \in Nat /\ a % PAGE_SIZE = 0 /\ n \in Nat \ {0}
    BY BitmapPlace, SMT, SMTT(60)
  <2>2. BitmapFrames' = {f \in 0 .. (a + n) \div PAGE_SIZE :
                           f * PAGE_SIZE < a + n /\ (f + 1) * PAGE_SIZE > a}
    BY <1>1, SMT, SMTT(60) DEF BitmapFrames, BitmapBytes
  <2> HIDE DEF a, n
  <2>3. FramesFrom(a, div_ceil(n, PAGE_SIZE)) =
          {f \in 0 .. (a + n) \div PAGE_SIZE : f * PAGE_SIZE < a + n /\ (f + 1) * PAGE_SIZE > a}
    BY <2>1, BitmapCover
  <2> QED BY <2>2, <2>3, SMT, SMTT(60) DEF BitmapPages, a, n
<1>5. HandedSet' = {}
  BY <1>1 DEF HandedSet
<1>6. Usable' = (UNION {FramesOf(boot.memory_map[i]) : i \in Conventional(boot)})
                  \ (FramesFrom(BitmapAddr(boot), BitmapPages(boot)) \cup {0})
  BY <1>1, <1>4, Zenon DEF Usable, ConventionalFrames
<1>7. BitsExact'
  BY <1>1, <1>5, <1>6, InitialBits, SMT, SMTT(60) DEF BitsExact
<1>8. Ready'
  BY <1>1, <1>5, <1>7, SMT, SMTT(60) DEF Ready, OnlyUsableHandedOut
<1> QED BY <1>1, <1>2, <1>3, <1>8, SMT, SMTT(60) DEF IInv

\* allocate_frame keeps it: the lowest zero bit is a usable frame not handed out before.
LEMMA allocate_frame_IInv == IInv /\ allocate_frame => IInv'
<1> SUFFICES ASSUME IInv, allocate_frame PROVE IInv'
  OBVIOUS
<1> DEFINE f == FirstZero
<1>1. phase = "ready"
  BY DEF IInv, TypeOK, allocate_frame, NotFull
<1>2. f \in Nat /\ f \in Usable \ HandedSet
  BY <1>1, FirstZeroUsable, SMT, SMTT(60) DEF allocate_frame
<1>3. /\ UNCHANGED <<boot, phase, total_frames, bitmap_size_u64, bitmap_start_addr>>
      /\ bitmap' = mark_used(bitmap, {f})
      /\ result' = f * PAGE_SIZE
      /\ handed' = Append(handed, f)
  BY DEF allocate_frame
<1> HIDE DEF f
<1>4. handed \in Seq(Nat) /\ bitmap_size_u64 \in Nat /\ bitmap \in [0 .. bitmap_size_u64 - 1 -> SUBSET Bits]
  BY <1>1 DEF IInv, TypeOK
<1>5. /\ bitmap' \in [0 .. bitmap_size_u64 - 1 -> SUBSET Bits]
      /\ \A w \in 0 .. bitmap_size_u64 - 1, b \in Bits :
           b \in bitmap'[w] <=> (b \in bitmap[w] \/ w * WORD_BITS + b \in {f})
  BY <1>2, <1>3, <1>4, MarkUsed, Zenon
<1>6. TypeOK'
  <2>1. f * PAGE_SIZE \in Nat
    BY <1>2, WordBits
  <2>2. handed' \in Seq(Nat)
    BY <1>2, <1>3, <1>4
  <2>3. bitmap' \in [0 .. bitmap_size_u64' - 1 -> SUBSET Bits]
    BY <1>3, <1>5, Zenon
  <2> QED BY <1>3, <2>1, <2>2, <2>3, Zenon DEF IInv, TypeOK
<1>7. /\ DOMAIN handed' = DOMAIN handed \cup {Len(handed) + 1}
      /\ \A i \in DOMAIN handed : handed'[i] = handed[i]
      /\ handed'[Len(handed) + 1] = f
  BY <1>2, <1>3, <1>4, SMT, SMTT(60)
<1>8. HandedSet' = HandedSet \cup {f}
  BY <1>7, SMT, SMTT(60) DEF HandedSet
<1>9. HandedOutOnce'
  BY <1>2, <1>7, SMT, SMTT(60) DEF HandedOutOnce, HandedSet, IInv
<1>10. Usable' = Usable
  BY <1>3 DEF Usable, ConventionalFrames, BitmapFrames
<1>11. BitsExact'
  BY <1>1, <1>3, <1>5, <1>8, <1>10, Zenon DEF BitsExact, IInv, Ready
<1>12. Ready'
  BY <1>1, <1>2, <1>3, <1>8, <1>10, <1>11, Zenon DEF Ready, IInv, OnlyUsableHandedOut
<1> QED BY <1>1, <1>3, <1>6, <1>9, <1>12, SMT, SMTT(60) DEF IInv

\* Every step keeps it.
LEMMA NextIInv == IInv /\ [Next]_vars => IInv'
<1> SUFFICES ASSUME IInv, [Next]_vars PROVE IInv'
  OBVIOUS
<1>1. CASE init
  BY <1>1, init_IInv, Zenon
<1>2. CASE init_panics
  <2>1. /\ UNCHANGED <<boot, bitmap_start_addr, bitmap, result, handed>>
        /\ phase = "uninit" /\ phase' = "panic"
        /\ total_frames' \in Nat /\ bitmap_size_u64' \in Nat
    <3>1. boot.max_phys_memory \in Nat
      BY PmmAssumption, SMT, SMTT(60) DEF IInv, TypeOK, WellFormed
    <3>2. boot.max_phys_memory \div PAGE_SIZE \in Nat
      BY <3>1, DivMod, WordBits
    <3>3. BitmapWords(boot) \in Nat
      BY <3>2, DivCeil, WordBits, Zenon DEF BitmapWords
    <3> QED BY <1>2, <3>2, <3>3, Zenon DEF init_panics
  <2> QED BY <2>1 DEF IInv, TypeOK, HandedOutOnce
<1>3. CASE allocate_frame
  BY <1>3, allocate_frame_IInv
<1>4. CASE allocate_frame_fails
  <2> USE <1>4 DEF allocate_frame_fails, IInv
  <2>1. TypeOK'
    BY DEF TypeOK
  <2>2. Usable' = Usable /\ HandedSet' = HandedSet
    BY Zenon DEF Usable, ConventionalFrames, BitmapFrames, HandedSet
  <2>3. phase = "ready" => Ready'
    BY <2>2, Zenon DEF Ready, BitsExact, OnlyUsableHandedOut
  <2> QED BY <2>1, <2>3, Zenon DEF HandedOutOnce
<1>5. CASE UNCHANGED vars
  <2> USE <1>5 DEF vars, IInv
  <2>1. TypeOK'
    BY Zenon DEF TypeOK
  <2>2. Usable' = Usable /\ HandedSet' = HandedSet
    BY Zenon DEF Usable, ConventionalFrames, BitmapFrames, HandedSet
  <2>3. phase = "ready" => Ready'
    BY <2>2 DEF Ready, BitsExact, OnlyUsableHandedOut
  <2> QED BY <2>1, <2>3, Zenon DEF HandedOutOnce
<1> QED BY <1>1, <1>2, <1>3, <1>4, <1>5 DEF Next, hlt_loop

\* The inductive invariant holds throughout.
LEMMA Invariance == Spec => []IInv
  BY InitIInv, NextIInv, PTL DEF Spec

\* The bitmap keeps its shape and allocate_frame answers an address or None, for every
\* memory map.
THEOREM PmmTypeCorrect == Spec => []TypeOK
  BY Invariance, PTL DEF IInv

\* allocate_frame never hands the same frame out twice.
THEOREM PmmNoDoubleAllocation == Spec => []HandedOutOnce
  BY Invariance, PTL DEF IInv

\* Frame 0, the bitmap's own frames and everything UEFI does not call conventional are
\* never handed out.
THEOREM PmmOnlyUsable == Spec => []OnlyUsableHandedOut
<1> IInv => OnlyUsableHandedOut
  BY SMT, SMTT(60) DEF IInv, Ready, OnlyUsableHandedOut, HandedSet, TypeOK
<1> QED BY Invariance, PTL

\* Wherever the bitmap is put, it overwrites one conventional region only.
THEOREM PmmBitmapInOneRegion == Spec => []BitmapInOneRegion
<1> ASSUME IInv, phase = "ready" PROVE BitmapInOneRegion
  <2>1. BitmapFrames = FramesFrom(BitmapAddr(boot), BitmapPages(boot))
    BY BitmapFramesReserved, SMT, SMTT(60) DEF IInv, Ready, TypeOK
  <2> QED BY <2>1, BitmapPlace, Zenon DEF IInv, Ready, TypeOK, BitmapInOneRegion
<1>1. IInv => BitmapInOneRegion
  BY SMT, SMTT(60) DEF BitmapInOneRegion
<1> QED BY <1>1, Invariance, PTL

\* allocate_frame reports exhaustion only when every usable frame was handed out.
THEOREM PmmNoneMeansExhausted == Spec => []NoneMeansExhausted
<1>1. IInv => NoneMeansExhausted
  <2> SUFFICES ASSUME IInv, phase = "ready", NotFull # {} => FirstZero >= total_frames
               PROVE  HandedSet = Usable
    BY SMT, SMTT(60) DEF NoneMeansExhausted
  <2>1. NotFull = {}
    <3> SUFFICES ASSUME NotFull # {} PROVE FALSE
      BY SMT, SMTT(60)
    <3>1. total_frames \in Nat
      BY DEF IInv, TypeOK
    <3> QED BY <3>1, FirstZeroUsable, SMT, SMTT(60)
  <2> QED BY <2>1, FullMeansExhausted, SMT, SMTT(60)
<1> QED BY <1>1, Invariance, PTL

-----------------------------------------------------------------------------
(* Refinement *)

FreeExact ==
  phase = "ready" => FreeAddresses = {f * PAGE_SIZE : f \in Usable \ HandedSet}

\* The zero bits of the bitmap, as addresses, are the usable frames not handed out.
LEMMA FreeAddressesExact == IInv => FreeExact
<1> SUFFICES ASSUME IInv, phase = "ready"
             PROVE  FreeAddresses = {f * PAGE_SIZE : f \in Usable \ HandedSet}
  BY Zenon DEF FreeExact
<1> USE WordBits
<1>1. ASSUME NEW f \in 0 .. total_frames - 1
      PROVE  ~Used(f) <=> f \in Usable \ HandedSet
  <2> DEFINE w == f \div WORD_BITS
             b == f % WORD_BITS
  <2>1. /\ f \in Nat /\ total_frames \in Nat /\ f < total_frames /\ bitmap_size_u64 \in Nat
        /\ total_frames <= bitmap_size_u64 * WORD_BITS
    BY UsableBounds DEF IInv
  <2>2. w \in Nat /\ b \in Bits /\ f = w * WORD_BITS + b
    BY <2>1, DivMod, Zenon DEF Bits
  <2>3. Used(f) <=> b \in bitmap[w]
    BY DEF Used
  <2> HIDE DEF w, b
  <2>4. w < bitmap_size_u64
    <3>1. w * WORD_BITS < bitmap_size_u64 * WORD_BITS
      BY <2>1, <2>2, SMT, SMTT(60) DEF Bits
    <3> QED BY <3>1, <2>1, <2>2, MulCompare, SMT, SMTT(60)
  <2> QED BY <2>1, <2>2, <2>3, <2>4, SMT, SMTT(60) DEF IInv, Ready, BitsExact
<1>2. Usable \subseteq 0 .. total_frames - 1
  BY UsableBounds DEF IInv
<1>3. {g \in 0 .. total_frames - 1 : ~Used(g)} = Usable \ HandedSet
  BY <1>1, <1>2, Zenon
<1> QED BY <1>3 DEF FreeAddresses

\* Before init the abstract allocator has granted nothing.
LEMMA AbstractInit == Init => Abstract!Init
  BY Zenon DEF Init, Abstract!Init, FreeAddresses

\* Every step is a step of the abstract allocator or leaves it alone.
LEMMA AbstractNext ==
  IInv /\ FreeExact /\ IInv' /\ FreeExact' /\ [Next]_vars => [Abstract!Next]_(Abstract!vars)
<1> SUFFICES ASSUME IInv, FreeExact, IInv', FreeExact', [Next]_vars
             PROVE  [Abstract!Next]_(Abstract!vars)
  BY SMT, SMTT(60)
<1> USE WordBits DEF Abstract!Next, Abstract!vars
<1>0. ASSUME phase = "ready", phase' = "ready"
      PROVE  /\ FreeAddresses = {f * PAGE_SIZE : f \in Usable \ HandedSet}
             /\ FreeAddresses' = {f * PAGE_SIZE : f \in Usable' \ HandedSet'}
  BY <1>0 DEF FreeExact
<1>1. CASE init
  <2>1. phase = "uninit" /\ phase' = "ready" /\ result' = result
    BY <1>1, SMT, SMTT(60) DEF init
  <2>2. FreeAddresses' \in SUBSET Nat
    <3>1. total_frames' \in Nat
      BY Zenon DEF IInv, TypeOK
    <3> QED BY <2>1, <3>1, SMT, SMTT(60) DEF FreeAddresses
  <2> QED BY <2>1, <2>2, Zenon DEF Abstract!Grant
<1>2. CASE init_panics
  <2> QED BY <1>2 DEF init_panics, FreeAddresses
<1>3. CASE allocate_frame
  <2>1. phase = "ready"
    BY <1>3 DEF IInv, TypeOK, allocate_frame, NotFull
  <2>2. FirstZero \in Nat /\ FirstZero \in Usable \ HandedSet
    BY <1>3, <2>1, FirstZeroUsable, Zenon DEF allocate_frame
  <2>3. phase' = phase /\ result' = FirstZero * PAGE_SIZE /\ handed' = Append(handed, FirstZero)
    BY <1>3, Zenon DEF allocate_frame
  <2>4. Usable' = Usable
    BY <1>3, Zenon DEF allocate_frame, Usable, ConventionalFrames, BitmapFrames
  <2>5. HandedSet' = HandedSet \cup {FirstZero}
    <3>1. handed \in Seq(Nat)
      BY DEF IInv, TypeOK
    <3>2. /\ DOMAIN handed' = DOMAIN handed \cup {Len(handed) + 1}
          /\ \A i \in DOMAIN handed : handed'[i] = handed[i]
          /\ handed'[Len(handed) + 1] = FirstZero
      BY <2>2, <2>3, <3>1, SMT, SMTT(60)
    <3> QED BY <3>2, ZenonT(40) DEF HandedSet
  <2>6. Usable \subseteq Nat
    BY <2>1, UsableBounds DEF IInv
  <2>7. ASSUME NEW f \in Usable, NEW g \in Usable, f * PAGE_SIZE = g * PAGE_SIZE
        PROVE  f = g
    BY <2>6, <2>7, SMT, SMTT(60)
  <2> DEFINE F == FreeAddresses
             U == Usable \ HandedSet
             z == FirstZero
  <2>8. F' = F \ {z * PAGE_SIZE}
    <3>1. F = {f * PAGE_SIZE : f \in U} /\ F' = {f * PAGE_SIZE : f \in U \ {z}}
      BY <1>0, <2>1, <2>3, <2>4, <2>5, Zenon
    <3>2. z \in U /\ U \subseteq Usable
      BY <2>2, Zenon
    <3> HIDE DEF F, U, z
    <3> QED BY <2>7, <3>1, <3>2, Zenon
  <2>9. z * PAGE_SIZE \in F
    BY <1>0, <2>1, <2>2, <2>3, Zenon
  <2> HIDE DEF F, z
  <2> QED BY <2>1, <2>3, <2>8, <2>9, Zenon DEF Abstract!Allocate, F, z
<1>4. CASE allocate_frame_fails
  <2>1. UNCHANGED <<phase, total_frames, bitmap, bitmap_size_u64>> /\ result' = None
    BY <1>4, Zenon DEF allocate_frame_fails
  <2>2. FreeAddresses' = FreeAddresses
    BY <2>1 DEF FreeAddresses, Used
  <2>3. FreeAddresses = {}
    <3>1. CASE phase = "ready"
      <4>1. NotFull = {}
        <5> SUFFICES ASSUME NotFull # {} PROVE FALSE
          BY SMT, SMTT(60)
        <5>1. total_frames \in Nat /\ FirstZero >= total_frames
          BY <1>4, Zenon DEF IInv, TypeOK, allocate_frame_fails
        <5> QED BY <3>1, <5>1, FirstZeroUsable
      <4> QED BY <3>1, <4>1, FullMeansExhausted DEF FreeExact
    <3>2. CASE phase # "ready"
      BY <3>2, Zenon DEF FreeAddresses
    <3> QED BY <3>1, <3>2
  <2> QED BY <2>1, <2>2, <2>3, Zenon DEF Abstract!Exhausted
<1>5. CASE UNCHANGED vars
  BY <1>5 DEF vars, FreeAddresses, Used
<1> QED BY <1>1, <1>2, <1>3, <1>4, <1>5, SMT, SMTT(60) DEF Next, hlt_loop

\* The bitmap allocator implements the abstract frame allocator, whatever the machine's
\* memory map.
THEOREM PmmRefinement == Spec => ImplementsFrameAllocator
  BY Invariance, FreeAddressesExact, AbstractInit, AbstractNext, PTL
  DEF Spec, ImplementsFrameAllocator, Abstract!Spec
=============================================================================
