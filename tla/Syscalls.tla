------------------------------ MODULE Syscalls ------------------------------
(***************************************************************************)
(* handle_syscall and the calls it dispatches to (src/kernel/src/          *)
(* syscalls.rs): console output, thread control, signal and file stubs and *)
(* random bytes; brk, mmap and munmap are in UserMemory.  A call runs with *)
(* interrupts off and is one step.  Text is a sequence of bytes, user      *)
(* memory a row of 4-byte cells.                                           *)
(***************************************************************************)
EXTENDS Integers, Sequences

CONSTANTS
  Bufs,            \* the buffers a program passes to write
  Vectors,         \* the sequences of buffers it passes to writev
  FDs,             \* file descriptors
  CELLS,           \* cells of mapped user memory, from 1
  Ptrs,            \* the addresses it passes for an answer; 0 is NULL
  Bases, Canonical,      \* thread-local bases, and those VirtAddr::new accepts
  MODULUS, MULTIPLIER, SHIFT, SEED0,  \* getrandom: 2^64, 6364136223846793005, 2^33, the seed
  Sizes,           \* lengths a program passes to getrandom
  MaxCalls         \* bound on the calls of a run

ASSUME SyscallsAssumption ==
  /\ CELLS \in Nat /\ Ptrs \subseteq Nat /\ FDs \subseteq Nat /\ Sizes \subseteq Nat
  /\ Canonical \subseteq Bases /\ Bases \subseteq Nat \X Nat /\ MaxCalls \in Nat
  /\ MODULUS \in Nat \ {0} /\ MULTIPLIER \in Nat /\ SHIFT \in Nat \ {0}
  /\ SEED0 \in 0 .. MODULUS - 1
  /\ \A b \in Bufs : b \in Seq(0 .. 223)          \* no 3- or 4-byte characters
  /\ \A v \in Vectors : v \in Seq(Bufs)

VARIABLES
  status,          \* "running", "exited" or "halted"
  screen, serial,  \* what has been shown and what has been sent, in order
  memory,          \* the cells of user memory
  fs, gs,          \* FsBase and GsBase
  SEED,
  result,          \* the latest answer
  last,            \* the latest call and its pointer
  sent,            \* history: the bytes the answers of write and writev acknowledge
  random,          \* history: the bytes getrandom gave out
  calls

calls_vars == <<status, screen, serial, memory, fs, gs, SEED, result, last, sent, random, calls>>

STDOUT == 1
STDERR == 2
EBADF == -9
EINVAL == -22
ENOTTY == -25
ENOSYS == -38
SS_DISABLE == 2
S_IFCHR == 8630     \* 0o020000 | 0o666
Log == -1           \* a line of the kernel on the serial port only
Notice == -2        \* a line of the kernel on both
Garbage == -3       \* what memory holds before it is written

\* The sequences of a sequence, one after the other.
Concat(ss) ==
  LET upto[k \in 0 .. Len(ss)] == IF k = 0 THEN <<>> ELSE upto[k - 1] \o ss[k]
  IN  upto[Len(ss)]

\* What the program's calls contributed to an output.
Text(s) == Concat([k \in DOMAIN s |-> IF s[k] >= 0 THEN <<s[k]>> ELSE <<>>])

CallsInit ==
  /\ status = "running"
  /\ screen = <<>> /\ serial = <<>>
  /\ memory = [a \in 1 .. CELLS |-> Garbage]
  /\ fs = <<0, 0>> /\ gs = <<0, 0>>
  /\ SEED = SEED0
  /\ result = 0 /\ last = [nr |-> "none", ptr |-> 0]
  /\ sent = <<>> /\ random = <<>> /\ calls = 0

-----------------------------------------------------------------------------
(* Calling and answering. *)

(* handle_syscall logs the call, runs it and logs its answer. *)
handle_syscall(nr, ptr, to_screen, to_serial, answer) ==
  /\ status = "running" /\ calls < MaxCalls
  /\ screen' = screen \o to_screen
  /\ serial' = serial \o <<Log>> \o to_serial \o <<Log>>
  /\ result' = answer
  /\ last' = [nr |-> nr, ptr |-> ptr]
  /\ calls' = calls + 1
  /\ UNCHANGED status

(* A call that does not answer: the kernel prints a line and halts. *)
stop(nr, final, to_screen) ==
  /\ status = "running" /\ calls < MaxCalls
  /\ status' = final
  /\ screen' = screen \o to_screen
  /\ serial' = serial \o <<Log>> \o <<Notice>>
  /\ last' = [nr |-> nr, ptr |-> 0]
  /\ calls' = calls + 1
  /\ UNCHANGED <<memory, fs, gs, SEED, result, sent, random>>

(***************************************************************************)
(* An answer in user memory: the cells of a structure at an offset from    *)
(* the pointer.  The pointer is trusted, so an unmapped cell is a page     *)
(* fault in the kernel, which halts (interrupts.rs).                       *)
(***************************************************************************)
Store(p, cells) ==
  [a \in DOMAIN memory |-> IF a - p \in DOMAIN cells THEN cells[a - p] ELSE memory[a]]

answer_at(nr, p, cells) ==
  IF \A o \in DOMAIN cells : p + o \in DOMAIN memory
  THEN /\ handle_syscall(nr, p, <<>>, <<>>, 0)
       /\ memory' = Store(p, cells)
       /\ UNCHANGED <<fs, gs, SEED, sent, random>>
  ELSE stop(nr, "halted", <<>>)

only_answer(nr, p, answer) ==
  /\ handle_syscall(nr, p, <<>>, <<>>, answer)
  /\ UNCHANGED <<memory, fs, gs, SEED, sent, random>>

-----------------------------------------------------------------------------
(* Console output. *)

Lead(b) == b \in 194 .. 223
Continuation(b) == b \in 128 .. 191

(* core::str::from_utf8 accepts the bytes (of characters of one or two bytes). *)
from_utf8(s) ==
  \A k \in DOMAIN s :
    /\ s[k] < 128 \/ Lead(s[k]) \/ Continuation(s[k])
    /\ Lead(s[k]) => k < Len(s) /\ Continuation(s[k + 1])
    /\ Continuation(s[k]) => k > 1 /\ Lead(s[k - 1])

(* The code points of valid bytes. *)
chars(s) ==
  Concat([k \in DOMAIN s |->
            IF Continuation(s[k]) THEN <<>> ELSE
            IF s[k] < 128 THEN <<s[k]>> ELSE <<(s[k] - 192) * 64 + s[k + 1] - 128>>])

(* print_char(c) shows c as u8. *)
print_char(c) == c % 256

(* What one write shows, sends and answers. *)
\* mutant: bytes that are no UTF-8 go to the serial port too
WriteSendsRaw(fd, buf) ==
  IF fd \notin {STDOUT, STDERR} THEN [screen |-> <<>>, serial |-> <<>>, answer |-> EBADF]
  ELSE IF from_utf8(buf)
  THEN [screen |-> [k \in DOMAIN chars(buf) |-> print_char(chars(buf)[k])],
        serial |-> buf, answer |-> Len(buf)]
  ELSE [screen |-> buf, serial |-> buf, answer |-> Len(buf)]

sys_write(fd, buf) ==
  IF fd \notin {STDOUT, STDERR} THEN [screen |-> <<>>, serial |-> <<>>, answer |-> EBADF]
  ELSE IF from_utf8(buf)
  THEN [screen |-> [k \in DOMAIN chars(buf) |-> print_char(chars(buf)[k])],
        serial |-> buf, answer |-> Len(buf)]
  ELSE [screen |-> buf, serial |-> <<>>, answer |-> Len(buf)]

(* The buffers are written in turn; a negative answer ends the loop. *)
\* mutant: the answer of the last buffer replaces the total
ThenLast(done, w) ==
  IF done.answer < 0 THEN done
  ELSE [screen |-> done.screen \o w.screen, serial |-> done.serial \o w.serial,
        answer |-> w.answer]

then(done, w) ==
  IF done.answer < 0 THEN done
  ELSE [screen |-> done.screen \o w.screen, serial |-> done.serial \o w.serial,
        answer |-> IF w.answer < 0 THEN w.answer ELSE done.answer + w.answer]

sys_writev(fd, iov) ==
  LET done[k \in 0 .. Len(iov)] ==
        IF k = 0 THEN [screen |-> <<>>, serial |-> <<>>, answer |-> 0]
        ELSE then(done[k - 1], sys_write(fd, iov[k]))
  IN  done[Len(iov)]

(* The program takes the first answer bytes of its data as written. *)
write_call(nr, data, w) ==
  /\ handle_syscall(nr, 0, w.screen, w.serial, w.answer)
  /\ sent' = sent \o [k \in 1 .. w.answer |-> data[k]]
  /\ UNCHANGED <<memory, fs, gs, SEED, random>>

write == \E fd \in FDs, buf \in Bufs : write_call("write", buf, sys_write(fd, buf))

writev == \E fd \in FDs, iov \in Vectors :
            write_call("writev", Concat(iov), sys_writev(fd, iov))

-----------------------------------------------------------------------------
(* Thread control, signals, files. *)

(* VirtAddr::new panics on an address that is not canonical. *)
sys_arch_prctl ==
  \/ \E b \in Bases, set_fs \in BOOLEAN :
       IF b \notin Canonical THEN stop("arch_prctl", "halted", <<>>)
       ELSE /\ handle_syscall("arch_prctl", 0, <<>>, <<>>, 0)
            /\ fs' = IF set_fs THEN b ELSE fs
            /\ gs' = IF set_fs THEN gs ELSE b
            /\ UNCHANGED <<memory, SEED, sent, random>>
  \/ \E p \in Ptrs : answer_at("get_fs", p, [o \in 0 .. 1 |-> fs[o + 1]])
  \/ \E p \in Ptrs : answer_at("get_gs", p, [o \in 0 .. 1 |-> gs[o + 1]])
  \/ only_answer("arch_prctl", 0, EINVAL)

(* The signal stubs answer 0 and fill the old value, if one is asked for. *)
signal_stub(nr, old, cells) ==
  IF old = 0 THEN only_answer(nr, 0, 0) ELSE answer_at(nr, old, cells)

sys_rt_sigaction == \E p \in Ptrs : signal_stub("rt_sigaction", p, [o \in 0 .. 7 |-> 0])

sys_rt_sigprocmask == \E p \in Ptrs : signal_stub("rt_sigprocmask", p, [o \in 0 .. 1 |-> 0])

(* ss_flags is an i32: the cell after it is padding. *)
\* mutant: ss_flags is written as the second i32
SigaltstackPacked ==
  \E p \in Ptrs :
    signal_stub("sigaltstack", p, [o \in {0, 1, 4, 5} |-> IF o = 1 THEN SS_DISABLE ELSE 0])

sys_sigaltstack ==
  \E p \in Ptrs :
    signal_stub("sigaltstack", p, [o \in {0, 1, 2, 4, 5} |-> IF o = 2 THEN SS_DISABLE ELSE 0])

(* 144 bytes are zeroed, then st_mode is set at byte 24; there is no NULL test. *)
sys_fstat ==
  \E fd \in FDs, p \in Ptrs :
    IF fd <= STDERR
    THEN answer_at("fstat", p, [o \in 0 .. 35 |-> IF o = 6 THEN S_IFCHR ELSE 0])
    ELSE only_answer("fstat", 0, EBADF)

(* read and poll and madvise answer 0, set_tid_address 1, ioctl ENOTTY. *)
other_stubs ==
  \/ only_answer("sys_read", 0, 0)
  \/ only_answer("sys_set_tid_address", 0, 1)
  \/ only_answer("sys_ioctl", 0, ENOTTY)

unhandled ==
  /\ handle_syscall("unhandled", 0, <<Notice>>, <<Notice>>, ENOSYS)
  /\ UNCHANGED <<memory, fs, gs, SEED, sent, random>>

exit == stop("exit", "exited", <<Notice>>)

-----------------------------------------------------------------------------
(* Random bytes. *)

next_seed(x) == (x * MULTIPLIER + 1) % MODULUS
RandomByte(x) == (x \div SHIFT) % 256

(* The seeds of n bytes, from a seed on. *)
Seeds(seed, n) ==
  LET at[k \in 0 .. n] == IF k = 0 THEN seed ELSE next_seed(at[k - 1]) IN at

\* mutant: every call starts from the initial seed
GetrandomReseeds ==
  \E n \in Sizes :
    /\ handle_syscall("getrandom", 0, <<>>, <<>>, n)
    /\ SEED' = Seeds(SEED0, n)[n]
    /\ random' = random \o [k \in 1 .. n |-> RandomByte(Seeds(SEED0, n)[k])]
    /\ UNCHANGED <<memory, fs, gs, sent>>

sys_getrandom ==
  \E n \in Sizes :
    /\ handle_syscall("getrandom", 0, <<>>, <<>>, n)
    /\ SEED' = Seeds(SEED, n)[n]
    /\ random' = random \o [k \in 1 .. n |-> RandomByte(Seeds(SEED, n)[k])]
    /\ UNCHANGED <<memory, fs, gs, sent>>

-----------------------------------------------------------------------------
(* The kernel has halted, or the program makes no further call. *)
idle == (status # "running" \/ calls = MaxCalls) /\ UNCHANGED calls_vars

CallsNext ==
  \/ write \/ writev \/ sys_arch_prctl \/ sys_rt_sigaction \/ sys_rt_sigprocmask
  \/ sys_sigaltstack \/ sys_fstat \/ other_stubs \/ unhandled \/ exit \/ sys_getrandom
  \/ idle

CallsSpec == CallsInit /\ [][CallsNext]_calls_vars

-----------------------------------------------------------------------------
(* Properties. *)

(* Type invariant. *)
CallsTypeOK ==
  /\ status \in {"running", "exited", "halted"}
  /\ screen \in Seq({Notice} \cup 0 .. 255) /\ serial \in Seq({Log, Notice} \cup 0 .. 223)
  /\ memory \in [1 .. CELLS -> Int]
  /\ fs \in Canonical \cup {<<0, 0>>} /\ gs \in Canonical \cup {<<0, 0>>}
  /\ SEED \in 0 .. MODULUS - 1 /\ random \in Seq(0 .. 255)
  /\ sent \in Seq(0 .. 223) /\ result \in Int /\ calls \in 0 .. MaxCalls

(* However a program divides its ASCII output over write and writev, over   *)
(* stdout and stderr and between failing calls, the screen and the serial   *)
(* port show exactly the bytes the answers acknowledged, in order.          *)
AsciiShownOnce ==
  (\A k \in DOMAIN sent : sent[k] < 128) => Text(screen) = sent /\ Text(serial) = sent

(* The serial port carries valid UTF-8 at all times: sys_write sends whole  *)
(* buffers that from_utf8 accepted, never the raw bytes it shows instead.   *)
SerialIsUtf8 == from_utf8(Text(serial))

(* The bytes getrandom gives out are one stream of the generator: SEED is   *)
(* static, so no call repeats or skips a part, whatever is called between.  *)
RandomIsOneStream ==
  random = [k \in 1 .. Len(random) |-> RandomByte(Seeds(SEED0, Len(random))[k])]

(* What a program reads back from the structure a call filled.              *)
ReadsBack(l, m) ==
  LET at(o) == m[l.ptr + o]
      zero(S) == \A o \in S : at(o) = 0
  IN  l.ptr # 0 =>
      /\ l.nr = "rt_sigaction" => zero(0 .. 7)
      /\ l.nr = "rt_sigprocmask" => zero(0 .. 1)
      /\ l.nr = "sigaltstack" => zero({0, 1, 4, 5}) /\ at(2) = SS_DISABLE
      /\ l.nr = "fstat" => zero((0 .. 35) \ {6}) /\ at(6) = S_IFCHR

SizeOf(nr) ==
  IF nr = "rt_sigaction" THEN 8 ELSE IF nr = "sigaltstack" THEN 6
  ELSE IF nr = "fstat" THEN 36 ELSE IF nr \in {"rt_sigprocmask", "get_fs", "get_gs"} THEN 2 ELSE 0

(* The stubs have "correct struct handling" (FEATURES.md:52): what a call   *)
(* fills reads back as no handler, an empty mask, no alternate stack and a  *)
(* character device, whatever the memory held, and no cell outside of the   *)
(* structure changes.                                                       *)
StructsExact ==
  [][status' = "running" /\ calls' > calls =>
       /\ ReadsBack(last', memory')
       /\ \A a \in DOMAIN memory :
            memory'[a] # memory[a] => a - last'.ptr \in 0 .. SizeOf(last'.nr) - 1]_calls_vars
=============================================================================
