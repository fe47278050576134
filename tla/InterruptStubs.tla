--------------------------- MODULE InterruptStubs ---------------------------
(***************************************************************************)
(* The assembly stubs of interrupt_stubs.s, instruction by instruction, on *)
(* the stacks of the kernel: what the processor pushes, what check_cpl,    *)
(* push_regs and pop_regs do to it, the structure InterruptRegisters the C *)
(* handler gets a pointer to, and iretq.                                   *)
(*                                                                         *)
(* A handler may rewrite the structure (task_switch) and may turn          *)
(* interrupts on (mem_set_cr3(..., true)), so that the rest of the stub    *)
(* can itself be interrupted.  Addresses count words and grow upwards; rip *)
(* is At(v, i) at instruction i of stub v.                                 *)
(***************************************************************************)
EXTENDS Integers, Sequences, SequencesExt

CONSTANTS
  STACK,      \* words of each of the four stacks
  Vectors,    \* gates in use, see AllVectors
  Selectors,  \* error codes of general protection faults, see ErrorCodes
  MaxDepth    \* bound: interrupts that interrupt one another; the stacks hold them

IRQs == {"timer", "sync_time", "keyboard", "ahci", "floppy"}
AllVectors == IRQs \cup {"isr80", "gpf", "page_fault", "invalid_opcode"}

\* A stub uses at most 24 words, and the processor aligns its stack.  Kernel
\* stacks have five pages (KernelStackPageCount).
ASSUME InterruptStubsAssumption ==
  /\ STACK \in Nat /\ STACK % 2 = 0
  /\ Vectors \subseteq AllVectors
  /\ Selectors \subseteq Nat
  /\ MaxDepth \in Nat \ {0} /\ 26 * MaxDepth + 2 <= STACK

VARIABLES
  reg,      \* the processor's registers
  ram,      \* the words of the stacks
  owed,     \* per interrupt in progress: its vector, and the registers to go back to
  called    \* the structure a handler was called with, and what it should be

stubvars == <<reg, ram, owed, called>>

----------------------------------------------------------------------------
(* Registers and code                                                      *)

\* In the order push_regs has them.
Pushed == <<"rax", "rcx", "rdx", "rbx", "rbp", "rsi", "rdi", "r8", "r9", "r10",
            "r11", "r12", "r13", "r14", "r15">>
GPR == Range(Pushed)
Frame == <<"rip", "cs", "rflags", "rsp", "ss">>
Registers == GPR \cup Range(Frame)

\* InterruptRegisters, from its lowest word.
Struct == <<"int_no", "cr2", "r15", "r14", "r13", "r12", "r11", "r10", "r9", "r8", "rdi",
            "rsi", "rbp", "rbx", "rdx", "rcx", "rax", "error_code",
            "rip", "cs", "rflags", "rsp", "ss">>

KERNEL_CS == 8
USER_CS == 27

Number == [isr80 |-> 0, gpf |-> 1, page_fault |-> 2, invalid_opcode |-> 3, timer |-> 4,
           sync_time |-> 5, keyboard |-> 6, ahci |-> 7, floppy |-> 8]

At(v, i) == 1000 + 100 * Number[v] + i

\* An instruction, and its operand: a register's name or a number of words.
Op(name) == [op |-> name, r |-> "none", n |-> 0]
OpR(name, r) == [op |-> name, r |-> r, n |-> 0]
OpN(name, n) == [op |-> name, r |-> "none", n |-> n]

\* Mutant of push_regs: rcx and rdx change places.
push_regs_Swapped ==
  LET order == <<"rax", "rdx", "rcx">> \o SubSeq(Pushed, 4, 15)
  IN  [i \in 1 .. 15 |-> OpR("push", order[i])]

push_regs == [i \in 1 .. 15 |-> OpR("push", Pushed[i])]

\* Mutant of pop_regs: r15 is not restored.
pop_regs_NoR15 == [i \in 1 .. 14 |-> OpR("pop", Pushed[15 - i])]

pop_regs == [i \in 1 .. 15 |-> OpR("pop", Pushed[16 - i])]

\* The processor pushes an error code itself for these.
HasError == {"gpf", "page_fault"}

\* Stubs that push a zero in its place, and stubs that skip it at the end.
PushesError == {"isr80", "invalid_opcode", "timer", "keyboard", "floppy"}
SkipsError == (HasError \cup PushesError) \ {"invalid_opcode"}

Code(v) ==
  << Op(IF v \in HasError THEN "check_cpl_err" ELSE "check_cpl") >>
    \o (IF v \in PushesError THEN << OpN("pushc", 0) >> ELSE << >>)
    \o push_regs
    \o << Op("cr2"), OpR("push", "rax"), OpN("pushc", Number[v]), Op("rdi"),
          Op("call"), Op("handler"), OpN("add", 2) >>
    \o pop_regs
    \o (IF v \in SkipsError THEN << OpN("add", 1) >> ELSE << >>)
    \o (IF v = "gpf" THEN << Op("sti") >> ELSE << >>)
    \o << Op("iretq") >>

\* The instruction the processor is at, in a stub.
InStub == reg["rip"] >= 1000
Here == CHOOSE v \in AllVectors : Number[v] = (reg["rip"] - 1000) \div 100
Instruction == Code(Here)[reg["rip"] % 100]

----------------------------------------------------------------------------
(* Stacks                                                                  *)

\* What each is the top of: the task's kernel stack, TSS.rsp0; two stacks
\* of the interrupt stack table; the one the kernel started on.
RSP0 == STACK
IST1 == 2 * STACK
IST4 == 3 * STACK
BOOT == 4 * STACK

Address == 0 .. BOOT - 1

\* The machine m, registers and memory, after a push.
Push(m, w) ==
  [ram |-> [m.ram EXCEPT ![m.reg["rsp"] - 1] = w],
   reg |-> [m.reg EXCEPT !["rsp"] = @ - 1]]

Top(m, i) == m.ram[m.reg["rsp"] + i]

\* Words no stack pointer leads to any more.
Forgotten(mem, rsp) ==
  [a \in Address |-> IF a >= rsp /\ a \div STACK = rsp \div STACK THEN mem[a] ELSE 0]

\* Mutant of FromKernel: the saved CS is tested.
FromKernel_TestsCS(m, err) == Top(m, IF err THEN 2 ELSE 1) = KERNEL_CS

\* check_cpl looks for the kernel's code segment in the word on top, which
\* is the saved rip, or the error code.  A general protection fault about
\* the kernel's own selector, 8, has the error code 8.
FromKernel(m, err) == Top(m, 0) = KERNEL_CS

\* With rax pushed: the saved words again, with a stack pointer and SS the
\* processor is taken not to have pushed.  The offsets are those of the code.
Shifted(m, err) ==
  LET n == IF err THEN 5 ELSE 4
      one == Push(Push(m, m.reg["rax"]), 16)
      two == Push(one, one.reg["rsp"])
  IN  FoldLeft(LAMBDA acc, i : Push(acc, Top(acc, n)), two,
               [i \in 1 .. IF err THEN 4 ELSE 3 |-> i])

check_cpl(m, err) == IF FromKernel(m, err) THEN Shifted(m, err) ELSE m

----------------------------------------------------------------------------
(* The processor                                                           *)

User(n) ==
  [r \in Registers |->
     CASE r = "rip" -> n [] r = "cs" -> USER_CS [] r = "rflags" -> 0
       [] r = "rsp" -> 700 + n [] r = "ss" -> 35
       [] OTHER -> 100 * n + (CHOOSE i \in 1 .. 15 : Pushed[i] = r)]

\* The loop SetUpShell ends in, on the stack the kernel started on, which
\* does not have to be aligned there.
Idle ==
  [User(3) EXCEPT !["cs"] = KERNEL_CS, !["rflags"] = 1, !["rsp"] = BOOT - 1, !["ss"] = 16]

\* The stack a gate uses: IST, TSS.rsp0 from user mode, or the one in use;
\* in 64-bit mode the processor aligns it to 16 bytes and always pushes SS
\* and RSP.
GateStack(v) ==
  IF v \in {"gpf", "invalid_opcode"} THEN IST4
  ELSE IF v = "sync_time" THEN IST1
  ELSE IF reg["cs"] = USER_CS THEN RSP0
  ELSE reg["rsp"] - (reg["rsp"] % 2)

\* The error codes the processor pushes: of a page fault whether the page was
\* present, written and used from user mode, of a general protection fault
\* the selector a program tried to load, or 0.
ErrorCodes(v) == CASE v = "gpf" -> Selectors [] v = "page_fault" -> 0 .. 7 [] OTHER -> {0}

\* Gates 0xEF and 0x8F leave the interrupt flag alone.
TrapGates == {"isr80", "floppy"}

\* The processor pushes the five registers, and its error code, at once.
Interrupt(v, err) ==
  LET top == GateStack(v)
  IN  /\ Len(owed) < MaxDepth
      /\ reg' = [reg EXCEPT !["rsp"] = top - (IF v \in HasError THEN 6 ELSE 5),
                            !["rip"] = At(v, 1),
                            !["cs"] = KERNEL_CS, !["ss"] = 0,
                            !["rflags"] = IF v \in TrapGates THEN @ ELSE 0]
      /\ ram' = [a \in Address |->
                   CASE a \in top - 5 .. top - 1 -> reg[Frame[a - top + 6]]
                     [] v \in HasError /\ a = top - 6 -> err
                     [] OTHER -> ram[a]]
      /\ owed' = Append(owed, [vector |-> v, to |-> reg])
      /\ UNCHANGED called

\* System calls, and the faults of programs; the kernel itself faults only
\* where it uses a program's memory, in a system call.
Raised(v) ==
  CASE v \in IRQs -> reg["rflags"] = 1
    [] v = "page_fault" -> \/ reg["cs"] = USER_CS
                           \/ InStub /\ Here = "isr80" /\ Instruction.op = "handler"
    [] OTHER -> reg["cs"] = USER_CS

Deliver == \E v \in Vectors : \E err \in ErrorCodes(v) : Raised(v) /\ Interrupt(v, err)

----------------------------------------------------------------------------
(* A stub                                                                  *)

\* The machine after an instruction other than handler and iretq.
Executed(m, c) ==
  LET next == [m EXCEPT !.reg["rip"] = @ + 1]
  IN  CASE c.op = "check_cpl" -> check_cpl(next, FALSE)
        [] c.op = "check_cpl_err" -> check_cpl(next, TRUE)
        [] c.op = "push" -> Push(next, m.reg[c.r])
        [] c.op = "pushc" -> Push(next, c.n)
        [] c.op = "pop" -> [next EXCEPT !.reg[c.r] = Top(m, 0), !.reg["rsp"] = @ + 1]
        [] c.op = "cr2" -> [next EXCEPT !.reg["rax"] = 0]
        [] c.op = "rdi" -> [next EXCEPT !.reg["rdi"] = m.reg["rsp"]]
        [] c.op = "add" -> [next EXCEPT !.reg["rsp"] = @ + c.n]
        [] c.op = "sti" -> [next EXCEPT !.reg["rflags"] = 1]
        [] c.op = "call" -> Push(next, next.reg["rip"] + 1)

\* Handlers that read the structure; SyncTime, HandleAHCIInterrupt and
\* FLOPPY_IRQ do not, and two of their stubs leave out the error code.
Readers == Vectors \ {"sync_time", "ahci", "floppy"}

\* Handlers that reach task_switch with the structure itself:
\* GeneralProtectionFault and InvalidOpcode switch a copy.
Switchers == {"isr80", "page_fault", "timer"}

StructAt(a) == [i \in 1 .. Len(Struct) |-> IF a + i - 1 \in Address THEN ram[a + i - 1] ELSE -1]

\* The words of the structure that hold a register.
IsField(i) == i \in 1 .. Len(Struct) /\ Struct[i] \in Registers

Step ==
  LET after == Executed([reg |-> reg, ram |-> ram], Instruction)
  IN  /\ InStub /\ Instruction.op \notin {"handler", "iretq"}
      /\ reg' = after.reg /\ ram' = after.ram
      /\ called' = IF Instruction.op = "call" /\ Here \in Readers
                   THEN << StructAt(reg["rdi"]), Last(owed).to >> ELSE << >>
      /\ UNCHANGED owed

\* mem_set_cr3(..., true) in a handler.
TurnOn ==
  /\ InStub /\ Instruction.op = "handler" /\ Here \in Readers
  /\ reg' = [reg EXCEPT !["rflags"] = 1]
  /\ called' = << >>
  /\ UNCHANGED <<ram, owed>>

\* The C function returns, the registers it may use changed.  One that
\* switches tasks has put another task's registers into the structure.
Handler(to) ==
  LET a == reg["rdi"]
  IN  /\ InStub /\ Instruction.op = "handler"
      /\ to # Last(owed).to => Here \in Switchers
      /\ ram' = [x \in Address |->
                   IF to # Last(owed).to /\ IsField(x - a + 1) THEN to[Struct[x - a + 1]] ELSE ram[x]]
      /\ reg' = [reg EXCEPT !["rip"] = ram[reg["rsp"]], !["rsp"] = @ + 1,
                            !["rax"] = 0, !["rcx"] = 0, !["rdx"] = 0, !["rdi"] = 0]
      /\ owed' = [owed EXCEPT ![Len(owed)].to = to]
      /\ called' = << >>

\* Back to user mode, whatever else was in progress is left to task_switch.
iretq ==
  LET popped == [reg EXCEPT !["rip"] = ram[reg["rsp"]],
                            !["cs"] = ram[reg["rsp"] + 1],
                            !["rflags"] = ram[reg["rsp"] + 2],
                            !["rsp"] = ram[reg["rsp"] + 3],
                            !["ss"] = ram[reg["rsp"] + 4]]
  IN  /\ InStub /\ Instruction.op = "iretq"
      /\ reg' = popped
      /\ ram' = Forgotten(ram, popped["rsp"])
      /\ owed' = IF popped["cs"] = USER_CS THEN << >> ELSE Front(owed)
      /\ called' = << >>

Init ==
  /\ reg \in {Idle, User(1)}
  /\ ram = [a \in Address |-> 0]
  /\ owed = << >>
  /\ called = << >>

Next ==
  \/ Deliver
  \/ Step
  \/ TurnOn
  \/ owed # << >> /\ \E to \in {User(2), Last(owed).to} : Handler(to)
  \/ iretq

Spec == Init /\ [][Next]_stubvars

----------------------------------------------------------------------------
(* Properties                                                              *)

\* What the properties are about: gates whose stubs return what they pushed,
\* as invalid_opcode_stub leaves the error code on the stack, see SkipsError,
\* and no program that loads the kernel's code selector, as check_cpl_err
\* takes the error code it gets for the kernel's CS, see FromKernel.
Returning == "invalid_opcode" \notin Vectors /\ KERNEL_CS \notin Selectors

\* The processor is in user mode, in the kernel's loop or at an instruction
\* of a stub, and its stack pointer on one of the stacks.
StubTypeOK ==
  /\ DOMAIN reg = Registers /\ DOMAIN ram = Address
  /\ reg["cs"] \in {KERNEL_CS, USER_CS} /\ reg["rflags"] \in {0, 1}
  /\ reg["cs"] = KERNEL_CS => reg["rsp"] - 1 \in Address
  /\ InStub => reg["rip"] % 100 \in 1 .. Len(Code(Here))
  /\ Len(owed) <= MaxDepth

\* handle_syscall, TimerInterrupt, HandlePageFault and GeneralProtectionFault
\* read in every register's field what the register held when the interrupt
\* came, whether it came from a program, the kernel's loop or another stub.
HandlerSeesFrame ==
  called # << >> =>
    \A i \in 1 .. Len(Struct) : Struct[i] \in Registers => called[1][i] = called[2][Struct[i]]

\* Whatever interrupted whatever, iretq goes back with every register as it
\* was, or as the handler's switch wants it, and the stack pointer where it
\* was: no stub pops a word more or less than it and the processor pushed.
ReturnsToFrame ==
  [][Len(owed') < Len(owed) => reg' = Last(owed).to]_stubvars
=============================================================================
