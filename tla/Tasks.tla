------------------------------- MODULE Tasks -------------------------------
(***************************************************************************)
(* The task table, the round-robin scheduler, the system calls that        *)
(* schedule, SIGCHD signals, fatal faults and the keyboard wake-up of      *)
(* ChudOS (Tasks.c, Timer.c, syscall.c, signals.c, Exceptions.c,           *)
(* Keyboard.c).                                                            *)
(*                                                                         *)
(* A register frame (InterruptRegisters) is abstracted to WHOSE frame it   *)
(* is: the user registers of the program that lives in an address space,   *)
(* the idle loop of the kernel task, or a point inside a handler whose      *)
(* activation record lies on some kernel stack.  Five such points are kept *)
(* apart, because an interrupt that lands there reads or writes what the   *)
(* interrupted handler uses next:                                          *)
(*   "entry"   handle_syscall after the sti of mem_set_cr3 and before      *)
(*             pic_mask(0): timer and keyboard can land here;              *)
(*   "block"   after ProcessState := WAITING, before ForceSwitch;          *)
(*   "exec"    execve after LoadElfStrict, before regs is taken from       *)
(*             SavedRegisters;                                             *)
(*   "switch"  task_switch after TASKMGR_set_current and the sti of        *)
(*             mem_set_cr3, before the frame is loaded from SavedRegisters;*)
(*   "return"  after pic_unmask(0), before iretq: timer and keyboard.      *)
(* IRQ 0 is masked at "block", "exec" and at the "switch" of a system      *)
(* call, so only the keyboard lands there.  Everything between two such    *)
(* points is one action.                                                   *)
(*                                                                         *)
(* Of a user frame, r8 and rflags are kept apart (one field, r8): the      *)
(* signal stack has no place for them, so after a signal handler they hold *)
(* what the handler left there.                                            *)
(*                                                                         *)
(* RegisterTask zeroes the slot and never sets rflags, so every user frame *)
(* has IF = 0: a user program is interrupted only inside a handler.        *)
(***************************************************************************)
EXTENDS Naturals, Sequences

CONSTANTS
  TASK_COUNT,     \* slots of TaskManager (512 in Tasks.c)
  MaxPML4,        \* bound: address spaces created over the whole run
  KERNEL_TICKS,   \* MaxTicks of the kernel task (5 in InitMem)
  USER_PRIORITY,  \* MaxTicks of every loaded or forked task (20 in Tasks.h)
  Ops,            \* the system calls the programs of this run make
  Faults,         \* the fatal faults the programs of this run raise
  Windows         \* the points above at which an interrupt may land

AllOps == {"exit", "fork", "execve", "badexec", "wait", "read", "sigreg",
           "sigret", "other"}
AllFaults == {"pf", "gpf", "ud"}
AllWindows == {"entry", "block", "exec", "switch", "return"}

ASSUME TasksAssumption ==
  /\ TASK_COUNT \in Nat /\ TASK_COUNT >= 2
  /\ MaxPML4 \in Nat /\ MaxPML4 >= 1
  /\ KERNEL_TICKS \in Nat
  /\ USER_PRIORITY \in Nat
  /\ Ops \subseteq AllOps
  /\ Faults \subseteq AllFaults
  /\ Windows \subseteq AllWindows

VARIABLES
  TaskManager,  \* the task table
  cur_pid,      \* Tasks.c's cur_pid
  cr3,          \* the loaded address space (PML4_Physical)
  tss,          \* the kernel stack in the active TSS (rsp0)
  frame,        \* the registers the CPU is running on
  kstack,       \* per kernel stack, the activation of the handler on it
  sigstack,     \* per address space, the frames pushed on its user stack
  next_pml4,    \* the next address space Create_User_Memory returns
  freed,        \* address spaces zeroed by free_task_memory
  halted        \* KernelPanic reached its hlt loop

vars == <<TaskManager, cur_pid, cr3, tss, frame, kstack, sigstack, next_pml4,
          freed, halted>>

PID == 0 .. TASK_COUNT - 1

\* Address spaces, and the kernel stacks allocated with them: 0 is the
\* kernel's, 1 the shell's, the others are created by fork and execve.
PML4 == 0 .. MaxPML4

Context == [at : {"user", "idle", "junk"} \cup AllWindows,
            img : PML4, on : {"none", "input"}, r8 : {"own", "handler"}]

UserContext(p) == [at |-> "user", img |-> p, on |-> "none", r8 |-> "own"]
KernelContext(where, stack) ==
  [at |-> where, img |-> stack, on |-> "none", r8 |-> "own"]
Junk == [at |-> "junk", img |-> 0, on |-> "none", r8 |-> "own"]

ProcessStates == {"NULL", "CREATION", "READY", "WAITING", "KILL"}

Task == [Exists : BOOLEAN,
         ProcessState : ProcessStates,
         WaitingReason : {"NULL", "INPUT", "CHILD"},
         ChildWaitingReason : {"EXIT", "OTHER"},
         UsedTicks : Nat,
         Base_PML4 : PML4,
         rsp0 : PML4,
         Owner_PID : PID,
         SIGCHD : {"none", "ok", "bad"},
         SavedRegisters : Context]

Activation == [regs : Context, cur : PID, op : AllOps \cup {"pf"},
               owner : PID]

\* memset(&TaskManager[pid], 0, sizeof(Task))
ZeroTask ==
  [Exists |-> FALSE, ProcessState |-> "NULL", WaitingReason |-> "NULL",
   ChildWaitingReason |-> "EXIT", UsedTicks |-> 0, Base_PML4 |-> 0,
   rsp0 |-> 0, Owner_PID |-> 0, SIGCHD |-> "none", SavedRegisters |-> Junk]

\* What RegisterTask, LoadElf and LoadElfStrict leave in a slot: a zeroed
\* task with its own kernel stack, ready to run at its entry point.
LoadedTask(pml4) ==
  [ZeroTask EXCEPT !.Exists = TRUE, !.ProcessState = "READY",
                   !.Base_PML4 = pml4, !.rsp0 = pml4,
                   !.SavedRegisters = UserContext(pml4)]

\* The kernel task InitMem sets up; its frame is saved by the first timer.
KernelTask ==
  [ZeroTask EXCEPT !.Exists = TRUE, !.ProcessState = "READY"]

MaxTicks(pid) == IF pid = 0 THEN KERNEL_TICKS ELSE USER_PRIORITY

----------------------------------------------------------------------------
(* Searches of the task table                                              *)

Least(S) == CHOOSE i \in S : \A j \in S : i <= j

Runnable(tm, pid) == tm[pid].Exists /\ tm[pid].ProcessState = "READY"

\* Mutants of find_next_task: the state is not looked at; the scan starts at
\* slot 0 instead of above cur.
find_next_task_AnyState(tm, cur) ==
  LET above == {i \in PID : i > cur /\ tm[i].Exists}
  IN  IF above = {} THEN 0 ELSE Least(above)

find_next_task_FromZero(tm, cur) ==
  LET others == {i \in PID \ {cur} : Runnable(tm, i)}
  IN  IF others = {} THEN 0 ELSE Least(others)

\* The first runnable task above cur, and task 0 when there is none: the
\* scan does not wrap around to the tasks below cur.
find_next_task(tm, cur) ==
  LET above == {i \in PID : i > cur /\ Runnable(tm, i)}
  IN  IF above = {} THEN 0 ELSE Least(above)

FreePIDs(tm) == {i \in PID : ~tm[i].Exists}

\* RegisterTask's result: the first free slot, or 1 when the table is full.
RegisterTask(tm) ==
  IF FreePIDs(tm) = {} THEN 1 ELSE Least(FreePIDs(tm))

\* Tasks blocked in read(STD_IN_FD).
InputWaiters(tm) ==
  {i \in PID : /\ tm[i].Exists
               /\ tm[i].ProcessState = "WAITING"
               /\ tm[i].WaitingReason = "INPUT"}

----------------------------------------------------------------------------
(* Signals and the end of a task                                           *)

\* EstablishSignalStack and the registers SendSignal sets: a user frame now
\* enters the handler; rsp of any other frame is no user stack.
HandlerFrame(ctx) ==
  IF ctx.at = "user" THEN [ctx EXCEPT !.on = "none"] ELSE Junk

Signalled(t) ==
  [t EXCEPT !.ProcessState = "READY",
            !.SavedRegisters = HandlerFrame(t.SavedRegisters)]

\* SendSignal(pid, SIGCHD) with EstablishSignalStack: the saved frame is
\* pushed on the stack it points to, and the task resumes in its handler.
\* An entry point that is no longer accessible leaves it in CREATION.
\* What is pushed names every register but r8 and rflags: the r8 of a pushed
\* frame is never popped (see Sigret).
SendSignal(tm, pid) ==
  IF ~tm[pid].Exists \/ tm[pid].SIGCHD = "none" THEN tm
  ELSE IF tm[pid].SIGCHD = "bad"
       THEN [tm EXCEPT ![pid].ProcessState = "CREATION"]
       ELSE [tm EXCEPT ![pid] = Signalled(tm[pid])]

PushedFrame(tm, pid) ==
  IF /\ tm[pid].Exists
     /\ tm[pid].SIGCHD = "ok"
     /\ tm[pid].SavedRegisters.at = "user"
  THEN [sigstack EXCEPT
          ![tm[pid].Base_PML4] = Append(@, tm[pid].SavedRegisters)]
  ELSE sigstack

Woken(t) == [t EXCEPT !.ProcessState = "READY", !.WaitingReason = "NULL"]

\* SignalOwner: wakes an owner blocked in wait() for this very reason.
SignalOwner(tm, pid, reason) ==
  LET owner == tm[pid].Owner_PID
  IN  IF /\ owner # 0
         /\ tm[owner].ProcessState = "WAITING"
         /\ tm[owner].WaitingReason = "CHILD"
         /\ tm[owner].ChildWaitingReason = reason
      THEN [tm EXCEPT ![owner] = Woken(tm[owner])]
      ELSE tm

KillTask(tm, pid) == [tm EXCEPT ![pid].ProcessState = "KILL"]

----------------------------------------------------------------------------
(* Switching tasks                                                         *)

\* The activation record on the kernel stack the running handler is on: the
\* frame its iretq restores, the pid it was entered for, and what it serves.
act == kstack[frame.img]

\* Mutants of LeaveFor: current is changed before the registers are saved;
\* CR3 is not switched.
LeaveFor_SavesIntoNext(tm, next, regs) ==
  /\ TaskManager' = [tm EXCEPT ![next].SavedRegisters = regs]
  /\ cur_pid' = next
  /\ cr3' = tm[next].Base_PML4

LeaveFor_KeepsCR3(tm, next, regs) ==
  /\ TaskManager' = [tm EXCEPT ![cur_pid].SavedRegisters = regs]
  /\ cur_pid' = next
  /\ cr3' = cr3

\* task_switch up to the sti of mem_set_cr3: the old task's registers are
\* saved, the new task is current and its address space is loaded.
LeaveFor(tm, next, regs) ==
  /\ TaskManager' = [tm EXCEPT ![cur_pid].SavedRegisters = regs]
  /\ cur_pid' = next
  /\ cr3' = tm[next].Base_PML4

\* The rest of task_switch: the frame and the TSS come from the new task.
Arrive(pid) ==
  /\ frame' = TaskManager'[pid].SavedRegisters
  /\ tss' = TaskManager'[pid].rsp0

\* Mutant of Reaped: Exists is cleared and the slot not zeroed.
Reaped_NotZeroed(t) ==
  [t EXCEPT !.UsedTicks = 0, !.Exists = @ /\ t.ProcessState # "KILL"]

\* ForceSwitch before task_switch: a killed task's slot is zeroed.
Reaped(t) ==
  IF t.ProcessState = "KILL" THEN ZeroTask ELSE [t EXCEPT !.UsedTicks = 0]

\* ForceSwitch up to the "switch" point, in a handler on kernel stack s.
ForceSwitch(tm, regs, s) ==
  /\ LET left == [tm EXCEPT ![cur_pid] = Reaped(tm[cur_pid])]
     IN  LeaveFor(left, find_next_task(left, cur_pid), regs)
  /\ frame' = KernelContext("switch", s)
  /\ UNCHANGED tss

\* task_switch from the frame load on, up to the iretq of the handler.
\* wait() breaks out of the switch statement, so the frame just loaded is
\* saved into the caller's slot; the other calls return at once.
SwitchIn ==
  /\ ~halted
  /\ frame.at = "switch"
  /\ LET regs == TaskManager[cur_pid].SavedRegisters
     IN  /\ kstack' = [kstack EXCEPT ![frame.img].regs = regs]
         /\ tss' = TaskManager[cur_pid].rsp0
         /\ TaskManager' =
              IF act.op = "wait"
              THEN [TaskManager EXCEPT ![act.cur].SavedRegisters = regs]
              ELSE TaskManager
  /\ frame' = KernelContext("return", frame.img)
  /\ UNCHANGED <<cur_pid, cr3, sigstack, next_pml4, freed, halted>>

\* The end of every handler stub: iretq with the frame on the kernel stack.
InterruptReturn ==
  /\ ~halted
  /\ frame.at = "return"
  /\ frame' = act.regs
  /\ UNCHANGED <<TaskManager, cur_pid, cr3, tss, kstack, sigstack, next_pml4,
                 freed, halted>>

----------------------------------------------------------------------------
(* Interrupts                                                              *)

\* The CPU takes an interrupt: in the idle loop, or inside a system call at
\* a point this run considers.
Interruptible == frame.at = "idle" \/ frame.at \in Windows

\* IRQ 0 is masked there.
TimerMasked == \/ frame.at \in {"block", "exec"}
               \/ frame.at = "switch" /\ act.op # "pf"

\* The quantum of the current task is over, or it may not run on.
QuantumOver(t) ==
  \/ t.UsedTicks >= MaxTicks(cur_pid)
  \/ t.ProcessState \in {"KILL", "WAITING"}

Expired(t) ==
  IF t.ProcessState = "KILL"
  THEN [t EXCEPT !.UsedTicks = 0, !.ProcessState = "NULL", !.Exists = FALSE]
  ELSE [t EXCEPT !.UsedTicks = 0]

Ticked(t, regs) ==
  IF t.ProcessState = "CREATION" THEN t
  ELSE [t EXCEPT !.SavedRegisters = regs, !.UsedTicks = t.UsedTicks + 1]

\* TimerInterrupt.  A task in CREATION is left running.
TimerInterrupt ==
  /\ ~halted
  /\ Interruptible /\ ~TimerMasked
  /\ LET t == TaskManager[cur_pid]
         tm == [TaskManager EXCEPT ![cur_pid] = Expired(t)]
         next == find_next_task(tm, cur_pid)
     IN  IF t.ProcessState # "CREATION" /\ QuantumOver(t)
         THEN /\ LeaveFor(tm, next, frame)
              /\ Arrive(next)
              /\ freed' = IF t.ProcessState = "KILL"
                          THEN freed \cup {t.Base_PML4} ELSE freed
         ELSE /\ TaskManager' = [TaskManager EXCEPT ![cur_pid] = Ticked(t, frame)]
              /\ UNCHANGED <<cur_pid, cr3, tss, frame, freed>>
  /\ UNCHANGED <<kstack, sigstack, next_pml4, halted>>

\* HandleKeyboardInterrupt for a key that hands over no line: the registers
\* of whatever runs are saved into the current task.
KeyPressed ==
  /\ ~halted
  /\ Interruptible
  /\ TaskManager' = [TaskManager EXCEPT ![cur_pid].SavedRegisters = frame]
  /\ UNCHANGED <<cur_pid, cr3, tss, frame, kstack, sigstack, next_pml4, freed,
                 halted>>

\* The waiting task has its line and is READY.
GivenLine(t) ==
  [Woken(t) EXCEPT !.SavedRegisters = [t.SavedRegisters EXCEPT !.on = "none"]]

\* HandleKeyboardInterrupt for ENTER with a task waiting for input: the line
\* is copied to the buffer that task's saved registers name.
EnterPressed ==
  /\ ~halted
  /\ Interruptible
  /\ LET tm == [TaskManager EXCEPT ![cur_pid].SavedRegisters = frame]
         w == Least(InputWaiters(tm))
     IN  /\ InputWaiters(tm) # {}
         /\ TaskManager' = [tm EXCEPT ![w] = GivenLine(tm[w])]
  /\ UNCHANGED <<cur_pid, cr3, tss, frame, kstack, sigstack, next_pml4, freed,
                 halted>>

----------------------------------------------------------------------------
(* System calls                                                            *)

\* int 0x80 up to mem_set_cr3(..., true).
SyscallEntry(op) ==
  /\ ~halted
  /\ frame.at = "user"
  /\ op \in {"fork", "execve", "badexec"} => next_pml4 <= MaxPML4
  /\ TaskManager' = [TaskManager EXCEPT ![cur_pid].SavedRegisters = frame]
  /\ kstack' = [kstack EXCEPT
                  ![tss] = [regs |-> frame, cur |-> cur_pid, op |-> op,
                            owner |-> TaskManager[cur_pid].Owner_PID]]
  /\ cr3' = TaskManager[cur_pid].Base_PML4
  /\ frame' = KernelContext("entry", tss)
  /\ UNCHANGED <<cur_pid, tss, sigstack, next_pml4, freed, halted>>

\* The running system call is op; its locals are in act.
Running(op) ==
  /\ ~halted
  /\ frame.at = "entry"
  /\ act.op = op

\* The end of handle_syscall: regs saved once more, timer unmasked.
Return(tm, regs) ==
  /\ TaskManager' = [tm EXCEPT ![act.cur].SavedRegisters = regs]
  /\ kstack' = [kstack EXCEPT ![frame.img].regs = regs]
  /\ frame' = KernelContext("return", frame.img)
  /\ UNCHANGED <<cur_pid, tss>>

\* open, write, read of a file, close, setwfd, getwfd, getdents, sysinfo,
\* and the calls that break out early on a bad argument.
OtherSyscall ==
  /\ Running("other")
  /\ Return(TaskManager, act.regs)
  /\ UNCHANGED <<cr3, sigstack, next_pml4, freed, halted>>

Exit ==
  /\ Running("exit")
  /\ LET owner == TaskManager[act.cur].Owner_PID
         tm == IF owner # 0 THEN SendSignal(TaskManager, owner) ELSE TaskManager
     IN  /\ sigstack' = IF owner # 0 THEN PushedFrame(TaskManager, owner)
                        ELSE sigstack
         /\ ForceSwitch(KillTask(tm, act.cur), act.regs, frame.img)
  /\ UNCHANGED <<kstack, next_pml4, freed, halted>>

Blocked(t, reason) ==
  [t EXCEPT !.ProcessState = "WAITING", !.WaitingReason = reason]

\* Mutants of Read: the reason is stored in the wrong field; the state is
\* left READY.
Read_WrongField ==
  /\ Running("read")
  /\ TaskManager' = [TaskManager EXCEPT ![act.cur].ProcessState = "INPUT"]
  /\ kstack' = [kstack EXCEPT ![frame.img].regs =
                             [act.regs EXCEPT !.on = "input"]]
  /\ frame' = KernelContext("block", frame.img)
  /\ UNCHANGED <<cur_pid, cr3, tss, sigstack, next_pml4, freed, halted>>

Read_StaysReady ==
  /\ Running("read")
  /\ TaskManager' = [TaskManager EXCEPT ![act.cur].WaitingReason = "INPUT"]
  /\ kstack' = [kstack EXCEPT ![frame.img].regs =
                             [act.regs EXCEPT !.on = "input"]]
  /\ frame' = KernelContext("block", frame.img)
  /\ UNCHANGED <<cur_pid, cr3, tss, sigstack, next_pml4, freed, halted>>

\* read(STD_IN_FD) up to WaitingReason.
Read ==
  /\ Running("read")
  /\ TaskManager' = [TaskManager EXCEPT ![act.cur] = 
                        Blocked(TaskManager[act.cur], "INPUT")]
  /\ kstack' = [kstack EXCEPT ![frame.img].regs =
                             [act.regs EXCEPT !.on = "input"]]
  /\ frame' = KernelContext("block", frame.img)
  /\ UNCHANGED <<cur_pid, cr3, tss, sigstack, next_pml4, freed, halted>>

\* wait(target, reason): refused when the target is not the caller's child.
Wait ==
  /\ Running("wait")
  /\ \/ /\ \E target \in PID : TaskManager[target].Owner_PID # act.cur
        /\ Return(TaskManager, act.regs)
     \/ /\ \E target \in PID : TaskManager[target].Owner_PID = act.cur
        /\ \E reason \in {"EXIT", "OTHER"} :
             TaskManager' =
               [TaskManager EXCEPT ![act.cur] =
                  [Blocked(TaskManager[act.cur], "CHILD") EXCEPT
                     !.ChildWaitingReason = reason]]
        /\ frame' = KernelContext("block", frame.img)
        /\ UNCHANGED <<cur_pid, tss, kstack>>
  /\ UNCHANGED <<cr3, sigstack, next_pml4, freed, halted>>

\* The ForceSwitch of read and wait.
GiveUpCPU ==
  /\ ~halted
  /\ frame.at = "block"
  /\ ForceSwitch(TaskManager, act.regs, frame.img)
  /\ UNCHANGED <<kstack, sigstack, next_pml4, freed, halted>>

\* The same register values, now those of the copy of the program.
CopiedFrame(ctx, from, to) ==
  IF ctx.at = "user" /\ ctx.img = from THEN [ctx EXCEPT !.img = to] ELSE ctx

\* Mutant of ForkedTask: Create_User_Memory is not called for the child.
ForkedTask_SharedSpace(parent, owner, regs, pml4) ==
  [parent EXCEPT !.SavedRegisters = CopiedFrame(regs, parent.Base_PML4, pml4),
                 !.Exists = TRUE,
                 !.ProcessState = "READY",
                 !.Owner_PID = owner]

\* The child: a copy of the parent's slot, its TSS included, with the
\* registers of the call and an address space of its own.
ForkedTask(parent, owner, regs, pml4) ==
  [parent EXCEPT !.SavedRegisters = CopiedFrame(regs, parent.Base_PML4, pml4),
                 !.Exists = TRUE,
                 !.ProcessState = "READY",
                 !.Base_PML4 = pml4,
                 !.Owner_PID = owner]

\* fork.  The user stack, and the signal frames on it, are copied.
Fork ==
  /\ Running("fork")
  /\ next_pml4 <= MaxPML4
  /\ LET parent == TaskManager[act.cur]
         from == parent.Base_PML4
         child_pid == RegisterTask(TaskManager)
         tm == [TaskManager EXCEPT ![child_pid] =
                  ForkedTask(parent, act.cur, act.regs, next_pml4)]
     IN  /\ Return(tm, act.regs)
         /\ cr3' = tm[act.cur].Base_PML4
         /\ sigstack' =
              IF child_pid = act.cur THEN sigstack
              ELSE [sigstack EXCEPT ![next_pml4] =
                      [i \in DOMAIN sigstack[from] |->
                         CopiedFrame(sigstack[from][i], from, next_pml4)]]
  /\ next_pml4' = next_pml4 + 1
  /\ UNCHANGED <<freed, halted>>

\* execve up to free_task_memory_by_pml4(old_pml4), which leaves the kernel's
\* address space loaded: LoadElfStrict has rebuilt the slot tm[act.cur].
Reload(tm) ==
  /\ next_pml4 <= MaxPML4
  /\ TaskManager' = tm
  /\ next_pml4' = next_pml4 + 1
  /\ freed' = freed \cup {TaskManager[act.cur].Base_PML4}
  /\ cr3' = 0
  /\ frame' = KernelContext("exec", frame.img)
  /\ UNCHANGED <<cur_pid, tss, kstack, sigstack, halted>>

Execve ==
  /\ Running("execve")
  /\ Reload([TaskManager EXCEPT ![act.cur] = LoadedTask(next_pml4)])

\* execve of an executable file whose ELF header LoadElfStrict rejects: the
\* slot keeps its old address space, which is freed all the same.
BadExecve ==
  /\ Running("badexec")
  /\ Reload([TaskManager EXCEPT ![act.cur].ProcessState = "CREATION"])

Reloaded(t, owner) ==
  [t EXCEPT !.ProcessState = "READY", !.Owner_PID = owner]

\* The rest of execve: regs is loaded from SavedRegisters.
ExecReturn ==
  /\ ~halted
  /\ frame.at = "exec"
  /\ ForceSwitch([TaskManager EXCEPT ![act.cur] =
                    Reloaded(TaskManager[act.cur], act.owner)],
                 TaskManager[act.cur].SavedRegisters, frame.img)
  /\ UNCHANGED <<kstack, sigstack, next_pml4, freed, halted>>

\* Mutant of RegisterSignal: mem_access_ok is not called.
RegisterSignal_Unchecked(tm, pid, accessible) ==
  [tm EXCEPT ![pid].SIGCHD = IF accessible THEN "ok" ELSE "bad"]

\* sigreg(SIGCHD, entry): refused when the entry is not in the caller's
\* memory.
RegisterSignal(tm, pid, accessible) ==
  IF accessible THEN [tm EXCEPT ![pid].SIGCHD = "ok"] ELSE tm

Sigreg ==
  /\ Running("sigreg")
  /\ \E accessible \in BOOLEAN :
       Return(RegisterSignal(TaskManager, act.cur, accessible), act.regs)
  /\ UNCHANGED <<cr3, sigstack, next_pml4, freed, halted>>

\* SignalReturn writes over the saved registers what EstablishSignalStack
\* pushed.  r8 and rflags are not among it: they stay as the handler has
\* them at its sigret, which may be as they were when it was entered.
PoppedFrame(pushed, saved, kept) ==
  [pushed EXCEPT !.r8 = IF kept THEN saved.r8 ELSE "handler"]

\* sigret: SignalReturn pops the interrupted frame from the stack the SAVED
\* registers name (r12).  With no frame there the program gets registers of
\* its own making.
Sigret ==
  /\ Running("sigret")
  /\ LET t == TaskManager[act.cur]
         pushed == sigstack[t.Base_PML4]
     IN  \/ /\ t.SavedRegisters.at = "user"
            /\ pushed # <<>>
            /\ \E kept \in BOOLEAN :
                 Return([TaskManager EXCEPT ![act.cur].ProcessState = "READY"],
                        PoppedFrame(pushed[Len(pushed)], t.SavedRegisters,
                                    kept))
            /\ sigstack' = [sigstack EXCEPT
                              ![t.Base_PML4] = SubSeq(@, 1, Len(@) - 1)]
         \/ /\ t.SavedRegisters.at = "user"
            /\ pushed = <<>>
            /\ Return([TaskManager EXCEPT ![act.cur].ProcessState = "READY"],
                      [t.SavedRegisters EXCEPT !.on = "none"])
            /\ UNCHANGED sigstack
         \/ /\ t.SavedRegisters.at # "user"
            /\ Return([TaskManager EXCEPT ![act.cur].ProcessState = "READY"],
                      Junk)
            /\ UNCHANGED sigstack
  /\ UNCHANGED <<cr3, next_pml4, freed, halted>>

----------------------------------------------------------------------------
(* Fatal faults of a user program                                          *)

\* HandlePageFault outside the task's regions.
PageFaultKill ==
  /\ ~halted
  /\ frame.at = "user"
  /\ LET saved == [TaskManager EXCEPT ![cur_pid].SavedRegisters = frame]
     IN  ForceSwitch(SignalOwner(KillTask(saved, cur_pid), cur_pid, "EXIT"),
                     frame, tss)
  /\ kstack' = [kstack EXCEPT ![tss] = [regs |-> frame, cur |-> cur_pid,
                                       op |-> "pf", owner |-> 0]]
  /\ freed' = freed \cup {TaskManager[cur_pid].Base_PML4}
  /\ UNCHANGED <<sigstack, next_pml4, halted>>

\* KernelPanic: the machine stops in its hlt loop.
KernelPanic ==
  /\ halted' = TRUE
  /\ UNCHANGED <<TaskManager, cur_pid, cr3, tss, frame, kstack, sigstack,
                 next_pml4, freed>>

\* GeneralProtectionFault: ForceSwitch works on a local copy of the frame,
\* so the stub's iretq still returns with the faulting program's registers.
GeneralProtectionFault ==
  /\ ~halted
  /\ frame.at = "user"
  /\ cur_pid # 0
  /\ LET killed == [TaskManager EXCEPT ![cur_pid] = ZeroTask]
         next == find_next_task(killed, cur_pid)
     IN  /\ LeaveFor(killed, next, frame)
         /\ tss' = TaskManager'[next].rsp0
  /\ UNCHANGED <<frame, kstack, sigstack, next_pml4, freed, halted>>

\* GeneralProtectionFault and InvalidOpcode of a program that runs on as task
\* 0, after a fault that "killed" it.
FaultAsTask0 ==
  /\ ~halted
  /\ frame.at = "user"
  /\ cur_pid = 0
  /\ KernelPanic

\* InvalidOpcode, and what its stub does next: invalid_opcode_stub does not
\* pop the dummy error code, so its iretq takes a return address for CS and
\* raises #GP in the kernel, which kills the new current task and returns to
\* the same iretq, until task 0 is current and GeneralProtectionFault panics.
InvalidOpcode ==
  /\ ~halted
  /\ frame.at = "user"
  /\ cur_pid # 0
  /\ TaskManager' =
       [p \in PID |->
          IF p = cur_pid \/ (p > cur_pid /\ Runnable(TaskManager, p))
          THEN [ZeroTask EXCEPT !.SavedRegisters =
                  IF p = cur_pid THEN frame ELSE Junk]
          ELSE TaskManager[p]]
  /\ cur_pid' = 0
  /\ cr3' = TaskManager[0].Base_PML4
  /\ tss' = TaskManager[0].rsp0
  /\ halted' = TRUE
  /\ UNCHANGED <<frame, kstack, sigstack, next_pml4, freed>>

----------------------------------------------------------------------------
(* The system from the moment SetUpShell enters its idle loop              *)

Init ==
  /\ TaskManager = [p \in PID |-> IF p = 0 THEN KernelTask
                                  ELSE IF p = 1 THEN LoadedTask(1)
                                  ELSE ZeroTask]
  /\ cur_pid = 0
  /\ cr3 = 0
  /\ tss = 0
  /\ frame = [at |-> "idle", img |-> 0, on |-> "none", r8 |-> "own"]
  /\ kstack = [s \in PML4 |-> [regs |-> Junk, cur |-> 0, op |-> "other",
                              owner |-> 0]]
  /\ sigstack = [p \in PML4 |-> <<>>]
  /\ next_pml4 = 2
  /\ freed = {}
  /\ halted = FALSE

Interrupt == TimerInterrupt \/ KeyPressed \/ EnterPressed

\* The rest of the system call in progress.
SyscallStep ==
  \/ OtherSyscall \/ Exit \/ Read \/ Wait \/ Fork \/ Execve \/ BadExecve
  \/ Sigreg \/ Sigret \/ GiveUpCPU \/ ExecReturn \/ SwitchIn
  \/ InterruptReturn

Fault ==
  \/ "pf" \in Faults /\ PageFaultKill
  \/ "gpf" \in Faults /\ GeneralProtectionFault
  \/ "ud" \in Faults /\ InvalidOpcode
  \/ Faults \cap {"gpf", "ud"} # {} /\ FaultAsTask0

Next ==
  \/ Interrupt
  \/ \E op \in Ops : SyscallEntry(op)
  \/ SyscallStep
  \/ Fault

Spec == Init /\ [][Next]_vars

\* The timer ticks for ever, a handler that has begun runs on, and no more:
\* nothing is assumed of what programs or the user at the keyboard do.
MachineFairness == WF_vars(TimerInterrupt) /\ WF_vars(SyscallStep)

FairSpec == Spec /\ MachineFairness

----------------------------------------------------------------------------
(* Properties                                                              *)

\* What the handlers leave in the task table, on the kernel stacks and in
\* the CPU's registers.
TypeOK ==
  /\ TaskManager \in [PID -> Task]
  /\ cur_pid \in PID
  /\ cr3 \in PML4
  /\ tss \in PML4
  /\ frame \in Context
  /\ kstack \in [PML4 -> Activation]
  /\ sigstack \in [PML4 -> Seq(Context)]
  /\ next_pml4 \in 2 .. MaxPML4 + 1
  /\ freed \subseteq PML4
  /\ halted \in BOOLEAN

\* Whatever programs call, and wherever interrupts land, the task the CPU
\* runs for exists, is READY (or is just blocking in read or wait), and its
\* own address space is in CR3 (the kernel's while execve replaces it).
CurrentIsRunnable ==
  /\ TaskManager[cur_pid].Exists
  /\ \/ TaskManager[cur_pid].ProcessState = "READY"
     \/ TaskManager[cur_pid].ProcessState = "WAITING" /\ frame.at = "block"
     \/ TaskManager[cur_pid].ProcessState = "CREATION" /\ frame.at = "exec"
  /\ frame.at # "exec" => cr3 = TaskManager[cur_pid].Base_PML4

\* find_next_task falls back on task 0 without looking at it: task 0 must
\* exist and be READY, and no other task may be left in CREATION, KILL or
\* NULL, from which no handler ever takes it back to READY or frees it.
NoTaskInLimbo ==
  /\ Runnable(TaskManager, 0)
  /\ \A p \in PID : TaskManager[p].Exists =>
       \/ TaskManager[p].ProcessState = "READY"
       \/ /\ TaskManager[p].ProcessState = "WAITING"
          /\ TaskManager[p].WaitingReason # "NULL"
       \/ p = cur_pid /\ frame.at = "exec"

\* No two tasks have the same page tables, so nothing but the kernel half
\* is shared by construction.
PrivateAddressSpaces ==
  \A p, q \in PID :
    /\ TaskManager[p].Exists
    /\ TaskManager[q].Exists
    /\ p # q
    => TaskManager[p].Base_PML4 # TaskManager[q].Base_PML4

\* A frame is task p's own: user registers of the program in its address
\* space, the idle loop for task 0, or a point in a handler that serves p or
\* is about to return to p.
ProgramOf(ctx, p) ==
  \/ ctx.at = "user" /\ ctx.img = TaskManager[p].Base_PML4
  \/ ctx.at = "idle" /\ p = 0

BelongsTo(ctx, p) ==
  \/ ProgramOf(ctx, p)
  \/ /\ ctx.at \in {"entry", "block"}
     /\ kstack[ctx.img].cur = p
     /\ ProgramOf(kstack[ctx.img].regs, p)
  \/ ctx.at = "return" /\ ProgramOf(kstack[ctx.img].regs, p)

\* Every task that is not on the CPU has its own registers saved, and the
\* CPU runs the current task's (or is about to load them): a program only
\* ever continues where it was itself interrupted, with the registers of no
\* other program.  After a signal handler r8 and rflags are the handler's,
\* which is the program's own too: that they are the interrupted ones again
\* is SignalsKeepRegisters.
ContextIntegrity ==
  \A p \in PID : TaskManager[p].Exists =>
    IF p # cur_pid \/ frame.at \in {"switch", "exec"}
    THEN BelongsTo(TaskManager[p].SavedRegisters, p)
    ELSE BelongsTo(frame, p)

\* The order in which signals.c says it pushes the registers has r8 in it: a
\* program continues after its signal handler with the r8 it had before.
SignalsKeepRegisters == frame.at = "user" => frame.r8 = "own"

\* A parent that blocks in wait() with a SIGCHD handler registered still
\* has a child whose exit will wake it: the exit cannot have come first.
\* (execve clears Owner_PID while it rebuilds the slot, and restores it.)
NoLostWakeup ==
  \A p \in PID \ {0} :
    /\ TaskManager[p].Exists
    /\ TaskManager[p].ProcessState = "WAITING"
    /\ TaskManager[p].WaitingReason = "CHILD"
    /\ TaskManager[p].SIGCHD = "ok"
    /\ frame.at # "exec"
    => \E c \in PID : TaskManager[c].Exists /\ TaskManager[c].Owner_PID = p

\* read(STD_IN_FD) returns to the program only with a line from ENTER.
ReadReturnsALine == frame.at = "user" => frame.on # "input"

\* CR3 never holds page tables that free_task_memory has zeroed.
LoadedSpaceIntact == cr3 \notin freed

\* Every existing task has a kernel stack of its own in its TSS.
PrivateKernelStacks ==
  \A p, q \in PID :
    /\ TaskManager[p].Exists
    /\ TaskManager[q].Exists
    /\ p # q
    => TaskManager[p].rsp0 # TaskManager[q].rsp0

\* fork puts the child into a free slot: the program in another task's slot
\* is never replaced while that task exists.
ForkTakesAFreeSlot ==
  [][\A p \in PID \ {cur_pid} :
       TaskManager[p].Exists /\ TaskManager'[p].Exists =>
         TaskManager'[p].Base_PML4 = TaskManager[p].Base_PML4]_vars

\* A fatal fault ends the faulting task and no other.
FaultKillsOnlyItself ==
  [][\A p \in PID \ {cur_pid} :
       TaskManager[p].Exists => TaskManager'[p].Exists]_vars

\* RegisterTask leaves IF clear in rflags, so no timer interrupts a program:
\* the round robin works for programs that give up the CPU, and while the
\* kernel task, on which it falls back, lives.
ProgramsGiveWay == \A q \in PID : []<>(cur_pid # q \/ frame.at = "idle")

KernelLives == [](~halted /\ Runnable(TaskManager, 0))

EveryReadyTaskRuns ==
  \A p \in PID : Runnable(TaskManager, p) ~>
                   (cur_pid = p \/ ~Runnable(TaskManager, p))

\* Every task that is READY gets the CPU, as long as each task that has it
\* gives it up again.
ReadyTasksRun == ProgramsGiveWay /\ KernelLives => EveryReadyTaskRuns

\* A parent in wait() resumes once it has no children left.
WaitEnds ==
  \A p \in PID \ {0} :
    /\ TaskManager[p].ProcessState = "WAITING"
    /\ TaskManager[p].WaitingReason = "CHILD"
    /\ \A c \in PID : TaskManager[c].Owner_PID # p
    ~> TaskManager[p].ProcessState # "WAITING"
=============================================================================
