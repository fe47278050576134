-------------------------- MODULE SchedulerProofs --------------------------
(***************************************************************************)
(* The scheduler of Tasks.tla, for every size of the task table, every     *)
(* number of address spaces and every quantum: every variable keeps its    *)
(* type, the task that has the CPU can run in the address space that is    *)
(* loaded, no task is stranded, and no two tasks share page tables.        *)
(*                                                                         *)
(* The invariants are not inductive by themselves.  A handler makes a task *)
(* current because of what find_next_task saw in the table, returns with a *)
(* frame that was saved by some earlier handler, and acts on the pid it    *)
(* was entered for; so the strengthening speaks of all saved frames, of    *)
(* the frames on the kernel stacks, and of that pid.                       *)
(***************************************************************************)
EXTENDS Tasks, WellFoundedInduction, SequenceTheorems, TLAPS

----------------------------------------------------------------------------
(* The searches of the task table                                          *)

\* A non-empty set of slots has a first one, and Least is it: the scans of
\* find_next_task, FindFreePID and GetWaitingProgram return a slot.
LEMMA LeastIsFirst ==
  ASSUME NEW S, S \subseteq Nat, S # {}
  PROVE  Least(S) \in S /\ \A j \in S : Least(S) <= j
<1>1. PICK x \in S : \A y \in S : ~(<<y, x>> \in OpToRel(<, Nat))
  BY NatLessThanWellFounded, WFMin
<1>2. \A y \in S : x <= y
  <2>1. SUFFICES ASSUME NEW y \in S PROVE x <= y
    OBVIOUS
  <2>2. ~(<<y, x>> \in OpToRel(<, Nat))
    BY <1>1
  <2>3. ~(y < x)
    BY <2>2 DEF OpToRel
  <2> QED
    BY <2>3
<1> QED
  BY <1>1, <1>2 DEF Least

\* find_next_task returns task 0 or a runnable task above the current one.
LEMMA NextTask ==
  ASSUME NEW tm, NEW cur \in PID
  PROVE  /\ find_next_task(tm, cur) \in PID
         /\ \/ find_next_task(tm, cur) = 0
            \/ /\ Runnable(tm, find_next_task(tm, cur))
               /\ find_next_task(tm, cur) > cur
<1> DEFINE above == {i \in PID : i > cur /\ Runnable(tm, i)}
<1>1. 0 \in PID
  BY TasksAssumption DEF PID
<1>2. CASE above = {}
  BY <1>1, <1>2 DEF find_next_task
<1>3. CASE above # {}
  <2>1. above \subseteq Nat
    BY DEF PID
  <2>2. Least(above) \in above
    BY <1>3, <2>1, LeastIsFirst
  <2>3. find_next_task(tm, cur) = Least(above)
    BY <1>3 DEF find_next_task
  <2> QED
    BY <2>2, <2>3
<1> QED
  BY <1>2, <1>3

\* RegisterTask returns a free slot, or slot 1 when there is none.
LEMMA RegisteredSlot ==
  ASSUME NEW tm
  PROVE  /\ RegisterTask(tm) \in PID
         /\ RegisterTask(tm) = 1 \/ ~tm[RegisterTask(tm)].Exists
<1>1. 1 \in PID
  BY TasksAssumption DEF PID
<1>2. CASE FreePIDs(tm) = {}
  BY <1>1, <1>2 DEF RegisterTask
<1>3. CASE FreePIDs(tm) # {}
  <2>1. FreePIDs(tm) \subseteq Nat
    BY DEF FreePIDs, PID
  <2>2. Least(FreePIDs(tm)) \in FreePIDs(tm)
    BY <1>3, <2>1, LeastIsFirst
  <2>3. RegisterTask(tm) = Least(FreePIDs(tm))
    BY <1>3 DEF RegisterTask
  <2> QED
    BY <2>2, <2>3 DEF FreePIDs
<1> QED
  BY <1>2, <1>3

\* ENTER wakes a task that waits for input.
LEMMA FirstWaiter ==
  ASSUME NEW tm, InputWaiters(tm) # {}
  PROVE  Least(InputWaiters(tm)) \in InputWaiters(tm)
<1>1. InputWaiters(tm) \subseteq Nat
  BY DEF InputWaiters, PID
<1> QED
  BY <1>1, LeastIsFirst

----------------------------------------------------------------------------
(* Type correctness                                                        *)

Table == [PID -> Task]

\* The kernel's slot and stack, and those of the shell, exist.
LEMMA BaseTypes ==
  0 \in PID /\ 1 \in PID /\ 0 \in PML4 /\ 1 \in PML4
BY TasksAssumption DEF PID, PML4

\* The contexts the handlers build are contexts.
LEMMA ContextTypes ==
  /\ Junk \in Context
  /\ \A p \in PML4 : UserContext(p) \in Context
  /\ \A w \in AllWindows, s \in PML4 : KernelContext(w, s) \in Context
  /\ \A c \in Context, p, q \in PML4 : CopiedFrame(c, p, q) \in Context
  /\ \A c \in Context : [c EXCEPT !.on = "none"] \in Context
  /\ \A c \in Context : [c EXCEPT !.on = "input"] \in Context
BY BaseTypes DEF Context, Junk, UserContext, KernelContext, CopiedFrame,
                 AllWindows

\* What sigret loads is the pushed frame but for r8.
LEMMA PoppedType ==
  ASSUME NEW c \in Context, NEW d \in Context, NEW kept \in BOOLEAN
  PROVE  /\ PoppedFrame(c, d, kept) \in Context
         /\ PoppedFrame(c, d, kept).at = c.at
         /\ PoppedFrame(c, d, kept).img = c.img
         /\ PoppedFrame(c, d, kept).on = c.on
BY DEF Context, PoppedFrame

\* A slot memset to zero, loaded or forked is a task.
LEMMA TaskTypes ==
  /\ ZeroTask \in Task
  /\ KernelTask \in Task
  /\ \A p \in PML4 : LoadedTask(p) \in Task
  /\ \A t \in Task, o \in PID, c \in Context, p \in PML4 :
       ForkedTask(t, o, c, p) \in Task
<1>1. ZeroTask \in Task
  BY BaseTypes, ContextTypes DEF ZeroTask, Task, ProcessStates
<1>2. KernelTask \in Task
  BY <1>1 DEF KernelTask, Task, ProcessStates
<1>3. ASSUME NEW p \in PML4 PROVE LoadedTask(p) \in Task
  BY <1>1, ContextTypes DEF LoadedTask, Task, ProcessStates
<1>4. ASSUME NEW t \in Task, NEW o \in PID, NEW c \in Context, NEW p \in PML4
      PROVE  ForkedTask(t, o, c, p) \in Task
  <2>1. CopiedFrame(c, t.Base_PML4, p) \in Context
    BY ContextTypes DEF Task
  <2> QED
    BY <2>1 DEF ForkedTask, Task, ProcessStates
<1> QED
  BY <1>1, <1>2, <1>3, <1>4

\* What the handlers make of a task is a task.
LEMMA TaskUpdates ==
  ASSUME NEW t \in Task
  PROVE  /\ \A c \in Context : [t EXCEPT !.SavedRegisters = c] \in Task
         /\ \A st \in ProcessStates : [t EXCEPT !.ProcessState = st] \in Task
         /\ [t EXCEPT !.SIGCHD = "ok"] \in Task
         /\ Signalled(t) \in Task
         /\ Woken(t) \in Task
         /\ Reaped(t) \in Task
         /\ Expired(t) \in Task
         /\ \A c \in Context : Ticked(t, c) \in Task
         /\ GivenLine(t) \in Task
         /\ \A r \in {"INPUT", "CHILD"} : Blocked(t, r) \in Task
         /\ \A r \in {"EXIT", "OTHER"} :
              [Blocked(t, "CHILD") EXCEPT !.ChildWaitingReason = r] \in Task
         /\ \A o \in PID : Reloaded(t, o) \in Task
<1> t.SavedRegisters \in Context
  BY DEF Task
<1>1. \A c \in Context : [t EXCEPT !.SavedRegisters = c] \in Task
  BY DEF Task
<1>2. \A st \in ProcessStates : [t EXCEPT !.ProcessState = st] \in Task
  BY DEF Task
<1>3. [t EXCEPT !.SIGCHD = "ok"] \in Task
  BY DEF Task
<1>4. Signalled(t) \in Task
  <2>1. HandlerFrame(t.SavedRegisters) \in Context
    BY ContextTypes DEF HandlerFrame
  <2> QED
    BY <2>1 DEF Signalled, Task, ProcessStates
<1>5. Woken(t) \in Task
  BY DEF Woken, Task, ProcessStates
<1>6. Reaped(t) \in Task
  <2>1. [t EXCEPT !.UsedTicks = 0] \in Task
    BY DEF Task
  <2> QED
    BY <2>1, TaskTypes DEF Reaped
<1>7. Expired(t) \in Task
  <2>1. [t EXCEPT !.UsedTicks = 0, !.ProcessState = "NULL", !.Exists = FALSE]
          \in Task
    BY DEF Task, ProcessStates
  <2>2. [t EXCEPT !.UsedTicks = 0] \in Task
    BY DEF Task
  <2> QED
    BY <2>1, <2>2 DEF Expired
<1>8. \A c \in Context : Ticked(t, c) \in Task
  <2>1. t.UsedTicks + 1 \in Nat
    BY DEF Task
  <2>2. \A c \in Context, n \in Nat :
          [t EXCEPT !.SavedRegisters = c, !.UsedTicks = n] \in Task
    BY DEF Task
  <2> QED
    BY <2>1, <2>2 DEF Ticked
<1>9. GivenLine(t) \in Task
  <2>1. [t.SavedRegisters EXCEPT !.on = "none"] \in Context
    BY ContextTypes
  <2> QED
    BY <1>5, <2>1 DEF GivenLine, Task
<1>10. \A r \in {"INPUT", "CHILD"} : Blocked(t, r) \in Task
  BY DEF Blocked, Task, ProcessStates
<1>11. \A r \in {"EXIT", "OTHER"} :
         [Blocked(t, "CHILD") EXCEPT !.ChildWaitingReason = r] \in Task
  BY <1>10 DEF Task
<1>12. \A o \in PID : Reloaded(t, o) \in Task
  BY DEF Reloaded, Task, ProcessStates
<1> QED
  BY <1>1, <1>2, <1>3, <1>4, <1>5, <1>6, <1>7, <1>8, <1>9, <1>10, <1>11,
     <1>12

\* The operations on the table return tables.
LEMMA TableTypes ==
  ASSUME NEW tm \in Table, NEW p \in PID
  PROVE  /\ tm[p] \in Task
         /\ \A t \in Task : [tm EXCEPT ![p] = t] \in Table
         /\ \A c \in Context : [tm EXCEPT ![p].SavedRegisters = c] \in Table
         /\ \A st \in ProcessStates :
              [tm EXCEPT ![p].ProcessState = st] \in Table
         /\ KillTask(tm, p) \in Table
         /\ SendSignal(tm, p) \in Table
         /\ SignalOwner(tm, p, "EXIT") \in Table
         /\ \A a \in BOOLEAN : RegisterSignal(tm, p, a) \in Table
<1>1. \A q \in PID, t \in Task : [tm EXCEPT ![q] = t] \in Table
  BY DEF Table
<1>2. \A q \in PID : tm[q] \in Task
  BY DEF Table
<1>3. \A c \in Context : [tm EXCEPT ![p].SavedRegisters = c] \in Table
  BY <1>1, <1>2, TaskUpdates
<1>4. \A st \in ProcessStates : [tm EXCEPT ![p].ProcessState = st] \in Table
  BY <1>1, <1>2, TaskUpdates
<1>5. KillTask(tm, p) \in Table
  BY <1>4 DEF KillTask, ProcessStates
<1>6. SendSignal(tm, p) \in Table
  BY <1>1, <1>2, <1>4, TaskUpdates DEF SendSignal, ProcessStates
<1>7. SignalOwner(tm, p, "EXIT") \in Table
  <2>1. tm[p].Owner_PID \in PID
    BY <1>2 DEF Task
  <2> QED
    BY <1>1, <1>2, <2>1, TaskUpdates DEF SignalOwner
<1>8. \A a \in BOOLEAN : RegisterSignal(tm, p, a) \in Table
  BY <1>1, <1>2, TaskUpdates DEF RegisterSignal
<1> QED
  BY <1>1, <1>2, <1>3, <1>4, <1>5, <1>6, <1>7, <1>8

\* What the type invariant says of the running handler.
LEMMA ActType ==
  ASSUME TypeOK
  PROVE  /\ act \in Activation
         /\ act.cur \in PID /\ act.regs \in Context /\ act.owner \in PID
         /\ frame.img \in PML4
         /\ TaskManager \in Table
         /\ TaskManager[cur_pid] \in Task
         /\ TaskManager[act.cur] \in Task
BY DEF TypeOK, act, Activation, Context, Table

\* ForceSwitch leaves a well-typed state.
LEMMA ForceSwitchType ==
  ASSUME TypeOK, NEW tm \in Table, NEW regs \in Context, NEW s \in PML4,
         ForceSwitch(tm, regs, s)
  PROVE  /\ TaskManager' \in Table
         /\ cur_pid' \in PID /\ cr3' \in PML4 /\ tss' \in PML4
         /\ frame' \in Context
<1> DEFINE left == [tm EXCEPT ![cur_pid] = Reaped(tm[cur_pid])]
           next == find_next_task(left, cur_pid)
<1>1. cur_pid \in PID
  BY DEF TypeOK
<1>2. left \in Table
  BY <1>1, TableTypes, TaskUpdates
<1>3. next \in PID
  BY <1>1, NextTask
<1>4. left[next].Base_PML4 \in PML4
  BY <1>2, <1>3, TableTypes DEF Task
<1>5. TaskManager' \in Table
  BY <1>1, <1>2, TableTypes DEF ForceSwitch, LeaveFor
<1>6. frame' \in Context
  BY ContextTypes DEF ForceSwitch, AllWindows
<1> QED
  BY <1>3, <1>4, <1>5, <1>6 DEF ForceSwitch, LeaveFor, TypeOK

\* So does the end of handle_syscall.
LEMMA ReturnType ==
  ASSUME TypeOK, NEW tm \in Table, NEW regs \in Context, Return(tm, regs)
  PROVE  /\ TaskManager' \in Table
         /\ cur_pid' \in PID /\ tss' \in PML4
         /\ frame' \in Context
         /\ kstack' \in [PML4 -> Activation]
<1>1. act.cur \in PID /\ frame.img \in PML4
  BY ActType
<1>2. TaskManager' \in Table
  BY <1>1, TableTypes DEF Return
<1>3. frame' \in Context
  BY <1>1, ContextTypes DEF Return, AllWindows
<1>4. kstack' \in [PML4 -> Activation]
  BY <1>1 DEF Return, TypeOK, Activation
<1> QED
  BY <1>2, <1>3, <1>4 DEF Return, TypeOK

\* Interrupts keep every variable in its type.
LEMMA InterruptType ==
  ASSUME TypeOK, Interrupt
  PROVE  TypeOK'
<1>0. cur_pid \in PID /\ frame \in Context
  BY DEF TypeOK
<1>1. CASE TimerInterrupt
  <2> DEFINE t == TaskManager[cur_pid]
             tm == [TaskManager EXCEPT ![cur_pid] = Expired(t)]
             next == find_next_task(tm, cur_pid)
  <2>1. t \in Task
    BY ActType
  <2>2. CASE t.ProcessState # "CREATION" /\ QuantumOver(t)
    <3>1. tm \in Table
      BY <1>0, <2>1, ActType, TableTypes, TaskUpdates
    <3>2. next \in PID
      BY <1>0, NextTask
    <3>3. LeaveFor(tm, next, frame) /\ Arrive(next)
      BY <1>1, <2>2 DEF TimerInterrupt
    <3>4. TaskManager' \in Table
      BY <1>0, <3>1, <3>3, TableTypes DEF LeaveFor
    <3>5. cr3' \in PML4 /\ cur_pid' \in PID
      BY <3>1, <3>2, <3>3, TableTypes DEF LeaveFor, Task
    <3>6. frame' \in Context /\ tss' \in PML4
      BY <3>2, <3>3, <3>4, TableTypes DEF Arrive, Task
    <3>7. freed' \subseteq PML4
      BY <1>1, <2>1, <2>2 DEF TimerInterrupt, TypeOK, Task
    <3> QED
      BY <1>1, <3>4, <3>5, <3>6, <3>7 DEF TimerInterrupt, TypeOK, Table
  <2>3. CASE ~(t.ProcessState # "CREATION" /\ QuantumOver(t))
    <3>1. [TaskManager EXCEPT ![cur_pid] = Ticked(t, frame)] \in Table
      BY <1>0, <2>1, ActType, TableTypes, TaskUpdates
    <3>2. TaskManager' \in Table
      BY <1>1, <2>3, <3>1 DEF TimerInterrupt
    <3> QED
      BY <1>1, <2>3, <3>2 DEF TimerInterrupt, TypeOK, Table
  <2> QED
    BY <2>2, <2>3
<1>2. CASE KeyPressed
  BY <1>0, <1>2, ActType, TableTypes DEF KeyPressed, TypeOK, Table
<1>3. CASE EnterPressed
  <2> DEFINE tm == [TaskManager EXCEPT ![cur_pid].SavedRegisters = frame]
             w == Least(InputWaiters(tm))
  <2>1. tm \in Table
    BY <1>0, ActType, TableTypes
  <2>2. w \in PID
    BY <1>3, FirstWaiter DEF EnterPressed, InputWaiters
  <2>3. [tm EXCEPT ![w] = GivenLine(tm[w])] \in Table
    BY <2>1, <2>2, TableTypes, TaskUpdates
  <2>4. TaskManager' \in Table
    BY <1>3, <2>3 DEF EnterPressed
  <2> QED
    BY <1>3, <2>4 DEF EnterPressed, TypeOK, Table
<1> QED
  BY <1>1, <1>2, <1>3 DEF Interrupt

\* System calls keep every variable in its type.
LEMMA SyscallType ==
  ASSUME TypeOK, SyscallStep
  PROVE  TypeOK'
<1>0. /\ cur_pid \in PID /\ frame \in Context /\ tss \in PML4
      /\ sigstack \in [PML4 -> Seq(Context)]
      /\ next_pml4 \in Nat
  BY TasksAssumption DEF TypeOK
<1>1. CASE OtherSyscall
  BY <1>1, ActType, ReturnType DEF OtherSyscall, TypeOK, Table
<1>2. CASE Exit
  <2> DEFINE owner == TaskManager[act.cur].Owner_PID
             tm == IF owner # 0 THEN SendSignal(TaskManager, owner)
                   ELSE TaskManager
  <2>1. owner \in PID
    BY ActType DEF Task
  <2>2. tm \in Table
    BY <2>1, ActType, TableTypes
  <2>3. KillTask(tm, act.cur) \in Table
    BY <2>2, ActType, TableTypes
  <2>4. PushedFrame(TaskManager, owner) \in [PML4 -> Seq(Context)]
    <3>1. TaskManager[owner] \in Task
      BY <2>1, ActType, TableTypes
    <3>2. /\ TaskManager[owner].SavedRegisters \in Context
          /\ TaskManager[owner].Base_PML4 \in PML4
      BY <3>1 DEF Task
    <3>3. Append(sigstack[TaskManager[owner].Base_PML4],
                 TaskManager[owner].SavedRegisters) \in Seq(Context)
      BY <1>0, <3>2
    <3> QED
      BY <1>0, <3>2, <3>3 DEF PushedFrame
  <2>5. ForceSwitch(KillTask(tm, act.cur), act.regs, frame.img)
    BY <1>2 DEF Exit
  <2>6. sigstack' \in [PML4 -> Seq(Context)]
    BY <1>0, <1>2, <2>4 DEF Exit
  <2>7. /\ TaskManager' \in Table
        /\ cur_pid' \in PID /\ cr3' \in PML4 /\ tss' \in PML4
        /\ frame' \in Context
    BY <2>3, <2>5, ActType, ForceSwitchType
  <2> QED
    BY <1>2, <2>6, <2>7 DEF Exit, TypeOK, Table
<1>3. CASE Read
  <2>1. TaskManager' \in Table
    BY <1>3, ActType, TableTypes, TaskUpdates DEF Read
  <2>2. [act.regs EXCEPT !.on = "input"] \in Context
    BY ActType, ContextTypes
  <2>3. kstack' \in [PML4 -> Activation]
    BY <1>3, <2>2, ActType DEF Read, TypeOK, Activation
  <2>4. frame' \in Context
    BY <1>3, ActType, ContextTypes DEF Read, AllWindows
  <2> QED
    BY <1>3, <2>1, <2>3, <2>4 DEF Read, TypeOK, Table
<1>4. CASE Wait
  <2>1. CASE Return(TaskManager, act.regs)
    BY <1>4, <2>1, ActType, ReturnType DEF Wait, TypeOK, Table
  <2>2. CASE ~Return(TaskManager, act.regs)
    <3>1. PICK r \in {"EXIT", "OTHER"} :
            TaskManager' = [TaskManager EXCEPT ![act.cur] =
                              [Blocked(TaskManager[act.cur], "CHILD") EXCEPT
                                 !.ChildWaitingReason = r]]
      BY <1>4, <2>2 DEF Wait
    <3>2. TaskManager' \in Table
      BY <3>1, ActType, TableTypes, TaskUpdates
    <3>3. frame' \in Context
      BY <1>4, <2>2, ActType, ContextTypes DEF Wait, AllWindows
    <3> QED
      BY <1>4, <2>2, <3>2, <3>3 DEF Wait, TypeOK, Table
  <2> QED
    BY <2>1, <2>2
<1>5. CASE Fork
  <2> DEFINE parent == TaskManager[act.cur]
             from == parent.Base_PML4
             child_pid == RegisterTask(TaskManager)
             child == ForkedTask(parent, act.cur, act.regs, next_pml4)
             tm == [TaskManager EXCEPT ![child_pid] = child]
             copy == [i \in DOMAIN sigstack[from] |->
                        CopiedFrame(sigstack[from][i], from, next_pml4)]
  <2>1. next_pml4 \in PML4
    BY <1>0, <1>5 DEF Fork, PML4
  <2>2. parent \in Task /\ from \in PML4
    BY ActType DEF Task
  <2>3. child_pid \in PID
    BY RegisteredSlot
  <2>4. child \in Task
    BY <2>1, <2>2, ActType, TaskTypes
  <2>5. tm \in Table
    BY <2>3, <2>4, ActType, TableTypes
  <2>6. Return(tm, act.regs)
    BY <1>5 DEF Fork
  <2>7. cr3' \in PML4
    <3>1. tm[act.cur].Base_PML4 \in PML4
      BY <2>5, ActType, TableTypes DEF Task
    <3> QED
      BY <1>5, <3>1 DEF Fork
  <2>8. copy \in Seq(Context)
    <3>1. sigstack[from] \in Seq(Context)
      BY <1>0, <2>2
    <3>2. /\ Len(sigstack[from]) \in Nat
          /\ DOMAIN sigstack[from] = 1 .. Len(sigstack[from])
          /\ \A i \in 1 .. Len(sigstack[from]) : sigstack[from][i] \in Context
      BY <3>1
    <3>3. \A i \in 1 .. Len(sigstack[from]) : copy[i] \in Context
      BY <2>1, <2>2, <3>2, ContextTypes
    <3>4. copy \in [1 .. Len(sigstack[from]) -> Context]
      BY <3>2, <3>3
    <3> QED
      BY <3>2, <3>4, SeqDef
  <2>9. sigstack' \in [PML4 -> Seq(Context)]
    <3>1. sigstack' = IF child_pid = act.cur THEN sigstack
                      ELSE [sigstack EXCEPT ![next_pml4] = copy]
      BY <1>5 DEF Fork
    <3> QED
      BY <1>0, <2>1, <2>8, <3>1
  <2>10. next_pml4' \in 2 .. MaxPML4 + 1
    BY <1>5, TasksAssumption DEF Fork, TypeOK
  <2>11. /\ TaskManager' \in Table
         /\ cur_pid' \in PID /\ tss' \in PML4
         /\ frame' \in Context
         /\ kstack' \in [PML4 -> Activation]
    BY <2>5, <2>6, ActType, ReturnType
  <2> QED
    BY <1>5, <2>7, <2>9, <2>10, <2>11 DEF Fork, TypeOK, Table
<1>6. ASSUME NEW tm \in Table, Reload(tm)
      PROVE  TypeOK'
  <2>1. frame' \in Context
    BY <1>6, ActType, ContextTypes DEF Reload, AllWindows
  <2>2. freed' \subseteq PML4
    BY <1>6, ActType DEF Reload, TypeOK, Task
  <2>3. next_pml4' \in 2 .. MaxPML4 + 1
    BY <1>6, TasksAssumption DEF Reload, TypeOK
  <2> QED
    BY <1>6, <2>1, <2>2, <2>3, BaseTypes DEF Reload, TypeOK, Table
<1>7. CASE Execve
  <2>1. next_pml4 \in PML4
    BY <1>0, <1>7 DEF Execve, Reload, PML4
  <2>2. [TaskManager EXCEPT ![act.cur] = LoadedTask(next_pml4)] \in Table
    BY <2>1, ActType, TableTypes, TaskTypes
  <2> QED
    BY <1>6, <1>7, <2>2 DEF Execve
<1>8. CASE BadExecve
  <2>1. [TaskManager EXCEPT ![act.cur].ProcessState = "CREATION"] \in Table
    BY ActType, TableTypes DEF ProcessStates
  <2> QED
    BY <1>6, <1>8, <2>1 DEF BadExecve
<1>9. CASE Sigreg
  <2>1. PICK a \in BOOLEAN :
          Return(RegisterSignal(TaskManager, act.cur, a), act.regs)
    BY <1>9 DEF Sigreg
  <2>2. RegisterSignal(TaskManager, act.cur, a) \in Table
    BY ActType, TableTypes
  <2> QED
    BY <1>9, <2>1, <2>2, ActType, ReturnType DEF Sigreg, TypeOK, Table
<1>10. CASE Sigret
  <2> DEFINE t == TaskManager[act.cur]
             pushed == sigstack[t.Base_PML4]
             tm == [TaskManager EXCEPT ![act.cur].ProcessState = "READY"]
  <2>1. t.Base_PML4 \in PML4 /\ t.SavedRegisters \in Context
    BY ActType DEF Task
  <2>2. pushed \in Seq(Context)
    BY <1>0, <2>1
  <2>3. tm \in Table
    BY ActType, TableTypes DEF ProcessStates
  <2>4. CASE /\ t.SavedRegisters.at = "user"
             /\ pushed # <<>>
    <3>1. \A kept \in BOOLEAN :
            PoppedFrame(pushed[Len(pushed)], t.SavedRegisters, kept) \in Context
      <4>1. pushed[Len(pushed)] \in Context
        BY <2>2, <2>4
      <4> HIDE DEF pushed, t
      <4> QED
        BY <2>1, <4>1, PoppedType
    <3>2. SubSeq(pushed, 1, Len(pushed) - 1) \in Seq(Context)
      BY <2>2, <2>4
    <3>3. sigstack' \in [PML4 -> Seq(Context)]
      BY <1>0, <1>10, <2>1, <2>4, <3>2 DEF Sigret
    <3>4. PICK kept \in BOOLEAN :
            Return(tm, PoppedFrame(pushed[Len(pushed)], t.SavedRegisters, kept))
      BY <1>10, <2>4 DEF Sigret
    <3> QED
      BY <1>10, <2>3, <3>1, <3>3, <3>4, ReturnType DEF Sigret, TypeOK, Table
  <2>5. CASE ~(t.SavedRegisters.at = "user" /\ pushed # <<>>)
    <3>1. PICK c \in {Junk, [t.SavedRegisters EXCEPT !.on = "none"]} :
            Return(tm, c)
      BY <1>10, <2>5 DEF Sigret
    <3>2. c \in Context
      BY <2>1, <3>1, ContextTypes, SMTT(30)
    <3>3. UNCHANGED sigstack
      BY <1>10, <2>5 DEF Sigret
    <3> QED
      BY <1>10, <2>3, <3>1, <3>2, <3>3, ReturnType DEF Sigret, TypeOK, Table
  <2> QED
    BY <2>4, <2>5
<1>11. CASE GiveUpCPU
  BY <1>11, ActType, ForceSwitchType DEF GiveUpCPU, TypeOK, Table
<1>12. CASE ExecReturn
  <2> DEFINE tm == [TaskManager EXCEPT ![act.cur] =
                      Reloaded(TaskManager[act.cur], act.owner)]
  <2>1. tm \in Table
    BY ActType, TableTypes, TaskUpdates
  <2>2. TaskManager[act.cur].SavedRegisters \in Context
    BY ActType DEF Task
  <2> QED
    BY <1>12, <2>1, <2>2, ActType, ForceSwitchType DEF ExecReturn, TypeOK, Table
<1>13. CASE SwitchIn
  <2> DEFINE regs == TaskManager[cur_pid].SavedRegisters
  <2>1. regs \in Context /\ TaskManager[cur_pid].rsp0 \in PML4
    BY ActType DEF Task
  <2>2. kstack' \in [PML4 -> Activation]
    BY <1>13, <2>1, ActType DEF SwitchIn, TypeOK, Activation
  <2>3. TaskManager' \in Table
    BY <1>13, <2>1, ActType, TableTypes DEF SwitchIn
  <2>4. frame' \in Context
    BY <1>13, ActType, ContextTypes DEF SwitchIn, AllWindows
  <2> QED
    BY <1>13, <2>1, <2>2, <2>3, <2>4 DEF SwitchIn, TypeOK, Table
<1>14. CASE InterruptReturn
  BY <1>14, ActType DEF InterruptReturn, TypeOK
<1> QED
  BY <1>1, <1>2, <1>3, <1>4, <1>5, <1>7, <1>8, <1>9, <1>10, <1>11, <1>12,
     <1>13, <1>14 DEF SyscallStep

\* So do the entry of a system call and fatal faults.
LEMMA UserType ==
  ASSUME TypeOK, (\E op \in Ops : SyscallEntry(op)) \/ Fault
  PROVE  TypeOK'
<1>0. /\ cur_pid \in PID /\ frame \in Context /\ tss \in PML4
      /\ kstack \in [PML4 -> Activation]
  BY DEF TypeOK
<1>1. ASSUME NEW op \in Ops, SyscallEntry(op)
      PROVE  TypeOK'
  <2>1. TaskManager' \in Table
    BY <1>0, <1>1, ActType, TableTypes DEF SyscallEntry
  <2>2. [regs |-> frame, cur |-> cur_pid, op |-> op,
         owner |-> TaskManager[cur_pid].Owner_PID] \in Activation
    <3>1. op \in AllOps
      BY TasksAssumption
    <3>2. TaskManager[cur_pid].Owner_PID \in PID
      BY ActType DEF Task
    <3> QED
      BY <1>0, <3>1, <3>2 DEF Activation
  <2>3. kstack' \in [PML4 -> Activation]
    BY <1>0, <1>1, <2>2 DEF SyscallEntry
  <2>4. cr3' \in PML4
    BY <1>1, ActType DEF SyscallEntry, Task
  <2>5. frame' \in Context
    BY <1>0, <1>1, ContextTypes DEF SyscallEntry, AllWindows
  <2> QED
    BY <1>1, <2>1, <2>3, <2>4, <2>5 DEF SyscallEntry, TypeOK, Table
<1>2. CASE PageFaultKill
  <2> DEFINE saved == [TaskManager EXCEPT ![cur_pid].SavedRegisters = frame]
             tm == SignalOwner(KillTask(saved, cur_pid), cur_pid, "EXIT")
  <2>1. saved \in Table
    BY <1>0, ActType, TableTypes
  <2>2. KillTask(saved, cur_pid) \in Table
    BY <1>0, <2>1, TableTypes
  <2>3. tm \in Table
    BY <1>0, <2>2, TableTypes
  <2>4. ForceSwitch(tm, frame, tss)
    BY <1>2 DEF PageFaultKill
  <2>5. /\ TaskManager' \in Table
        /\ cur_pid' \in PID /\ cr3' \in PML4 /\ tss' \in PML4
        /\ frame' \in Context
    BY <1>0, <2>3, <2>4, ForceSwitchType
  <2>6. [regs |-> frame, cur |-> cur_pid, op |-> "pf", owner |-> 0]
          \in Activation
    BY <1>0, BaseTypes DEF Activation
  <2>7. kstack' \in [PML4 -> Activation]
    BY <1>0, <1>2, <2>6 DEF PageFaultKill
  <2>8. freed' \subseteq PML4
    BY <1>2, ActType DEF PageFaultKill, TypeOK, Task
  <2> QED
    BY <1>2, <2>5, <2>7, <2>8 DEF PageFaultKill, TypeOK, Table
<1>3. CASE GeneralProtectionFault
  <2> DEFINE killed == [TaskManager EXCEPT ![cur_pid] = ZeroTask]
             next == find_next_task(killed, cur_pid)
  <2>1. killed \in Table
    BY <1>0, ActType, TableTypes, TaskTypes
  <2>2. next \in PID
    BY <1>0, NextTask
  <2>3. TaskManager' \in Table
    BY <1>0, <1>3, <2>1, TableTypes DEF GeneralProtectionFault, LeaveFor
  <2>4. cr3' \in PML4 /\ cur_pid' \in PID
    BY <1>3, <2>1, <2>2, TableTypes DEF GeneralProtectionFault, LeaveFor, Task
  <2>5. tss' \in PML4
    BY <1>3, <2>2, <2>3, TableTypes DEF GeneralProtectionFault, Task
  <2> QED
    BY <1>3, <2>3, <2>4, <2>5 DEF GeneralProtectionFault, TypeOK, Table
<1>4. CASE InvalidOpcode
  <2>1. [ZeroTask EXCEPT !.SavedRegisters = frame] \in Task
    BY <1>0, TaskTypes, TaskUpdates
  <2>2. [ZeroTask EXCEPT !.SavedRegisters = Junk] \in Task
    BY ContextTypes, TaskTypes, TaskUpdates
  <2>3. \A p \in PID : TaskManager[p] \in Task
    BY ActType, TableTypes
  <2>4. TaskManager' \in Table
    BY <1>4, <2>1, <2>2, <2>3 DEF InvalidOpcode, Table
  <2>5. TaskManager[0].Base_PML4 \in PML4 /\ TaskManager[0].rsp0 \in PML4
    BY <2>3, BaseTypes DEF Task
  <2> QED
    BY <1>4, <2>4, <2>5, BaseTypes DEF InvalidOpcode, TypeOK, Table
<1>5. CASE FaultAsTask0
  BY <1>5 DEF FaultAsTask0, KernelPanic, TypeOK
<1> QED
  BY <1>1, <1>2, <1>3, <1>4, <1>5 DEF Fault

\* The system starts in a well-typed state.
LEMMA TypeInit ==
  ASSUME Init
  PROVE  TypeOK
<1>1. TaskManager \in Table
  BY BaseTypes, TaskTypes DEF Init, Table
<1>2. frame \in Context
  BY BaseTypes DEF Init, Context
<1>3. kstack \in [PML4 -> Activation]
  <2>1. [regs |-> Junk, cur |-> 0, op |-> "other", owner |-> 0] \in Activation
    BY BaseTypes, ContextTypes DEF Activation, AllOps
  <2> QED
    BY <2>1 DEF Init
<1>4. sigstack \in [PML4 -> Seq(Context)]
  BY DEF Init
<1>5. next_pml4 \in 2 .. MaxPML4 + 1
  BY TasksAssumption DEF Init
<1> QED
  BY <1>1, <1>2, <1>3, <1>4, <1>5, BaseTypes DEF Init, TypeOK, Table

\* Every step keeps every variable in its type.
LEMMA TypeStep ==
  ASSUME TypeOK, [Next]_vars
  PROVE  TypeOK'
<1>1. CASE UNCHANGED vars
  BY <1>1 DEF TypeOK, vars
<1>2. CASE Next
  BY <1>2, InterruptType, SyscallType, UserType DEF Next
<1> QED
  BY <1>1, <1>2

\* Whatever the programs call, whatever faults they raise and wherever an
\* interrupt lands, the scheduler's variables keep their types: every scan
\* of the table yields a slot, and no handler stores a pid, an address space
\* or a state that is none.
THEOREM TypeCorrect == Spec => []TypeOK
<1>1. Init => TypeOK
  BY TypeInit
<1>2. TypeOK /\ [Next]_vars => TypeOK'
  BY TypeStep
<1> QED
  BY <1>1, <1>2, PTL DEF Spec

----------------------------------------------------------------------------
(* Tables at rest                                                          *)

\* What may be in a saved frame when no handler is about to overwrite it.
SavedPoints == {"user", "idle", "switch", "junk"}

\* A signal handler that was checked, and an address space created before.
Sound(t, np) == t.SIGCHD # "bad" /\ (t.Exists => t.Base_PML4 < np)

\* The task can be chosen, or is waiting for something that can come.
Settled(t) == t.Exists => \/ t.ProcessState = "READY"
                          \/ /\ t.ProcessState = "WAITING"
                             /\ t.WaitingReason # "NULL"

\* Slot p can hold t: nobody else has t's page tables, and the kernel task
\* stays runnable with a frame that is not a user program's.
Fits(tm, p, t) ==
  /\ t.Exists => \A q \in PID \ {p} :
                   tm[q].Exists => tm[q].Base_PML4 # t.Base_PML4
  /\ p = 0 => t.Exists /\ t.ProcessState = "READY" /\ t.SavedRegisters.at # "user"

\* All slots but those in C are at rest.
QuietBut(tm, C, np) ==
  /\ tm \in Table
  /\ \A p \in PID : Sound(tm[p], np) /\ Fits(tm, p, tm[p])
  /\ \A p \in PID \ C : /\ Settled(tm[p])
                        /\ tm[p].SavedRegisters.at \in SavedPoints

\* A quiet table stays quiet when a fitting task is put into a slot.
LEMMA ReplaceSlot ==
  ASSUME NEW tm, NEW C, NEW np \in Nat, QuietBut(tm, C, np),
         NEW p \in PID, NEW t \in Task, Sound(t, np), Fits(tm, p, t)
  PROVE  /\ QuietBut([tm EXCEPT ![p] = t], C \cup {p}, np)
         /\ Settled(t) /\ t.SavedRegisters.at \in SavedPoints
              => QuietBut([tm EXCEPT ![p] = t], C \ {p}, np)
<1> DEFINE new == [tm EXCEPT ![p] = t]
<1>1. new \in Table
  BY TableTypes DEF QuietBut
<1>2. \A q \in PID : new[q] = IF q = p THEN t ELSE tm[q]
  BY DEF QuietBut, Table
<1>3. \A q \in PID : Sound(new[q], np)
  BY <1>2 DEF QuietBut
<1>4. \A q \in PID : Fits(new, q, new[q])
  BY <1>2 DEF QuietBut, Fits
<1>5. \A q \in PID \ (C \cup {p}) :
        Settled(new[q]) /\ new[q].SavedRegisters.at \in SavedPoints
  BY <1>2 DEF QuietBut
<1>6. ASSUME Settled(t), t.SavedRegisters.at \in SavedPoints, NEW q \in PID \ (C \ {p})
      PROVE  Settled(new[q]) /\ new[q].SavedRegisters.at \in SavedPoints
  BY <1>2, <1>6 DEF QuietBut
<1> QED
  BY <1>1, <1>3, <1>4, <1>5, <1>6 DEF QuietBut

\* Address spaces created later do not disturb a quiet table.
LEMMA QuietLater ==
  ASSUME NEW tm, NEW C, NEW np \in Nat, QuietBut(tm, C, np)
  PROVE  QuietBut(tm, C, np + 1)
<1>1. ASSUME NEW p \in PID PROVE Sound(tm[p], np + 1)
  <2>1. tm[p].Base_PML4 \in Nat
    BY DEF QuietBut, Table, Task, PML4
  <2> QED
    BY <2>1 DEF QuietBut, Sound
<1> QED
  BY <1>1 DEF QuietBut

\* Exempting more slots is weaker.
LEMMA QuietWeaker ==
  ASSUME NEW tm, NEW C, NEW D, NEW np, C \subseteq D, QuietBut(tm, C, np)
  PROVE  QuietBut(tm, D, np)
BY DEF QuietBut

\* The fields that the handlers' updates of a task leave alone.
LEMMA TaskFields ==
  ASSUME NEW t \in Task, NEW c \in Context
  PROVE  /\ LET u == [t EXCEPT !.SavedRegisters = c]
            IN  /\ u.Exists = t.Exists /\ u.Base_PML4 = t.Base_PML4
                /\ u.SIGCHD = t.SIGCHD /\ u.ProcessState = t.ProcessState
                /\ u.WaitingReason = t.WaitingReason
                /\ u.SavedRegisters = c
         /\ LET u == Signalled(t)
            IN  /\ u.Exists = t.Exists /\ u.Base_PML4 = t.Base_PML4
                /\ u.SIGCHD = t.SIGCHD /\ u.ProcessState = "READY"
                /\ u.SavedRegisters.at \in SavedPoints
         /\ LET u == Woken(t)
            IN  /\ u.Exists = t.Exists /\ u.Base_PML4 = t.Base_PML4
                /\ u.SIGCHD = t.SIGCHD /\ u.ProcessState = "READY"
                /\ u.SavedRegisters = t.SavedRegisters
         /\ LET u == GivenLine(t)
            IN  /\ u.Exists = t.Exists /\ u.Base_PML4 = t.Base_PML4
                /\ u.SIGCHD = t.SIGCHD /\ u.ProcessState = "READY"
                /\ u.SavedRegisters.at = t.SavedRegisters.at
         /\ \A r \in {"INPUT", "CHILD"} :
              LET u == Blocked(t, r)
              IN  /\ u.Exists = t.Exists /\ u.Base_PML4 = t.Base_PML4
                  /\ u.SIGCHD = t.SIGCHD /\ u.ProcessState = "WAITING"
                  /\ u.WaitingReason = r
         /\ \A r \in {"EXIT", "OTHER"} :
              LET u == [Blocked(t, "CHILD") EXCEPT !.ChildWaitingReason = r]
              IN  /\ u.Exists = t.Exists /\ u.Base_PML4 = t.Base_PML4
                  /\ u.SIGCHD = t.SIGCHD /\ u.ProcessState = "WAITING"
                  /\ u.WaitingReason = "CHILD"
         /\ \A st \in ProcessStates :
              LET u == [t EXCEPT !.ProcessState = st]
              IN  /\ u.Exists = t.Exists /\ u.Base_PML4 = t.Base_PML4
                  /\ u.SIGCHD = t.SIGCHD /\ u.ProcessState = st
                  /\ u.WaitingReason = t.WaitingReason
                  /\ u.SavedRegisters = t.SavedRegisters
         /\ \A o \in PID :
              LET u == Reloaded(t, o)
              IN  /\ u.Exists = t.Exists /\ u.Base_PML4 = t.Base_PML4
                  /\ u.SIGCHD = t.SIGCHD /\ u.ProcessState = "READY"
<1>1. t.SavedRegisters \in Context
  BY DEF Task
<1>2. HandlerFrame(t.SavedRegisters).at \in SavedPoints
  BY <1>1 DEF HandlerFrame, Context, Junk, SavedPoints
<1>3. LET u == [t EXCEPT !.SavedRegisters = c]
      IN  /\ u.Exists = t.Exists /\ u.Base_PML4 = t.Base_PML4
          /\ u.SIGCHD = t.SIGCHD /\ u.ProcessState = t.ProcessState
          /\ u.WaitingReason = t.WaitingReason
          /\ u.SavedRegisters = c
  BY DEF Task
<1>4. LET u == Signalled(t)
      IN  /\ u.Exists = t.Exists /\ u.Base_PML4 = t.Base_PML4
          /\ u.SIGCHD = t.SIGCHD /\ u.ProcessState = "READY"
          /\ u.SavedRegisters.at \in SavedPoints
  BY <1>2 DEF Task, Signalled
<1>5. LET u == Woken(t)
      IN  /\ u.Exists = t.Exists /\ u.Base_PML4 = t.Base_PML4
          /\ u.SIGCHD = t.SIGCHD /\ u.ProcessState = "READY"
          /\ u.SavedRegisters = t.SavedRegisters
  BY DEF Task, Woken
<1>6. LET u == GivenLine(t)
      IN  /\ u.Exists = t.Exists /\ u.Base_PML4 = t.Base_PML4
          /\ u.SIGCHD = t.SIGCHD /\ u.ProcessState = "READY"
          /\ u.SavedRegisters.at = t.SavedRegisters.at
  <2>1. [t.SavedRegisters EXCEPT !.on = "none"].at = t.SavedRegisters.at
    BY <1>1 DEF Context
  <2>2. Woken(t) \in Task
    BY TaskUpdates
  <2> QED
    BY <1>5, <2>1, <2>2 DEF Task, GivenLine
<1>7. \A r \in {"INPUT", "CHILD"} :
        LET u == Blocked(t, r)
        IN  /\ u.Exists = t.Exists /\ u.Base_PML4 = t.Base_PML4
            /\ u.SIGCHD = t.SIGCHD /\ u.ProcessState = "WAITING"
            /\ u.WaitingReason = r
  BY DEF Task, Blocked
<1>8. \A r \in {"EXIT", "OTHER"} :
        LET u == [Blocked(t, "CHILD") EXCEPT !.ChildWaitingReason = r]
        IN  /\ u.Exists = t.Exists /\ u.Base_PML4 = t.Base_PML4
            /\ u.SIGCHD = t.SIGCHD /\ u.ProcessState = "WAITING"
            /\ u.WaitingReason = "CHILD"
  BY <1>7, TaskUpdates DEF Task
<1>9. \A st \in ProcessStates :
        LET u == [t EXCEPT !.ProcessState = st]
        IN  /\ u.Exists = t.Exists /\ u.Base_PML4 = t.Base_PML4
            /\ u.SIGCHD = t.SIGCHD /\ u.ProcessState = st
            /\ u.WaitingReason = t.WaitingReason
            /\ u.SavedRegisters = t.SavedRegisters
  BY DEF Task
<1>10. \A o \in PID :
         LET u == Reloaded(t, o)
         IN  /\ u.Exists = t.Exists /\ u.Base_PML4 = t.Base_PML4
             /\ u.SIGCHD = t.SIGCHD /\ u.ProcessState = "READY"
  BY DEF Task, Reloaded
<1> QED
  BY <1>3, <1>4, <1>5, <1>6, <1>7, <1>8, <1>9, <1>10

\* A task of a quiet table that keeps its page tables still fits.
LEMMA StillFits ==
  ASSUME NEW tm, NEW C, NEW np, QuietBut(tm, C, np),
         NEW p \in PID, NEW t, p # 0,
         t.Exists = tm[p].Exists, t.Base_PML4 = tm[p].Base_PML4,
         t.SIGCHD = tm[p].SIGCHD
  PROVE  Sound(t, np) /\ Fits(tm, p, t)
BY DEF QuietBut, Sound, Fits

\* SIGCHD and the wake-up of a waiting owner keep a table quiet.
LEMMA QuietSignals ==
  ASSUME NEW tm, NEW C, NEW np \in Nat, QuietBut(tm, C, np), NEW p \in PID
  PROVE  /\ p # 0 => QuietBut(SendSignal(tm, p), C, np)
         /\ QuietBut(SignalOwner(tm, p, "EXIT"), C, np)
<1>1. ASSUME p # 0
      PROVE  QuietBut(SendSignal(tm, p), C, np)
  <2>1. tm[p] \in Task /\ tm[p].SavedRegisters \in Context
    BY DEF QuietBut, Table, Task
  <2>2. tm[p].SIGCHD # "bad"
    BY DEF QuietBut, Sound
  <2>3. Sound(Signalled(tm[p]), np) /\ Fits(tm, p, Signalled(tm[p]))
    BY <1>1, <2>1, StillFits, TaskFields
  <2>4. Settled(Signalled(tm[p])) /\ Signalled(tm[p]).SavedRegisters.at \in SavedPoints
    BY <2>1, TaskFields DEF Settled
  <2>5. QuietBut([tm EXCEPT ![p] = Signalled(tm[p])], C \ {p}, np)
    BY <2>1, <2>3, <2>4, ReplaceSlot, TaskUpdates
  <2>6. QuietBut([tm EXCEPT ![p] = Signalled(tm[p])], C, np)
    BY <2>5, QuietWeaker
  <2> QED
    BY <2>2, <2>6 DEF SendSignal
<1>2. QuietBut(SignalOwner(tm, p, "EXIT"), C, np)
  <2> DEFINE o == tm[p].Owner_PID
  <2>1. o \in PID
    BY DEF QuietBut, Table, Task
  <2>2. tm[o] \in Task /\ tm[o].SavedRegisters \in Context
    BY <2>1 DEF QuietBut, Table, Task
  <2>3. CASE o = 0
    BY <2>3 DEF SignalOwner
  <2>4. CASE o # 0
    <3>1. Sound(Woken(tm[o]), np) /\ Fits(tm, o, Woken(tm[o]))
      BY <2>1, <2>2, <2>4, StillFits, TaskFields
    <3>2. Settled(Woken(tm[o])) /\ Woken(tm[o]) \in Task
      BY <2>2, TaskFields, TaskUpdates DEF Settled
    <3>3. CASE o \in C
      <4>1. QuietBut([tm EXCEPT ![o] = Woken(tm[o])], C \cup {o}, np)
        BY <2>1, <3>1, <3>2, ReplaceSlot
      <4>2. C \cup {o} = C
        BY <3>3
      <4> QED
        BY <4>1, <4>2 DEF SignalOwner
    <3>4. CASE o \notin C
      <4>1. Woken(tm[o]).SavedRegisters.at \in SavedPoints
        BY <2>1, <2>2, <3>4, TaskFields DEF QuietBut
      <4>2. QuietBut([tm EXCEPT ![o] = Woken(tm[o])], C \ {o}, np)
        BY <2>1, <3>1, <3>2, <4>1, ReplaceSlot
      <4>3. QuietBut([tm EXCEPT ![o] = Woken(tm[o])], C, np)
        BY <4>2, QuietWeaker
      <4> QED
        BY <4>3 DEF SignalOwner
    <3> QED
      BY <3>3, <3>4
  <2> QED
    BY <2>3, <2>4
<1> QED
  BY <1>1, <1>2

\* Saving a frame into a slot that is otherwise settled.
LEMMA QuietSave ==
  ASSUME NEW tm, NEW C, NEW np \in Nat, QuietBut(tm, C, np),
         NEW p \in PID, NEW c \in Context, p = 0 => c.at # "user"
  PROVE  /\ QuietBut([tm EXCEPT ![p].SavedRegisters = c], C \cup {p}, np)
         /\ Settled(tm[p]) /\ c.at \in SavedPoints
              => QuietBut([tm EXCEPT ![p].SavedRegisters = c], C \ {p}, np)
<1> DEFINE t == [tm[p] EXCEPT !.SavedRegisters = c]
<1>1. tm[p] \in Task
  BY DEF QuietBut, Table
<1>2. t \in Task
  BY <1>1, TaskUpdates
<1>3. /\ t.Exists = tm[p].Exists /\ t.Base_PML4 = tm[p].Base_PML4
      /\ t.SIGCHD = tm[p].SIGCHD /\ t.ProcessState = tm[p].ProcessState
      /\ t.WaitingReason = tm[p].WaitingReason
      /\ t.SavedRegisters = c
  BY <1>1, TaskFields
<1>4. Sound(t, np) /\ Fits(tm, p, t)
  BY <1>3 DEF QuietBut, Sound, Fits
<1>5. Settled(tm[p]) => Settled(t)
  BY <1>3 DEF Settled
<1> QED
  BY <1>2, <1>3, <1>4, <1>5, ReplaceSlot

\* ForceSwitch from a quiet table: the table is quiet again, and the new
\* task is runnable and its address space loaded.
LEMMA AfterSwitch ==
  ASSUME cur_pid \in PID, cur_pid # 0,
         NEW tm, NEW np \in Nat, QuietBut(tm, {cur_pid}, np),
         tm[cur_pid].ProcessState = "KILL" \/ Settled(tm[cur_pid]),
         NEW regs \in Context, regs.at \in SavedPoints,
         NEW s, ForceSwitch(tm, regs, s)
  PROVE  /\ QuietBut(TaskManager', {}, np)
         /\ cur_pid' \in PID
         /\ Runnable(TaskManager', cur_pid')
         /\ cr3' = TaskManager'[cur_pid'].Base_PML4
         /\ frame' = KernelContext("switch", s)
<1> DEFINE r == Reaped(tm[cur_pid])
           left == [tm EXCEPT ![cur_pid] = r]
           next == find_next_task(left, cur_pid)
<1>1. tm[cur_pid] \in Task /\ tm \in Table
  BY DEF QuietBut, Table
<1>2. r \in Task
  BY <1>1, TaskUpdates
<1>3. /\ r.Exists => r.Base_PML4 = tm[cur_pid].Base_PML4 /\ tm[cur_pid].Exists
      /\ r.SIGCHD # "bad"
      /\ Settled(r)
  <2>1. CASE tm[cur_pid].ProcessState = "KILL"
    BY <2>1 DEF Reaped, ZeroTask, Settled
  <2>2. CASE tm[cur_pid].ProcessState # "KILL"
    <3> DEFINE u == [tm[cur_pid] EXCEPT !.UsedTicks = 0]
    <3>1. /\ u.Exists = tm[cur_pid].Exists
          /\ u.Base_PML4 = tm[cur_pid].Base_PML4
          /\ u.SIGCHD = tm[cur_pid].SIGCHD
          /\ u.ProcessState = tm[cur_pid].ProcessState
          /\ u.WaitingReason = tm[cur_pid].WaitingReason
      BY <1>1 DEF Task
    <3>2. r = u
      BY <2>2 DEF Reaped
    <3> QED
      BY <2>2, <3>1, <3>2 DEF Settled, QuietBut, Sound
  <2> QED
    BY <2>1, <2>2
<1>4. Sound(r, np) /\ Fits(tm, cur_pid, r)
  BY <1>3 DEF QuietBut, Sound, Fits
<1>5. QuietBut(left, {cur_pid}, np)
  <2>1. QuietBut(left, {cur_pid} \cup {cur_pid}, np)
    BY <1>2, <1>4, ReplaceSlot
  <2> QED
    BY <2>1
<1>6. left[cur_pid] = r
  BY <1>1 DEF Table
<1>7. TaskManager' = [left EXCEPT ![cur_pid].SavedRegisters = regs]
  BY DEF ForceSwitch, LeaveFor
<1>8. QuietBut(TaskManager', {}, np)
  <2>1. QuietBut(TaskManager', {cur_pid} \ {cur_pid}, np)
    BY <1>3, <1>5, <1>6, <1>7, QuietSave
  <2> QED
    BY <2>1
<1>9. cur_pid' = next /\ cr3' = left[next].Base_PML4
  BY DEF ForceSwitch, LeaveFor
<1>10. next \in PID /\ (next = 0 \/ (Runnable(left, next) /\ next > cur_pid))
  BY NextTask
<1>11. next # cur_pid
  BY <1>10 DEF PID
<1>12. TaskManager'[next] = left[next]
  BY <1>5, <1>7, <1>10, <1>11 DEF QuietBut, Table
<1>13. Runnable(left, next)
  BY <1>5, <1>10 DEF QuietBut, Fits, Runnable
<1> QED
  BY <1>8, <1>9, <1>10, <1>12, <1>13 DEF Runnable, ForceSwitch

----------------------------------------------------------------------------
(* The inductive invariant                                                 *)

\* Only the current task may be between two states, while it blocks in read
\* or wait and while execve rebuilds it.
Unsettled == IF frame.at \in {"block", "exec"} THEN {cur_pid} ELSE {}

TableInv == QuietBut(TaskManager, Unsettled, next_pml4)

CurrentInv ==
  /\ TaskManager[cur_pid].Exists
  /\ frame.at \notin {"block", "exec"}
       => TaskManager[cur_pid].ProcessState = "READY"
  /\ frame.at = "block" => Settled(TaskManager[cur_pid])
  /\ frame.at = "exec" =>
       /\ TaskManager[cur_pid].ProcessState \in {"READY", "CREATION"}
       /\ TaskManager[cur_pid].SavedRegisters.at \in SavedPoints
  /\ frame.at # "exec" => cr3 = TaskManager[cur_pid].Base_PML4

\* Handlers run for the current task, which is never the kernel's, and the
\* kernel task is never given a user program's registers.
HandlerInv ==
  /\ ~halted /\ frame.at \in {"user", "entry", "block", "exec"} => cur_pid # 0
  /\ frame.at \in {"entry", "block", "exec"} => act.cur = cur_pid
  /\ frame.at = "return" /\ act.regs.at = "user" => cur_pid # 0

StacksInv ==
  /\ \A s \in PML4 : /\ kstack[s].regs.at \in SavedPoints
                     /\ kstack[s].op = "wait" => kstack[s].cur # 0
  /\ \A s \in PML4 : \A i \in 1 .. Len(sigstack[s]) :
       sigstack[s][i].at = "user"

SchedInv == TypeOK /\ TableInv /\ CurrentInv /\ HandlerInv /\ StacksInv

\* The invariant implies the three properties the runs check.
LEMMA SchedInvImplies ==
  ASSUME SchedInv
  PROVE  CurrentIsRunnable /\ NoTaskInLimbo /\ PrivateAddressSpaces
<1> USE DEF SchedInv
<1>1. CurrentIsRunnable
  BY DEF CurrentInv, CurrentIsRunnable, Settled
<1>2. NoTaskInLimbo
  <2>1. Runnable(TaskManager, 0)
    BY BaseTypes DEF TableInv, QuietBut, Fits, Runnable
  <2>2. ASSUME NEW p \in PID, TaskManager[p].Exists,
               ~(p = cur_pid /\ frame.at = "exec")
        PROVE  Settled(TaskManager[p])
    BY <2>2 DEF TableInv, QuietBut, Unsettled, CurrentInv
  <2> QED
    BY <2>1, <2>2 DEF NoTaskInLimbo, Settled
<1>3. PrivateAddressSpaces
  BY DEF TableInv, QuietBut, Fits, PrivateAddressSpaces
<1> QED
  BY <1>1, <1>2, <1>3

\* At every point but "block" and "exec" the whole table is at rest.
LEMMA QuietTable ==
  ASSUME SchedInv
  PROVE  /\ QuietBut(TaskManager, {cur_pid}, next_pml4)
         /\ frame.at \notin {"block", "exec"}
              => /\ QuietBut(TaskManager, {}, next_pml4)
                 /\ Runnable(TaskManager, cur_pid)
         /\ next_pml4 \in Nat /\ next_pml4 + 1 \in Nat
<1>1. QuietBut(TaskManager, {cur_pid}, next_pml4)
  BY QuietWeaker DEF SchedInv, TableInv, Unsettled
<1>2. next_pml4 \in Nat
  BY TasksAssumption DEF SchedInv, TypeOK
<1> QED
  BY <1>1, <1>2 DEF SchedInv, TableInv, Unsettled, CurrentInv, Runnable

\* A system call that ends in ForceSwitch keeps the invariant.
LEMMA SwitchInv ==
  ASSUME SchedInv, TypeOK', cur_pid # 0,
         NEW tm, QuietBut(tm, {cur_pid}, next_pml4),
         tm[cur_pid].ProcessState = "KILL" \/ Settled(tm[cur_pid]),
         NEW regs \in Context, regs.at \in SavedPoints,
         NEW s, ForceSwitch(tm, regs, s),
         next_pml4' = next_pml4, StacksInv'
  PROVE  SchedInv'
<1>1. cur_pid \in PID /\ next_pml4 \in Nat
  BY QuietTable DEF SchedInv, TypeOK
<1>2. /\ QuietBut(TaskManager', {}, next_pml4)
      /\ Runnable(TaskManager', cur_pid')
      /\ cr3' = TaskManager'[cur_pid'].Base_PML4
      /\ frame' = KernelContext("switch", s)
  BY <1>1, AfterSwitch
<1>3. frame'.at = "switch"
  BY <1>2 DEF KernelContext
<1>4. TableInv'
  BY <1>2, <1>3 DEF TableInv, Unsettled
<1>5. CurrentInv'
  BY <1>2, <1>3 DEF CurrentInv, Runnable
<1>6. HandlerInv'
  BY <1>3 DEF HandlerInv
<1> QED
  BY <1>4, <1>5, <1>6 DEF SchedInv

\* So does one that returns to its caller.
LEMMA ReturnInv ==
  ASSUME SchedInv, TypeOK', ~halted, frame.at = "entry",
         NEW tm, next_pml4' \in Nat, QuietBut(tm, {}, next_pml4'),
         Runnable(tm, cur_pid),
         NEW regs \in Context, regs.at \in SavedPoints, Return(tm, regs),
         cr3' = tm[cur_pid].Base_PML4,
         \A s \in PML4 : \A i \in 1 .. Len(sigstack'[s]) :
           sigstack'[s][i].at = "user"
  PROVE  SchedInv'
<1>1. /\ cur_pid \in PID /\ cur_pid # 0 /\ act.cur = cur_pid
      /\ frame.img \in PML4
  BY ActType DEF SchedInv, HandlerInv, TypeOK
<1>2. /\ TaskManager' = [tm EXCEPT ![cur_pid].SavedRegisters = regs]
      /\ kstack' = [kstack EXCEPT ![frame.img].regs = regs]
      /\ frame' = KernelContext("return", frame.img)
      /\ cur_pid' = cur_pid
  BY <1>1 DEF Return
<1>3. frame'.at = "return" /\ frame'.img = frame.img
  BY <1>2 DEF KernelContext
<1>4. Settled(tm[cur_pid])
  BY DEF Runnable, Settled
<1>5. QuietBut(TaskManager', {} \ {cur_pid}, next_pml4')
  BY <1>1, <1>2, <1>4, QuietSave
<1>6. TableInv'
  <2>1. {} \ {cur_pid} = {}
    OBVIOUS
  <2> QED
    BY <1>3, <1>5, <2>1 DEF TableInv, Unsettled
<1>7. CurrentInv'
  <2>1. tm[cur_pid] \in Task /\ tm \in Table
    BY <1>1 DEF QuietBut, Table
  <2>2. TaskManager'[cur_pid] = [tm[cur_pid] EXCEPT !.SavedRegisters = regs]
    BY <1>1, <1>2, <2>1 DEF Table
  <2>3. /\ TaskManager'[cur_pid].Exists = tm[cur_pid].Exists
        /\ TaskManager'[cur_pid].ProcessState = tm[cur_pid].ProcessState
        /\ TaskManager'[cur_pid].Base_PML4 = tm[cur_pid].Base_PML4
    BY <2>1, <2>2, TaskFields
  <2> QED
    BY <1>2, <1>3, <2>3 DEF CurrentInv, Runnable
<1>8. HandlerInv'
  BY <1>1, <1>2, <1>3 DEF HandlerInv
<1>9. StacksInv'
  <2>1. ASSUME NEW s \in PML4
        PROVE  /\ kstack'[s].regs.at \in SavedPoints
               /\ kstack'[s].op = "wait" => kstack'[s].cur # 0
    <3>1. kstack[s] \in Activation /\ kstack \in [PML4 -> Activation]
      BY DEF SchedInv, TypeOK
    <3>2. kstack'[s].op = kstack[s].op /\ kstack'[s].cur = kstack[s].cur
      BY <1>1, <1>2, <3>1 DEF Activation
    <3>3. kstack'[s].regs = IF s = frame.img THEN regs ELSE kstack[s].regs
      BY <1>1, <1>2, <3>1 DEF Activation
    <3> QED
      BY <3>2, <3>3 DEF SchedInv, StacksInv
  <2> QED
    BY <2>1 DEF StacksInv
<1> QED
  BY <1>6, <1>7, <1>8, <1>9 DEF SchedInv

----------------------------------------------------------------------------
(* Interrupts                                                              *)

\* The interrupted point, when interrupts land only at "block", at "switch"
\* and in the idle loop.
LEMMA InterruptedPoint ==
  ASSUME SchedInv, Windows \subseteq {"block", "switch"}, Interruptible
  PROVE  /\ frame \in Context /\ cur_pid \in PID
         /\ frame.at \in {"idle", "block", "switch"}
         /\ frame.at # "block" => frame.at \in SavedPoints
         /\ TaskManager[cur_pid] \in Task /\ TaskManager \in Table
BY ActType DEF SchedInv, TypeOK, Interruptible, SavedPoints

\* An interrupt that changes the table and nothing else.
LEMMA TableOnlyInv ==
  ASSUME SchedInv, TypeOK', frame.at \in {"idle", "block", "switch"},
         QuietBut(TaskManager', Unsettled, next_pml4),
         TaskManager'[cur_pid].Exists,
         TaskManager'[cur_pid].Base_PML4 = TaskManager[cur_pid].Base_PML4,
         frame.at # "block" => TaskManager'[cur_pid].ProcessState = "READY",
         frame.at = "block" => Settled(TaskManager'[cur_pid]),
         UNCHANGED <<cur_pid, cr3, frame, kstack, sigstack, next_pml4, halted>>
  PROVE  SchedInv'
<1>1. TableInv'
  BY DEF TableInv, Unsettled
<1>2. CurrentInv'
  BY DEF SchedInv, CurrentInv
<1>3. HandlerInv'
  BY DEF SchedInv, HandlerInv, act
<1>4. StacksInv'
  BY DEF SchedInv, StacksInv
<1> QED
  BY <1>1, <1>2, <1>3, <1>4 DEF SchedInv

\* Saving the interrupted frame into the current task leaves the table as
\* quiet as it was.
LEMMA SavedFrame ==
  ASSUME SchedInv, Windows \subseteq {"block", "switch"}, Interruptible
  PROVE  LET tm == [TaskManager EXCEPT ![cur_pid].SavedRegisters = frame]
         IN  /\ QuietBut(tm, Unsettled, next_pml4)
             /\ tm[cur_pid] \in Task
             /\ tm[cur_pid].Exists
             /\ tm[cur_pid].Base_PML4 = TaskManager[cur_pid].Base_PML4
             /\ frame.at # "block" => tm[cur_pid].ProcessState = "READY"
             /\ Settled(tm[cur_pid])
<1> DEFINE tm == [TaskManager EXCEPT ![cur_pid].SavedRegisters = frame]
<1>1. /\ frame \in Context /\ cur_pid \in PID /\ next_pml4 \in Nat
      /\ frame.at \in {"idle", "block", "switch"}
      /\ frame.at # "block" => frame.at \in SavedPoints
      /\ TaskManager[cur_pid] \in Task /\ TaskManager \in Table
  BY InterruptedPoint, QuietTable
<1>2. tm[cur_pid] = [TaskManager[cur_pid] EXCEPT !.SavedRegisters = frame]
  BY <1>1 DEF Table
<1>3. /\ tm[cur_pid].Exists = TaskManager[cur_pid].Exists
      /\ tm[cur_pid].Base_PML4 = TaskManager[cur_pid].Base_PML4
      /\ tm[cur_pid].ProcessState = TaskManager[cur_pid].ProcessState
      /\ tm[cur_pid].WaitingReason = TaskManager[cur_pid].WaitingReason
  BY <1>1, <1>2, TaskFields
<1>4. Settled(TaskManager[cur_pid]) /\ TaskManager[cur_pid].Exists
  BY <1>1 DEF SchedInv, CurrentInv, Settled
<1>5. QuietBut(tm, Unsettled, next_pml4)
  <2>1. CASE frame.at = "block"
    <3>1. QuietBut(tm, {cur_pid} \cup {cur_pid}, next_pml4)
      BY <1>1, QuietTable, QuietSave
    <3> QED
      BY <2>1, <3>1 DEF Unsettled
  <2>2. CASE frame.at # "block"
    <3>1. QuietBut(tm, {cur_pid} \ {cur_pid}, next_pml4)
      BY <1>1, <1>4, <2>2, QuietTable, QuietSave
    <3>2. {cur_pid} \ {cur_pid} = Unsettled
      BY <1>1, <2>2 DEF Unsettled
    <3> QED
      BY <3>1, <3>2
  <2> QED
    BY <2>1, <2>2
<1>6. tm[cur_pid] \in Task
  BY <1>1, <1>2, TaskUpdates, ZenonT(40)
<1> QED
  BY <1>1, <1>3, <1>4, <1>5, <1>6 DEF Settled, SchedInv, CurrentInv

\* A key without a waiting reader (HandleKeyboardInterrupt) keeps SchedInv.
LEMMA KeyInv ==
  ASSUME SchedInv, TypeOK', Windows \subseteq {"block", "switch"}, KeyPressed
  PROVE  SchedInv'
BY SavedFrame, InterruptedPoint, TableOnlyInv DEF KeyPressed

\* ENTER, which hands a line to the first waiting reader, keeps SchedInv.
LEMMA EnterInv ==
  ASSUME SchedInv, TypeOK', Windows \subseteq {"block", "switch"}, EnterPressed
  PROVE  SchedInv'
<1> DEFINE tm == [TaskManager EXCEPT ![cur_pid].SavedRegisters = frame]
           w == Least(InputWaiters(tm))
           t == GivenLine(tm[w])
<1>0. Interruptible /\ TaskManager' = [tm EXCEPT ![w] = t] /\ InputWaiters(tm) # {}
  BY DEF EnterPressed
<1>1. /\ QuietBut(tm, Unsettled, next_pml4)
      /\ tm[cur_pid].Exists
      /\ tm[cur_pid].Base_PML4 = TaskManager[cur_pid].Base_PML4
      /\ frame.at # "block" => tm[cur_pid].ProcessState = "READY"
      /\ Settled(tm[cur_pid])
  BY <1>0, SavedFrame
<1>2. cur_pid \in PID /\ frame.at \in {"idle", "block", "switch"}
  BY <1>0, InterruptedPoint
<1>3. w \in PID /\ tm[w].ProcessState = "WAITING"
  BY <1>0, FirstWaiter DEF InputWaiters
<1>4. tm \in Table /\ tm[w] \in Task /\ tm[w].SavedRegisters \in Context
  BY <1>1, <1>3 DEF QuietBut, Table, Task
<1>5. w # 0
  BY <1>1, <1>3 DEF QuietBut, Fits
<1>6. /\ t.Exists = tm[w].Exists /\ t.Base_PML4 = tm[w].Base_PML4
      /\ t.SIGCHD = tm[w].SIGCHD /\ t.ProcessState = "READY"
      /\ t.SavedRegisters.at = tm[w].SavedRegisters.at
      /\ t \in Task
  BY <1>4, TaskFields, TaskUpdates, ZenonT(40)
<1>7. Sound(t, next_pml4) /\ Fits(tm, w, t) /\ Settled(t)
  BY <1>1, <1>3, <1>5, <1>6, StillFits DEF Settled
<1>8. QuietBut(TaskManager', Unsettled, next_pml4)
  <2>0. next_pml4 \in Nat
    BY QuietTable
  <2>1. CASE w \in Unsettled
    <3>1. QuietBut(TaskManager', Unsettled \cup {w}, next_pml4)
      BY <1>0, <1>1, <1>3, <1>6, <1>7, <2>0, ReplaceSlot
    <3>2. Unsettled \cup {w} = Unsettled
      BY <2>1
    <3> QED
      BY <3>1, <3>2
  <2>2. CASE w \notin Unsettled
    <3>1. t.SavedRegisters.at \in SavedPoints
      BY <1>1, <1>3, <1>6, <2>2 DEF QuietBut
    <3>2. QuietBut(TaskManager', Unsettled \ {w}, next_pml4)
      BY <1>0, <1>1, <1>3, <1>6, <1>7, <2>0, <3>1, ReplaceSlot
    <3>3. Unsettled \ {w} = Unsettled
      BY <2>2
    <3> QED
      BY <3>2, <3>3
  <2> QED
    BY <2>1, <2>2
<1>9. TaskManager'[cur_pid] = IF w = cur_pid THEN t ELSE tm[cur_pid]
  BY <1>0, <1>2, <1>4 DEF Table
<1>10. /\ TaskManager'[cur_pid].Exists
       /\ TaskManager'[cur_pid].Base_PML4 = TaskManager[cur_pid].Base_PML4
       /\ frame.at # "block" => TaskManager'[cur_pid].ProcessState = "READY"
       /\ Settled(TaskManager'[cur_pid])
  BY <1>1, <1>6, <1>7, <1>9
<1> QED
  BY <1>2, <1>8, <1>10, TableOnlyInv DEF EnterPressed

\* TimerInterrupt keeps SchedInv, whether it switches tasks or not.
LEMMA TimerInv ==
  ASSUME SchedInv, TypeOK', Windows \subseteq {"block", "switch"}, TimerInterrupt
  PROVE  SchedInv'
<1> DEFINE t == TaskManager[cur_pid]
           e == [t EXCEPT !.UsedTicks = 0]
           tm == [TaskManager EXCEPT ![cur_pid] = e]
           next == find_next_task(tm, cur_pid)
<1>1. /\ frame \in Context /\ cur_pid \in PID /\ t \in Task
      /\ frame.at \in {"idle", "switch"} /\ frame.at \in SavedPoints
      /\ TaskManager \in Table /\ next_pml4 \in Nat
  BY InterruptedPoint, QuietTable DEF TimerInterrupt, TimerMasked
<1>2. /\ QuietBut(TaskManager, {}, next_pml4) /\ Runnable(TaskManager, cur_pid)
      /\ Unsettled = {}
  BY <1>1, QuietTable DEF Unsettled
<1>3. t.ProcessState = "READY" /\ t.Exists /\ Expired(t) = e
  BY <1>2 DEF Runnable, Expired
<1>4. CASE QuantumOver(t)
  <2>1. /\ TaskManager' = [tm EXCEPT ![cur_pid].SavedRegisters = frame]
        /\ cur_pid' = next /\ cr3' = tm[next].Base_PML4
        /\ frame' = TaskManager'[next].SavedRegisters
        /\ UNCHANGED <<kstack, sigstack, next_pml4, halted>>
    BY <1>3, <1>4 DEF TimerInterrupt, LeaveFor, Arrive
  <2>2. /\ e \in Task /\ e.Exists = t.Exists /\ e.Base_PML4 = t.Base_PML4
        /\ e.SIGCHD = t.SIGCHD /\ e.ProcessState = t.ProcessState
        /\ e.SavedRegisters = t.SavedRegisters
    BY <1>1 DEF Task
  <2>3. Sound(e, next_pml4) /\ Fits(TaskManager, cur_pid, e) /\ Settled(e)
    BY <1>1, <1>2, <1>3, <2>2 DEF QuietBut, Sound, Fits, Settled
  <2>4. e.SavedRegisters.at \in SavedPoints
    BY <1>1, <1>2, <2>2 DEF QuietBut
  <2>5. QuietBut(tm, {} \ {cur_pid}, next_pml4)
    BY <1>1, <1>2, <2>2, <2>3, <2>4, ReplaceSlot
  <2>6. tm[cur_pid] = e
    BY <1>1 DEF Table
  <2>7. QuietBut(TaskManager', ({} \ {cur_pid}) \ {cur_pid}, next_pml4)
    BY <1>1, <2>1, <2>3, <2>5, <2>6, QuietSave, ZenonT(40)
  <2>8. QuietBut(TaskManager', {}, next_pml4)
    <3>1. ({} \ {cur_pid}) \ {cur_pid} = {}
      OBVIOUS
    <3> QED
      BY <2>7, <3>1
  <2>9. next \in PID /\ Runnable(tm, next)
    BY <1>1, <2>5, NextTask DEF QuietBut, Fits, Runnable
  <2>10. /\ TaskManager'[next].Exists = tm[next].Exists
         /\ TaskManager'[next].ProcessState = tm[next].ProcessState
         /\ TaskManager'[next].Base_PML4 = tm[next].Base_PML4
    <3>1. tm \in Table /\ tm[next] \in Task
      BY <2>5, <2>9 DEF QuietBut, Table
    <3>2. TaskManager'[next] = IF next = cur_pid
                               THEN [tm[next] EXCEPT !.SavedRegisters = frame]
                               ELSE tm[next]
      BY <1>1, <2>1, <2>9, <3>1 DEF Table
    <3> QED
      BY <1>1, <3>1, <3>2, TaskFields
  <2>11. frame'.at \in SavedPoints /\ (next = 0 => frame'.at # "user")
    BY <2>1, <2>8, <2>9 DEF QuietBut, Fits
  <2>12. TableInv'
    BY <2>1, <2>8, <2>11 DEF TableInv, Unsettled, SavedPoints
  <2>13. CurrentInv'
    BY <2>1, <2>9, <2>10, <2>11 DEF CurrentInv, Runnable, SavedPoints
  <2>14. HandlerInv'
    BY <2>1, <2>11 DEF HandlerInv, SavedPoints
  <2>15. StacksInv'
    BY <2>1 DEF SchedInv, StacksInv
  <2> QED
    BY <2>12, <2>13, <2>14, <2>15 DEF SchedInv
<1>5. CASE ~QuantumOver(t)
  <2> DEFINE u == Ticked(t, frame)
  <2>1. /\ TaskManager' = [TaskManager EXCEPT ![cur_pid] = u]
        /\ UNCHANGED <<cur_pid, cr3, frame, kstack, sigstack, next_pml4, halted>>
    BY <1>5 DEF TimerInterrupt
  <2>2. /\ u \in Task /\ u.Exists = t.Exists /\ u.Base_PML4 = t.Base_PML4
        /\ u.SIGCHD = t.SIGCHD /\ u.ProcessState = "READY"
        /\ u.SavedRegisters = frame
    <3>1. u \in Task
      BY <1>1, TaskUpdates
    <3>2. u = [t EXCEPT !.SavedRegisters = frame, !.UsedTicks = t.UsedTicks + 1]
      BY <1>3 DEF Ticked
    <3> QED
      BY <1>1, <1>3, <3>1, <3>2 DEF Task
  <2>3. Sound(u, next_pml4) /\ Fits(TaskManager, cur_pid, u) /\ Settled(u)
    BY <1>1, <1>2, <1>3, <2>2 DEF QuietBut, Sound, Fits, Settled
  <2>4. QuietBut(TaskManager', {} \ {cur_pid}, next_pml4)
    BY <1>1, <1>2, <2>1, <2>2, <2>3, ReplaceSlot
  <2>5. QuietBut(TaskManager', Unsettled, next_pml4)
    <3>1. {} \ {cur_pid} = {}
      OBVIOUS
    <3> QED
      BY <1>2, <2>4, <3>1
  <2>6. TaskManager'[cur_pid] = u
    BY <1>1, <2>1 DEF Table
  <2> QED
    BY <1>1, <1>3, <2>1, <2>2, <2>5, <2>6, TableOnlyInv
<1> QED
  BY <1>4, <1>5

----------------------------------------------------------------------------
(* System calls                                                            *)

\* The kernel stacks of a handler that leaves its own record alone, or puts
\* other registers into it.
LEMMA StacksKept ==
  ASSUME SchedInv, NEW c \in Context, c.at \in SavedPoints,
         kstack' = kstack \/ kstack' = [kstack EXCEPT ![frame.img].regs = c]
  PROVE  \A s \in PML4 : /\ kstack'[s].regs.at \in SavedPoints
                         /\ kstack'[s].op = kstack[s].op
                         /\ kstack'[s].cur = kstack[s].cur
                         /\ kstack'[s].op = "wait" => kstack'[s].cur # 0
<1>1. kstack \in [PML4 -> Activation] /\ frame.img \in PML4
  BY ActType DEF SchedInv, TypeOK
<1>2. ASSUME NEW s \in PML4
      PROVE  /\ kstack'[s].regs = kstack[s].regs \/ kstack'[s].regs = c
             /\ kstack'[s].op = kstack[s].op
             /\ kstack'[s].cur = kstack[s].cur
  BY <1>1 DEF Activation
<1> QED
  BY <1>2 DEF SchedInv, StacksInv

\* The entry of handle_syscall keeps SchedInv.
LEMMA EntryInv ==
  ASSUME SchedInv, TypeOK', NEW op \in AllOps, SyscallEntry(op)
  PROVE  SchedInv'
<1>1. /\ frame \in Context /\ frame.at = "user" /\ ~halted
      /\ cur_pid \in PID /\ cur_pid # 0 /\ tss \in PML4
      /\ TaskManager[cur_pid] \in Task /\ TaskManager \in Table
      /\ next_pml4 \in Nat
  BY ActType, QuietTable DEF SchedInv, TypeOK, HandlerInv, SyscallEntry
<1>2. QuietBut(TaskManager, {}, next_pml4) /\ Runnable(TaskManager, cur_pid)
  BY <1>1, QuietTable
<1>3. frame'.at = "entry" /\ frame'.img = tss
  BY DEF SyscallEntry, KernelContext
<1>4. TaskManager' = [TaskManager EXCEPT ![cur_pid].SavedRegisters = frame]
  BY DEF SyscallEntry
<1>5. QuietBut(TaskManager', {} \ {cur_pid}, next_pml4)
  BY <1>1, <1>2, <1>4, QuietSave DEF Settled, Runnable, SavedPoints
<1>6. TableInv'
  <2>1. {} \ {cur_pid} = {}
    OBVIOUS
  <2> QED
    BY <1>3, <1>5, <2>1 DEF TableInv, Unsettled, SyscallEntry
<1>7. CurrentInv'
  <2>1. TaskManager'[cur_pid] = [TaskManager[cur_pid] EXCEPT !.SavedRegisters = frame]
    BY <1>1, <1>4 DEF Table
  <2>2. /\ TaskManager'[cur_pid].Exists = TaskManager[cur_pid].Exists
        /\ TaskManager'[cur_pid].ProcessState = TaskManager[cur_pid].ProcessState
        /\ TaskManager'[cur_pid].Base_PML4 = TaskManager[cur_pid].Base_PML4
    BY <1>1, <2>1, TaskFields
  <2> QED
    BY <1>2, <1>3, <2>2 DEF CurrentInv, Runnable, SyscallEntry
<1>8. \A s \in PML4 : kstack'[s] =
        IF s = tss THEN [regs |-> frame, cur |-> cur_pid, op |-> op,
                         owner |-> TaskManager[cur_pid].Owner_PID]
        ELSE kstack[s]
  BY <1>1 DEF SyscallEntry, SchedInv, TypeOK
<1>9. HandlerInv'
  BY <1>1, <1>3, <1>8 DEF HandlerInv, act, SyscallEntry
<1>10. StacksInv'
  BY <1>1, <1>8 DEF SchedInv, StacksInv, SyscallEntry, SavedPoints
<1> QED
  BY <1>6, <1>7, <1>9, <1>10 DEF SchedInv

\* A system call runs for the current task, which is not the kernel's.
LEMMA InCall ==
  ASSUME SchedInv, ~halted, frame.at \in {"entry", "block", "exec"}
  PROVE  /\ act.cur = cur_pid /\ cur_pid # 0 /\ cur_pid \in PID
         /\ act.regs \in Context /\ act.regs.at \in SavedPoints
         /\ act.owner \in PID /\ frame.img \in PML4
         /\ TaskManager \in Table /\ TaskManager[cur_pid] \in Task
         /\ TaskManager[cur_pid].SavedRegisters \in Context
         /\ next_pml4 \in Nat
         /\ QuietBut(TaskManager, {cur_pid}, next_pml4)
         /\ frame.at = "entry" =>
              /\ QuietBut(TaskManager, {}, next_pml4)
              /\ Runnable(TaskManager, cur_pid)
              /\ cr3 = TaskManager[cur_pid].Base_PML4
<1>1. /\ act.cur = cur_pid /\ cur_pid # 0
  BY DEF SchedInv, HandlerInv
<1>2. /\ cur_pid \in PID /\ act.regs \in Context /\ act.owner \in PID
      /\ frame.img \in PML4 /\ TaskManager \in Table
      /\ TaskManager[cur_pid] \in Task
      /\ TaskManager[cur_pid].SavedRegisters \in Context
  BY ActType DEF SchedInv, TypeOK, Task
<1>3. act.regs.at \in SavedPoints
  BY <1>2 DEF SchedInv, StacksInv, act
<1>4. frame.at = "entry" => cr3 = TaskManager[cur_pid].Base_PML4
  BY DEF SchedInv, CurrentInv
<1> QED
  BY <1>1, <1>2, <1>3, <1>4, QuietTable

\* The frames on the user stacks stay the users'.
LEMMA PushedUser ==
  ASSUME SchedInv, NEW p \in PID
  PROVE  \A s \in PML4 : \A i \in 1 .. Len(PushedFrame(TaskManager, p)[s]) :
           PushedFrame(TaskManager, p)[s][i].at = "user"
<1> DEFINE regs == TaskManager[p].SavedRegisters
           b == TaskManager[p].Base_PML4
<1>1. /\ sigstack \in [PML4 -> Seq(Context)] /\ b \in PML4 /\ regs \in Context
  BY ActType DEF SchedInv, TypeOK, Table, Task
<1>2. \A s \in PML4 : \A i \in 1 .. Len(sigstack[s]) : sigstack[s][i].at = "user"
  BY DEF SchedInv, StacksInv
<1>3. CASE regs.at = "user"
  <2> DEFINE new == [sigstack EXCEPT ![b] = Append(sigstack[b], regs)]
  <2>1. ASSUME NEW s \in PML4, NEW i \in 1 .. Len(new[s])
        PROVE  new[s][i].at = "user"
    <3>1. CASE s # b
      BY <1>1, <1>2, <2>1, <3>1
    <3>2. CASE s = b
      <4>1. new[s] = Append(sigstack[b], regs) /\ sigstack[b] \in Seq(Context)
        BY <1>1, <3>2
      <4>2. i \in 1 .. Len(sigstack[b]) \/ i = Len(sigstack[b]) + 1
        BY <2>1, <4>1
      <4>3. CASE i \in 1 .. Len(sigstack[b])
        BY <1>1, <1>2, <4>1, <4>3
      <4>4. CASE i = Len(sigstack[b]) + 1
        <5>1. new[s][i] = regs
          BY <1>1, <4>1, <4>4
        <5> QED
          BY <1>3, <5>1
      <4> QED
        BY <4>2, <4>3, <4>4
    <3> QED
      BY <3>1, <3>2
  <2>2. PushedFrame(TaskManager, p) \in {sigstack, new}
    BY DEF PushedFrame
  <2> QED
    BY <1>2, <2>1, <2>2
<1>4. CASE regs.at # "user"
  BY <1>2, <1>4 DEF PushedFrame
<1> QED
  BY <1>3, <1>4

\* The exiting task is left to ForceSwitch in state KILL.
LEMMA QuietKill ==
  ASSUME NEW tm, NEW np \in Nat, NEW p \in PID \ {0}, QuietBut(tm, {p}, np)
  PROVE  /\ QuietBut(KillTask(tm, p), {p}, np)
         /\ KillTask(tm, p)[p].ProcessState = "KILL"
<1> DEFINE t == [tm[p] EXCEPT !.ProcessState = "KILL"]
<1>1. tm \in Table /\ tm[p] \in Task /\ tm[p].SavedRegisters \in Context
  BY DEF QuietBut, Table, Task
<1>2. KillTask(tm, p) = [tm EXCEPT ![p] = t]
  BY <1>1 DEF KillTask
<1>3. /\ t \in Task /\ t.ProcessState = "KILL" /\ t.Exists = tm[p].Exists
      /\ t.Base_PML4 = tm[p].Base_PML4 /\ t.SIGCHD = tm[p].SIGCHD
  BY <1>1, TaskFields, TaskUpdates, ZenonT(40) DEF ProcessStates
<1>4. Sound(t, np) /\ Fits(tm, p, t)
  BY <1>3, StillFits
<1>5. QuietBut([tm EXCEPT ![p] = t], {p} \cup {p}, np)
  BY <1>3, <1>4, ReplaceSlot
<1>6. [tm EXCEPT ![p] = t][p] = t
  BY <1>1 DEF Table
<1> QED
  BY <1>2, <1>3, <1>5, <1>6

\* exit, with the SIGCHD to the owner and ForceSwitch, keeps SchedInv.
LEMMA ExitInv ==
  ASSUME SchedInv, TypeOK', Exit
  PROVE  SchedInv'
<1> DEFINE owner == TaskManager[cur_pid].Owner_PID
           tm == IF owner # 0 THEN SendSignal(TaskManager, owner) ELSE TaskManager
<1>1. ~halted /\ frame.at = "entry"
  BY DEF Exit, Running
<1>2. /\ act.cur = cur_pid /\ cur_pid \in PID \ {0} /\ next_pml4 \in Nat
      /\ act.regs \in Context /\ act.regs.at \in SavedPoints
      /\ QuietBut(TaskManager, {}, next_pml4)
      /\ TaskManager[cur_pid] \in Task
  BY <1>1, InCall
<1>3. owner \in PID
  BY <1>2 DEF Task
<1>4. QuietBut(tm, {cur_pid}, next_pml4)
  BY <1>2, <1>3, QuietSignals, QuietWeaker
<1>5. /\ QuietBut(KillTask(tm, cur_pid), {cur_pid}, next_pml4)
      /\ KillTask(tm, cur_pid)[cur_pid].ProcessState = "KILL"
  BY <1>2, <1>4, QuietKill
<1>6. /\ ForceSwitch(KillTask(tm, cur_pid), act.regs, frame.img)
      /\ sigstack' = (IF owner # 0 THEN PushedFrame(TaskManager, owner)
                      ELSE sigstack)
      /\ UNCHANGED <<kstack, next_pml4>>
  BY <1>2 DEF Exit
<1>7. StacksInv'
  BY <1>3, <1>6, PushedUser DEF SchedInv, StacksInv
<1> QED
  BY <1>2, <1>5, <1>6, <1>7, SwitchInv

\* The calls that return without touching another task.
LEMMA OtherInv ==
  ASSUME SchedInv, TypeOK', OtherSyscall
  PROVE  SchedInv'
<1>1. ~halted /\ frame.at = "entry"
  BY DEF OtherSyscall, Running
<1> QED
  BY <1>1, InCall, ReturnInv DEF OtherSyscall, SchedInv, StacksInv

\* read and wait up to the "block" point.
LEMMA BlockInv ==
  ASSUME SchedInv, TypeOK', ~halted, frame.at = "entry",
         NEW t \in Task, t.Exists = TaskManager[cur_pid].Exists,
         t.Base_PML4 = TaskManager[cur_pid].Base_PML4,
         t.SIGCHD = TaskManager[cur_pid].SIGCHD,
         t.ProcessState = "WAITING", t.WaitingReason # "NULL",
         TaskManager' = [TaskManager EXCEPT ![cur_pid] = t],
         NEW c \in Context, c.at \in SavedPoints,
         kstack' = kstack \/ kstack' = [kstack EXCEPT ![frame.img].regs = c],
         frame' = KernelContext("block", frame.img),
         UNCHANGED <<cur_pid, cr3, sigstack, next_pml4, halted>>
  PROVE  SchedInv'
<1>1. /\ act.cur = cur_pid /\ cur_pid # 0 /\ cur_pid \in PID
      /\ frame.img \in PML4 /\ next_pml4 \in Nat /\ TaskManager \in Table
      /\ QuietBut(TaskManager, {}, next_pml4)
      /\ Runnable(TaskManager, cur_pid)
      /\ cr3 = TaskManager[cur_pid].Base_PML4
  BY InCall
<1>2. frame'.at = "block" /\ frame'.img = frame.img
  BY DEF KernelContext
<1>3. Sound(t, next_pml4) /\ Fits(TaskManager, cur_pid, t) /\ Settled(t)
  BY <1>1, StillFits DEF Settled
<1>4. QuietBut(TaskManager', {} \cup {cur_pid}, next_pml4)
  BY <1>1, <1>3, ReplaceSlot
<1>5. TableInv'
  <2>1. {} \cup {cur_pid} = {cur_pid}
    OBVIOUS
  <2> QED
    BY <1>2, <1>4, <2>1 DEF TableInv, Unsettled
<1>6. CurrentInv'
  <2>1. TaskManager'[cur_pid] = t
    BY <1>1 DEF Table
  <2> QED
    BY <1>1, <1>2, <1>3, <2>1 DEF CurrentInv, Runnable
<1>7. HandlerInv'
  BY <1>1, <1>2, StacksKept DEF HandlerInv, act
<1>8. StacksInv'
  BY StacksKept DEF SchedInv, StacksInv
<1> QED
  BY <1>5, <1>6, <1>7, <1>8 DEF SchedInv

\* read(STD_IN_FD) keeps SchedInv up to its "block" point.
LEMMA ReadInv ==
  ASSUME SchedInv, TypeOK', Read
  PROVE  SchedInv'
<1> DEFINE c == [act.regs EXCEPT !.on = "input"]
           t == Blocked(TaskManager[cur_pid], "INPUT")
<1>1. ~halted /\ frame.at = "entry"
  BY DEF Read, Running
<1>2. /\ act.cur = cur_pid /\ TaskManager[cur_pid] \in Task
      /\ act.regs \in Context /\ act.regs.at \in SavedPoints
  BY <1>1, InCall
<1>3. c \in Context /\ c.at \in SavedPoints
  BY <1>2 DEF Context
<1>4. /\ t \in Task /\ t.Exists = TaskManager[cur_pid].Exists
      /\ t.Base_PML4 = TaskManager[cur_pid].Base_PML4
      /\ t.SIGCHD = TaskManager[cur_pid].SIGCHD
      /\ t.ProcessState = "WAITING" /\ t.WaitingReason = "INPUT"
  BY <1>2, <1>3, TaskUpdates, TaskFields
<1>5. /\ TaskManager' = [TaskManager EXCEPT ![cur_pid] = t]
      /\ kstack' = [kstack EXCEPT ![frame.img].regs = c]
      /\ frame' = KernelContext("block", frame.img)
      /\ UNCHANGED <<cur_pid, cr3, sigstack, next_pml4, halted>>
  BY <1>2 DEF Read
<1> QED
  BY <1>1, <1>3, <1>4, <1>5, BlockInv

\* wait keeps SchedInv, refused or blocking.
LEMMA WaitInv ==
  ASSUME SchedInv, TypeOK', Wait
  PROVE  SchedInv'
<1>1. ~halted /\ frame.at = "entry"
  BY DEF Wait, Running
<1>2. /\ act.cur = cur_pid /\ TaskManager[cur_pid] \in Task
      /\ act.regs \in Context /\ act.regs.at \in SavedPoints
  BY <1>1, InCall
<1>3. CASE Return(TaskManager, act.regs)
  <2>1. UNCHANGED <<cr3, sigstack, next_pml4>>
    BY DEF Wait
  <2> QED
    BY <1>1, <1>3, <2>1, InCall, ReturnInv DEF SchedInv, StacksInv
<1>4. ASSUME NEW reason \in {"EXIT", "OTHER"},
             TaskManager' =
               [TaskManager EXCEPT ![act.cur] =
                  [Blocked(TaskManager[act.cur], "CHILD") EXCEPT
                     !.ChildWaitingReason = reason]],
             frame' = KernelContext("block", frame.img),
             UNCHANGED <<cur_pid, kstack>>
      PROVE  SchedInv'
  <2> DEFINE t == [Blocked(TaskManager[cur_pid], "CHILD") EXCEPT
                     !.ChildWaitingReason = reason]
  <2>1. /\ t \in Task /\ t.Exists = TaskManager[cur_pid].Exists
        /\ t.Base_PML4 = TaskManager[cur_pid].Base_PML4
        /\ t.SIGCHD = TaskManager[cur_pid].SIGCHD
        /\ t.ProcessState = "WAITING" /\ t.WaitingReason = "CHILD"
    <3>1. t \in Task
      BY <1>2, <1>4, TaskUpdates
    <3> HIDE DEF t
    <3>2. LET u == t
          IN  /\ u.Exists = TaskManager[cur_pid].Exists
              /\ u.Base_PML4 = TaskManager[cur_pid].Base_PML4
              /\ u.SIGCHD = TaskManager[cur_pid].SIGCHD
              /\ u.ProcessState = "WAITING" /\ u.WaitingReason = "CHILD"
      BY <1>2, <1>4, TaskFields DEF t
    <3> QED
      BY <3>1, <3>2
  <2>2. UNCHANGED <<cr3, sigstack, next_pml4, halted>>
    BY DEF Wait
  <2>3. TaskManager' = [TaskManager EXCEPT ![cur_pid] = t]
    BY <1>2, <1>4
  <2> QED
    BY <1>1, <1>2, <1>4, <2>1, <2>2, <2>3, BlockInv
<1> QED
  BY <1>3, <1>4 DEF Wait

\* The ForceSwitch of a task that has blocked keeps SchedInv.
LEMMA GiveUpInv ==
  ASSUME SchedInv, TypeOK', GiveUpCPU
  PROVE  SchedInv'
<1>1. ~halted /\ frame.at = "block"
  BY DEF GiveUpCPU
<1>2. Settled(TaskManager[cur_pid])
  BY <1>1 DEF SchedInv, CurrentInv
<1>3. StacksInv'
  BY DEF SchedInv, StacksInv, GiveUpCPU
<1> QED
  BY <1>1, <1>2, <1>3, InCall, SwitchInv DEF GiveUpCPU

\* The end of execve, from SavedRegisters on, keeps SchedInv.
LEMMA ExecReturnInv ==
  ASSUME SchedInv, TypeOK', ExecReturn
  PROVE  SchedInv'
<1> DEFINE t == Reloaded(TaskManager[cur_pid], act.owner)
           tm == [TaskManager EXCEPT ![cur_pid] = t]
           regs == TaskManager[cur_pid].SavedRegisters
<1>1. ~halted /\ frame.at = "exec"
  BY DEF ExecReturn
<1>2. /\ act.cur = cur_pid /\ cur_pid # 0 /\ cur_pid \in PID
      /\ TaskManager[cur_pid] \in Task /\ TaskManager \in Table
      /\ regs \in Context /\ act.owner \in PID /\ next_pml4 \in Nat
      /\ QuietBut(TaskManager, {cur_pid}, next_pml4)
  BY <1>1, InCall
<1>3. regs.at \in SavedPoints
  BY <1>1 DEF SchedInv, CurrentInv
<1>4. /\ t \in Task /\ t.Exists = TaskManager[cur_pid].Exists
      /\ t.Base_PML4 = TaskManager[cur_pid].Base_PML4
      /\ t.SIGCHD = TaskManager[cur_pid].SIGCHD /\ t.ProcessState = "READY"
  <2>1. t \in Task
    BY <1>2, TaskUpdates
  <2>2. t = [TaskManager[cur_pid] EXCEPT !.ProcessState = "READY",
                                         !.Owner_PID = act.owner]
    BY DEF Reloaded
  <2> QED
    BY <1>2, <2>1, <2>2 DEF Task
<1>5. Sound(t, next_pml4) /\ Fits(TaskManager, cur_pid, t) /\ Settled(t)
  BY <1>2, <1>4, StillFits DEF Settled
<1>6. QuietBut(tm, {cur_pid} \cup {cur_pid}, next_pml4)
  BY <1>2, <1>4, <1>5, ReplaceSlot
<1>7. QuietBut(tm, {cur_pid}, next_pml4) /\ tm[cur_pid] = t
  BY <1>2, <1>6 DEF Table
<1>8. ForceSwitch(tm, regs, frame.img) /\ StacksInv' /\ next_pml4' = next_pml4
  BY <1>2 DEF SchedInv, StacksInv, ExecReturn
<1> QED
  BY <1>2, <1>3, <1>5, <1>7, <1>8, SwitchInv

\* sigreg keeps SchedInv: only a checked handler is registered.
LEMMA SigregInv ==
  ASSUME SchedInv, TypeOK', Sigreg
  PROVE  SchedInv'
<1>1. ~halted /\ frame.at = "entry"
  BY DEF Sigreg, Running
<1>2. /\ act.cur = cur_pid /\ cur_pid # 0 /\ cur_pid \in PID
      /\ TaskManager[cur_pid] \in Task /\ TaskManager \in Table
      /\ act.regs \in Context /\ act.regs.at \in SavedPoints
      /\ next_pml4 \in Nat
      /\ QuietBut(TaskManager, {}, next_pml4)
      /\ Runnable(TaskManager, cur_pid)
      /\ cr3 = TaskManager[cur_pid].Base_PML4
  BY <1>1, InCall
<1>3. /\ UNCHANGED <<cr3, sigstack, next_pml4>>
      /\ Return(TaskManager, act.regs)
         \/ Return([TaskManager EXCEPT ![cur_pid].SIGCHD = "ok"], act.regs)
  BY <1>2 DEF Sigreg, RegisterSignal
<1>4. CASE Return(TaskManager, act.regs)
  BY <1>1, <1>2, <1>3, <1>4, ReturnInv DEF SchedInv, StacksInv
<1>5. CASE Return([TaskManager EXCEPT ![cur_pid].SIGCHD = "ok"], act.regs)
  <2> DEFINE t == [TaskManager[cur_pid] EXCEPT !.SIGCHD = "ok"]
             tm == [TaskManager EXCEPT ![cur_pid] = t]
  <2>1. tm = [TaskManager EXCEPT ![cur_pid].SIGCHD = "ok"]
    BY <1>2 DEF Table
  <2>2. /\ t \in Task /\ t.Exists = TaskManager[cur_pid].Exists
        /\ t.Base_PML4 = TaskManager[cur_pid].Base_PML4
        /\ t.SIGCHD = "ok" /\ t.ProcessState = TaskManager[cur_pid].ProcessState
        /\ t.SavedRegisters = TaskManager[cur_pid].SavedRegisters
    BY <1>2 DEF Task
  <2>3. Sound(t, next_pml4) /\ Fits(TaskManager, cur_pid, t) /\ Settled(t)
    BY <1>2, <2>2 DEF QuietBut, Sound, Fits, Settled, Runnable
  <2>4. t.SavedRegisters.at \in SavedPoints
    BY <1>2, <2>2 DEF QuietBut
  <2>5. QuietBut(tm, {} \ {cur_pid}, next_pml4)
    BY <1>2, <2>2, <2>3, <2>4, ReplaceSlot
  <2>6. QuietBut(tm, {}, next_pml4) /\ tm[cur_pid] = t
    <3>1. {} \ {cur_pid} = {}
      OBVIOUS
    <3> QED
      BY <1>2, <2>5, <3>1 DEF Table
  <2>7. Runnable(tm, cur_pid) /\ cr3' = tm[cur_pid].Base_PML4
    BY <1>2, <1>3, <2>2, <2>6 DEF Runnable
  <2>8. \A s \in PML4 : \A i \in 1 .. Len(sigstack'[s]) :
          sigstack'[s][i].at = "user"
    BY <1>3 DEF SchedInv, StacksInv
  <2> QED
    BY <1>1, <1>2, <1>3, <1>5, <2>1, <2>6, <2>7, <2>8, ReturnInv
<1> QED
  BY <1>3, <1>4, <1>5

\* fork keeps SchedInv, even when the table is full and slot 1 is reused:
\* the child's page tables are fresh.
LEMMA ForkInv ==
  ASSUME SchedInv, TypeOK', Fork
  PROVE  SchedInv'
<1> DEFINE parent == TaskManager[cur_pid]
           from == parent.Base_PML4
           np == next_pml4
           child_pid == RegisterTask(TaskManager)
           child == ForkedTask(parent, cur_pid, act.regs, np)
           tm == [TaskManager EXCEPT ![child_pid] = child]
<1>1. ~halted /\ frame.at = "entry"
  BY DEF Fork, Running
<1>2. /\ act.cur = cur_pid /\ cur_pid # 0 /\ cur_pid \in PID
      /\ parent \in Task /\ TaskManager \in Table
      /\ act.regs \in Context /\ act.regs.at \in SavedPoints
      /\ np \in Nat /\ np + 1 \in Nat
      /\ QuietBut(TaskManager, {}, np)
      /\ Runnable(TaskManager, cur_pid)
  BY <1>1, InCall
<1>3. /\ next_pml4' = np + 1
      /\ np \in PML4
      /\ Return(tm, act.regs)
      /\ cr3' = tm[cur_pid].Base_PML4
      /\ sigstack' =
           IF child_pid = cur_pid THEN sigstack
           ELSE [sigstack EXCEPT ![np] =
                   [i \in DOMAIN sigstack[from] |->
                      CopiedFrame(sigstack[from][i], from, np)]]
  BY <1>2, TasksAssumption DEF Fork, PML4
<1>4. from \in PML4
  BY <1>2 DEF Task
<1>5. child_pid \in PID /\ child_pid # 0
  BY <1>2, RegisteredSlot, BaseTypes DEF QuietBut, Fits
<1>6. CopiedFrame(act.regs, from, np) \in Context
      /\ CopiedFrame(act.regs, from, np).at = act.regs.at
  BY <1>2, <1>3, <1>4, ContextTypes DEF CopiedFrame, Context
<1>7. /\ child \in Task /\ child.Exists /\ child.ProcessState = "READY"
      /\ child.Base_PML4 = np /\ child.SIGCHD = parent.SIGCHD
      /\ child.SavedRegisters.at \in SavedPoints
  <2>1. child \in Task
    BY <1>2, <1>3, TaskTypes
  <2>2. child = [parent EXCEPT
                   !.SavedRegisters = CopiedFrame(act.regs, from, np),
                   !.Exists = TRUE, !.ProcessState = "READY",
                   !.Base_PML4 = np, !.Owner_PID = cur_pid]
    BY DEF ForkedTask
  <2>3. /\ child.Exists /\ child.ProcessState = "READY"
        /\ child.Base_PML4 = np /\ child.SIGCHD = parent.SIGCHD
        /\ child.SavedRegisters = CopiedFrame(act.regs, from, np)
    BY <1>2, <2>2 DEF Task
  <2> QED
    BY <1>2, <1>6, <2>1, <2>3
<1>8. Sound(child, np + 1) /\ Settled(child) /\ Fits(TaskManager, child_pid, child)
  BY <1>2, <1>5, <1>7 DEF QuietBut, Sound, Fits, Settled
<1>9. QuietBut(TaskManager, {}, np + 1)
  BY <1>2, QuietLater
<1>10. QuietBut(tm, {} \ {child_pid}, np + 1)
  BY <1>2, <1>5, <1>7, <1>8, <1>9, ReplaceSlot
<1>11. QuietBut(tm, {}, np + 1)
  <2>1. {} \ {child_pid} = {}
    OBVIOUS
  <2> QED
    BY <1>10, <2>1
<1>12. Runnable(tm, cur_pid)
  BY <1>2, <1>7 DEF Runnable, Table
<1>13. ASSUME NEW s \in PML4, NEW i \in 1 .. Len(sigstack'[s])
       PROVE  sigstack'[s][i].at = "user"
  <2>1. /\ sigstack \in [PML4 -> Seq(Context)]
        /\ sigstack' \in [PML4 -> Seq(Context)]
    BY DEF SchedInv, TypeOK
  <2>2. \A q \in PML4 : \A j \in 1 .. Len(sigstack[q]) : sigstack[q][j].at = "user"
    BY DEF SchedInv, StacksInv
  <2>3. CASE sigstack'[s] = sigstack[s]
    BY <1>13, <2>2, <2>3
  <2>4. CASE sigstack'[s] # sigstack[s]
    <3>1. sigstack'[s] = [j \in DOMAIN sigstack[from] |->
                            CopiedFrame(sigstack[from][j], from, np)]
      BY <1>3, <2>1, <2>4
    <3>2. sigstack'[s] \in Seq(Context) /\ sigstack[from] \in Seq(Context)
      BY <1>4, <2>1
    <3>3. DOMAIN sigstack'[s] = DOMAIN sigstack[from]
      BY <3>1
    <3>4. i \in 1 .. Len(sigstack[from])
      BY <1>13, <3>2, <3>3
    <3>5. sigstack'[s][i] = CopiedFrame(sigstack[from][i], from, np)
      BY <3>1, <3>2, <3>4
    <3>6. sigstack[from][i].at = "user" /\ sigstack[from][i] \in Context
      BY <1>4, <2>2, <3>2, <3>4
    <3> QED
      BY <3>5, <3>6 DEF CopiedFrame, Context
  <2> QED
    BY <2>3, <2>4
<1> QED
  BY <1>1, <1>2, <1>3, <1>11, <1>12, <1>13, ReturnInv

\* execve up to the "exec" point.
LEMMA ReloadInv ==
  ASSUME SchedInv, TypeOK', ~halted, frame.at = "entry",
         NEW t \in Task, t.Exists, Sound(t, next_pml4 + 1),
         Fits(TaskManager, cur_pid, t),
         t.ProcessState \in {"READY", "CREATION"},
         t.SavedRegisters.at \in SavedPoints,
         Reload([TaskManager EXCEPT ![cur_pid] = t])
  PROVE  SchedInv'
<1>1. /\ act.cur = cur_pid /\ cur_pid # 0 /\ cur_pid \in PID
      /\ TaskManager \in Table /\ next_pml4 \in Nat /\ next_pml4 + 1 \in Nat
      /\ QuietBut(TaskManager, {}, next_pml4)
  BY InCall
<1>2. /\ TaskManager' = [TaskManager EXCEPT ![cur_pid] = t]
      /\ next_pml4' = next_pml4 + 1
      /\ UNCHANGED <<cur_pid, kstack, sigstack, halted>>
      /\ frame'.at = "exec" /\ frame'.img = frame.img
  BY DEF Reload, KernelContext
<1>3. QuietBut(TaskManager', {} \cup {cur_pid}, next_pml4 + 1)
  BY <1>1, <1>2, QuietLater, ReplaceSlot
<1>4. TableInv'
  <2>1. {} \cup {cur_pid} = {cur_pid}
    OBVIOUS
  <2> QED
    BY <1>2, <1>3, <2>1 DEF TableInv, Unsettled
<1>5. CurrentInv'
  <2>1. TaskManager'[cur_pid] = t
    BY <1>1, <1>2 DEF Table
  <2> QED
    BY <1>2, <2>1 DEF CurrentInv
<1>6. HandlerInv'
  BY <1>1, <1>2 DEF HandlerInv, act
<1>7. StacksInv'
  BY <1>2 DEF SchedInv, StacksInv
<1> QED
  BY <1>4, <1>5, <1>6, <1>7 DEF SchedInv

\* execve of a loadable file keeps SchedInv up to its "exec" point.
LEMMA ExecveInv ==
  ASSUME SchedInv, TypeOK', Execve
  PROVE  SchedInv'
<1> DEFINE t == LoadedTask(next_pml4)
<1>1. ~halted /\ frame.at = "entry"
  BY DEF Execve, Running
<1>2. /\ act.cur = cur_pid /\ cur_pid # 0 /\ cur_pid \in PID
      /\ next_pml4 \in Nat /\ QuietBut(TaskManager, {}, next_pml4)
  BY <1>1, InCall
<1>3. next_pml4 \in PML4
  BY <1>2, TasksAssumption DEF Execve, Reload, PML4
<1>4. /\ t \in Task /\ t.Exists /\ t.ProcessState = "READY"
      /\ t.Base_PML4 = next_pml4 /\ t.SIGCHD = "none"
      /\ t.SavedRegisters.at = "user"
  BY <1>3, TaskTypes DEF LoadedTask, ZeroTask, UserContext
<1>5. Sound(t, next_pml4 + 1) /\ Fits(TaskManager, cur_pid, t)
  BY <1>2, <1>4 DEF QuietBut, Sound, Fits
<1> QED
  BY <1>1, <1>2, <1>4, <1>5, ReloadInv DEF Execve, SavedPoints

\* execve of a file LoadElfStrict rejects keeps SchedInv up to "exec".
LEMMA BadExecveInv ==
  ASSUME SchedInv, TypeOK', BadExecve
  PROVE  SchedInv'
<1> DEFINE t == [TaskManager[cur_pid] EXCEPT !.ProcessState = "CREATION"]
<1>1. ~halted /\ frame.at = "entry"
  BY DEF BadExecve, Running
<1>2. /\ act.cur = cur_pid /\ cur_pid # 0 /\ cur_pid \in PID
      /\ TaskManager[cur_pid] \in Task /\ TaskManager \in Table
      /\ TaskManager[cur_pid].SavedRegisters \in Context
      /\ next_pml4 \in Nat /\ QuietBut(TaskManager, {}, next_pml4)
      /\ Runnable(TaskManager, cur_pid)
  BY <1>1, InCall
<1>3. /\ t \in Task /\ t.Exists = TaskManager[cur_pid].Exists
      /\ t.ProcessState = "CREATION"
      /\ t.Base_PML4 = TaskManager[cur_pid].Base_PML4
      /\ t.SIGCHD = TaskManager[cur_pid].SIGCHD
      /\ t.SavedRegisters = TaskManager[cur_pid].SavedRegisters
  BY <1>2 DEF Task, ProcessStates
<1>4. t.SavedRegisters.at \in SavedPoints
  BY <1>2, <1>3 DEF QuietBut
<1>5. QuietBut(TaskManager, {}, next_pml4 + 1)
  BY <1>2, QuietLater
<1>6. Sound(t, next_pml4 + 1) /\ Fits(TaskManager, cur_pid, t) /\ t.Exists
  BY <1>2, <1>3, <1>5, StillFits, ZenonT(40) DEF Runnable
<1>7. Reload([TaskManager EXCEPT ![cur_pid] = t])
  <2>1. [TaskManager EXCEPT ![cur_pid].ProcessState = "CREATION"]
          = [TaskManager EXCEPT ![cur_pid] = t]
    BY <1>2 DEF Table
  <2> QED
    BY <1>2, <2>1 DEF BadExecve
<1> QED
  BY <1>1, <1>3, <1>4, <1>6, <1>7, ReloadInv

\* sigret keeps SchedInv: what it pops from a user stack is a user frame.
LEMMA SigretInv ==
  ASSUME SchedInv, TypeOK', Sigret
  PROVE  SchedInv'
<1> DEFINE t == TaskManager[cur_pid]
           b == t.Base_PML4
           pushed == sigstack[b]
<1>1. ~halted /\ frame.at = "entry"
  BY DEF Sigret, Running
<1>2. /\ act.cur = cur_pid /\ cur_pid # 0 /\ cur_pid \in PID
      /\ t \in Task /\ TaskManager \in Table /\ t.SavedRegisters \in Context
      /\ next_pml4 \in Nat /\ QuietBut(TaskManager, {}, next_pml4)
      /\ Runnable(TaskManager, cur_pid) /\ cr3 = b
  BY <1>1, InCall
<1>3. b \in PML4 /\ pushed \in Seq(Context) /\ sigstack \in [PML4 -> Seq(Context)]
  BY <1>2 DEF SchedInv, TypeOK, Task
<1>4. [TaskManager EXCEPT ![act.cur].ProcessState = "READY"] = TaskManager
  <2>1. t.ProcessState = "READY"
    BY <1>2 DEF Runnable
  <2>2. [t EXCEPT !.ProcessState = "READY"] = t
    BY <1>2, <2>1 DEF Task
  <2>3. [TaskManager EXCEPT ![act.cur].ProcessState = "READY"]
          = [TaskManager EXCEPT ![cur_pid] = t]
    BY <1>2, <2>2 DEF Table
  <2> QED
    BY <1>2, <2>3 DEF Table
<1>5. UNCHANGED <<cr3, next_pml4>>
  BY DEF Sigret
<1>6. \A s \in PML4 : \A i \in 1 .. Len(sigstack[s]) : sigstack[s][i].at = "user"
  BY DEF SchedInv, StacksInv
<1>7. ASSUME NEW kept \in BOOLEAN, pushed # <<>>,
             Return(TaskManager, PoppedFrame(pushed[Len(pushed)],
                                             t.SavedRegisters, kept)),
             sigstack' = [sigstack EXCEPT
                             ![b] = SubSeq(pushed, 1, Len(pushed) - 1)]
      PROVE  SchedInv'
  <2> DEFINE popped == PoppedFrame(pushed[Len(pushed)], t.SavedRegisters, kept)
  <2>1. Len(pushed) \in 1 .. Len(pushed) /\ Len(pushed) \in Nat
    BY <1>3, <1>7
  <2>2. popped \in Context /\ popped.at = "user"
    <3>1. pushed[Len(pushed)] \in Context /\ pushed[Len(pushed)].at = "user"
      BY <1>3, <1>6, <2>1
    <3> HIDE DEF pushed, t
    <3> QED
      BY <1>2, <3>1, PoppedType
  <2>3. ASSUME NEW s \in PML4, NEW i \in 1 .. Len(sigstack'[s])
        PROVE  sigstack'[s][i].at = "user"
    <3>1. CASE s # b
      BY <1>3, <1>6, <1>7, <2>3, <3>1
    <3>2. CASE s = b
      <4>1. sigstack'[s] = SubSeq(pushed, 1, Len(pushed) - 1)
        BY <1>3, <1>7, <3>2
      <4>2. Len(sigstack'[s]) = Len(pushed) - 1
        BY <1>3, <2>1, <4>1
      <4>3. i \in 1 .. Len(pushed) /\ sigstack'[s][i] = pushed[i]
        BY <1>3, <2>1, <2>3, <4>1, <4>2
      <4> QED
        BY <1>3, <1>6, <4>3
    <3> QED
      BY <3>1, <3>2
  <2>4. Return(TaskManager, popped)
    BY <1>7
  <2> HIDE DEF popped
  <2> QED
    BY <1>1, <1>2, <1>5, <2>2, <2>3, <2>4, ReturnInv DEF SavedPoints
<1>8. ASSUME NEW c \in Context, c.at \in SavedPoints, Return(TaskManager, c),
             sigstack' = sigstack
      PROVE  SchedInv'
  BY <1>1, <1>2, <1>5, <1>6, <1>8, ReturnInv
<1>9. /\ [t.SavedRegisters EXCEPT !.on = "none"] \in Context
      /\ [t.SavedRegisters EXCEPT !.on = "none"].at = t.SavedRegisters.at
      /\ Junk \in Context /\ Junk.at \in SavedPoints
  BY <1>2, ContextTypes DEF Context, Junk, SavedPoints
<1>10. CASE /\ t.SavedRegisters.at = "user"
            /\ Return(TaskManager, [t.SavedRegisters EXCEPT !.on = "none"])
            /\ sigstack' = sigstack
  BY <1>8, <1>9, <1>10 DEF SavedPoints
<1>11. CASE Return(TaskManager, Junk) /\ sigstack' = sigstack
  BY <1>8, <1>9, <1>11
<1> QED
  BY <1>2, <1>4, <1>7, <1>10, <1>11 DEF Sigret

----------------------------------------------------------------------------
(* Loading a frame, and faults                                             *)

\* The frame load of task_switch keeps SchedInv, wait's late save included.
LEMMA SwitchInInv ==
  ASSUME SchedInv, TypeOK', SwitchIn
  PROVE  SchedInv'
<1> DEFINE regs == TaskManager[cur_pid].SavedRegisters
<1>1. /\ frame.at = "switch" /\ cur_pid \in PID /\ frame.img \in PML4
      /\ TaskManager \in Table /\ act.cur \in PID /\ next_pml4 \in Nat
      /\ regs \in Context
  BY ActType, QuietTable DEF SchedInv, TypeOK, SwitchIn, Task
<1>2. QuietBut(TaskManager, {}, next_pml4) /\ Runnable(TaskManager, cur_pid)
  BY <1>1, QuietTable
<1>3. regs.at \in SavedPoints /\ (cur_pid = 0 => regs.at # "user")
  BY <1>1, <1>2 DEF QuietBut, Fits
<1>4. /\ kstack' = [kstack EXCEPT ![frame.img].regs = regs]
      /\ frame'.at = "return" /\ frame'.img = frame.img
      /\ UNCHANGED <<cur_pid, cr3, sigstack, next_pml4, halted>>
  BY DEF SwitchIn, KernelContext
<1>5. /\ QuietBut(TaskManager', {}, next_pml4)
      /\ TaskManager'[cur_pid].Exists = TaskManager[cur_pid].Exists
      /\ TaskManager'[cur_pid].ProcessState = TaskManager[cur_pid].ProcessState
      /\ TaskManager'[cur_pid].Base_PML4 = TaskManager[cur_pid].Base_PML4
  <2>1. CASE act.op = "wait"
    <3>1. TaskManager' = [TaskManager EXCEPT ![act.cur].SavedRegisters = regs]
      BY <2>1 DEF SwitchIn
    <3>2. act.cur # 0
      BY <1>1, <2>1 DEF act, SchedInv, StacksInv
    <3>3. Settled(TaskManager[act.cur])
      BY <1>1, <1>2 DEF QuietBut
    <3>4. QuietBut(TaskManager', {} \ {act.cur}, next_pml4)
      BY <1>1, <1>2, <1>3, <3>1, <3>2, <3>3, QuietSave
    <3>5. {} \ {act.cur} = {}
      OBVIOUS
    <3>6. TaskManager[cur_pid] \in Task
      BY <1>1 DEF Table
    <3>7. TaskManager'[cur_pid] =
            IF act.cur = cur_pid
            THEN [TaskManager[cur_pid] EXCEPT !.SavedRegisters = regs]
            ELSE TaskManager[cur_pid]
      BY <1>1, <3>1 DEF Table
    <3> QED
      BY <1>1, <3>4, <3>5, <3>6, <3>7, TaskFields
  <2>2. CASE act.op # "wait"
    BY <1>2, <2>2 DEF SwitchIn
  <2> QED
    BY <2>1, <2>2
<1>6. TableInv'
  BY <1>4, <1>5 DEF TableInv, Unsettled
<1>7. CurrentInv'
  BY <1>1, <1>2, <1>4, <1>5 DEF SchedInv, CurrentInv, Runnable
<1>8. act'.regs = regs
  BY <1>1, <1>4 DEF act, SchedInv, TypeOK, Activation
<1>9. HandlerInv'
  BY <1>3, <1>4, <1>8 DEF HandlerInv
<1>10. StacksInv'
  BY <1>1, <1>3, <1>4, StacksKept DEF SchedInv, StacksInv
<1> QED
  BY <1>6, <1>7, <1>9, <1>10 DEF SchedInv

\* The iretq of a handler stub keeps SchedInv.
LEMMA InterruptReturnInv ==
  ASSUME SchedInv, TypeOK', InterruptReturn
  PROVE  SchedInv'
<1>1. /\ frame.at = "return" /\ frame' = act.regs /\ frame.img \in PML4
      /\ UNCHANGED <<TaskManager, cur_pid, cr3, kstack, sigstack, next_pml4,
                     halted>>
  BY ActType DEF SchedInv, InterruptReturn
<1>2. frame'.at \in SavedPoints /\ (frame'.at = "user" => cur_pid # 0)
  BY <1>1 DEF SchedInv, StacksInv, HandlerInv, act
<1>3. TableInv'
  BY <1>1, <1>2 DEF SchedInv, TableInv, Unsettled, SavedPoints
<1>4. CurrentInv'
  BY <1>1, <1>2 DEF SchedInv, CurrentInv, SavedPoints
<1>5. HandlerInv'
  BY <1>1, <1>2 DEF SchedInv, HandlerInv, SavedPoints
<1>6. StacksInv'
  BY <1>1 DEF SchedInv, StacksInv
<1> QED
  BY <1>3, <1>4, <1>5, <1>6 DEF SchedInv

\* The kill of HandlePageFault keeps SchedInv.
LEMMA PageFaultInv ==
  ASSUME SchedInv, TypeOK', PageFaultKill
  PROVE  SchedInv'
<1> DEFINE saved == [TaskManager EXCEPT ![cur_pid].SavedRegisters = frame]
           killed == KillTask(saved, cur_pid)
           tm == SignalOwner(killed, cur_pid, "EXIT")
<1>1. /\ frame \in Context /\ frame.at = "user" /\ ~halted
      /\ cur_pid \in PID /\ cur_pid # 0 /\ tss \in PML4
      /\ TaskManager \in Table /\ next_pml4 \in Nat
  BY ActType, QuietTable DEF SchedInv, TypeOK, HandlerInv, PageFaultKill
<1>2. QuietBut(TaskManager, {cur_pid}, next_pml4)
  BY QuietTable
<1>3. QuietBut(saved, {cur_pid} \cup {cur_pid}, next_pml4)
  BY <1>1, <1>2, QuietSave
<1>4. /\ QuietBut(killed, {cur_pid}, next_pml4)
      /\ killed[cur_pid].ProcessState = "KILL"
  BY <1>1, <1>3, QuietKill
<1>5. QuietBut(tm, {cur_pid}, next_pml4)
  BY <1>1, <1>4, QuietSignals
<1>6. tm[cur_pid].ProcessState = "KILL"
  <2>1. killed \in Table /\ killed[cur_pid].Owner_PID \in PID
    BY <1>1, <1>4 DEF QuietBut, Table, Task
  <2> QED
    BY <1>1, <1>4, <2>1 DEF SignalOwner, Table
<1>7. /\ ForceSwitch(tm, frame, tss) /\ UNCHANGED <<sigstack, next_pml4>>
      /\ \A s \in PML4 : kstack'[s] =
           IF s = tss THEN [regs |-> frame, cur |-> cur_pid, op |-> "pf",
                            owner |-> 0]
           ELSE kstack[s]
  BY <1>1 DEF PageFaultKill, SchedInv, TypeOK
<1>8. StacksInv'
  BY <1>1, <1>7 DEF SchedInv, StacksInv, SavedPoints
<1> QED
  BY <1>1, <1>5, <1>6, <1>7, <1>8, SwitchInv DEF SavedPoints

\* The kernel task survives the panic, and nothing runs any more.
LEMMA InvalidOpcodeInv ==
  ASSUME SchedInv, TypeOK', InvalidOpcode
  PROVE  SchedInv'
<1>1. /\ frame.at = "user" /\ cur_pid # 0 /\ cur_pid \in PID /\ 0 \in PID
      /\ QuietBut(TaskManager, {}, next_pml4)
  BY QuietTable, BaseTypes DEF SchedInv, TypeOK, HandlerInv, InvalidOpcode
<1>2. /\ cur_pid' = 0 /\ cr3' = TaskManager[0].Base_PML4 /\ halted'
      /\ UNCHANGED <<frame, kstack, sigstack, next_pml4>>
  BY DEF InvalidOpcode
<1>3. ASSUME NEW p \in PID
      PROVE  \/ TaskManager'[p] = TaskManager[p]
             \/ /\ p # 0 /\ ~TaskManager'[p].Exists
                /\ TaskManager'[p].SIGCHD = "none"
                /\ TaskManager'[p].SavedRegisters.at \in SavedPoints
  <2> DEFINE z(c) == [ZeroTask EXCEPT !.SavedRegisters = c]
  <2>1. \A c : ~z(c).Exists /\ z(c).SIGCHD = "none" /\ z(c).SavedRegisters = c
    BY DEF ZeroTask
  <2>2. \/ TaskManager'[p] = TaskManager[p]
        \/ (p = cur_pid \/ p > cur_pid)
           /\ (TaskManager'[p] = z(frame) \/ TaskManager'[p] = z(Junk))
    BY DEF InvalidOpcode
  <2>3. Junk.at \in SavedPoints /\ frame.at \in SavedPoints
    BY <1>1 DEF Junk, SavedPoints
  <2>4. p = cur_pid \/ p > cur_pid => p # 0
    BY <1>1 DEF PID
  <2> QED
    BY <2>1, <2>2, <2>3, <2>4
<1>4. TaskManager' \in Table
  BY DEF TypeOK, Table
<1>5. ASSUME NEW p \in PID
      PROVE  /\ Sound(TaskManager'[p], next_pml4)
             /\ Fits(TaskManager', p, TaskManager'[p])
             /\ Settled(TaskManager'[p])
             /\ TaskManager'[p].SavedRegisters.at \in SavedPoints
  <2>1. CASE TaskManager'[p] = TaskManager[p]
    <3>1. Fits(TaskManager', p, TaskManager[p])
      BY <1>1, <1>3 DEF QuietBut, Fits
    <3> QED
      BY <1>1, <2>1, <3>1 DEF QuietBut
  <2>2. CASE TaskManager'[p] # TaskManager[p]
    BY <1>3, <2>2 DEF Sound, Fits, Settled
  <2> QED
    BY <2>1, <2>2
<1>6. TableInv'
  BY <1>1, <1>2, <1>4, <1>5 DEF TableInv, Unsettled, QuietBut
<1>7. TaskManager'[0] = TaskManager[0] /\ Runnable(TaskManager, 0)
  BY <1>1, <1>3 DEF QuietBut, Fits, Runnable
<1>8. CurrentInv'
  BY <1>1, <1>2, <1>7 DEF CurrentInv, Runnable
<1>9. HandlerInv'
  BY <1>1, <1>2 DEF HandlerInv
<1>10. StacksInv'
  BY <1>2 DEF SchedInv, StacksInv
<1> QED
  BY <1>6, <1>8, <1>9, <1>10 DEF SchedInv

\* No program runs as task 0.
LEMMA Task0RunsNoProgram ==
  ASSUME SchedInv, FaultAsTask0
  PROVE  FALSE
BY DEF SchedInv, HandlerInv, FaultAsTask0

----------------------------------------------------------------------------
(* The theorem                                                             *)

\* The state SetUpShell leaves satisfies SchedInv.
LEMMA SchedInit ==
  ASSUME Init
  PROVE  SchedInv
<1>1. TypeOK
  BY TypeInit
<1>2. /\ KernelTask.Exists /\ KernelTask.ProcessState = "READY"
      /\ KernelTask.SIGCHD = "none" /\ KernelTask.Base_PML4 = 0
      /\ KernelTask.SavedRegisters.at = "junk"
      /\ LoadedTask(1).Exists /\ LoadedTask(1).ProcessState = "READY"
      /\ LoadedTask(1).SIGCHD = "none" /\ LoadedTask(1).Base_PML4 = 1
      /\ LoadedTask(1).SavedRegisters.at = "user"
      /\ ~ZeroTask.Exists /\ ZeroTask.SIGCHD = "none"
      /\ ZeroTask.SavedRegisters.at = "junk"
  BY DEF KernelTask, LoadedTask, ZeroTask, Junk, UserContext
<1>3. frame.at = "idle" /\ next_pml4 = 2 /\ cur_pid = 0 /\ cr3 = 0
  BY DEF Init
<1>4. \A p \in PID : TaskManager[p] = IF p = 0 THEN KernelTask
                                      ELSE IF p = 1 THEN LoadedTask(1)
                                      ELSE ZeroTask
  BY DEF Init
<1>5. TableInv
  <2>1. ASSUME NEW p \in PID
        PROVE  Sound(TaskManager[p], 2) /\ Fits(TaskManager, p, TaskManager[p])
               /\ Settled(TaskManager[p])
               /\ TaskManager[p].SavedRegisters.at \in SavedPoints
    BY <1>2, <1>4 DEF Sound, Fits, Settled, SavedPoints
  <2> QED
    BY <1>1, <1>3, <2>1 DEF TableInv, Unsettled, QuietBut, TypeOK, Table
<1>6. CurrentInv
  BY <1>2, <1>3, <1>4, BaseTypes DEF CurrentInv
<1>7. HandlerInv
  BY <1>3 DEF HandlerInv
<1>8. StacksInv
  BY DEF Init, StacksInv, Junk, SavedPoints
<1> QED
  BY <1>1, <1>5, <1>6, <1>7, <1>8 DEF SchedInv

\* Every step keeps SchedInv.
LEMMA SchedStep ==
  ASSUME SchedInv, [Next]_vars,
         Windows \subseteq {"block", "switch"}, "gpf" \notin Faults
  PROVE  SchedInv'
<1>1. TypeOK'
  BY TypeStep DEF SchedInv
<1>2. CASE Interrupt
  BY <1>1, <1>2, TimerInv, KeyInv, EnterInv DEF Interrupt
<1>3. ASSUME NEW op \in Ops, SyscallEntry(op)
      PROVE  SchedInv'
  BY <1>1, <1>3, EntryInv, TasksAssumption
<1>4. CASE SyscallStep
  BY <1>1, <1>4, OtherInv, ExitInv, ReadInv, WaitInv, ForkInv, ExecveInv,
     BadExecveInv, SigregInv, SigretInv, GiveUpInv, ExecReturnInv, SwitchInInv,
     InterruptReturnInv
     DEF SyscallStep
<1>5. CASE Fault
  BY <1>1, <1>5, PageFaultInv, InvalidOpcodeInv, Task0RunsNoProgram DEF Fault
<1>6. CASE UNCHANGED vars
  BY <1>6 DEF vars, SchedInv, TypeOK, TableInv, Unsettled, CurrentInv,
              HandlerInv, StacksInv, act
<1> QED
  BY <1>2, <1>3, <1>4, <1>5, <1>6 DEF Next

\* SchedInv is invariant as long as interrupts land only in the idle loop, after
\* a task has blocked and inside task_switch, and no program raises #GP.
LEMMA SchedInvariant ==
  ASSUME Windows \subseteq {"block", "switch"}, "gpf" \notin Faults
  PROVE  Spec => []SchedInv
<1>1. Init => SchedInv
  BY SchedInit
<1>2. SchedInv /\ [Next]_vars => SchedInv'
  BY SchedStep
<1> QED
  BY <1>1, <1>2, PTL DEF Spec

\* The task find_next_task chose is runnable and its address space is in CR3,
\* at every moment a program or the kernel runs for it.
THEOREM CurrentRunnable ==
  ASSUME Windows \subseteq {"block", "switch"}, "gpf" \notin Faults
  PROVE  Spec => []CurrentIsRunnable
<1>1. SchedInv => CurrentIsRunnable
  BY SchedInvImplies
<1> QED
  BY <1>1, SchedInvariant, PTL

\* No task is left in a state that no key, exit or timer interrupt takes it out
\* of: READY, or WAITING with a reason the handlers know.
THEOREM NoLimbo ==
  ASSUME Windows \subseteq {"block", "switch"}, "gpf" \notin Faults
  PROVE  Spec => []NoTaskInLimbo
<1>1. SchedInv => NoTaskInLimbo
  BY SchedInvImplies
<1> QED
  BY <1>1, SchedInvariant, PTL

\* Fork and execve give every task page tables that no other task has.
THEOREM SpacesPrivate ==
  ASSUME Windows \subseteq {"block", "switch"}, "gpf" \notin Faults
  PROVE  Spec => []PrivateAddressSpaces
<1>1. SchedInv => PrivateAddressSpaces
  BY SchedInvImplies
<1> QED
  BY <1>1, SchedInvariant, PTL
=============================================================================
