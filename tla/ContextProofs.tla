---------------------------- MODULE ContextProofs ----------------------------
(***************************************************************************)
(* What a task finds when it gets the CPU back, for every size of the      *)
(* table: page tables that were not zeroed, its own registers, the line it *)
(* asked for; and that a parent in wait() still has a child to wake it.    *)
(*                                                                         *)
(* Each of the four properties has an invariant of its own on top of       *)
(* SchedInv.  The first part says once, for every handler, what it leaves  *)
(* in each slot of the table; the invariants are then about slots.         *)
(***************************************************************************)
EXTENDS SchedulerProofs, FiniteSetTheorems

----------------------------------------------------------------------------
(* What the handlers leave in the slots                                    *)

\* The handler changed nothing of the task but its saved registers and ticks.
Same(t, u) ==
  /\ u.Exists = t.Exists
  /\ u.ProcessState = t.ProcessState
  /\ u.WaitingReason = t.WaitingReason
  /\ u.Base_PML4 = t.Base_PML4
  /\ u.Owner_PID = t.Owner_PID
  /\ u.SIGCHD = t.SIGCHD

\* No slot outside C was touched.
SameOutside(tm, tm2, C) == \A p \in PID \ C : tm2[p] = tm[p]

\* Handlers keep the records of all kernel stacks, saved registers aside.
SameRecords ==
  \A s \in PML4 : /\ kstack'[s].op = kstack[s].op
                  /\ kstack'[s].cur = kstack[s].cur
                  /\ kstack'[s].owner = kstack[s].owner

\* What the updates of a task leave, for all fields the properties look at.
LEMMA SavedTask ==
  ASSUME NEW t \in Task, NEW c \in Context
  PROVE  /\ Same(t, [t EXCEPT !.SavedRegisters = c])
         /\ [t EXCEPT !.SavedRegisters = c].SavedRegisters = c
BY DEF Task, Same

\* The task keeps its identity and is READY with the registers c.
Awake(t, u, c) ==
  /\ u.Exists = t.Exists /\ u.Base_PML4 = t.Base_PML4
  /\ u.Owner_PID = t.Owner_PID /\ u.SIGCHD = t.SIGCHD
  /\ u.ProcessState = "READY"
  /\ u.SavedRegisters = c

\* What a signal, the end of a child or a line leave of a task.
LEMMA AwakeTask ==
  ASSUME NEW t \in Task
  PROVE  /\ Awake(t, Signalled(t), HandlerFrame(t.SavedRegisters))
         /\ Awake(t, Woken(t), t.SavedRegisters)
         /\ Awake(t, GivenLine(t), [t.SavedRegisters EXCEPT !.on = "none"])
<1>1. Awake(t, Signalled(t), HandlerFrame(t.SavedRegisters))
  BY DEF Task, Signalled, Awake
<1>2. Awake(t, Woken(t), t.SavedRegisters)
  BY DEF Task, Woken, Awake
<1>3. Awake(t, GivenLine(t), [t.SavedRegisters EXCEPT !.on = "none"])
  <2>1. Woken(t) \in Task
    BY TaskUpdates
  <2> QED
    BY <1>2, <2>1 DEF Task, GivenLine, Awake
<1> QED
  BY <1>1, <1>2, <1>3

\* A key saves the interrupted registers in the current task's slot.
LEMMA KeySlots ==
  ASSUME SchedInv, NEW tm,
         tm = [TaskManager EXCEPT ![cur_pid].SavedRegisters = frame]
  PROVE  /\ tm \in Table
         /\ SameOutside(TaskManager, tm, {cur_pid})
         /\ Same(TaskManager[cur_pid], tm[cur_pid])
         /\ tm[cur_pid].SavedRegisters = frame
<1>1. /\ frame \in Context /\ cur_pid \in PID /\ TaskManager \in Table
      /\ TaskManager[cur_pid] \in Task
  BY ActType DEF SchedInv, TypeOK
<1>2. tm[cur_pid] = [TaskManager[cur_pid] EXCEPT !.SavedRegisters = frame]
  BY <1>1 DEF Table
<1>3. SameOutside(TaskManager, tm, {cur_pid})
  BY <1>1 DEF Table, SameOutside
<1> QED
  BY <1>1, <1>2, <1>3, SavedTask, TableTypes

\* ENTER hands the line to a waiting task and nobody else.
LEMMA EnterSlots ==
  ASSUME SchedInv, EnterPressed
  PROVE  \E w \in PID, tm \in Table :
           /\ SameOutside(TaskManager, tm, {cur_pid})
           /\ Same(TaskManager[cur_pid], tm[cur_pid])
           /\ tm[cur_pid].SavedRegisters = frame
           /\ SameOutside(tm, TaskManager', {w})
           /\ tm[w].ProcessState = "WAITING" /\ tm[w].WaitingReason = "INPUT"
           /\ tm[w].SavedRegisters \in Context
           /\ Awake(tm[w], TaskManager'[w], [tm[w].SavedRegisters EXCEPT !.on = "none"])
<1> DEFINE tm == [TaskManager EXCEPT ![cur_pid].SavedRegisters = frame]
           w == Least(InputWaiters(tm))
<1>1. /\ InputWaiters(tm) # {}
      /\ TaskManager' = [tm EXCEPT ![w] = GivenLine(tm[w])]
  BY DEF EnterPressed
<1>2. /\ w \in PID /\ tm[w].ProcessState = "WAITING"
      /\ tm[w].WaitingReason = "INPUT"
  BY <1>1, FirstWaiter DEF InputWaiters
<1>3. /\ tm \in Table
      /\ SameOutside(TaskManager, tm, {cur_pid})
      /\ Same(TaskManager[cur_pid], tm[cur_pid])
      /\ tm[cur_pid].SavedRegisters = frame
  BY KeySlots
<1>4. tm[w] \in Task /\ tm[w].SavedRegisters \in Context
  BY <1>2, <1>3 DEF Table, Task
<1>5. SameOutside(tm, TaskManager', {w}) /\ TaskManager'[w] = GivenLine(tm[w])
  BY <1>1, <1>2, <1>3 DEF SameOutside, Table
<1> HIDE DEF tm, w
<1> QED
  BY <1>2, <1>3, <1>4, <1>5, AwakeTask

\* The timer saves the interrupted registers; it may then go on with the
\* registers of another task, one that is runnable.
LEMMA TimerSlots ==
  ASSUME SchedInv, SchedInv', Windows \subseteq {"block", "switch"}, TimerInterrupt
  PROVE  /\ SameOutside(TaskManager, TaskManager', {cur_pid})
         /\ Same(TaskManager[cur_pid], TaskManager'[cur_pid])
         /\ TaskManager'[cur_pid].SavedRegisters = frame
         /\ UNCHANGED <<freed, kstack, sigstack, next_pml4, halted>>
         /\ \/ UNCHANGED <<cur_pid, cr3, frame>>
            \/ frame' = TaskManager'[cur_pid'].SavedRegisters
         /\ frame.at \in SavedPoints /\ frame'.at \in SavedPoints
<1> DEFINE t == TaskManager[cur_pid]
           e == [t EXCEPT !.UsedTicks = 0]
           tm == [TaskManager EXCEPT ![cur_pid] = e]
           next == find_next_task(tm, cur_pid)
           Slots ==
             /\ SameOutside(TaskManager, TaskManager', {cur_pid})
             /\ Same(TaskManager[cur_pid], TaskManager'[cur_pid])
             /\ TaskManager'[cur_pid].SavedRegisters = frame
             /\ UNCHANGED <<freed, kstack, sigstack, next_pml4, halted>>
             /\ \/ UNCHANGED <<cur_pid, cr3, frame>>
                \/ frame' = TaskManager'[cur_pid'].SavedRegisters
<1>1. /\ frame \in Context /\ cur_pid \in PID /\ t \in Task
      /\ frame.at \in {"idle", "switch"} /\ TaskManager \in Table
  BY InterruptedPoint DEF TimerInterrupt, TimerMasked
<1>2. t.ProcessState = "READY" /\ Expired(t) = e
  BY <1>1, QuietTable DEF Runnable, Expired
<1>3. ASSUME QuantumOver(t) PROVE Slots
  <2>1. /\ TaskManager' = [tm EXCEPT ![cur_pid].SavedRegisters = frame]
        /\ cur_pid' = next
        /\ frame' = TaskManager'[cur_pid'].SavedRegisters
        /\ UNCHANGED <<freed, kstack, sigstack, next_pml4, halted>>
    BY <1>2, <1>3 DEF TimerInterrupt, LeaveFor, Arrive
  <2>2. e \in Task /\ Same(t, e)
    BY <1>1 DEF Task, Same
  <2>3. tm \in Table /\ tm[cur_pid] = e
    BY <1>1, <2>2 DEF Table
  <2>4. TaskManager'[cur_pid] = [e EXCEPT !.SavedRegisters = frame]
    BY <1>1, <2>1, <2>3 DEF Table
  <2>5. SameOutside(TaskManager, TaskManager', {cur_pid})
    BY <1>1, <2>1, <2>3 DEF Table, SameOutside
  <2>6. Same(e, TaskManager'[cur_pid]) /\ TaskManager'[cur_pid].SavedRegisters = frame
    <3> HIDE DEF e
    <3> QED
      BY <1>1, <2>2, <2>4, SavedTask
  <2>7. Same(t, TaskManager'[cur_pid])
    BY <2>2, <2>6 DEF Same
  <2> QED
    BY <2>1, <2>5, <2>6, <2>7
<1>4. ASSUME ~QuantumOver(t) PROVE Slots
  <2> DEFINE u == [t EXCEPT !.SavedRegisters = frame, !.UsedTicks = t.UsedTicks + 1]
  <2>1. /\ TaskManager' = [TaskManager EXCEPT ![cur_pid] = u]
        /\ UNCHANGED <<cur_pid, cr3, frame, freed, kstack, sigstack, next_pml4,
                       halted>>
    BY <1>2, <1>4 DEF TimerInterrupt, Ticked
  <2>2. Same(t, u) /\ u.SavedRegisters = frame
    BY <1>1 DEF Task, Same
  <2>3. TaskManager'[cur_pid] = u /\ SameOutside(TaskManager, TaskManager', {cur_pid})
    BY <1>1, <2>1 DEF Table, SameOutside
  <2> QED
    BY <2>1, <2>2, <2>3
<1>5. frame'.at \in SavedPoints
  <2> HIDE DEF t, e, tm, next
  <2>1. cur_pid' \in PID /\ QuietBut(TaskManager, {}, next_pml4)
    BY <1>1, QuietTable DEF SchedInv, TypeOK
  <2>2. frame.at \in SavedPoints
    BY <1>1 DEF SavedPoints
  <2>3. \A p \in PID : TaskManager'[p].SavedRegisters.at \in SavedPoints
    BY <1>3, <1>4, <2>1, <2>2 DEF QuietBut, SameOutside
  <2> QED
    BY <1>3, <1>4, <2>1, <2>2, <2>3
<1> QED
  BY <1>1, <1>3, <1>4, <1>5 DEF SavedPoints

\* ForceSwitch saves regs in the slot it leaves, which a killed task loses.
LEMMA SwitchSlots ==
  ASSUME cur_pid \in PID, NEW tm \in Table, NEW regs \in Context,
         NEW s \in PML4, ForceSwitch(tm, regs, s)
  PROVE  /\ SameOutside(tm, TaskManager', {cur_pid})
         /\ TaskManager'[cur_pid].SavedRegisters = regs
         /\ tm[cur_pid].ProcessState # "KILL"
              => Same(tm[cur_pid], TaskManager'[cur_pid])
         /\ tm[cur_pid].ProcessState = "KILL"
              => Same(ZeroTask, TaskManager'[cur_pid])
         /\ frame'.at = "switch" /\ frame'.on = "none" /\ frame'.img = s
<1> DEFINE t == tm[cur_pid]
           r == Reaped(t)
           left == [tm EXCEPT ![cur_pid] = r]
<1>1. t \in Task /\ r \in Task /\ left \in Table /\ left[cur_pid] = r
  BY TableTypes, TaskUpdates DEF Table
<1>2. TaskManager' = [left EXCEPT ![cur_pid].SavedRegisters = regs]
  BY DEF ForceSwitch, LeaveFor
<1>3. TaskManager'[cur_pid] = [r EXCEPT !.SavedRegisters = regs]
  BY <1>1, <1>2 DEF Table
<1>4. SameOutside(tm, TaskManager', {cur_pid})
  BY <1>1, <1>2 DEF Table, SameOutside
<1>5. Same(r, TaskManager'[cur_pid]) /\ TaskManager'[cur_pid].SavedRegisters = regs
  BY <1>1, <1>3, SavedTask
<1>6. t.ProcessState # "KILL" => Same(t, r)
  BY <1>1 DEF Reaped, Task, Same
<1>7. t.ProcessState = "KILL" => r = ZeroTask
  BY DEF Reaped
<1>8. frame'.at = "switch" /\ frame'.on = "none" /\ frame'.img = s
  BY DEF ForceSwitch, KernelContext
<1> QED
  BY <1>4, <1>5, <1>6, <1>7, <1>8 DEF Same

\* The call has ended: regs are in the caller's slot and in the frame its iretq
\* restores.
Returned(regs) ==
  /\ TaskManager'[cur_pid].SavedRegisters = regs
  /\ kstack'[frame'.img].regs = regs /\ SameRecords
  /\ frame'.at = "return" /\ frame'.on = "none" /\ frame'.img = frame.img
  /\ cur_pid' = cur_pid

\* The end of handle_syscall leaves exactly that.
LEMMA ReturnSlots ==
  ASSUME SchedInv, ~halted, frame.at = "entry",
         NEW tm \in Table, NEW regs \in Context, Return(tm, regs)
  PROVE  /\ SameOutside(tm, TaskManager', {cur_pid})
         /\ Same(tm[cur_pid], TaskManager'[cur_pid])
         /\ Returned(regs)
<1>1. act.cur = cur_pid /\ cur_pid \in PID /\ frame.img \in PML4
  BY InCall
<1>2. kstack \in [PML4 -> Activation]
  BY DEF SchedInv, TypeOK
<1>3. frame'.at = "return" /\ frame'.on = "none" /\ frame'.img = frame.img
  BY DEF Return, KernelContext
<1>4. kstack' = [kstack EXCEPT ![frame.img].regs = regs]
  BY DEF Return
<1>5. kstack'[frame'.img].regs = regs
  BY <1>1, <1>2, <1>3, <1>4 DEF Activation
<1>6. SameRecords
  <2>1. ASSUME NEW s \in PML4
        PROVE  /\ kstack'[s].op = kstack[s].op /\ kstack'[s].cur = kstack[s].cur
               /\ kstack'[s].owner = kstack[s].owner
    BY <1>1, <1>2, <1>4 DEF Activation
  <2> QED
    BY <2>1 DEF SameRecords
<1>7. /\ TaskManager' = [tm EXCEPT ![cur_pid].SavedRegisters = regs]
      /\ cur_pid' = cur_pid
  BY <1>1 DEF Return
<1>8. tm[cur_pid] \in Task
  BY <1>1 DEF Table
<1>9. TaskManager'[cur_pid] = [tm[cur_pid] EXCEPT !.SavedRegisters = regs]
  BY <1>1, <1>7 DEF Table
<1>10. SameOutside(tm, TaskManager', {cur_pid})
  BY <1>1, <1>7 DEF Table, SameOutside
<1>11. /\ Same(tm[cur_pid], TaskManager'[cur_pid])
       /\ TaskManager'[cur_pid].SavedRegisters = regs
  BY <1>8, <1>9, SavedTask
<1> QED
  BY <1>3, <1>5, <1>6, <1>7, <1>10, <1>11 DEF Returned

\* SIGCHD reaches a task that registered a checked handler, and nobody else.
LEMMA SignalSlots ==
  ASSUME NEW tm \in Table, NEW p \in PID, tm[p].SIGCHD # "bad"
  PROVE  /\ SendSignal(tm, p) \in Table
         /\ SameOutside(tm, SendSignal(tm, p), {p})
         /\ tm[p].Exists /\ tm[p].SIGCHD # "none"
              => Awake(tm[p], SendSignal(tm, p)[p],
                       HandlerFrame(tm[p].SavedRegisters))
         /\ ~(tm[p].Exists /\ tm[p].SIGCHD # "none")
              => SendSignal(tm, p) = tm
<1>1. tm[p] \in Task /\ SendSignal(tm, p) \in Table
  BY TableTypes
<1>2. CASE tm[p].Exists /\ tm[p].SIGCHD # "none"
  <2>1. SendSignal(tm, p) = [tm EXCEPT ![p] = Signalled(tm[p])]
    BY <1>2 DEF SendSignal
  <2>2. SendSignal(tm, p)[p] = Signalled(tm[p])
    BY <2>1 DEF Table
  <2>3. SameOutside(tm, SendSignal(tm, p), {p})
    BY <2>1 DEF Table, SameOutside
  <2> QED
    BY <1>1, <1>2, <2>2, <2>3, AwakeTask
<1>3. CASE ~(tm[p].Exists /\ tm[p].SIGCHD # "none")
  <2>1. SendSignal(tm, p) = tm
    BY <1>3 DEF SendSignal
  <2> QED
    BY <1>1, <1>3, <2>1 DEF SameOutside
<1> QED
  BY <1>2, <1>3

\* SignalOwner wakes at most the owner, and only out of wait().
LEMMA OwnerSlots ==
  ASSUME NEW tm \in Table, NEW p \in PID
  PROVE  LET new == SignalOwner(tm, p, "EXIT")
             o == tm[p].Owner_PID
         IN  /\ new \in Table /\ o \in PID
             /\ SameOutside(tm, new, {o})
             /\ \/ new = tm
                \/ /\ tm[o].ProcessState = "WAITING"
                   /\ tm[o].WaitingReason = "CHILD"
                   /\ Awake(tm[o], new[o], tm[o].SavedRegisters)
<1> DEFINE o == tm[p].Owner_PID
           new == SignalOwner(tm, p, "EXIT")
<1>1. new \in Table /\ o \in PID /\ tm[o] \in Task
  BY TableTypes DEF Table, Task
<1>2. CASE /\ o # 0
           /\ tm[o].ProcessState = "WAITING"
           /\ tm[o].WaitingReason = "CHILD"
           /\ tm[o].ChildWaitingReason = "EXIT"
  <2>1. new = [tm EXCEPT ![o] = Woken(tm[o])]
    BY <1>2 DEF SignalOwner
  <2>2. new[o] = Woken(tm[o])
    BY <1>1, <2>1 DEF Table
  <2>3. SameOutside(tm, new, {o})
    BY <1>1, <2>1 DEF Table, SameOutside
  <2> QED
    BY <1>1, <1>2, <2>2, <2>3, AwakeTask
<1>3. CASE ~(/\ o # 0
             /\ tm[o].ProcessState = "WAITING"
             /\ tm[o].WaitingReason = "CHILD"
             /\ tm[o].ChildWaitingReason = "EXIT")
  <2>1. new = tm
    BY <1>3 DEF SignalOwner
  <2> QED
    BY <1>1, <2>1 DEF SameOutside
<1> QED
  BY <1>2, <1>3

\* The exiting task is gone, its owner may have been signalled.
LEMMA ExitSlots ==
  ASSUME SchedInv, Exit
  PROVE  LET o == TaskManager[cur_pid].Owner_PID
             tm == IF o # 0 THEN SendSignal(TaskManager, o) ELSE TaskManager
         IN  /\ o \in PID /\ tm \in Table
             /\ SameOutside(TaskManager, tm, {o})
             /\ \/ tm = TaskManager
                \/ /\ o # 0
                   /\ Awake(TaskManager[o], tm[o],
                            HandlerFrame(TaskManager[o].SavedRegisters))
             /\ o # 0 /\ TaskManager[o].Exists /\ TaskManager[o].SIGCHD # "none"
                  => tm[o].ProcessState = "READY"
             /\ SameOutside(tm, TaskManager', {cur_pid})
             /\ Same(ZeroTask, TaskManager'[cur_pid])
             /\ TaskManager'[cur_pid].SavedRegisters = act.regs
             /\ frame'.at = "switch" /\ frame'.on = "none"
             /\ UNCHANGED <<kstack, next_pml4, freed, halted>>
<1> DEFINE o == TaskManager[cur_pid].Owner_PID
           tm == IF o # 0 THEN SendSignal(TaskManager, o) ELSE TaskManager
           killed == KillTask(tm, cur_pid)
<1>1. ~halted /\ frame.at = "entry"
  BY DEF Exit, Running
<1>2. /\ act.cur = cur_pid /\ cur_pid \in PID /\ act.regs \in Context
      /\ frame.img \in PML4 /\ TaskManager \in Table
      /\ TaskManager[cur_pid] \in Task
      /\ QuietBut(TaskManager, {}, next_pml4)
  BY <1>1, InCall
<1>3. o \in PID
  BY <1>2 DEF Task
<1>4. TaskManager[o].SIGCHD # "bad"
  BY <1>2, <1>3 DEF QuietBut, Sound
<1>5. /\ tm \in Table
      /\ SameOutside(TaskManager, tm, {o})
      /\ \/ tm = TaskManager
         \/ /\ o # 0
            /\ Awake(TaskManager[o], tm[o], HandlerFrame(TaskManager[o].SavedRegisters))
      /\ o # 0 /\ TaskManager[o].Exists /\ TaskManager[o].SIGCHD # "none"
           => tm[o].ProcessState = "READY"
  <2>1. CASE o = 0
    BY <1>2, <2>1 DEF SameOutside
  <2>2. CASE o # 0
    BY <1>2, <1>3, <1>4, <2>2, SignalSlots DEF Awake
  <2> QED
    BY <2>1, <2>2
<1>6. /\ ForceSwitch(killed, act.regs, frame.img)
      /\ UNCHANGED <<kstack, next_pml4, freed, halted>>
  BY <1>2 DEF Exit
<1>7. /\ killed \in Table /\ killed[cur_pid].ProcessState = "KILL"
      /\ SameOutside(tm, killed, {cur_pid})
  <2> HIDE DEF tm
  <2>1. tm[cur_pid] \in Task /\ killed \in Table
    BY <1>2, <1>5, TableTypes
  <2> QED
    BY <1>2, <1>5, <2>1 DEF KillTask, Table, Task, SameOutside
<1>8. /\ SameOutside(killed, TaskManager', {cur_pid})
      /\ Same(ZeroTask, TaskManager'[cur_pid])
      /\ TaskManager'[cur_pid].SavedRegisters = act.regs
      /\ frame'.at = "switch" /\ frame'.on = "none"
  <2> HIDE DEF killed
  <2> QED
    BY <1>2, <1>6, <1>7, SwitchSlots
<1>9. SameOutside(tm, TaskManager', {cur_pid})
  BY <1>7, <1>8 DEF SameOutside
<1> QED
  BY <1>3, <1>5, <1>6, <1>8, <1>9

\* fork fills the slot RegisterTask chose, and returns to its caller.
LEMMA ForkSlots ==
  ASSUME SchedInv, Fork
  PROVE  LET child == RegisterTask(TaskManager)
         IN  /\ child \in PID \ {0}
             /\ FreePIDs(TaskManager) # {} => ~TaskManager[child].Exists
             /\ SameOutside(TaskManager, TaskManager', {child, cur_pid})
             /\ TaskManager'[child].Exists
             /\ TaskManager'[child].ProcessState = "READY"
             /\ TaskManager'[child].Base_PML4 = next_pml4
             /\ TaskManager'[child].Owner_PID = cur_pid
             /\ child # cur_pid =>
                  /\ Same(TaskManager[cur_pid], TaskManager'[cur_pid])
                  /\ TaskManager'[child].SavedRegisters =
                       CopiedFrame(act.regs, TaskManager[cur_pid].Base_PML4, next_pml4)
             /\ Returned(act.regs)
             /\ next_pml4 \in PML4 /\ next_pml4' = next_pml4 + 1
             /\ UNCHANGED <<freed, halted>>
<1> DEFINE parent == TaskManager[cur_pid]
           from == parent.Base_PML4
           child == RegisterTask(TaskManager)
           copy == ForkedTask(parent, cur_pid, act.regs, next_pml4)
           tm == [TaskManager EXCEPT ![child] = copy]
<1>1. ~halted /\ frame.at = "entry"
  BY DEF Fork, Running
<1>2. /\ act.cur = cur_pid /\ cur_pid \in PID /\ parent \in Task
      /\ TaskManager \in Table /\ act.regs \in Context
      /\ next_pml4 \in Nat /\ QuietBut(TaskManager, {}, next_pml4)
  BY <1>1, InCall
<1>3. child \in PID \ {0}
  BY <1>2, RegisteredSlot, BaseTypes DEF QuietBut, Fits
<1>4. FreePIDs(TaskManager) # {} => ~TaskManager[child].Exists
  <2>1. FreePIDs(TaskManager) \subseteq Nat
    BY DEF FreePIDs, PID
  <2> QED
    BY <2>1, LeastIsFirst DEF RegisterTask, FreePIDs
<1>5. /\ next_pml4 \in PML4 /\ next_pml4' = next_pml4 + 1
      /\ Return(tm, act.regs) /\ UNCHANGED <<freed, halted>>
  BY <1>2, TasksAssumption DEF Fork, PML4
<1>6. /\ copy \in Task /\ copy.Exists /\ copy.ProcessState = "READY"
      /\ copy.Base_PML4 = next_pml4 /\ copy.Owner_PID = cur_pid
      /\ copy.SavedRegisters = CopiedFrame(act.regs, from, next_pml4)
  <2>1. copy \in Task
    BY <1>2, <1>5, TaskTypes
  <2>2. copy = [parent EXCEPT
                  !.SavedRegisters = CopiedFrame(act.regs, from, next_pml4),
                  !.Exists = TRUE, !.ProcessState = "READY",
                  !.Base_PML4 = next_pml4, !.Owner_PID = cur_pid]
    BY DEF ForkedTask
  <2> QED
    BY <1>2, <2>1, <2>2 DEF Task
<1>7. tm \in Table /\ tm[child] = copy /\ SameOutside(TaskManager, tm, {child})
  BY <1>2, <1>3, <1>6 DEF Table, SameOutside
<1>8. /\ SameOutside(tm, TaskManager', {cur_pid})
      /\ Same(tm[cur_pid], TaskManager'[cur_pid])
      /\ Returned(act.regs)
  <2> HIDE DEF tm
  <2> QED
    BY <1>1, <1>2, <1>5, <1>7, ReturnSlots
<1>9. SameOutside(TaskManager, TaskManager', {child, cur_pid})
  BY <1>7, <1>8 DEF SameOutside
<1>10. CASE child = cur_pid
  BY <1>3, <1>4, <1>5, <1>6, <1>7, <1>8, <1>9, <1>10 DEF Same
<1>11. CASE child # cur_pid
  <2>1. TaskManager'[child] = copy /\ tm[cur_pid] = parent
    BY <1>2, <1>3, <1>7, <1>8, <1>11 DEF SameOutside
  <2> QED
    BY <1>3, <1>4, <1>5, <1>6, <1>8, <1>9, <1>11, <2>1
<1> QED
  BY <1>10, <1>11

\* execve of a loadable file puts a new program in the caller's slot.
LEMMA ExecveSlots ==
  ASSUME SchedInv, Execve
  PROVE  /\ SameOutside(TaskManager, TaskManager', {cur_pid})
         /\ TaskManager'[cur_pid] = LoadedTask(next_pml4)
         /\ TaskManager[cur_pid].Exists
         /\ next_pml4 \in PML4 /\ next_pml4' = next_pml4 + 1
         /\ freed' = freed \cup {TaskManager[cur_pid].Base_PML4}
         /\ cr3' = 0
         /\ frame'.at = "exec" /\ frame'.on = "none" /\ frame'.img = frame.img
         /\ UNCHANGED <<cur_pid, kstack, sigstack, halted>>
<1>1. ~halted /\ frame.at = "entry"
  BY DEF Execve, Running
<1>2. /\ act.cur = cur_pid /\ cur_pid \in PID /\ TaskManager \in Table
      /\ next_pml4 \in Nat /\ Runnable(TaskManager, cur_pid)
  BY <1>1, InCall
<1>3. TaskManager' = [TaskManager EXCEPT ![cur_pid] = LoadedTask(next_pml4)]
  BY <1>2 DEF Execve, Reload
<1>4. next_pml4 \in PML4
  BY <1>2, TasksAssumption DEF Execve, Reload, PML4
<1>5. SameOutside(TaskManager, TaskManager', {cur_pid})
      /\ TaskManager'[cur_pid] = LoadedTask(next_pml4)
  BY <1>2, <1>3 DEF Table, SameOutside
<1>6. frame'.at = "exec" /\ frame'.on = "none" /\ frame'.img = frame.img
  BY DEF Execve, Reload, KernelContext
<1> QED
  BY <1>2, <1>4, <1>5, <1>6 DEF Execve, Reload, Runnable

\* execve of a file LoadElfStrict rejects leaves the slot in CREATION.
LEMMA BadExecveSlots ==
  ASSUME SchedInv, BadExecve
  PROVE  /\ SameOutside(TaskManager, TaskManager', {cur_pid})
         /\ TaskManager'[cur_pid] =
              [TaskManager[cur_pid] EXCEPT !.ProcessState = "CREATION"]
         /\ frame'.at = "exec" /\ frame'.on = "none" /\ frame'.img = frame.img
         /\ UNCHANGED <<cur_pid, kstack, sigstack, halted>>
<1>1. ~halted /\ frame.at = "entry"
  BY DEF BadExecve, Running
<1>2. act.cur = cur_pid /\ cur_pid \in PID /\ TaskManager \in Table
  BY <1>1, InCall
<1>3. TaskManager' = [TaskManager EXCEPT ![cur_pid].ProcessState = "CREATION"]
  BY <1>2 DEF BadExecve, Reload
<1>4. /\ SameOutside(TaskManager, TaskManager', {cur_pid})
      /\ TaskManager'[cur_pid] =
           [TaskManager[cur_pid] EXCEPT !.ProcessState = "CREATION"]
  BY <1>2, <1>3 DEF Table, SameOutside
<1>5. frame'.at = "exec" /\ frame'.on = "none" /\ frame'.img = frame.img
  BY DEF BadExecve, Reload, KernelContext
<1> QED
  BY <1>4, <1>5 DEF BadExecve, Reload

\* The end of execve gives the slot its owner back and leaves it READY.
LEMMA ExecReturnSlots ==
  ASSUME SchedInv, ExecReturn
  PROVE  LET t == TaskManager[cur_pid]
             u == TaskManager'[cur_pid]
         IN  /\ SameOutside(TaskManager, TaskManager', {cur_pid})
             /\ u.Exists = t.Exists /\ u.Base_PML4 = t.Base_PML4
             /\ u.SIGCHD = t.SIGCHD /\ u.Owner_PID = act.owner
             /\ u.ProcessState = "READY"
             /\ u.SavedRegisters = t.SavedRegisters
             /\ frame'.at = "switch" /\ frame'.on = "none"
             /\ UNCHANGED <<kstack, sigstack, next_pml4, freed, halted>>
<1> DEFINE t == TaskManager[cur_pid]
           r == Reloaded(t, act.owner)
           tm == [TaskManager EXCEPT ![cur_pid] = r]
<1>1. ~halted /\ frame.at = "exec"
  BY DEF ExecReturn
<1>2. /\ act.cur = cur_pid /\ cur_pid \in PID /\ TaskManager \in Table
      /\ t \in Task /\ t.SavedRegisters \in Context
      /\ act.owner \in PID /\ frame.img \in PML4
  BY <1>1, InCall
<1>3. /\ r \in Task /\ r.Exists = t.Exists /\ r.Base_PML4 = t.Base_PML4
      /\ r.SIGCHD = t.SIGCHD /\ r.Owner_PID = act.owner
      /\ r.ProcessState = "READY"
  <2>1. \A o \in PID : LET u == Reloaded(t, o)
                       IN  /\ u.Exists = t.Exists /\ u.Base_PML4 = t.Base_PML4
                           /\ u.SIGCHD = t.SIGCHD /\ u.Owner_PID = o
                           /\ u.ProcessState = "READY"
    BY <1>2 DEF Reloaded, Task
  <2> QED
    BY <1>2, <2>1, TaskUpdates
<1>4. tm \in Table /\ tm[cur_pid] = r /\ SameOutside(TaskManager, tm, {cur_pid})
  BY <1>2, <1>3 DEF Table, SameOutside
<1>5. /\ ForceSwitch(tm, t.SavedRegisters, frame.img)
      /\ UNCHANGED <<kstack, sigstack, next_pml4, freed, halted>>
  BY <1>2 DEF ExecReturn
<1>6. /\ SameOutside(tm, TaskManager', {cur_pid})
      /\ Same(r, TaskManager'[cur_pid])
      /\ TaskManager'[cur_pid].SavedRegisters = t.SavedRegisters
      /\ frame'.at = "switch" /\ frame'.on = "none"
  <2> HIDE DEF tm, r
  <2> QED
    BY <1>2, <1>3, <1>4, <1>5, SwitchSlots
<1> QED
  BY <1>3, <1>4, <1>5, <1>6 DEF SameOutside, Same

\* read and wait leave the task blocked until ForceSwitch.
LEMMA BlockSlots ==
  ASSUME SchedInv, NEW t,
         TaskManager' = [TaskManager EXCEPT ![cur_pid] = t]
  PROVE  /\ SameOutside(TaskManager, TaskManager', {cur_pid})
         /\ TaskManager'[cur_pid] = t
<1>1. cur_pid \in PID /\ TaskManager \in Table
  BY DEF SchedInv, TypeOK, Table
<1> QED
  BY <1>1 DEF Table, SameOutside

\* The fields of a task that has just blocked in read or wait.
LEMMA BlockedTask ==
  ASSUME NEW t \in Task
  PROVE  /\ \A r \in {"INPUT", "CHILD"} :
              LET u == Blocked(t, r)
              IN  /\ u.Exists = t.Exists /\ u.Base_PML4 = t.Base_PML4
                  /\ u.Owner_PID = t.Owner_PID /\ u.SIGCHD = t.SIGCHD
                  /\ u.ProcessState = "WAITING" /\ u.WaitingReason = r
         /\ \A r \in {"EXIT", "OTHER"} :
              LET u == [Blocked(t, "CHILD") EXCEPT !.ChildWaitingReason = r]
              IN  /\ u.Exists = t.Exists /\ u.Base_PML4 = t.Base_PML4
                  /\ u.Owner_PID = t.Owner_PID /\ u.SIGCHD = t.SIGCHD
                  /\ u.ProcessState = "WAITING" /\ u.WaitingReason = "CHILD"
<1>1. \A r \in {"INPUT", "CHILD"} :
        LET u == Blocked(t, r)
        IN  /\ u.Exists = t.Exists /\ u.Base_PML4 = t.Base_PML4
            /\ u.Owner_PID = t.Owner_PID /\ u.SIGCHD = t.SIGCHD
            /\ u.ProcessState = "WAITING" /\ u.WaitingReason = r
  BY DEF Task, Blocked
<1>2. \A r \in {"EXIT", "OTHER"} :
        LET u == [Blocked(t, "CHILD") EXCEPT !.ChildWaitingReason = r]
        IN  /\ u.Exists = t.Exists /\ u.Base_PML4 = t.Base_PML4
            /\ u.Owner_PID = t.Owner_PID /\ u.SIGCHD = t.SIGCHD
            /\ u.ProcessState = "WAITING" /\ u.WaitingReason = "CHILD"
  BY <1>1, TaskUpdates DEF Task
<1> QED
  BY <1>1, <1>2

\* read: the task waits for a line, which its registers say too.
LEMMA ReadSlots ==
  ASSUME SchedInv, Read
  PROVE  LET t == TaskManager[cur_pid]
             u == TaskManager'[cur_pid]
         IN  /\ SameOutside(TaskManager, TaskManager', {cur_pid})
             /\ u.Exists = t.Exists /\ u.Base_PML4 = t.Base_PML4
             /\ u.Owner_PID = t.Owner_PID /\ u.SIGCHD = t.SIGCHD
             /\ u.ProcessState = "WAITING" /\ u.WaitingReason = "INPUT"
             /\ SameRecords
             /\ kstack'[frame'.img].regs = [act.regs EXCEPT !.on = "input"]
             /\ frame'.at = "block" /\ frame'.on = "none" /\ frame'.img = frame.img
             /\ UNCHANGED <<cur_pid, cr3, sigstack, next_pml4, freed, halted>>
<1> DEFINE t == TaskManager[cur_pid]
           regs == [act.regs EXCEPT !.on = "input"]
<1>1. ~halted /\ frame.at = "entry"
  BY DEF Read, Running
<1>2. /\ act.cur = cur_pid /\ t \in Task /\ frame.img \in PML4
      /\ kstack \in [PML4 -> Activation]
  BY <1>1, InCall DEF SchedInv, TypeOK
<1>3. TaskManager' = [TaskManager EXCEPT ![cur_pid] = Blocked(t, "INPUT")]
  BY <1>2 DEF Read
<1>4. frame'.at = "block" /\ frame'.on = "none" /\ frame'.img = frame.img
  BY DEF Read, KernelContext
<1>5. kstack' = [kstack EXCEPT ![frame.img].regs = regs]
  BY DEF Read
<1>6. SameRecords /\ kstack'[frame'.img].regs = regs
  <2> HIDE DEF regs
  <2>1. ASSUME NEW s \in PML4
        PROVE  /\ kstack'[s].op = kstack[s].op /\ kstack'[s].cur = kstack[s].cur
               /\ kstack'[s].owner = kstack[s].owner
    BY <1>2, <1>5 DEF Activation
  <2>2. kstack'[frame'.img].regs = regs
    BY <1>2, <1>4, <1>5 DEF Activation
  <2> QED
    BY <2>1, <2>2 DEF SameRecords
<1>7. /\ SameOutside(TaskManager, TaskManager', {cur_pid})
      /\ TaskManager'[cur_pid] = Blocked(t, "INPUT")
  BY <1>3, BlockSlots
<1>8. UNCHANGED <<cur_pid, cr3, sigstack, next_pml4, freed, halted>>
  BY DEF Read
<1> QED
  BY <1>2, <1>4, <1>6, <1>7, <1>8, BlockedTask

\* wait either returns at once or leaves a parent blocked.
LEMMA WaitSlots ==
  ASSUME SchedInv, Wait
  PROVE  LET t == TaskManager[cur_pid]
             u == TaskManager'[cur_pid]
         IN  /\ SameOutside(TaskManager, TaskManager', {cur_pid})
             /\ u.Exists = t.Exists /\ u.Base_PML4 = t.Base_PML4
             /\ u.Owner_PID = t.Owner_PID /\ u.SIGCHD = t.SIGCHD
             /\ \/ Same(t, u) /\ Returned(act.regs)
                \/ /\ u.ProcessState = "WAITING" /\ u.WaitingReason = "CHILD"
                   /\ \E target \in PID : TaskManager[target].Owner_PID = cur_pid
                   /\ frame'.at = "block" /\ frame'.on = "none"
                   /\ frame'.img = frame.img /\ kstack' = kstack
             /\ UNCHANGED <<cur_pid, cr3, sigstack, next_pml4, freed, halted>>
<1> DEFINE t == TaskManager[cur_pid]
<1>1. ~halted /\ frame.at = "entry" /\ act.op = "wait"
  BY DEF Wait, Running
<1>2. /\ act.cur = cur_pid /\ cur_pid \in PID /\ t \in Task
      /\ TaskManager \in Table /\ act.regs \in Context
  BY <1>1, InCall
<1>3. CASE Return(TaskManager, act.regs)
  <2>1. /\ SameOutside(TaskManager, TaskManager', {cur_pid})
        /\ Same(t, TaskManager'[cur_pid]) /\ Returned(act.regs)
    BY <1>1, <1>2, <1>3, ReturnSlots
  <2> QED
    BY <2>1 DEF Same, Returned, Wait
<1>4. CASE ~Return(TaskManager, act.regs)
  <2>1. PICK r \in {"EXIT", "OTHER"} :
          TaskManager' = [TaskManager EXCEPT
            ![cur_pid] = [Blocked(t, "CHILD") EXCEPT !.ChildWaitingReason = r]]
    BY <1>2, <1>4 DEF Wait
  <2>2. /\ \E target \in PID : TaskManager[target].Owner_PID = cur_pid
        /\ frame'.at = "block" /\ frame'.on = "none" /\ frame'.img = frame.img
        /\ UNCHANGED <<cur_pid, kstack, cr3, sigstack, next_pml4, freed, halted>>
    BY <1>2, <1>4 DEF Wait, KernelContext
  <2>3. /\ SameOutside(TaskManager, TaskManager', {cur_pid})
        /\ TaskManager'[cur_pid] = [Blocked(t, "CHILD") EXCEPT !.ChildWaitingReason = r]
    BY <2>1, BlockSlots
  <2> QED
    BY <1>2, <2>2, <2>3, BlockedTask
<1> QED
  BY <1>3, <1>4

\* The ForceSwitch of a blocked task.
LEMMA GiveUpSlots ==
  ASSUME SchedInv, GiveUpCPU
  PROVE  /\ SameOutside(TaskManager, TaskManager', {cur_pid})
         /\ Same(TaskManager[cur_pid], TaskManager'[cur_pid])
         /\ TaskManager'[cur_pid].SavedRegisters = act.regs
         /\ frame'.at = "switch" /\ frame'.on = "none"
         /\ UNCHANGED <<kstack, sigstack, next_pml4, freed, halted>>
<1>1. ~halted /\ frame.at = "block"
  BY DEF GiveUpCPU
<1>2. /\ cur_pid \in PID /\ TaskManager \in Table /\ act.regs \in Context
      /\ frame.img \in PML4
  BY <1>1, InCall
<1>3. TaskManager[cur_pid].ProcessState # "KILL"
  BY <1>1 DEF SchedInv, CurrentInv, Settled
<1> QED
  BY <1>2, <1>3, SwitchSlots DEF GiveUpCPU

\* sigreg changes the caller's SIGCHD descriptor at most, and to a checked one.
LEMMA SigregSlots ==
  ASSUME SchedInv, Sigreg
  PROVE  LET t == TaskManager[cur_pid]
             u == TaskManager'[cur_pid]
         IN  /\ SameOutside(TaskManager, TaskManager', {cur_pid})
             /\ u.Exists = t.Exists /\ u.Base_PML4 = t.Base_PML4
             /\ u.Owner_PID = t.Owner_PID /\ u.ProcessState = t.ProcessState
             /\ Returned(act.regs)
             /\ UNCHANGED <<cr3, sigstack, next_pml4, freed, halted>>
<1> DEFINE t == TaskManager[cur_pid]
           v == [t EXCEPT !.SIGCHD = "ok"]
           tm == [TaskManager EXCEPT ![cur_pid] = v]
<1>1. ~halted /\ frame.at = "entry"
  BY DEF Sigreg, Running
<1>2. /\ act.cur = cur_pid /\ cur_pid \in PID /\ t \in Task
      /\ TaskManager \in Table /\ act.regs \in Context
  BY <1>1, InCall
<1>3. /\ v \in Task /\ v.Exists = t.Exists /\ v.Base_PML4 = t.Base_PML4
      /\ v.Owner_PID = t.Owner_PID /\ v.ProcessState = t.ProcessState
  BY <1>2 DEF Task
<1>4. /\ tm = [TaskManager EXCEPT ![cur_pid].SIGCHD = "ok"]
      /\ tm \in Table /\ tm[cur_pid] = v /\ SameOutside(TaskManager, tm, {cur_pid})
  BY <1>2, <1>3 DEF Table, SameOutside
<1>5. /\ Return(TaskManager, act.regs) \/ Return(tm, act.regs)
      /\ UNCHANGED <<cr3, sigstack, next_pml4, freed, halted>>
  BY <1>2, <1>4 DEF Sigreg, RegisterSignal
<1>6. CASE Return(TaskManager, act.regs)
  BY <1>1, <1>2, <1>5, <1>6, ReturnSlots DEF Same
<1>7. CASE Return(tm, act.regs)
  <2>1. /\ SameOutside(tm, TaskManager', {cur_pid})
        /\ Same(v, TaskManager'[cur_pid]) /\ Returned(act.regs)
    <3> HIDE DEF tm, v
    <3> QED
      BY <1>1, <1>2, <1>4, <1>7, ReturnSlots
  <2> QED
    BY <1>3, <1>4, <1>5, <2>1 DEF Same, SameOutside
<1> QED
  BY <1>5, <1>6, <1>7

\* sigret returns with the frame on top of the caller's user stack.
LEMMA SigretSlots ==
  ASSUME SchedInv, Sigret
  PROVE  LET t == TaskManager[cur_pid]
             pushed == sigstack[t.Base_PML4]
         IN  /\ SameOutside(TaskManager, TaskManager', {cur_pid})
             /\ Same(t, TaskManager'[cur_pid])
             /\ \/ /\ t.SavedRegisters.at = "user" /\ pushed # <<>>
                   /\ \E kept \in BOOLEAN :
                        Returned(PoppedFrame(pushed[Len(pushed)],
                                             t.SavedRegisters, kept))
                   /\ sigstack' = [sigstack EXCEPT
                        ![t.Base_PML4] = SubSeq(pushed, 1, Len(pushed) - 1)]
                \/ /\ t.SavedRegisters.at = "user"
                   /\ Returned([t.SavedRegisters EXCEPT !.on = "none"])
                   /\ UNCHANGED sigstack
                \/ /\ t.SavedRegisters.at # "user"
                   /\ Returned(Junk) /\ UNCHANGED sigstack
             /\ UNCHANGED <<cr3, next_pml4, freed, halted>>
<1> DEFINE t == TaskManager[cur_pid]
           pushed == sigstack[t.Base_PML4]
           v == [t EXCEPT !.ProcessState = "READY"]
           tm == [TaskManager EXCEPT ![cur_pid] = v]
<1>1. ~halted /\ frame.at = "entry"
  BY DEF Sigret, Running
<1>2. /\ act.cur = cur_pid /\ cur_pid \in PID /\ t \in Task
      /\ TaskManager \in Table /\ t.SavedRegisters \in Context
      /\ Runnable(TaskManager, cur_pid)
  BY <1>1, InCall
<1>3. pushed \in Seq(Context)
  BY <1>2 DEF SchedInv, TypeOK, Task
<1>4. v \in Task /\ Same(t, v)
  BY <1>2 DEF Task, ProcessStates, Runnable, Same
<1>5. /\ tm = [TaskManager EXCEPT ![cur_pid].ProcessState = "READY"]
      /\ tm \in Table /\ tm[cur_pid] = v /\ SameOutside(TaskManager, tm, {cur_pid})
  BY <1>2, <1>4 DEF Table, SameOutside
<1>6. ASSUME NEW regs \in Context, Return(tm, regs)
      PROVE  /\ SameOutside(TaskManager, TaskManager', {cur_pid})
             /\ Same(t, TaskManager'[cur_pid]) /\ Returned(regs)
  <2>1. /\ SameOutside(tm, TaskManager', {cur_pid})
        /\ Same(v, TaskManager'[cur_pid]) /\ Returned(regs)
    <3> HIDE DEF tm, v
    <3> QED
      BY <1>1, <1>5, <1>6, ReturnSlots
  <2> QED
    BY <1>4, <1>5, <2>1 DEF Same, SameOutside
<1>7. UNCHANGED <<cr3, next_pml4, freed, halted>>
  BY DEF Sigret
<1>8. CASE /\ t.SavedRegisters.at = "user" /\ pushed # <<>>
           /\ \E kept \in BOOLEAN :
                Return(tm, PoppedFrame(pushed[Len(pushed)], t.SavedRegisters,
                                       kept))
           /\ sigstack' = [sigstack EXCEPT
                ![t.Base_PML4] = SubSeq(pushed, 1, Len(pushed) - 1)]
  <2>1. \A kept \in BOOLEAN :
          PoppedFrame(pushed[Len(pushed)], t.SavedRegisters, kept) \in Context
    <3>1. pushed[Len(pushed)] \in Context
      BY <1>3, <1>8
    <3> HIDE DEF pushed, t
    <3> QED
      BY <1>2, <3>1, PoppedType
  <2>2. PICK kept \in BOOLEAN :
          Return(tm, PoppedFrame(pushed[Len(pushed)], t.SavedRegisters, kept))
    BY <1>8
  <2>3. /\ SameOutside(TaskManager, TaskManager', {cur_pid})
        /\ Same(t, TaskManager'[cur_pid])
        /\ Returned(PoppedFrame(pushed[Len(pushed)], t.SavedRegisters, kept))
    <3> HIDE DEF tm, v, pushed, t
    <3> QED
      BY <1>6, <2>1, <2>2
  <2>4. \E k \in BOOLEAN :
          Returned(PoppedFrame(pushed[Len(pushed)], t.SavedRegisters, k))
    BY <2>3, Zenon
  <2>5. /\ t.SavedRegisters.at = "user" /\ pushed # <<>>
        /\ sigstack' = [sigstack EXCEPT
             ![t.Base_PML4] = SubSeq(pushed, 1, Len(pushed) - 1)]
    BY <1>8
  <2>6. SameOutside(TaskManager, TaskManager', {cur_pid})
        /\ Same(t, TaskManager'[cur_pid])
    BY <2>3
  <2> HIDE DEF tm, v
  <2> QED
    BY <1>7, <2>4, <2>5, <2>6
<1>9. CASE /\ t.SavedRegisters.at = "user"
           /\ Return(tm, [t.SavedRegisters EXCEPT !.on = "none"])
           /\ UNCHANGED sigstack
  <2>1. [t.SavedRegisters EXCEPT !.on = "none"] \in Context
    BY <1>2, ContextTypes
  <2> HIDE DEF tm, v
  <2> QED
    BY <1>6, <1>7, <1>9, <2>1
<1>10. CASE /\ t.SavedRegisters.at # "user"
            /\ Return(tm, Junk) /\ UNCHANGED sigstack
  <2>1. Junk \in Context
    BY ContextTypes
  <2> HIDE DEF tm, v
  <2> QED
    BY <1>6, <1>7, <1>10, <2>1
<1>11. [TaskManager EXCEPT ![act.cur].ProcessState = "READY"] = tm
  BY <1>2, <1>5
<1>12. act.cur = cur_pid
  BY <1>2
<1> HIDE DEF tm, v
<1>13. \/ /\ t.SavedRegisters.at = "user" /\ pushed # <<>>
          /\ \E kept \in BOOLEAN :
               Return(tm, PoppedFrame(pushed[Len(pushed)], t.SavedRegisters,
                                      kept))
          /\ sigstack' = [sigstack EXCEPT
               ![t.Base_PML4] = SubSeq(pushed, 1, Len(pushed) - 1)]
       \/ /\ t.SavedRegisters.at = "user"
          /\ Return(tm, [t.SavedRegisters EXCEPT !.on = "none"])
          /\ UNCHANGED sigstack
       \/ /\ t.SavedRegisters.at # "user"
          /\ Return(tm, Junk) /\ UNCHANGED sigstack
  BY <1>11, <1>12 DEF Sigret
<1> QED
  BY <1>8, <1>9, <1>10, <1>13

\* The end of task_switch loads the new task's frame into the return frame,
\* and after wait() also into the slot of the task that called it.
LEMMA SwitchInSlots ==
  ASSUME SchedInv, SwitchIn
  PROVE  LET regs == TaskManager[cur_pid].SavedRegisters
         IN  /\ \A p \in PID : /\ Same(TaskManager[p], TaskManager'[p])
                              /\ \/ TaskManager'[p] = TaskManager[p]
                                 \/ TaskManager'[p].SavedRegisters = regs
             /\ act.op # "wait" => TaskManager' = TaskManager
             /\ kstack'[frame'.img].regs = regs /\ SameRecords
             /\ frame'.at = "return" /\ frame'.on = "none" /\ frame'.img = frame.img
             /\ UNCHANGED <<cur_pid, cr3, sigstack, next_pml4, freed, halted>>
<1> DEFINE regs == TaskManager[cur_pid].SavedRegisters
<1>1. /\ cur_pid \in PID /\ act.cur \in PID /\ frame.img \in PML4
      /\ TaskManager \in Table /\ TaskManager[act.cur] \in Task
      /\ regs \in Context /\ kstack \in [PML4 -> Activation]
  BY ActType DEF SchedInv, TypeOK, Task
<1>2. frame'.at = "return" /\ frame'.on = "none" /\ frame'.img = frame.img
  BY DEF SwitchIn, KernelContext
<1>3. /\ kstack' = [kstack EXCEPT ![frame.img].regs = regs]
      /\ TaskManager' = IF act.op = "wait"
                        THEN [TaskManager EXCEPT ![act.cur].SavedRegisters = regs]
                        ELSE TaskManager
      /\ UNCHANGED <<cur_pid, cr3, sigstack, next_pml4, freed, halted>>
  BY DEF SwitchIn
<1> HIDE DEF regs
<1>4. SameRecords /\ kstack'[frame'.img].regs = regs
  <2>1. ASSUME NEW s \in PML4
        PROVE  /\ kstack'[s].op = kstack[s].op /\ kstack'[s].cur = kstack[s].cur
               /\ kstack'[s].owner = kstack[s].owner
    BY <1>1, <1>3 DEF Activation
  <2>2. kstack'[frame'.img].regs = regs
    BY <1>1, <1>2, <1>3 DEF Activation
  <2> QED
    BY <2>1, <2>2 DEF SameRecords
<1>5. ASSUME NEW p \in PID
      PROVE  /\ Same(TaskManager[p], TaskManager'[p])
             /\ \/ TaskManager'[p] = TaskManager[p]
                \/ TaskManager'[p].SavedRegisters = regs
  <2>1. CASE TaskManager'[p] = TaskManager[p]
    BY <2>1 DEF Same
  <2>2. CASE TaskManager'[p] # TaskManager[p]
    <3>1. p = act.cur /\ TaskManager'[p] = [TaskManager[p] EXCEPT !.SavedRegisters = regs]
      BY <1>1, <1>3, <2>2 DEF Table
    <3> QED
      BY <1>1, <3>1, SavedTask
  <2> QED
    BY <2>1, <2>2
<1> QED
  BY <1>2, <1>3, <1>4, <1>5 DEF regs

\* A page fault ends the task; its owner is woken at most.
LEMMA PageFaultSlots ==
  ASSUME SchedInv, PageFaultKill
  PROVE  LET t == TaskManager[cur_pid]
             o == t.Owner_PID
         IN  /\ o \in PID /\ t.Exists
             /\ SameOutside(TaskManager, TaskManager', {o, cur_pid})
             /\ Same(ZeroTask, TaskManager'[cur_pid])
             /\ o # cur_pid =>
                  \/ TaskManager'[o] = TaskManager[o]
                  \/ /\ TaskManager[o].ProcessState = "WAITING"
                     /\ TaskManager[o].WaitingReason = "CHILD"
                     /\ Awake(TaskManager[o], TaskManager'[o],
                              TaskManager[o].SavedRegisters)
             /\ frame.at = "user" /\ frame'.at = "switch" /\ frame'.on = "none"
             /\ freed' = freed \cup {t.Base_PML4}
             /\ kstack' = [kstack EXCEPT ![tss] = [regs |-> frame, cur |-> cur_pid,
                                                  op |-> "pf", owner |-> 0]]
             /\ UNCHANGED <<sigstack, next_pml4, halted>>
<1> DEFINE t == TaskManager[cur_pid]
           o == t.Owner_PID
           saved == [TaskManager EXCEPT ![cur_pid].SavedRegisters = frame]
           killed == KillTask(saved, cur_pid)
           tm == SignalOwner(killed, cur_pid, "EXIT")
<1>1. /\ cur_pid \in PID /\ frame \in Context /\ tss \in PML4
      /\ TaskManager \in Table /\ t \in Task /\ o \in PID
  BY ActType DEF SchedInv, TypeOK, Task
<1>2. /\ saved \in Table /\ SameOutside(TaskManager, saved, {cur_pid})
      /\ Same(t, saved[cur_pid])
  BY KeySlots
<1>3. /\ killed \in Table /\ SameOutside(saved, killed, {cur_pid})
      /\ killed[cur_pid].ProcessState = "KILL" /\ killed[cur_pid].Owner_PID = o
  <2> HIDE DEF saved
  <2>1. saved[cur_pid] \in Task /\ killed \in Table
    BY <1>1, <1>2, TableTypes
  <2> QED
    BY <1>1, <1>2, <2>1 DEF KillTask, Table, Task, SameOutside, Same
<1>4. /\ tm \in Table /\ SameOutside(killed, tm, {o})
      /\ \/ tm = killed
         \/ /\ killed[o].ProcessState = "WAITING"
            /\ killed[o].WaitingReason = "CHILD"
            /\ Awake(killed[o], tm[o], killed[o].SavedRegisters)
  <2> HIDE DEF killed
  <2> QED
    BY <1>1, <1>3, OwnerSlots
<1>5. tm[cur_pid].ProcessState = "KILL"
  BY <1>1, <1>3, <1>4 DEF SameOutside
<1>6. /\ ForceSwitch(tm, frame, tss) /\ frame.at = "user"
      /\ freed' = freed \cup {t.Base_PML4}
      /\ kstack' = [kstack EXCEPT ![tss] = [regs |-> frame, cur |-> cur_pid,
                                           op |-> "pf", owner |-> 0]]
      /\ UNCHANGED <<sigstack, next_pml4, halted>>
  BY DEF PageFaultKill
<1>7. /\ SameOutside(tm, TaskManager', {cur_pid})
      /\ Same(ZeroTask, TaskManager'[cur_pid])
      /\ frame'.at = "switch" /\ frame'.on = "none"
  <2> HIDE DEF tm
  <2> QED
    BY <1>1, <1>4, <1>5, <1>6, SwitchSlots
<1>8. SameOutside(TaskManager, TaskManager', {o, cur_pid})
  <2> HIDE DEF saved, killed, tm, o
  <2>1. ASSUME NEW p \in PID \ {o, cur_pid}
        PROVE  TaskManager'[p] = TaskManager[p]
    BY <1>2, <1>3, <1>4, <1>7 DEF SameOutside
  <2> QED
    BY <2>1 DEF SameOutside
<1>9. ASSUME o # cur_pid
      PROVE  \/ TaskManager'[o] = TaskManager[o]
             \/ /\ TaskManager[o].ProcessState = "WAITING"
                /\ TaskManager[o].WaitingReason = "CHILD"
                /\ Awake(TaskManager[o], TaskManager'[o], TaskManager[o].SavedRegisters)
  <2>1. killed[o] = TaskManager[o] /\ TaskManager'[o] = tm[o]
    BY <1>1, <1>2, <1>3, <1>7, <1>9 DEF SameOutside
  <2> QED
    BY <1>4, <2>1
<1>10. t.Exists
  BY <1>6, QuietTable DEF Runnable
<1> QED
  BY <1>1, <1>6, <1>7, <1>8, <1>9, <1>10

\* An invalid opcode empties slots and stops the kernel.
LEMMA InvalidOpcodeSlots ==
  ASSUME SchedInv, InvalidOpcode
  PROVE  /\ \A p \in PID : \/ TaskManager'[p] = TaskManager[p]
                         \/ ~TaskManager'[p].Exists
         /\ frame.at = "user"
         /\ UNCHANGED <<frame, kstack, sigstack, next_pml4, freed>>
<1>1. ASSUME NEW p \in PID
      PROVE  TaskManager'[p] = TaskManager[p] \/ ~TaskManager'[p].Exists
  BY DEF InvalidOpcode, ZeroTask
<1> QED
  BY <1>1 DEF InvalidOpcode

\* int 0x80 saves the program's registers twice: in its slot and on its stack.
LEMMA EntrySlots ==
  ASSUME SchedInv, NEW op, SyscallEntry(op)
  PROVE  /\ SameOutside(TaskManager, TaskManager', {cur_pid})
         /\ Same(TaskManager[cur_pid], TaskManager'[cur_pid])
         /\ TaskManager'[cur_pid].SavedRegisters = frame
         /\ frame.at = "user" /\ ~halted
         /\ frame'.at = "entry" /\ frame'.on = "none" /\ frame'.img = tss
         /\ tss \in PML4
         /\ kstack'[tss].regs = frame /\ kstack'[tss].op = op
         /\ kstack'[tss].owner = TaskManager[cur_pid].Owner_PID
         /\ \A s \in PML4 \ {tss} : kstack'[s] = kstack[s]
         /\ UNCHANGED <<cur_pid, sigstack, next_pml4, freed, halted>>
<1>1. tss \in PML4 /\ kstack \in [PML4 -> Activation]
  BY DEF SchedInv, TypeOK
<1>2. /\ SameOutside(TaskManager, TaskManager', {cur_pid})
      /\ Same(TaskManager[cur_pid], TaskManager'[cur_pid])
      /\ TaskManager'[cur_pid].SavedRegisters = frame
  BY KeySlots DEF SyscallEntry
<1>3. frame'.at = "entry" /\ frame'.on = "none" /\ frame'.img = tss
  BY DEF SyscallEntry, KernelContext
<1>4. kstack' = [kstack EXCEPT
                  ![tss] = [regs |-> frame, cur |-> cur_pid, op |-> op,
                            owner |-> TaskManager[cur_pid].Owner_PID]]
  BY DEF SyscallEntry
<1>5. kstack'[tss] = [regs |-> frame, cur |-> cur_pid, op |-> op,
                      owner |-> TaskManager[cur_pid].Owner_PID]
  BY <1>1, <1>4
<1>6. /\ kstack'[tss].regs = frame /\ kstack'[tss].op = op
      /\ kstack'[tss].owner = TaskManager[cur_pid].Owner_PID
  BY <1>5
<1>7. \A s \in PML4 \ {tss} : kstack'[s] = kstack[s]
  BY <1>1, <1>4
<1> QED
  BY <1>1, <1>2, <1>3, <1>6, <1>7 DEF SyscallEntry

----------------------------------------------------------------------------
(* CR3 and the address spaces that were freed                              *)

\* Spaces are freed when their only task ends or leaves them, and the numbers
\* of later ones are new; the kernel's own is never freed.
FreedInv ==
  /\ \A s \in freed : s < next_pml4
  /\ 0 \notin freed
  /\ TaskManager[0].Base_PML4 = 0
  /\ \A p \in PID : TaskManager[p].Exists => TaskManager[p].Base_PML4 \notin freed
  /\ frame.at = "exec" => cr3 = 0
  /\ \A s \in PML4 : kstack[s].op # "badexec"

\* No task appeared, and none changed its address space.
Keeps(tm, tm2) ==
  \A p \in PID : tm2[p].Exists => /\ tm[p].Exists
                                 /\ tm2[p].Base_PML4 = tm[p].Base_PML4

\* FreedInv implies that CR3 is intact.
LEMMA FreedInvImplies ==
  ASSUME SchedInv, FreedInv
  PROVE  LoadedSpaceIntact
BY DEF SchedInv, TypeOK, CurrentInv, FreedInv, LoadedSpaceIntact

\* The kernel task is never emptied.
LEMMA KernelTaskExists ==
  ASSUME SchedInv
  PROVE  TaskManager[0].Exists /\ TaskManager[0].ProcessState = "READY"
BY BaseTypes DEF SchedInv, TableInv, QuietBut, Fits

\* A step that frees nothing and moves no task keeps FreedInv.
LEMMA FreedKept ==
  ASSUME SchedInv, SchedInv', FreedInv, Keeps(TaskManager, TaskManager'),
         UNCHANGED <<freed, next_pml4>>, frame'.at = "exec" => cr3' = 0,
         SameRecords
  PROVE  FreedInv'
<1>1. TaskManager'[0].Base_PML4 = 0
  <2>1. TaskManager'[0].Exists
    BY BaseTypes DEF SchedInv, TableInv, QuietBut, Fits
  <2> QED
    BY <2>1, BaseTypes DEF FreedInv, Keeps
<1> QED
  BY <1>1 DEF FreedInv, Keeps, SameRecords

\* Slots whose tasks were kept, aside from one that was emptied or kept too.
LEMMA KeepsSlots ==
  ASSUME NEW tm, NEW tm2, NEW c \in PID,
         SameOutside(tm, tm2, {c}),
         tm2[c].Exists => /\ tm[c].Exists
                          /\ tm2[c].Base_PML4 = tm[c].Base_PML4
  PROVE  Keeps(tm, tm2)
BY DEF Keeps, SameOutside

\* Interrupts free nothing while the current task is runnable.
LEMMA FreedInterrupt ==
  ASSUME SchedInv, SchedInv', FreedInv, Windows \subseteq {"block", "switch"}, Interrupt
  PROVE  FreedInv'
<1>1. cur_pid \in PID /\ frame.at # "exec"
  BY InterruptedPoint DEF SchedInv, TypeOK, Interrupt, TimerInterrupt, KeyPressed,
                          EnterPressed
<1>2. CASE TimerInterrupt
  <2>1. Keeps(TaskManager, TaskManager')
    BY <1>1, <1>2, TimerSlots, KeepsSlots DEF Same
  <2>2. UNCHANGED <<freed, next_pml4>> /\ SameRecords
    BY <1>2, TimerSlots DEF SameRecords
  <2>3. frame'.at # "exec"
    BY <1>2, TimerSlots DEF SavedPoints
  <2> QED
    BY <2>1, <2>2, <2>3, FreedKept
<1>3. CASE KeyPressed
  <2>1. Keeps(TaskManager, TaskManager')
    BY <1>1, <1>3, KeySlots, KeepsSlots DEF Same, KeyPressed
  <2>2. UNCHANGED <<freed, next_pml4, frame>> /\ SameRecords
    BY <1>3 DEF SameRecords, KeyPressed
  <2> QED
    BY <1>1, <2>1, <2>2, FreedKept
<1>4. CASE EnterPressed
  <2>1. Keeps(TaskManager, TaskManager')
    <3>1. PICK w \in PID, tm \in Table :
            /\ SameOutside(TaskManager, tm, {cur_pid})
            /\ Same(TaskManager[cur_pid], tm[cur_pid])
            /\ SameOutside(tm, TaskManager', {w})
            /\ Awake(tm[w], TaskManager'[w], [tm[w].SavedRegisters EXCEPT !.on = "none"])
      BY <1>4, EnterSlots
    <3>2. Keeps(TaskManager, tm)
      BY <1>1, <3>1, KeepsSlots DEF Same
    <3>3. Keeps(tm, TaskManager')
      BY <3>1, KeepsSlots DEF Awake
    <3> QED
      BY <3>2, <3>3 DEF Keeps
  <2>2. UNCHANGED <<freed, next_pml4, frame>> /\ SameRecords
    BY <1>4 DEF SameRecords, EnterPressed
  <2> QED
    BY <1>1, <2>1, <2>2, FreedKept
<1> QED
  BY <1>2, <1>3, <1>4 DEF Interrupt

\* The calls that neither free nor create an address space.
LEMMA FreedCall ==
  ASSUME SchedInv, SchedInv', FreedInv,
         \/ OtherSyscall \/ Exit \/ Read \/ Wait \/ Sigreg \/ Sigret
         \/ GiveUpCPU \/ ExecReturn \/ SwitchIn \/ InterruptReturn
  PROVE  FreedInv'
<1>0. cur_pid \in PID /\ TaskManager \in Table
  BY DEF SchedInv, TypeOK, Table
<1>1. CASE OtherSyscall
  <2>1. ~halted /\ frame.at = "entry" /\ Return(TaskManager, act.regs)
    BY <1>1 DEF OtherSyscall, Running
  <2>2. /\ SameOutside(TaskManager, TaskManager', {cur_pid})
        /\ Same(TaskManager[cur_pid], TaskManager'[cur_pid]) /\ Returned(act.regs)
    BY <1>0, <2>1, InCall, ReturnSlots
  <2>3. Keeps(TaskManager, TaskManager')
    BY <1>0, <2>2, KeepsSlots DEF Same
  <2> QED
    BY <1>1, <2>2, <2>3, FreedKept DEF OtherSyscall, Returned
<1>2. CASE Exit
  <2> DEFINE o == TaskManager[cur_pid].Owner_PID
  <2>1. PICK tm \in Table :
          /\ o \in PID /\ SameOutside(TaskManager, tm, {o})
          /\ \/ tm = TaskManager
             \/ Awake(TaskManager[o], tm[o], HandlerFrame(TaskManager[o].SavedRegisters))
          /\ SameOutside(tm, TaskManager', {cur_pid})
          /\ Same(ZeroTask, TaskManager'[cur_pid])
          /\ frame'.at = "switch" /\ UNCHANGED <<kstack, next_pml4, freed>>
    BY <1>2, ExitSlots
  <2>2. Keeps(TaskManager, tm)
    BY <2>1, KeepsSlots DEF Awake
  <2>3. Keeps(tm, TaskManager')
    BY <1>0, <2>1, KeepsSlots DEF Same, ZeroTask
  <2>4. Keeps(TaskManager, TaskManager')
    BY <2>2, <2>3 DEF Keeps
  <2> QED
    BY <2>1, <2>4, FreedKept DEF SameRecords
<1>3. CASE Read
  <2>1. Keeps(TaskManager, TaskManager')
    BY <1>0, <1>3, ReadSlots, KeepsSlots
  <2> QED
    BY <1>3, <2>1, ReadSlots, FreedKept
<1>4. CASE Wait
  <2>1. Keeps(TaskManager, TaskManager')
    BY <1>0, <1>4, WaitSlots, KeepsSlots
  <2>2. SameRecords /\ frame'.at # "exec" /\ UNCHANGED <<freed, next_pml4>>
    BY <1>4, WaitSlots DEF SameRecords, Returned
  <2> QED
    BY <2>1, <2>2, FreedKept
<1>5. CASE Sigreg
  <2>1. Keeps(TaskManager, TaskManager')
    BY <1>0, <1>5, SigregSlots, KeepsSlots
  <2> QED
    BY <1>5, <2>1, SigregSlots, FreedKept DEF Returned
<1>6. CASE Sigret
  <2>1. Keeps(TaskManager, TaskManager')
    BY <1>0, <1>6, SigretSlots, KeepsSlots DEF Same
  <2>2. SameRecords /\ frame'.at # "exec" /\ UNCHANGED <<freed, next_pml4>>
    BY <1>6, SigretSlots DEF Returned
  <2> QED
    BY <2>1, <2>2, FreedKept
<1>7. CASE GiveUpCPU
  <2>1. Keeps(TaskManager, TaskManager')
    BY <1>0, <1>7, GiveUpSlots, KeepsSlots DEF Same
  <2> QED
    BY <1>7, <2>1, GiveUpSlots, FreedKept DEF SameRecords
<1>8. CASE ExecReturn
  <2>1. Keeps(TaskManager, TaskManager')
    BY <1>0, <1>8, ExecReturnSlots, KeepsSlots
  <2> QED
    BY <1>8, <2>1, ExecReturnSlots, FreedKept DEF SameRecords
<1>9. CASE SwitchIn
  <2>1. Keeps(TaskManager, TaskManager')
    BY <1>9, SwitchInSlots DEF Keeps, Same
  <2> QED
    BY <1>9, <2>1, SwitchInSlots, FreedKept
<1>10. CASE InterruptReturn
  <2>1. frame'.at \in SavedPoints
    BY <1>10, ActType DEF InterruptReturn, SchedInv, StacksInv, act
  <2>2. Keeps(TaskManager, TaskManager') /\ SameRecords
    BY <1>10 DEF InterruptReturn, Keeps, SameRecords
  <2> QED
    BY <1>10, <2>1, <2>2, FreedKept DEF InterruptReturn, SavedPoints
<1> QED
  BY <1>1, <1>2, <1>3, <1>4, <1>5, <1>6, <1>7, <1>8, <1>9, <1>10

\* The entry of a call other than that of a rejected file.
LEMMA FreedEntry ==
  ASSUME SchedInv, SchedInv', FreedInv, NEW op, op # "badexec", SyscallEntry(op)
  PROVE  FreedInv'
<1>0. cur_pid \in PID
  BY DEF SchedInv, TypeOK
<1>1. TaskManager'[0].Base_PML4 = 0
  BY <1>0, BaseTypes, EntrySlots DEF FreedInv, SameOutside, Same
<1>2. \A p \in PID : TaskManager'[p].Exists => TaskManager'[p].Base_PML4 \notin freed
  BY <1>0, EntrySlots DEF FreedInv, SameOutside, Same
<1>3. ASSUME NEW s \in PML4
      PROVE  kstack'[s].op # "badexec"
  <2>1. CASE s = tss
    <3>1. kstack'[s].op = op
      BY <2>1, EntrySlots
    <3> QED
      BY <3>1
  <2>2. CASE s # tss
    <3>1. kstack'[s] = kstack[s]
      BY <2>2, EntrySlots
    <3> QED
      BY <3>1 DEF FreedInv
  <2> QED
    BY <2>1, <2>2
<1> QED
  BY <1>1, <1>2, <1>3, EntrySlots DEF FreedInv

\* fork gives the child a space that was never freed.
LEMMA FreedFork ==
  ASSUME SchedInv, SchedInv', FreedInv, Fork
  PROVE  FreedInv'
<1> DEFINE child == RegisterTask(TaskManager)
<1>0. cur_pid \in PID /\ next_pml4 \in Nat /\ freed \subseteq Nat
  BY TasksAssumption DEF SchedInv, TypeOK, PML4
<1>1. cur_pid # 0 /\ child \in PID \ {0}
  BY ForkSlots, InCall DEF Fork, Running
<1>2. TaskManager'[0].Base_PML4 = 0
  BY <1>1, BaseTypes, ForkSlots DEF FreedInv, SameOutside
<1>3. next_pml4 \notin freed
  BY <1>0 DEF FreedInv
<1>4. ASSUME NEW p \in PID, TaskManager'[p].Exists
      PROVE  TaskManager'[p].Base_PML4 \notin freed
  <2>1. CASE p = child
    BY <1>3, <2>1, ForkSlots
  <2>2. CASE p # child /\ p = cur_pid
    <3>1. Same(TaskManager[p], TaskManager'[p])
      BY <2>2, ForkSlots
    <3> QED
      BY <1>4, <3>1 DEF Same, FreedInv
  <2>3. CASE p # child /\ p # cur_pid
    <3>1. TaskManager'[p] = TaskManager[p]
      BY <2>3, ForkSlots DEF SameOutside
    <3> QED
      BY <1>4, <3>1 DEF FreedInv
  <2> QED
    BY <2>1, <2>2, <2>3
<1>5. \A s \in PML4 : kstack'[s].op # "badexec"
  BY ForkSlots DEF FreedInv, Returned, SameRecords
<1>6. next_pml4' = next_pml4 + 1 /\ freed' = freed /\ frame'.at # "exec"
  BY ForkSlots DEF Returned
<1>7. \A s \in freed' : s < next_pml4'
  BY <1>0, <1>6 DEF FreedInv
<1> QED
  BY <1>2, <1>4, <1>5, <1>6, <1>7 DEF FreedInv

\* execve frees the space it leaves: no other task is in it, and it is not
\* the kernel's.
LEMMA FreedExecve ==
  ASSUME SchedInv, SchedInv', FreedInv, Execve
  PROVE  FreedInv'
<1> DEFINE b == TaskManager[cur_pid].Base_PML4
<1>1. /\ cur_pid \in PID \ {0} /\ next_pml4 \in Nat
      /\ QuietBut(TaskManager, {}, next_pml4) /\ TaskManager[cur_pid].Exists
  BY InCall DEF Execve, Running, Runnable
<1>2. /\ b \in Nat /\ b < next_pml4 /\ freed \subseteq Nat
  <2>1. b \in PML4
    BY <1>1 DEF QuietBut, Table, Task
  <2>2. freed \subseteq PML4 /\ PML4 \subseteq Nat
    BY DEF SchedInv, TypeOK, PML4
  <2> QED
    BY <1>1, <2>1, <2>2 DEF QuietBut, Sound
<1>3. /\ SameOutside(TaskManager, TaskManager', {cur_pid})
      /\ TaskManager'[cur_pid] = LoadedTask(next_pml4)
      /\ next_pml4' = next_pml4 + 1 /\ freed' = freed \cup {b}
      /\ cr3' = 0 /\ kstack' = kstack
  BY ExecveSlots
<1>4. \A p \in PID \ {cur_pid} : TaskManager[p].Exists => TaskManager[p].Base_PML4 # b
  BY <1>1 DEF QuietBut, Fits
<1>5. b # 0 /\ TaskManager'[0].Base_PML4 = 0
  BY <1>1, <1>3, <1>4, KernelTaskExists, BaseTypes DEF FreedInv, SameOutside
<1>6. ASSUME NEW p \in PID, TaskManager'[p].Exists
      PROVE  TaskManager'[p].Base_PML4 \notin freed'
  <2>1. CASE p = cur_pid
    <3>1. TaskManager'[p].Base_PML4 = next_pml4
      BY <1>3, <2>1 DEF LoadedTask, ZeroTask
    <3> QED
      BY <1>1, <1>2, <1>3, <3>1 DEF FreedInv
  <2>2. CASE p # cur_pid
    BY <1>3, <1>4, <1>6, <2>2 DEF FreedInv, SameOutside
  <2> QED
    BY <2>1, <2>2
<1>7. \A s \in freed' : s < next_pml4'
  BY <1>1, <1>2, <1>3 DEF FreedInv
<1> QED
  BY <1>3, <1>5, <1>6, <1>7 DEF FreedInv

\* So does a page fault that ends a task.
LEMMA FreedFault ==
  ASSUME SchedInv, SchedInv', FreedInv, PageFaultKill \/ InvalidOpcode
  PROVE  FreedInv'
<1>1. CASE PageFaultKill
  <2> DEFINE b == TaskManager[cur_pid].Base_PML4
             o == TaskManager[cur_pid].Owner_PID
  <2>1. /\ cur_pid \in PID \ {0} /\ next_pml4 \in Nat /\ frame.at = "user"
        /\ QuietBut(TaskManager, {}, next_pml4) /\ TaskManager[cur_pid].Exists
    BY <1>1, QuietTable DEF PageFaultKill, SchedInv, TypeOK, HandlerInv, Runnable
  <2>2. b < next_pml4
    BY <2>1 DEF QuietBut, Sound
  <2>3. /\ ~TaskManager'[cur_pid].Exists /\ freed' = freed \cup {b}
        /\ next_pml4' = next_pml4 /\ frame'.at = "switch"
    BY <1>1, PageFaultSlots DEF Same, ZeroTask
  <2>4. \A p \in PID \ {cur_pid} :
          /\ TaskManager'[p].Exists = TaskManager[p].Exists
          /\ TaskManager'[p].Base_PML4 = TaskManager[p].Base_PML4
    BY <1>1, PageFaultSlots DEF SameOutside, Awake
  <2>5. \A p \in PID \ {cur_pid} : TaskManager[p].Exists => TaskManager[p].Base_PML4 # b
    BY <2>1 DEF QuietBut, Fits
  <2>6. b # 0 /\ TaskManager'[0].Base_PML4 = 0
    BY <2>1, <2>4, <2>5, KernelTaskExists, BaseTypes DEF FreedInv
  <2>7. \A s \in PML4 : kstack'[s].op # "badexec"
    <3>1. kstack \in [PML4 -> Activation]
      BY DEF SchedInv, TypeOK
    <3> QED
      BY <1>1, <3>1 DEF FreedInv, PageFaultKill
  <2> QED
    BY <2>2, <2>3, <2>4, <2>5, <2>6, <2>7 DEF FreedInv
<1>2. CASE InvalidOpcode
  <2>1. Keeps(TaskManager, TaskManager')
    BY <1>2, InvalidOpcodeSlots DEF Keeps
  <2> QED
    BY <1>2, <2>1, InvalidOpcodeSlots, FreedKept DEF SameRecords
<1> QED
  BY <1>1, <1>2

\* The shell's and the kernel's spaces are not freed at the start.
LEMMA FreedInit ==
  ASSUME Init
  PROVE  FreedInv
<1>1. TaskManager[0].Base_PML4 = 0
  BY BaseTypes DEF Init, KernelTask, ZeroTask
<1> QED
  BY <1>1 DEF Init, FreedInv

\* SchedInv and FreedInv are invariant together.
LEMMA FreedInvariant ==
  ASSUME Windows \subseteq {"block", "switch"}, "gpf" \notin Faults, "badexec" \notin Ops
  PROVE  Spec => [](SchedInv /\ FreedInv)
<1>1. Init => FreedInv
  BY FreedInit
<1>2. SchedInv /\ SchedInv' /\ FreedInv /\ [Next]_vars => FreedInv'
  <2> SUFFICES ASSUME SchedInv, SchedInv', FreedInv, [Next]_vars PROVE FreedInv'
    OBVIOUS
  <2>1. ASSUME NEW op \in Ops, SyscallEntry(op) PROVE FreedInv'
    BY <2>1, FreedEntry
  <2>2. CASE SyscallStep
    <3>1. ~BadExecve
      <4> SUFFICES ASSUME BadExecve PROVE FALSE
        OBVIOUS
      <4>1. kstack[frame.img].op = "badexec" /\ frame.img \in PML4
        BY ActType DEF BadExecve, Running, act, SchedInv
      <4> QED
        BY <4>1 DEF FreedInv
    <3> QED
      BY <2>2, <3>1, FreedCall, FreedFork, FreedExecve DEF SyscallStep
  <2>3. CASE Fault
    BY <2>3, FreedFault, Task0RunsNoProgram DEF Fault
  <2>4. CASE UNCHANGED vars
    BY <2>4 DEF vars, FreedInv
  <2> QED
    BY <2>1, <2>2, <2>3, <2>4, FreedInterrupt DEF Next
<1> QED
  BY <1>1, <1>2, SchedInvariant, PTL DEF Spec

\* CR3 never holds page tables that free_task_memory has zeroed, unless execve
\* is given a file whose header LoadElfStrict rejects: execve goes through the
\* kernel's tables, and a task that ends leaves for another's.
THEOREM LoadedIntact ==
  ASSUME Windows \subseteq {"block", "switch"}, "gpf" \notin Faults, "badexec" \notin Ops
  PROVE  Spec => []LoadedSpaceIntact
<1>1. SchedInv /\ FreedInv => LoadedSpaceIntact
  BY FreedInvImplies
<1> QED
  BY <1>1, FreedInvariant, PTL

----------------------------------------------------------------------------
(* Registers                                                               *)

\* The registers are those of task p, whose address space is b.
Own(c, p, b) == \/ c.at = "user" /\ c.img = b
                \/ c.at = "idle" /\ p = 0

\* Task p is not on the CPU, or its registers have not been loaded yet.
Resting(p) == p # cur_pid \/ frame.at \in {"switch", "exec"}

\* What was task p's registers still is.
OwnsStill(t, u, p) ==
  /\ u.Exists => t.Exists
  /\ u.Base_PML4 = t.Base_PML4
  /\ Own(t.SavedRegisters, p, t.Base_PML4) => Own(u.SavedRegisters, p, u.Base_PML4)

\* The frames on a user stack are those of the program in that space.
OwnStacks(st) == \A s \in PML4 : \A i \in 1 .. Len(st[s]) : st[s][i].img = s

\* Registers on their way through the kernel: in the slots of tasks at rest,
\* in the CPU, in the frame the running handler returns with, and on the user
\* stacks below a signal handler.
ContextInv ==
  /\ ~halted
  /\ \A p \in PID : TaskManager[p].Exists /\ Resting(p)
       => Own(TaskManager[p].SavedRegisters, p, TaskManager[p].Base_PML4)
  /\ frame.at \in {"user", "idle"}
       => Own(frame, cur_pid, TaskManager[cur_pid].Base_PML4)
  /\ frame.at \in {"entry", "block", "return"}
       => Own(act.regs, cur_pid, TaskManager[cur_pid].Base_PML4)
  /\ frame.at = "entry" => Own(TaskManager[cur_pid].SavedRegisters, cur_pid,
                               TaskManager[cur_pid].Base_PML4)
  /\ frame.at # "junk"
  /\ OwnStacks(sigstack)
  /\ \A s \in PML4 : kstack[s].op # "wait"

\* fork is called only while a slot is free.
RoomToFork ==
  Running("fork") /\ next_pml4 <= MaxPML4 => FreePIDs(TaskManager) # {}

\* Only the marks that read leaves on registers change, never whose they are.
LEMMA OwnUnmarked ==
  ASSUME NEW c \in Context, NEW p, NEW b
  PROVE  /\ Own([c EXCEPT !.on = "none"], p, b) <=> Own(c, p, b)
         /\ Own([c EXCEPT !.on = "input"], p, b) <=> Own(c, p, b)
         /\ c.at = "user" => (Own(HandlerFrame(c), p, b) <=> Own(c, p, b))
BY DEF Context, Own, HandlerFrame

\* ContextInv implies the property.
LEMMA ContextInvImplies ==
  ASSUME SchedInv, ContextInv
  PROVE  ContextIntegrity
<1>1. \A c, p : ProgramOf(c, p) <=> Own(c, p, TaskManager[p].Base_PML4)
  BY DEF ProgramOf, Own
<1>2. ASSUME NEW p \in PID, TaskManager[p].Exists,
             p # cur_pid \/ frame.at \in {"switch", "exec"}
      PROVE  BelongsTo(TaskManager[p].SavedRegisters, p)
  BY <1>1, <1>2 DEF ContextInv, BelongsTo, Resting
<1>3. ASSUME frame.at \notin {"switch", "exec"}
      PROVE  BelongsTo(frame, cur_pid)
  <2>1. frame.at \in {"user", "idle", "entry", "block", "return"}
    BY <1>3 DEF ContextInv, SchedInv, TypeOK, Context, AllWindows
  <2>2. CASE frame.at \in {"user", "idle"}
    BY <1>1, <2>2 DEF ContextInv, BelongsTo
  <2>3. CASE frame.at \in {"entry", "block"}
    BY <1>1, <2>3 DEF ContextInv, BelongsTo, SchedInv, HandlerInv, act
  <2>4. CASE frame.at = "return"
    BY <1>1, <2>4 DEF ContextInv, BelongsTo, act
  <2> QED
    BY <2>1, <2>2, <2>3, <2>4
<1> QED
  BY <1>2, <1>3 DEF ContextIntegrity

\* With interrupts only in the idle loop and after a task has blocked.
LEMMA ContextInterrupt ==
  ASSUME SchedInv, SchedInv', ContextInv, Windows \subseteq {"block"}, Interrupt
  PROVE  ContextInv'
<1>0. /\ cur_pid \in PID /\ cur_pid' \in PID /\ frame \in Context
      /\ frame.at \in {"idle", "block"}
      /\ TaskManager'[cur_pid'].Exists
  BY DEF SchedInv, TypeOK, CurrentInv, Interrupt, TimerInterrupt, KeyPressed,
         EnterPressed, Interruptible
<1>1. CASE TimerInterrupt
  <2>1. frame.at = "idle"
    BY <1>0, <1>1 DEF TimerInterrupt, TimerMasked
  <2>2. ASSUME NEW p \in PID, TaskManager'[p].Exists
        PROVE  Own(TaskManager'[p].SavedRegisters, p, TaskManager'[p].Base_PML4)
    <3>1. CASE p = cur_pid
      <4>1. /\ TaskManager'[p].SavedRegisters = frame
            /\ TaskManager'[p].Base_PML4 = TaskManager[p].Base_PML4
        BY <1>1, <3>1, TimerSlots DEF Same
      <4> QED
        BY <2>1, <3>1, <4>1 DEF ContextInv
    <3>2. CASE p # cur_pid
      <4>1. TaskManager'[p] = TaskManager[p]
        BY <1>1, <3>2, TimerSlots DEF SameOutside
      <4> QED
        BY <2>2, <3>2, <4>1 DEF ContextInv, Resting
    <3> QED
      BY <3>1, <3>2
  <2>3. UNCHANGED <<kstack, sigstack, halted>>
    BY <1>1, TimerSlots
  <2>4. Own(frame', cur_pid', TaskManager'[cur_pid'].Base_PML4)
    <3>1. CASE UNCHANGED <<cur_pid, frame>>
      <4>1. TaskManager'[cur_pid].Base_PML4 = TaskManager[cur_pid].Base_PML4
        BY <1>1, TimerSlots DEF Same
      <4> QED
        BY <2>1, <3>1, <4>1 DEF ContextInv
    <3>2. CASE frame' = TaskManager'[cur_pid'].SavedRegisters
      BY <1>0, <2>2, <3>2
    <3> QED
      BY <1>1, <3>1, <3>2, TimerSlots
  <2>5. frame'.at \in {"user", "idle"}
    BY <2>4 DEF Own
  <2> QED
    BY <2>2, <2>3, <2>4, <2>5 DEF ContextInv
<1>2. ASSUME NEW tm \in Table,
             SameOutside(TaskManager, tm, {cur_pid}),
             Same(TaskManager[cur_pid], tm[cur_pid]),
             tm[cur_pid].SavedRegisters = frame,
             \A p \in PID : OwnsStill(tm[p], TaskManager'[p], p),
             UNCHANGED <<cur_pid, frame, kstack, sigstack, halted>>
      PROVE  ContextInv'
  <2>1. ASSUME NEW p \in PID, p # cur_pid, TaskManager'[p].Exists
        PROVE  Own(TaskManager'[p].SavedRegisters, p, TaskManager'[p].Base_PML4)
    <3>1. tm[p] = TaskManager[p] /\ OwnsStill(tm[p], TaskManager'[p], p)
      BY <1>2, <2>1 DEF SameOutside
    <3> QED
      BY <2>1, <3>1 DEF ContextInv, Resting, OwnsStill
  <2>2. TaskManager'[cur_pid].Base_PML4 = TaskManager[cur_pid].Base_PML4
    <3>1. OwnsStill(tm[cur_pid], TaskManager'[cur_pid], cur_pid)
      BY <1>0, <1>2
    <3> QED
      BY <1>2, <3>1 DEF Same, OwnsStill
  <2> QED
    BY <1>0, <1>2, <2>1, <2>2 DEF ContextInv, act, Resting
<1>3. CASE KeyPressed
  <2>1. /\ TaskManager' \in Table
        /\ SameOutside(TaskManager, TaskManager', {cur_pid})
        /\ Same(TaskManager[cur_pid], TaskManager'[cur_pid])
        /\ TaskManager'[cur_pid].SavedRegisters = frame
    BY <1>3, KeySlots DEF KeyPressed
  <2>2. UNCHANGED <<cur_pid, frame, kstack, sigstack, halted>>
    BY <1>3 DEF KeyPressed
  <2>3. \A p \in PID : OwnsStill(TaskManager'[p], TaskManager'[p], p)
    BY DEF OwnsStill
  <2> QED
    BY <1>2, <2>1, <2>2, <2>3
<1>4. CASE EnterPressed
  <2>1. PICK w \in PID, tm \in Table :
          /\ SameOutside(TaskManager, tm, {cur_pid})
          /\ Same(TaskManager[cur_pid], tm[cur_pid])
          /\ tm[cur_pid].SavedRegisters = frame
          /\ SameOutside(tm, TaskManager', {w})
          /\ tm[w].SavedRegisters \in Context
          /\ Awake(tm[w], TaskManager'[w], [tm[w].SavedRegisters EXCEPT !.on = "none"])
    BY <1>4, EnterSlots
  <2>2. ASSUME NEW p \in PID
        PROVE  OwnsStill(tm[p], TaskManager'[p], p)
    <3>1. CASE p = w
      <4>1. Own([tm[p].SavedRegisters EXCEPT !.on = "none"], p, tm[p].Base_PML4)
              <=> Own(tm[p].SavedRegisters, p, tm[p].Base_PML4)
        BY <2>1, <3>1, OwnUnmarked
      <4> QED
        BY <2>1, <3>1, <4>1 DEF Awake, OwnsStill
    <3>2. CASE p # w
      BY <2>1, <3>2 DEF SameOutside, OwnsStill
    <3> QED
      BY <3>1, <3>2
  <2>3. UNCHANGED <<cur_pid, frame, kstack, sigstack, halted>>
    BY <1>4 DEF EnterPressed
  <2> QED
    BY <1>2, <2>1, <2>2, <2>3
<1> QED
  BY <1>1, <1>3, <1>4 DEF Interrupt

\* A call that returns: its caller's registers are in three places.
LEMMA ContextReturned ==
  ASSUME ContextInv, NEW regs, Returned(regs),
         Own(regs, cur_pid, TaskManager'[cur_pid].Base_PML4),
         \A p \in PID \ {cur_pid} : TaskManager'[p].Exists
           => Own(TaskManager'[p].SavedRegisters, p, TaskManager'[p].Base_PML4),
         OwnStacks(sigstack'), halted' = halted
  PROVE  ContextInv'
BY DEF ContextInv, Returned, Resting, SameRecords, act

\* A handler at its switch: every task's registers are in its slot.
LEMMA ContextSwitched ==
  ASSUME ContextInv, frame'.at = "switch",
         \A p \in PID : TaskManager'[p].Exists
           => Own(TaskManager'[p].SavedRegisters, p, TaskManager'[p].Base_PML4),
         OwnStacks(sigstack'), halted' = halted,
         \A s \in PML4 : kstack'[s].op # "wait"
  PROVE  ContextInv'
BY DEF ContextInv

\* The slots of the other tasks, when they were not touched.
LEMMA OthersOwn ==
  ASSUME ContextInv, NEW C, cur_pid \in C, SameOutside(TaskManager, TaskManager', C)
  PROVE  \A p \in PID \ C : TaskManager'[p].Exists
           => Own(TaskManager'[p].SavedRegisters, p, TaskManager'[p].Base_PML4)
BY DEF ContextInv, Resting, SameOutside

\* The registers of the task a call runs for.
LEMMA CallerOwns ==
  ASSUME SchedInv, ContextInv, frame.at = "entry"
  PROVE  /\ cur_pid \in PID \ {0}
         /\ Own(act.regs, cur_pid, TaskManager[cur_pid].Base_PML4)
         /\ Own(TaskManager[cur_pid].SavedRegisters, cur_pid,
                TaskManager[cur_pid].Base_PML4)
         /\ act.regs.at = "user" /\ act.regs.img = TaskManager[cur_pid].Base_PML4
         /\ TaskManager[cur_pid].SavedRegisters.at = "user"
BY DEF SchedInv, TypeOK, HandlerInv, ContextInv, Own

\* A frame pushed for a signal handler is the signalled task's own.
LEMMA PushedOwn ==
  ASSUME SchedInv, ContextInv, NEW o \in PID,
         TaskManager[o].Exists
           => Own(TaskManager[o].SavedRegisters, o, TaskManager[o].Base_PML4)
  PROVE  OwnStacks(PushedFrame(TaskManager, o))
<1> DEFINE b == TaskManager[o].Base_PML4
           regs == TaskManager[o].SavedRegisters
           new == [sigstack EXCEPT ![b] = Append(sigstack[b], regs)]
<1>1. OwnStacks(sigstack)
  BY DEF ContextInv
<1>2. CASE TaskManager[o].Exists /\ TaskManager[o].SIGCHD = "ok" /\ regs.at = "user"
  <2>1. PushedFrame(TaskManager, o) = new
    BY <1>2 DEF PushedFrame
  <2>2. regs.img = b
    BY <1>2 DEF Own
  <2>3. b \in PML4 /\ regs \in Context /\ sigstack \in [PML4 -> Seq(Context)]
    BY DEF SchedInv, TypeOK, Task
  <2> HIDE DEF b, regs
  <2>4. ASSUME NEW s \in PML4, NEW i \in 1 .. Len(new[s])
        PROVE  new[s][i].img = s
    <3>1. CASE s # b
      BY <1>1, <2>3, <2>4, <3>1 DEF OwnStacks
    <3>2. CASE s = b
      <4>1. new[s] = Append(sigstack[b], regs) /\ sigstack[b] \in Seq(Context)
        BY <2>3, <3>2
      <4>2. i \in 1 .. Len(sigstack[b]) \/ i = Len(sigstack[b]) + 1
        BY <2>4, <4>1
      <4>3. CASE i \in 1 .. Len(sigstack[b])
        <5>1. new[s][i] = sigstack[b][i]
          BY <2>3, <4>1, <4>3
        <5> QED
          BY <1>1, <2>3, <3>2, <4>3, <5>1 DEF OwnStacks
      <4>4. CASE i = Len(sigstack[b]) + 1
        <5>1. new[s][i] = regs
          BY <2>3, <4>1, <4>4
        <5> QED
          BY <2>2, <3>2, <5>1
      <4> QED
        BY <4>2, <4>3, <4>4
    <3> QED
      BY <3>1, <3>2
  <2> QED
    BY <2>1, <2>4 DEF OwnStacks
<1>3. CASE ~(TaskManager[o].Exists /\ TaskManager[o].SIGCHD = "ok" /\ regs.at = "user")
  <2>1. PushedFrame(TaskManager, o) = sigstack
    BY <1>3 DEF PushedFrame
  <2> QED
    BY <1>1, <2>1
<1> QED
  BY <1>2, <1>3

\* exit, with the signal to the owner.
LEMMA ContextExit ==
  ASSUME SchedInv, SchedInv', ContextInv, Exit
  PROVE  ContextInv'
<1> DEFINE o == TaskManager[cur_pid].Owner_PID
<1>1. frame.at = "entry"
  BY DEF Exit, Running
<1>2. /\ cur_pid \in PID \ {0} /\ act.cur = cur_pid
      /\ Own(TaskManager[cur_pid].SavedRegisters, cur_pid,
             TaskManager[cur_pid].Base_PML4)
  BY <1>1, CallerOwns DEF SchedInv, HandlerInv
<1>3. PICK tm \in Table :
        /\ o \in PID /\ SameOutside(TaskManager, tm, {o})
        /\ \/ tm = TaskManager
           \/ /\ o # 0
              /\ Awake(TaskManager[o], tm[o], HandlerFrame(TaskManager[o].SavedRegisters))
        /\ SameOutside(tm, TaskManager', {cur_pid})
        /\ Same(ZeroTask, TaskManager'[cur_pid])
        /\ frame'.at = "switch" /\ UNCHANGED <<kstack, halted>>
  BY ExitSlots
<1>4. \A p \in PID : TaskManager[p].Exists
        => Own(TaskManager[p].SavedRegisters, p, TaskManager[p].Base_PML4)
  BY <1>2 DEF ContextInv, Resting
<1>5. ASSUME NEW p \in PID, TaskManager'[p].Exists
      PROVE  Own(TaskManager'[p].SavedRegisters, p, TaskManager'[p].Base_PML4)
  <2>1. p # cur_pid
    BY <1>3, <1>5 DEF Same, ZeroTask
  <2>2. TaskManager'[p] = tm[p]
    BY <1>3, <2>1 DEF SameOutside
  <2>3. CASE tm[p] = TaskManager[p]
    BY <1>4, <1>5, <2>2, <2>3
  <2>4. CASE tm[p] # TaskManager[p]
    <3> DEFINE c == TaskManager[p].SavedRegisters
               b == TaskManager[p].Base_PML4
    <3>1. p = o /\ p # 0 /\ Awake(TaskManager[p], tm[p], HandlerFrame(c))
      BY <1>3, <2>4 DEF SameOutside
    <3>2. tm[p].Exists = TaskManager[p].Exists /\ tm[p].Base_PML4 = b
          /\ tm[p].SavedRegisters = HandlerFrame(c)
      BY <3>1 DEF Awake
    <3>3. Own(c, p, b)
      BY <1>4, <1>5, <2>2, <3>2
    <3>4. c \in Context /\ c.at = "user"
      BY <3>1, <3>3 DEF SchedInv, TypeOK, Task, Own
    <3>5. Own(HandlerFrame(c), p, b)
      BY <3>3, <3>4, OwnUnmarked
    <3> QED
      BY <2>2, <3>2, <3>5
  <2> QED
    BY <2>3, <2>4
<1>6. OwnStacks(sigstack')
  <2>1. sigstack' = IF o # 0 THEN PushedFrame(TaskManager, o) ELSE sigstack
    BY <1>2 DEF Exit
  <2>2. OwnStacks(PushedFrame(TaskManager, o))
    BY <1>3, <1>4, PushedOwn
  <2> QED
    BY <2>1, <2>2 DEF ContextInv
<1> QED
  BY <1>3, <1>5, <1>6, ContextSwitched DEF ContextInv

\* The calls that return to their caller with its registers as they were.
LEMMA ContextKept ==
  ASSUME SchedInv, ContextInv, OtherSyscall \/ Sigreg
  PROVE  ContextInv'
<1>1. frame.at = "entry" /\ ~halted
  BY DEF OtherSyscall, Sigreg, Running
<1>2. /\ SameOutside(TaskManager, TaskManager', {cur_pid})
      /\ TaskManager'[cur_pid].Base_PML4 = TaskManager[cur_pid].Base_PML4
      /\ Returned(act.regs) /\ UNCHANGED <<sigstack, halted>>
  <2>1. CASE OtherSyscall
    <3>1. Return(TaskManager, act.regs) /\ act.regs \in Context /\ TaskManager \in Table
      BY <1>1, <2>1, InCall DEF OtherSyscall
    <3> QED
      BY <1>1, <2>1, <3>1, ReturnSlots DEF Same, OtherSyscall
  <2>2. CASE Sigreg
    BY <2>2, SigregSlots
  <2> QED
    BY <2>1, <2>2
<1>3. Own(act.regs, cur_pid, TaskManager'[cur_pid].Base_PML4)
  BY <1>1, <1>2, CallerOwns
<1>4. \A p \in PID \ {cur_pid} : TaskManager'[p].Exists
        => Own(TaskManager'[p].SavedRegisters, p, TaskManager'[p].Base_PML4)
  BY <1>2, OthersOwn
<1>5. OwnStacks(sigstack')
  BY <1>2 DEF ContextInv
<1> QED
  BY <1>2, <1>3, <1>4, <1>5, ContextReturned

\* read marks the registers it will return with.
LEMMA ContextRead ==
  ASSUME SchedInv, ContextInv, Read
  PROVE  ContextInv'
<1>1. frame.at = "entry" /\ ~halted
  BY DEF Read, Running
<1>2. act.regs \in Context
  BY <1>1, InCall
<1>3. Own([act.regs EXCEPT !.on = "input"], cur_pid, TaskManager'[cur_pid].Base_PML4)
  BY <1>1, <1>2, CallerOwns, OwnUnmarked, ReadSlots
<1>4. \A p \in PID \ {cur_pid} : TaskManager'[p].Exists
        => Own(TaskManager'[p].SavedRegisters, p, TaskManager'[p].Base_PML4)
  BY ReadSlots, OthersOwn
<1>5. /\ act'.regs = [act.regs EXCEPT !.on = "input"]
      /\ frame'.at = "block" /\ UNCHANGED <<cur_pid, sigstack, halted>> /\ SameRecords
  BY ReadSlots DEF act
<1> QED
  BY <1>3, <1>4, <1>5 DEF ContextInv, Resting, SameRecords

\* The handlers that leave the CPU: every slot has its task's registers.
LEMMA ContextGiveUp ==
  ASSUME SchedInv, ContextInv, GiveUpCPU \/ ExecReturn
  PROVE  ContextInv'
<1>1. /\ SameOutside(TaskManager, TaskManager', {cur_pid})
      /\ frame'.at = "switch" /\ UNCHANGED <<kstack, sigstack, halted>>
  BY GiveUpSlots, ExecReturnSlots
<1>2. TaskManager'[cur_pid].Exists => Own(TaskManager'[cur_pid].SavedRegisters, cur_pid,
                                         TaskManager'[cur_pid].Base_PML4)
  <2>1. CASE GiveUpCPU
    <3>1. frame.at = "block"
      BY <2>1 DEF GiveUpCPU
    <3>2. Own(act.regs, cur_pid, TaskManager[cur_pid].Base_PML4)
      BY <3>1 DEF ContextInv
    <3> QED
      BY <2>1, <3>2, GiveUpSlots DEF Same
  <2>2. CASE ExecReturn
    <3>1. frame.at = "exec" /\ cur_pid \in PID
      BY <2>2 DEF ExecReturn, SchedInv, TypeOK
    <3> QED
      BY <2>2, <3>1, ExecReturnSlots DEF ContextInv, Resting
  <2> QED
    BY <2>1, <2>2
<1>3. \A p \in PID \ {cur_pid} : TaskManager'[p].Exists
        => Own(TaskManager'[p].SavedRegisters, p, TaskManager'[p].Base_PML4)
  BY <1>1, OthersOwn
<1>4. OwnStacks(sigstack') /\ \A s \in PML4 : kstack'[s].op # "wait"
  BY <1>1 DEF ContextInv
<1> QED
  BY <1>1, <1>2, <1>3, <1>4, ContextSwitched

\* execve, whether the file is accepted or not: the caller's slot has the
\* registers of the program it will run.
LEMMA ContextExecve ==
  ASSUME SchedInv, ContextInv, Execve \/ BadExecve
  PROVE  ContextInv'
<1>1. frame.at = "entry" /\ ~halted
  BY DEF Execve, BadExecve, Running
<1>2. /\ SameOutside(TaskManager, TaskManager', {cur_pid})
      /\ frame'.at = "exec" /\ UNCHANGED <<cur_pid, kstack, sigstack, halted>>
  BY ExecveSlots, BadExecveSlots
<1>3. Own(TaskManager'[cur_pid].SavedRegisters, cur_pid, TaskManager'[cur_pid].Base_PML4)
  <2>1. CASE Execve
    <3>1. TaskManager'[cur_pid] = LoadedTask(next_pml4)
      BY <2>1, ExecveSlots
    <3> QED
      BY <3>1 DEF LoadedTask, ZeroTask, UserContext, Own
  <2>2. CASE BadExecve
    <3>1. TaskManager'[cur_pid] = [TaskManager[cur_pid] EXCEPT !.ProcessState = "CREATION"]
      BY <2>2, BadExecveSlots
    <3>2. TaskManager[cur_pid] \in Task
      BY ActType DEF SchedInv
    <3>3. /\ TaskManager'[cur_pid].SavedRegisters = TaskManager[cur_pid].SavedRegisters
          /\ TaskManager'[cur_pid].Base_PML4 = TaskManager[cur_pid].Base_PML4
      BY <3>1, <3>2 DEF Task
    <3> QED
      BY <1>1, <3>3, CallerOwns
  <2> QED
    BY <2>1, <2>2
<1>4. \A p \in PID \ {cur_pid} : TaskManager'[p].Exists
        => Own(TaskManager'[p].SavedRegisters, p, TaskManager'[p].Base_PML4)
  BY <1>2, OthersOwn
<1> QED
  BY <1>2, <1>3, <1>4 DEF ContextInv, Resting

\* The second half of task_switch, and the iretq of a handler.
LEMMA ContextResume ==
  ASSUME SchedInv, ContextInv, SwitchIn \/ InterruptReturn
  PROVE  ContextInv'
<1>0. cur_pid \in PID /\ frame.img \in PML4 /\ TaskManager[cur_pid].Exists
  BY ActType DEF SchedInv, TypeOK, CurrentInv
<1>1. CASE SwitchIn
  <2>1. frame.at = "switch" /\ act.op # "wait"
    BY <1>0, <1>1 DEF SwitchIn, ContextInv, act
  <2>2. /\ TaskManager' = TaskManager /\ SameRecords
        /\ act'.regs = TaskManager[cur_pid].SavedRegisters
        /\ frame'.at = "return" /\ UNCHANGED <<cur_pid, sigstack, halted>>
    BY <1>1, <2>1, SwitchInSlots DEF act
  <2>3. Own(TaskManager[cur_pid].SavedRegisters, cur_pid, TaskManager[cur_pid].Base_PML4)
    BY <1>0, <2>1 DEF ContextInv, Resting
  <2> QED
    BY <2>1, <2>2, <2>3 DEF ContextInv, Resting, SameRecords
<1>2. CASE InterruptReturn
  <2>1. /\ frame.at = "return" /\ frame' = act.regs
        /\ UNCHANGED <<TaskManager, cur_pid, kstack, sigstack, halted>>
    BY <1>2 DEF InterruptReturn
  <2>2. Own(act.regs, cur_pid, TaskManager[cur_pid].Base_PML4)
    BY <2>1 DEF ContextInv
  <2>3. frame'.at \in {"user", "idle"}
    BY <2>1, <2>2 DEF Own
  <2> QED
    BY <2>1, <2>2, <2>3 DEF ContextInv, Resting
<1> QED
  BY <1>1, <1>2

\* A stack of frames without the top one.
LEMMA Popped ==
  ASSUME NEW st \in Seq(Context), st # <<>>
  PROVE  LET rest == SubSeq(st, 1, Len(st) - 1)
         IN  \A i \in 1 .. Len(rest) : i \in 1 .. Len(st) /\ rest[i] = st[i]
<1> DEFINE rest == SubSeq(st, 1, Len(st) - 1)
<1>1. Len(st) \in Nat /\ Len(st) >= 1
  OBVIOUS
<1>2. Len(rest) = Len(st) - 1
  <2>1. \A n \in 0 .. Len(st) : Len(SubSeq(st, 1, n)) = n
    BY <1>1
  <2>2. \A m \in Nat : m >= 1 => m - 1 \in 0 .. m
    OBVIOUS
  <2>3. Len(st) - 1 \in 0 .. Len(st)
    BY <1>1, <2>2
  <2> QED
    BY <2>1, <2>3
<1>3. \A i \in 1 .. Len(st) - 1 : rest[i] = st[i]
  BY <1>1
<1> QED
  BY <1>1, <1>2, <1>3

\* sigret returns with a frame that was pushed for the program itself.
LEMMA ContextSigret ==
  ASSUME SchedInv, ContextInv, Sigret
  PROVE  ContextInv'
<1> DEFINE b == TaskManager[cur_pid].Base_PML4
           saved == TaskManager[cur_pid].SavedRegisters
           pushed == sigstack[b]
           rest == SubSeq(pushed, 1, Len(pushed) - 1)
<1>1. frame.at = "entry" /\ ~halted
  BY DEF Sigret, Running
<1>2. /\ b \in PML4 /\ saved \in Context /\ pushed \in Seq(Context)
      /\ sigstack \in [PML4 -> Seq(Context)]
      /\ saved.at = "user" /\ Own(saved, cur_pid, b)
  BY <1>1, ActType, CallerOwns DEF SchedInv, TypeOK, Task
<1>3. /\ SameOutside(TaskManager, TaskManager', {cur_pid})
      /\ TaskManager'[cur_pid].Base_PML4 = b /\ halted' = halted
  BY SigretSlots DEF Same
<1>4. \A p \in PID \ {cur_pid} : TaskManager'[p].Exists
        => Own(TaskManager'[p].SavedRegisters, p, TaskManager'[p].Base_PML4)
  BY <1>3, OthersOwn
<1>5. OwnStacks(sigstack)
  BY DEF ContextInv
<1>6. \/ /\ pushed # <<>>
         /\ \E kept \in BOOLEAN :
              Returned(PoppedFrame(pushed[Len(pushed)], saved, kept))
         /\ sigstack' = [sigstack EXCEPT ![b] = rest]
      \/ /\ Returned([saved EXCEPT !.on = "none"])
         /\ UNCHANGED sigstack
  BY <1>2, SigretSlots
<1> HIDE DEF b, saved
<1>7. ASSUME NEW kept \in BOOLEAN, pushed # <<>>,
             Returned(PoppedFrame(pushed[Len(pushed)], saved, kept)),
             sigstack' = [sigstack EXCEPT ![b] = rest]
      PROVE  ContextInv'
  <2>1. Len(pushed) \in 1 .. Len(pushed) /\ Len(pushed) \in Nat
    BY <1>2, <1>7
  <2>2. pushed[Len(pushed)].img = b /\ pushed[Len(pushed)].at = "user"
    BY <1>2, <1>5, <2>1 DEF OwnStacks, SchedInv, StacksInv
  <2>3. Own(PoppedFrame(pushed[Len(pushed)], saved, kept), cur_pid,
            TaskManager'[cur_pid].Base_PML4)
    <3> DEFINE top == pushed[Len(pushed)]
    <3>1. top \in Context /\ top.at = "user" /\ top.img = b
      BY <1>2, <2>1, <2>2
    <3>2. PoppedFrame(top, saved, kept).at = "user"
          /\ PoppedFrame(top, saved, kept).img = b
      <4> HIDE DEF top
      <4> QED
        BY <1>2, <3>1, PoppedType
    <3> QED
      BY <1>3, <3>2 DEF Own
  <2>4. \A i \in 1 .. Len(rest) : i \in 1 .. Len(pushed) /\ rest[i] = pushed[i]
    BY <1>2, <1>7, Popped
  <2>5. ASSUME NEW s \in PML4, NEW i \in 1 .. Len(sigstack'[s])
        PROVE  sigstack'[s][i].img = s
    <3>1. CASE s = b
      <4>1. sigstack'[s] = rest
        BY <1>2, <1>7, <3>1
      <4>2. i \in 1 .. Len(pushed) /\ rest[i] = pushed[i]
        BY <2>4, <2>5, <4>1
      <4> HIDE DEF rest
      <4> QED
        BY <1>2, <1>5, <3>1, <4>1, <4>2 DEF OwnStacks
    <3>2. CASE s # b
      <4>1. sigstack'[s] = sigstack[s]
        BY <1>2, <1>7, <3>2
      <4> QED
        BY <1>5, <2>5, <4>1 DEF OwnStacks
    <3> QED
      BY <3>1, <3>2
  <2>6. OwnStacks(sigstack')
    BY <2>5 DEF OwnStacks
  <2> QED
    BY <1>3, <1>4, <1>7, <2>3, <2>6, ContextReturned
<1>8. ASSUME Returned([saved EXCEPT !.on = "none"]), UNCHANGED sigstack
      PROVE  ContextInv'
  <2>1. Own([saved EXCEPT !.on = "none"], cur_pid, TaskManager'[cur_pid].Base_PML4)
    BY <1>2, <1>3, OwnUnmarked
  <2> QED
    BY <1>3, <1>4, <1>5, <1>8, <2>1, ContextReturned
<1> QED
  BY <1>6, <1>7, <1>8

\* fork with a free slot: the child has the caller's registers as its own, and
\* so have the frames on its copy of the stack.
LEMMA ContextFork ==
  ASSUME SchedInv, ContextInv, RoomToFork, Fork
  PROVE  ContextInv'
<1> DEFINE child == RegisterTask(TaskManager)
           b == TaskManager[cur_pid].Base_PML4
           copy == [i \in DOMAIN sigstack[b] |->
                      CopiedFrame(sigstack[b][i], b, next_pml4)]
<1>1. frame.at = "entry" /\ ~halted /\ Running("fork") /\ next_pml4 <= MaxPML4
  BY DEF Fork, Running
<1>2. /\ b \in PML4 /\ next_pml4 \in PML4 /\ act.regs \in Context
      /\ sigstack \in [PML4 -> Seq(Context)] /\ TaskManager[cur_pid].Exists
      /\ act.regs.at = "user" /\ act.regs.img = b
      /\ act.cur = cur_pid /\ cur_pid \in PID
      /\ Own(act.regs, cur_pid, b)
  BY <1>1, ActType, CallerOwns, ForkSlots
     DEF SchedInv, TypeOK, Task, CurrentInv, HandlerInv
<1>3. ~TaskManager[child].Exists /\ child \in PID /\ child # cur_pid
  BY <1>1, <1>2, ForkSlots DEF RoomToFork
<1>4. /\ SameOutside(TaskManager, TaskManager', {child, cur_pid})
      /\ TaskManager'[child].Base_PML4 = next_pml4
      /\ TaskManager'[child].SavedRegisters = CopiedFrame(act.regs, b, next_pml4)
      /\ TaskManager'[cur_pid].Base_PML4 = b
      /\ Returned(act.regs) /\ UNCHANGED halted
  BY <1>3, ForkSlots DEF Same
<1>5. Own(TaskManager'[child].SavedRegisters, child, TaskManager'[child].Base_PML4)
  BY <1>2, <1>4 DEF CopiedFrame, Own, Context
<1>6. sigstack' = [sigstack EXCEPT ![next_pml4] = copy]
  BY <1>2, <1>3 DEF Fork
<1> HIDE DEF child, b
<1>7. ASSUME NEW p \in PID \ {cur_pid}, TaskManager'[p].Exists
      PROVE  Own(TaskManager'[p].SavedRegisters, p, TaskManager'[p].Base_PML4)
  <2>1. CASE p = child
    BY <1>5, <2>1
  <2>2. CASE p # child
    BY <1>4, <1>7, <2>2, OthersOwn
  <2> QED
    BY <2>1, <2>2
<1>8. OwnStacks(sigstack')
  <2>1. OwnStacks(sigstack)
    BY DEF ContextInv
  <2>2. ASSUME NEW i \in 1 .. Len(sigstack[b])
        PROVE  copy[i].img = next_pml4
    <3>1. sigstack[b] \in Seq(Context) /\ sigstack[b][i] \in Context
      BY <1>2, <2>2
    <3>2. sigstack[b][i].at = "user" /\ sigstack[b][i].img = b
      BY <1>2, <2>1, <2>2 DEF OwnStacks, SchedInv, StacksInv
    <3>3. copy[i] = CopiedFrame(sigstack[b][i], b, next_pml4)
      BY <2>2, <3>1
    <3> QED
      BY <3>1, <3>2, <3>3 DEF CopiedFrame, Context
  <2>3. copy \in [1 .. Len(sigstack[b]) -> Context] /\ Len(copy) = Len(sigstack[b])
    <3>1. sigstack[b] \in Seq(Context) /\ DOMAIN sigstack[b] = 1 .. Len(sigstack[b])
      BY <1>2
    <3>2. \A c \in Context : CopiedFrame(c, b, next_pml4) \in Context
      BY <1>2 DEF CopiedFrame, Context
    <3>3. copy \in Seq(Context)
      BY <3>1, <3>2
    <3> QED
      BY <3>1, <3>2, <3>3
  <2>4. ASSUME NEW s \in PML4, NEW i \in 1 .. Len(sigstack'[s])
        PROVE  sigstack'[s][i].img = s
    <3>1. CASE s = next_pml4
      <4>1. sigstack'[s] = copy
        BY <1>2, <1>6, <3>1
      <4> HIDE DEF copy
      <4> QED
        BY <2>2, <2>3, <2>4, <3>1, <4>1
    <3>2. CASE s # next_pml4
      <4>1. sigstack'[s] = sigstack[s]
        BY <1>2, <1>6, <3>2
      <4> QED
        BY <2>1, <2>4, <4>1 DEF OwnStacks
    <3> QED
      BY <3>1, <3>2
  <2> QED
    BY <2>4 DEF OwnStacks
<1> QED
  BY <1>2, <1>4, <1>7, <1>8, ContextReturned

\* The entry of a call other than wait.
LEMMA ContextEntry ==
  ASSUME SchedInv, ContextInv, NEW op, op # "wait", SyscallEntry(op)
  PROVE  ContextInv'
<1>1. /\ frame.at = "user" /\ cur_pid \in PID /\ frame'.at = "entry"
      /\ TaskManager'[cur_pid].Base_PML4 = TaskManager[cur_pid].Base_PML4
      /\ TaskManager'[cur_pid].SavedRegisters = frame
      /\ SameOutside(TaskManager, TaskManager', {cur_pid})
      /\ act'.regs = frame /\ UNCHANGED <<cur_pid, sigstack, halted>>
  BY EntrySlots DEF SchedInv, TypeOK, Same, act
<1>2. ASSUME NEW s \in PML4
      PROVE  kstack'[s].op # "wait"
  <2>1. CASE s = tss
    <3>1. kstack'[s].op = op
      BY <2>1, EntrySlots
    <3> QED
      BY <3>1
  <2>2. CASE s # tss
    <3>1. kstack'[s] = kstack[s]
      BY <2>2, EntrySlots
    <3> QED
      BY <3>1 DEF ContextInv
  <2> QED
    BY <2>1, <2>2
<1>3. Own(frame, cur_pid, TaskManager[cur_pid].Base_PML4)
  BY <1>1 DEF ContextInv
<1>4. \A p \in PID \ {cur_pid} : TaskManager'[p].Exists
        => Own(TaskManager'[p].SavedRegisters, p, TaskManager'[p].Base_PML4)
  BY <1>1, OthersOwn
<1> QED
  BY <1>1, <1>2, <1>3, <1>4 DEF ContextInv, Resting

\* A fatal page fault.
LEMMA ContextFault ==
  ASSUME SchedInv, ContextInv, PageFaultKill
  PROVE  ContextInv'
<1> DEFINE o == TaskManager[cur_pid].Owner_PID
<1>1. ASSUME NEW p \in PID, TaskManager'[p].Exists
      PROVE  Own(TaskManager'[p].SavedRegisters, p, TaskManager'[p].Base_PML4)
  <2>1. p # cur_pid
    BY <1>1, PageFaultSlots DEF Same, ZeroTask
  <2>2. \/ TaskManager'[p] = TaskManager[p]
        \/ Awake(TaskManager[p], TaskManager'[p], TaskManager[p].SavedRegisters)
    <3>1. CASE p = o
      BY <2>1, <3>1, PageFaultSlots
    <3>2. CASE p # o
      BY <2>1, <3>2, PageFaultSlots DEF SameOutside
    <3> QED
      BY <3>1, <3>2
  <2>3. /\ TaskManager'[p].Exists = TaskManager[p].Exists
        /\ TaskManager'[p].Base_PML4 = TaskManager[p].Base_PML4
        /\ TaskManager'[p].SavedRegisters = TaskManager[p].SavedRegisters
    BY <2>2 DEF Awake
  <2> QED
    BY <1>1, <2>1, <2>3 DEF ContextInv, Resting
<1>2. ASSUME NEW s \in PML4
      PROVE  kstack'[s].op # "wait"
  <2>1. /\ kstack' = [kstack EXCEPT ![tss] = [regs |-> frame, cur |-> cur_pid,
                                             op |-> "pf", owner |-> 0]]
        /\ kstack \in [PML4 -> Activation]
    BY PageFaultSlots DEF SchedInv, TypeOK
  <2>2. kstack'[s].op = "pf" \/ kstack'[s] = kstack[s]
    BY <2>1
  <2> QED
    BY <2>2 DEF ContextInv
<1>3. frame'.at = "switch" /\ UNCHANGED <<sigstack, halted>>
  BY PageFaultSlots
<1>4. OwnStacks(sigstack')
  BY <1>3 DEF ContextInv
<1> QED
  BY <1>1, <1>2, <1>3, <1>4, ContextSwitched

\* The state SetUpShell leaves.
LEMMA ContextInit ==
  ASSUME Init
  PROVE  ContextInv
<1>1. cur_pid = 0 /\ ~halted /\ 0 \in PID
  BY BaseTypes DEF Init
<1>2. ASSUME NEW p \in PID, TaskManager[p].Exists, Resting(p)
      PROVE  Own(TaskManager[p].SavedRegisters, p, TaskManager[p].Base_PML4)
  <2>1. p # 0 /\ TaskManager[p] = IF p = 1 THEN LoadedTask(1) ELSE ZeroTask
    BY <1>1, <1>2 DEF Init, Resting
  <2>2. p = 1
    BY <1>2, <2>1 DEF ZeroTask
  <2> QED
    BY <2>1, <2>2 DEF LoadedTask, ZeroTask, UserContext, Own
<1>3. OwnStacks(sigstack)
  BY DEF Init, OwnStacks
<1>4. \A s \in PML4 : kstack[s].op # "wait"
  BY DEF Init
<1> QED
  BY <1>1, <1>2, <1>3, <1>4 DEF ContextInv, Init, Own

\* Registers stay with their task when fork finds a free slot, no interrupt
\* lands between a handler's save and its load, and no program calls wait.
LEMMA ContextInvariant ==
  ASSUME Windows \subseteq {"block"}, Faults \subseteq {"pf"}, "wait" \notin Ops
  PROVE  Spec /\ []RoomToFork => [](SchedInv /\ ContextInv)
<1>1. Init => ContextInv
  BY ContextInit
<1>2. SchedInv /\ SchedInv' /\ ContextInv /\ RoomToFork /\ [Next]_vars => ContextInv'
  <2> SUFFICES ASSUME SchedInv, SchedInv', ContextInv, RoomToFork, [Next]_vars
               PROVE  ContextInv'
    OBVIOUS
  <2>1. ASSUME NEW op \in Ops, SyscallEntry(op) PROVE ContextInv'
    BY <2>1, ContextEntry
  <2>2. CASE SyscallStep
    <3>1. ~Wait
      <4> SUFFICES ASSUME Wait PROVE FALSE
        OBVIOUS
      <4>1. kstack[frame.img].op = "wait" /\ frame.img \in PML4
        BY ActType DEF Wait, Running, act, SchedInv
      <4> QED
        BY <4>1 DEF ContextInv
    <3> QED
      BY <2>2, <3>1, ContextKept, ContextExit, ContextRead, ContextFork, ContextExecve,
         ContextSigret, ContextGiveUp, ContextResume DEF SyscallStep
  <2>3. CASE Fault
    BY <2>3, ContextFault DEF Fault
  <2>4. CASE UNCHANGED vars
    BY <2>4 DEF vars, ContextInv, Resting, act
  <2> QED
    BY <2>1, <2>2, <2>3, <2>4, ContextInterrupt DEF Next
<1>3. Spec => []SchedInv
  BY SchedInvariant
<1> QED
  BY <1>1, <1>2, <1>3, PTL DEF Spec

\* The table has a free slot as long as fewer address spaces than slots were
\* created: every task has page tables of its own.
LEMMA SlotFree ==
  ASSUME SchedInv, TASK_COUNT > MaxPML4
  PROVE  RoomToFork
<1> SUFFICES ASSUME next_pml4 <= MaxPML4, FreePIDs(TaskManager) = {}
             PROVE  FALSE
  BY DEF RoomToFork
<1> DEFINE Created == 0 .. next_pml4 - 1
           base == [p \in PID |-> TaskManager[p].Base_PML4]
<1>1. next_pml4 \in Nat /\ next_pml4 >= 2 /\ TASK_COUNT \in Nat /\ MaxPML4 \in Nat
  BY TasksAssumption DEF SchedInv, TypeOK
<1>2. \A p \in PID : TaskManager[p].Exists /\ TaskManager[p].Base_PML4 \in Nat
  BY DEF FreePIDs, SchedInv, TypeOK, Task, PML4
<1>3. QuietBut(TaskManager, Unsettled, next_pml4)
  BY DEF SchedInv, TableInv
<1>4. \A p \in PID : TaskManager[p].Base_PML4 \in Created
  BY <1>1, <1>2, <1>3 DEF QuietBut, Sound
<1>5. base \in [PID -> Created]
  BY <1>4
<1>6. IsFiniteSet(PID) /\ Cardinality(PID) = TASK_COUNT
  BY <1>1, TasksAssumption, FS_Interval DEF PID
<1>7. IsFiniteSet(Created) /\ Cardinality(Created) = next_pml4
  BY <1>1, FS_Interval
<1>8. Cardinality(Created) < Cardinality(PID)
  BY <1>1, <1>6, <1>7
<1>9. \A p \in PID : base[p] = TaskManager[p].Base_PML4
  OBVIOUS
<1> HIDE DEF Created, base
<1>10. PICK p, q \in PID : p # q /\ base[p] = base[q]
  BY <1>5, <1>6, <1>7, <1>8, FS_PigeonHole
<1> QED
  BY <1>2, <1>3, <1>9, <1>10 DEF QuietBut, Fits

\* A program continues only where it was itself interrupted, and never with
\* registers of another program: every handler saves and loads the frame of the
\* task it belongs to, through signals, fork, execve and fatal page faults, as
\* long as fork finds a free slot, in a system where no program calls wait and
\* interrupts land in the idle loop and in a read that has blocked.  Nothing is
\* said of r8 and rflags after a signal handler, which EstablishSignalStack and
\* SignalReturn leave out.
THEOREM ContextsIntact ==
  ASSUME Windows \subseteq {"block"}, Faults \subseteq {"pf"}, "wait" \notin Ops
  PROVE  Spec /\ []RoomToFork => []ContextIntegrity
<1>1. SchedInv /\ ContextInv => ContextIntegrity
  BY ContextInvImplies
<1> QED
  BY <1>1, ContextInvariant, PTL

\* The same while at most TASK_COUNT address spaces are created: then fork always
\* finds a free slot.
THEOREM ContextsIntactWithinTable ==
  ASSUME Windows \subseteq {"block"}, Faults \subseteq {"pf"}, "wait" \notin Ops,
         TASK_COUNT > MaxPML4
  PROVE  Spec => []ContextIntegrity
<1>1. SchedInv => RoomToFork
  BY SlotFree
<1>2. Spec => []SchedInv
  BY SchedInvariant
<1> QED
  BY <1>1, <1>2, ContextsIntact, PTL

----------------------------------------------------------------------------
(* Wake-ups                                                                *)

\* The task is blocked in wait() and would be woken by a signal.
Waits(t) == /\ t.Exists
            /\ t.ProcessState = "WAITING"
            /\ t.WaitingReason = "CHILD"
            /\ t.SIGCHD = "ok"

\* The parent of c.  While execve rebuilds the slot, only the handler has it.
OwnerOf(c) == IF c = cur_pid /\ frame.at = "exec" THEN act.owner
              ELSE TaskManager[c].Owner_PID

\* wait() looks for a child in all slots, so a slot without a task has no
\* owner; and execve's copy of the owner is the right one.
WakeInv ==
  /\ \A p \in PID : TaskManager[p].Owner_PID # 0 => TaskManager[p].Exists
  /\ frame.at = "entry" => act.owner = TaskManager[cur_pid].Owner_PID
  /\ \A p \in PID \ {0} : Waits(TaskManager[p])
       => \E c \in PID : TaskManager[c].Exists /\ OwnerOf(c) = p

\* The task exists as before, for the same parent, and does not begin to wait.
Kin(t, u) == /\ t.Exists => u.Exists
             /\ u.Exists => t.Exists
             /\ u.Owner_PID = t.Owner_PID
             /\ Waits(u) => Waits(t)

\* WakeInv implies the property.
LEMMA WakeInvImplies ==
  ASSUME WakeInv
  PROVE  NoLostWakeup
<1>1. ASSUME NEW p \in PID \ {0}, Waits(TaskManager[p]), frame.at # "exec"
      PROVE  \E c \in PID : TaskManager[c].Exists /\ TaskManager[c].Owner_PID = p
  BY <1>1 DEF WakeInv, OwnerOf
<1> QED
  BY <1>1 DEF NoLostWakeup, Waits

\* A step that leaves all tasks kin keeps the invariant.
LEMMA WakeKept ==
  ASSUME WakeInv, \A p \in PID : Kin(TaskManager[p], TaskManager'[p]),
         frame.at # "exec", frame'.at # "exec",
         frame'.at = "entry" => act'.owner = TaskManager'[cur_pid'].Owner_PID
  PROVE  WakeInv'
<1>1. \A p \in PID : TaskManager'[p].Owner_PID # 0 => TaskManager'[p].Exists
  BY DEF WakeInv, Kin
<1>2. ASSUME NEW p \in PID \ {0}, Waits(TaskManager'[p])
      PROVE  \E c \in PID : TaskManager'[c].Exists /\ OwnerOf(c)' = p
  <2>1. Waits(TaskManager[p])
    BY <1>2 DEF Kin
  <2>2. PICK c \in PID : TaskManager[c].Exists /\ OwnerOf(c) = p
    BY <2>1 DEF WakeInv
  <2>3. TaskManager'[c].Exists /\ OwnerOf(c)' = p
    BY <2>2 DEF Kin, OwnerOf
  <2> QED
    BY <2>3
<1> QED
  BY <1>1, <1>2 DEF WakeInv

\* Only the slot of the current task was touched.
LEMMA KinSlots ==
  ASSUME SameOutside(TaskManager, TaskManager', {cur_pid}),
         Kin(TaskManager[cur_pid], TaskManager'[cur_pid])
  PROVE  \A p \in PID : Kin(TaskManager[p], TaskManager'[p])
<1>1. ASSUME NEW p \in PID
      PROVE  Kin(TaskManager[p], TaskManager'[p])
  <2>1. CASE p # cur_pid
    BY <2>1 DEF SameOutside, Kin
  <2> QED
    BY <2>1
<1> QED
  BY <1>1

\* What changes nothing but registers leaves kin, and so does a waking.
LEMMA KinSame ==
  ASSUME NEW t, NEW u
  PROVE  /\ Same(t, u) => Kin(t, u)
         /\ \A c : Awake(t, u, c) => Kin(t, u)
BY DEF Same, Awake, Kin, Waits

\* Interrupts.
LEMMA WakeInterrupt ==
  ASSUME SchedInv, SchedInv', WakeInv, Windows \subseteq {"block", "switch"}, Interrupt
  PROVE  WakeInv'
<1>0. cur_pid \in PID /\ frame.at \notin {"entry", "exec"}
  BY DEF SchedInv, TypeOK, Interrupt, TimerInterrupt, KeyPressed, EnterPressed,
         Interruptible
<1>1. CASE TimerInterrupt
  <2>1. frame'.at \notin {"entry", "exec"}
    BY <1>1, TimerSlots DEF SavedPoints
  <2>2. \A p \in PID : Kin(TaskManager[p], TaskManager'[p])
    BY <1>1, TimerSlots, KinSame, KinSlots
  <2> QED
    BY <1>0, <2>1, <2>2, WakeKept
<1>2. CASE KeyPressed
  <2>1. \A p \in PID : Kin(TaskManager[p], TaskManager'[p])
    BY <1>2, KeySlots, KinSame, KinSlots DEF KeyPressed
  <2>2. frame' = frame
    BY <1>2 DEF KeyPressed
  <2> QED
    BY <1>0, <2>1, <2>2, WakeKept
<1>3. CASE EnterPressed
  <2>1. PICK w \in PID, tm \in Table :
          /\ SameOutside(TaskManager, tm, {cur_pid})
          /\ Same(TaskManager[cur_pid], tm[cur_pid])
          /\ SameOutside(tm, TaskManager', {w})
          /\ Awake(tm[w], TaskManager'[w], [tm[w].SavedRegisters EXCEPT !.on = "none"])
    BY <1>3, EnterSlots
  <2>2. ASSUME NEW p \in PID
        PROVE  Kin(TaskManager[p], TaskManager'[p])
    <3>1. Kin(TaskManager[p], tm[p])
      BY <2>1, KinSame DEF SameOutside, Kin
    <3>2. Kin(tm[p], TaskManager'[p])
      <4>1. CASE p = w
        BY <2>1, <4>1, KinSame
      <4>2. CASE p # w
        BY <2>1, <4>2 DEF SameOutside, Kin
      <4> QED
        BY <4>1, <4>2
    <3> QED
      BY <3>1, <3>2 DEF Kin
  <2>3. frame' = frame
    BY <1>3 DEF EnterPressed
  <2> QED
    BY <1>0, <2>2, <2>3, WakeKept
<1> QED
  BY <1>1, <1>2, <1>3 DEF Interrupt

\* The calls that begin no wait and end no task.
LEMMA WakeCall ==
  ASSUME SchedInv, WakeInv,
         \/ OtherSyscall \/ Read \/ Sigreg \/ Sigret \/ GiveUpCPU \/ SwitchIn
         \/ InterruptReturn
  PROVE  WakeInv'
<1>0. frame.at # "exec"
  BY DEF OtherSyscall, Read, Sigreg, Sigret, GiveUpCPU, SwitchIn, InterruptReturn,
         Running
<1>1. ASSUME \A p \in PID : Kin(TaskManager[p], TaskManager'[p]),
             frame'.at \notin {"entry", "exec"}
      PROVE  WakeInv'
  BY <1>0, <1>1, WakeKept
<1>2. CASE OtherSyscall
  <2>1. ~halted /\ frame.at = "entry" /\ Return(TaskManager, act.regs)
    BY <1>2 DEF OtherSyscall, Running
  <2>2. /\ SameOutside(TaskManager, TaskManager', {cur_pid})
        /\ Same(TaskManager[cur_pid], TaskManager'[cur_pid]) /\ Returned(act.regs)
    BY <2>1, InCall, ReturnSlots
  <2> QED
    BY <1>1, <2>2, KinSame, KinSlots DEF Returned
<1>3. CASE Read
  <2>1. Kin(TaskManager[cur_pid], TaskManager'[cur_pid])
    BY <1>3, ReadSlots DEF Kin, Waits
  <2> QED
    BY <1>1, <1>3, <2>1, ReadSlots, KinSlots
<1>4. CASE Sigreg
  <2>1. TaskManager[cur_pid].ProcessState = "READY"
    BY <1>4, InCall DEF Sigreg, Running, Runnable
  <2>2. Kin(TaskManager[cur_pid], TaskManager'[cur_pid])
    BY <1>4, <2>1, SigregSlots DEF Kin, Waits
  <2> QED
    BY <1>1, <1>4, <2>2, SigregSlots, KinSlots DEF Returned
<1>5. CASE Sigret
  <2>1. \A p \in PID : Kin(TaskManager[p], TaskManager'[p])
    BY <1>5, SigretSlots, KinSame, KinSlots
  <2>2. frame'.at = "return"
    BY <1>5, SigretSlots DEF Returned
  <2> QED
    BY <1>1, <2>1, <2>2
<1>6. CASE GiveUpCPU
  BY <1>1, <1>6, GiveUpSlots, KinSame, KinSlots
<1>7. CASE SwitchIn
  <2>1. \A p \in PID : Kin(TaskManager[p], TaskManager'[p])
    BY <1>7, SwitchInSlots, KinSame
  <2> QED
    BY <1>1, <1>7, <2>1, SwitchInSlots
<1>8. CASE InterruptReturn
  <2>1. frame'.at \in SavedPoints
    BY <1>8, ActType DEF InterruptReturn, SchedInv, StacksInv, act
  <2>2. \A p \in PID : Kin(TaskManager[p], TaskManager'[p])
    BY <1>8 DEF InterruptReturn, Kin
  <2> QED
    BY <1>1, <2>1, <2>2 DEF SavedPoints
<1> QED
  BY <1>2, <1>3, <1>4, <1>5, <1>6, <1>7, <1>8, SMTT(30)

\* wait() blocks only a task that has a child.
LEMMA WakeWait ==
  ASSUME SchedInv, WakeInv, Wait
  PROVE  WakeInv'
<1>1. /\ frame.at = "entry" /\ cur_pid \in PID
      /\ SameOutside(TaskManager, TaskManager', {cur_pid}) /\ cur_pid' = cur_pid
      /\ TaskManager'[cur_pid].Exists = TaskManager[cur_pid].Exists
      /\ TaskManager'[cur_pid].Owner_PID = TaskManager[cur_pid].Owner_PID
  BY WaitSlots DEF Wait, Running, SchedInv, TypeOK
<1>2. CASE Same(TaskManager[cur_pid], TaskManager'[cur_pid]) /\ Returned(act.regs)
  BY <1>1, <1>2, KinSame, KinSlots, WakeKept DEF Returned
<1>3. CASE /\ \E target \in PID : TaskManager[target].Owner_PID = cur_pid
           /\ frame'.at = "block"
  <2>1. \A p \in PID : /\ TaskManager'[p].Exists = TaskManager[p].Exists
                       /\ TaskManager'[p].Owner_PID = TaskManager[p].Owner_PID
    BY <1>1 DEF SameOutside
  <2>2. ASSUME NEW p \in PID \ {0}, Waits(TaskManager'[p])
        PROVE  \E c \in PID : TaskManager[c].Exists /\ TaskManager[c].Owner_PID = p
    <3>1. CASE p = cur_pid
      BY <1>3, <2>2, <3>1 DEF WakeInv
    <3>2. CASE p # cur_pid
      <4>1. Waits(TaskManager[p])
        BY <1>1, <2>2, <3>2 DEF SameOutside
      <4> QED
        BY <1>1, <4>1 DEF WakeInv, OwnerOf
    <3> QED
      BY <3>1, <3>2
  <2> QED
    BY <1>3, <2>1, <2>2 DEF WakeInv, OwnerOf
<1> QED
  BY <1>2, <1>3, WaitSlots

\* exit wakes the parent that waits, and no other parent loses a child.
LEMMA WakeExit ==
  ASSUME SchedInv, WakeInv, Exit
  PROVE  WakeInv'
<1> DEFINE o == TaskManager[cur_pid].Owner_PID
<1>1. frame.at = "entry" /\ cur_pid \in PID
  BY DEF Exit, Running, SchedInv, TypeOK
<1>2. PICK tm \in Table :
        /\ o \in PID /\ SameOutside(TaskManager, tm, {o})
        /\ \/ tm = TaskManager
           \/ Awake(TaskManager[o], tm[o], HandlerFrame(TaskManager[o].SavedRegisters))
        /\ o # 0 /\ TaskManager[o].Exists /\ TaskManager[o].SIGCHD # "none"
             => tm[o].ProcessState = "READY"
        /\ SameOutside(tm, TaskManager', {cur_pid})
        /\ Same(ZeroTask, TaskManager'[cur_pid])
        /\ frame'.at = "switch"
  BY ExitSlots
<1>3. ~TaskManager'[cur_pid].Exists /\ TaskManager'[cur_pid].Owner_PID = 0
  BY <1>2 DEF Same, ZeroTask
<1>4. ASSUME NEW p \in PID
      PROVE  Kin(TaskManager[p], tm[p])
  <2>1. CASE p = o
    BY <1>2, <2>1, KinSame DEF Kin
  <2>2. CASE p # o
    BY <1>2, <2>2 DEF SameOutside, Kin
  <2> QED
    BY <2>1, <2>2
<1>5. \A p \in PID : p # cur_pid => TaskManager'[p] = tm[p]
  BY <1>2 DEF SameOutside
<1>6. \A p \in PID : TaskManager'[p].Owner_PID # 0 => TaskManager'[p].Exists
  BY <1>3, <1>4, <1>5 DEF WakeInv, Kin
<1>7. ASSUME NEW p \in PID \ {0}, Waits(TaskManager'[p])
      PROVE  \E c \in PID : TaskManager'[c].Exists /\ TaskManager'[c].Owner_PID = p
  <2>1. p # cur_pid /\ TaskManager'[p] = tm[p]
    BY <1>3, <1>5, <1>7 DEF Waits
  <2>2. Waits(TaskManager[p])
    BY <1>4, <1>7, <2>1 DEF Kin
  <2>3. p # o
    <3>1. CASE p = o
      BY <1>2, <1>7, <2>1, <2>2, <3>1 DEF Waits
    <3> QED
      BY <3>1
  <2>4. PICK c \in PID : TaskManager[c].Exists /\ TaskManager[c].Owner_PID = p
    BY <1>1, <2>2 DEF WakeInv, OwnerOf
  <2>5. c # cur_pid
    BY <2>3, <2>4
  <2>6. TaskManager'[c].Exists /\ TaskManager'[c].Owner_PID = p
    BY <1>4, <1>5, <2>4, <2>5 DEF Kin
  <2> QED
    BY <2>6
<1> QED
  BY <1>2, <1>6, <1>7 DEF WakeInv, OwnerOf

\* fork with a free slot adds a child and takes none away.
LEMMA WakeFork ==
  ASSUME SchedInv, WakeInv, RoomToFork, Fork
  PROVE  WakeInv'
<1> DEFINE child == RegisterTask(TaskManager)
<1>1. /\ frame.at = "entry" /\ Running("fork") /\ next_pml4 <= MaxPML4
      /\ cur_pid \in PID /\ TaskManager[cur_pid].Exists
  BY DEF Fork, Running, SchedInv, TypeOK, CurrentInv
<1>2. ~TaskManager[child].Exists /\ child \in PID /\ child # cur_pid
  BY <1>1, ForkSlots DEF RoomToFork
<1>3. /\ SameOutside(TaskManager, TaskManager', {child, cur_pid})
      /\ TaskManager'[child].Exists /\ TaskManager'[child].ProcessState = "READY"
      /\ Same(TaskManager[cur_pid], TaskManager'[cur_pid])
      /\ frame'.at = "return"
  BY <1>2, ForkSlots DEF Returned
<1> HIDE DEF child
<1>4. ASSUME NEW p \in PID, p # child
      PROVE  Kin(TaskManager[p], TaskManager'[p])
  <2>1. CASE p = cur_pid
    BY <1>3, <2>1, KinSame
  <2>2. CASE p # cur_pid
    BY <1>3, <1>4, <2>2 DEF SameOutside, Kin
  <2> QED
    BY <2>1, <2>2
<1>5. ASSUME NEW p \in PID \ {0}, Waits(TaskManager'[p])
      PROVE  \E c \in PID : TaskManager'[c].Exists /\ TaskManager'[c].Owner_PID = p
  <2>1. p # child
    BY <1>3, <1>5 DEF Waits
  <2>2. PICK c \in PID : TaskManager[c].Exists /\ TaskManager[c].Owner_PID = p
    BY <1>1, <1>4, <1>5, <2>1 DEF Kin, WakeInv, OwnerOf
  <2> QED
    BY <1>2, <1>4, <2>2 DEF Kin
<1>6. \A p \in PID : TaskManager'[p].Owner_PID # 0 => TaskManager'[p].Exists
  BY <1>3, <1>4 DEF WakeInv, Kin
<1> QED
  BY <1>3, <1>5, <1>6 DEF WakeInv, OwnerOf

\* execve rebuilds the slot while its handler keeps the owner, and then puts the
\* owner back.
LEMMA WakeExecve ==
  ASSUME SchedInv, WakeInv, Execve \/ BadExecve \/ ExecReturn
  PROVE  WakeInv'
<1>1. cur_pid \in PID /\ TaskManager[cur_pid].Exists
  BY DEF SchedInv, TypeOK, CurrentInv
<1>2. /\ SameOutside(TaskManager, TaskManager', {cur_pid})
      /\ TaskManager'[cur_pid].Exists
      /\ ~Waits(TaskManager'[cur_pid])
      /\ frame'.at # "entry"
  <2>1. CASE Execve
    BY <2>1, ExecveSlots DEF LoadedTask, ZeroTask, Waits
  <2>2. CASE BadExecve
    <3>1. TaskManager'[cur_pid] = [TaskManager[cur_pid] EXCEPT !.ProcessState = "CREATION"]
          /\ TaskManager[cur_pid] \in Task
      BY <2>2, BadExecveSlots, ActType DEF SchedInv
    <3>2. /\ TaskManager'[cur_pid].Exists = TaskManager[cur_pid].Exists
          /\ TaskManager'[cur_pid].ProcessState = "CREATION"
      BY <3>1 DEF Task
    <3> QED
      BY <1>1, <2>2, <3>2, BadExecveSlots DEF Waits
  <2>3. CASE ExecReturn
    BY <1>1, <2>3, ExecReturnSlots DEF Waits
  <2> QED
    BY <2>1, <2>2, <2>3
<1>3. \A c \in PID : OwnerOf(c)' = OwnerOf(c)
  <2>1. CASE Execve \/ BadExecve
    <3>1. frame.at = "entry" /\ frame'.at = "exec" /\ cur_pid' = cur_pid
          /\ act'.owner = act.owner
      BY <2>1, ExecveSlots, BadExecveSlots DEF Execve, BadExecve, Running, act
    <3> QED
      BY <1>2, <3>1 DEF OwnerOf, SameOutside, WakeInv
  <2>2. CASE ExecReturn
    <3>1. frame.at = "exec" /\ frame'.at = "switch"
          /\ TaskManager'[cur_pid].Owner_PID = act.owner
      BY <2>2, ExecReturnSlots DEF ExecReturn
    <3> QED
      BY <1>2, <3>1 DEF OwnerOf, SameOutside
  <2> QED
    BY <2>1, <2>2
<1>4. \A p \in PID : TaskManager[p].Exists => TaskManager'[p].Exists
  BY <1>2 DEF SameOutside
<1>5. ASSUME NEW p \in PID \ {0}, Waits(TaskManager'[p])
      PROVE  \E c \in PID : TaskManager'[c].Exists /\ OwnerOf(c)' = p
  <2>1. Waits(TaskManager[p])
    BY <1>2, <1>5 DEF SameOutside
  <2>2. PICK c \in PID : TaskManager[c].Exists /\ OwnerOf(c) = p
    BY <2>1 DEF WakeInv
  <2> QED
    BY <1>3, <1>4, <2>2
<1>6. \A p \in PID : TaskManager'[p].Owner_PID # 0 => TaskManager'[p].Exists
  BY <1>2 DEF SameOutside, WakeInv
<1> QED
  BY <1>2, <1>5, <1>6 DEF WakeInv

\* The entry of a call takes a copy of the owner.
LEMMA WakeEntry ==
  ASSUME SchedInv, WakeInv, NEW op, SyscallEntry(op)
  PROVE  WakeInv'
<1>1. \A p \in PID : Kin(TaskManager[p], TaskManager'[p])
  BY EntrySlots, KinSame, KinSlots
<1>2. /\ frame.at = "user" /\ frame'.at = "entry" /\ cur_pid' = cur_pid
      /\ act'.owner = TaskManager[cur_pid].Owner_PID
      /\ TaskManager'[cur_pid].Owner_PID = TaskManager[cur_pid].Owner_PID
  BY EntrySlots DEF act, Same
<1> QED
  BY <1>1, <1>2, WakeKept

\* The state SetUpShell leaves.
LEMMA WakeInit ==
  ASSUME Init
  PROVE  WakeInv
<1>1. ASSUME NEW p \in PID
      PROVE  TaskManager[p].Owner_PID = 0 /\ ~Waits(TaskManager[p])
  <2>1. TaskManager[p] \in {KernelTask, LoadedTask(1), ZeroTask}
    BY DEF Init
  <2>2. /\ KernelTask.Owner_PID = 0 /\ KernelTask.ProcessState = "READY"
        /\ LoadedTask(1).Owner_PID = 0 /\ LoadedTask(1).ProcessState = "READY"
        /\ ZeroTask.Owner_PID = 0 /\ ZeroTask.ProcessState = "NULL"
    BY DEF KernelTask, LoadedTask, ZeroTask
  <2> QED
    BY <2>1, <2>2 DEF Waits
<1> QED
  BY <1>1 DEF WakeInv, Init

\* No wake-up is lost as long as programs do not fault and fork finds a slot.
LEMMA WakeInvariant ==
  ASSUME Windows \subseteq {"block", "switch"}, Faults = {}
  PROVE  Spec /\ []RoomToFork => []WakeInv
<1>1. Init => WakeInv
  BY WakeInit
<1>2. SchedInv /\ SchedInv' /\ WakeInv /\ RoomToFork /\ [Next]_vars => WakeInv'
  <2> SUFFICES ASSUME SchedInv, SchedInv', WakeInv, RoomToFork, [Next]_vars
               PROVE  WakeInv'
    OBVIOUS
  <2>1. ASSUME NEW op \in Ops, SyscallEntry(op) PROVE WakeInv'
    BY <2>1, WakeEntry
  <2>2. CASE SyscallStep
    BY <2>2, WakeCall, WakeExit, WakeWait, WakeFork, WakeExecve DEF SyscallStep
  <2>3. CASE UNCHANGED vars
    BY <2>3 DEF vars, WakeInv, OwnerOf, act
  <2> QED
    BY <2>1, <2>2, <2>3, WakeInterrupt DEF Next, Fault
<1>3. Spec => []SchedInv
  BY SchedInvariant
<1> QED
  BY <1>1, <1>2, <1>3, PTL DEF Spec

\* A parent that blocks in wait() with a SIGCHD handler still has a child whose
\* exit wakes it, whatever the programs call and wherever the keyboard lands, as
\* long as no task is ended by a fault and fork finds a free slot.
THEOREM WakeupsKept ==
  ASSUME Windows \subseteq {"block", "switch"}, Faults = {}
  PROVE  Spec /\ []RoomToFork => []NoLostWakeup
<1>1. WakeInv => NoLostWakeup
  BY WakeInvImplies
<1> QED
  BY <1>1, WakeInvariant, PTL

\* The same while no more address spaces are created than the table has slots.
THEOREM WakeupsKeptWithinTable ==
  ASSUME Windows \subseteq {"block", "switch"}, Faults = {}, TASK_COUNT > MaxPML4
  PROVE  Spec => []NoLostWakeup
<1>1. SchedInv => RoomToFork
  BY SlotFree
<1>2. Spec => []SchedInv
  BY SchedInvariant
<1> QED
  BY <1>1, <1>2, WakeupsKept, PTL

----------------------------------------------------------------------------
(* Lines                                                                   *)

\* Only a task that waits for input has the registers of an unfinished read.
Line(t) == t.Exists /\ t.SavedRegisters.on = "input"
             => t.ProcessState = "WAITING" /\ t.WaitingReason = "INPUT"

\* read marks the registers it will return with; the mark goes to the slot of
\* a task that is WAITING, and is gone before the task can be chosen again.
LineInv ==
  /\ \A p \in PID : Resting(p) => Line(TaskManager[p])
  /\ frame.on = "none"
  /\ frame.at \in {"entry", "return"} => act.regs.on = "none"
  /\ frame.at \in {"entry", "return"}
       => TaskManager[cur_pid].SavedRegisters.on = "none"
  /\ frame.at = "block" =>
       /\ TaskManager[cur_pid].ProcessState = "WAITING"
       /\ act.regs.on = "input" => TaskManager[cur_pid].WaitingReason = "INPUT"
  /\ \A s \in PML4 : kstack[s].op # "sigret"

\* A call that returns.
LEMMA LineReturned ==
  ASSUME LineInv, NEW regs, Returned(regs), regs.on = "none",
         \A p \in PID \ {cur_pid} : Line(TaskManager'[p])
  PROVE  LineInv'
BY DEF LineInv, Returned, Resting, SameRecords, act

\* A handler at its switch.
LEMMA LineSwitched ==
  ASSUME LineInv, frame'.at = "switch", frame'.on = "none",
         \A p \in PID : Line(TaskManager'[p]),
         \A s \in PML4 : kstack'[s].op # "sigret"
  PROVE  LineInv'
BY DEF LineInv

\* The slots of the other tasks, when they were not touched.
LEMMA OthersLine ==
  ASSUME LineInv, NEW C, cur_pid \in C, SameOutside(TaskManager, TaskManager', C)
  PROVE  \A p \in PID \ C : Line(TaskManager'[p])
BY DEF LineInv, Resting, SameOutside

\* A task that can be chosen has no mark.
LEMMA ReadyUnmarked ==
  ASSUME NEW t \in Task, t.Exists, t.ProcessState = "READY", Line(t)
  PROVE  t.SavedRegisters.on = "none"
<1>1. t.SavedRegisters.on \in {"none", "input"}
  BY DEF Task, Context
<1> QED
  BY <1>1 DEF Line

\* Interrupts in the idle loop and inside task_switch.
LEMMA LineInterrupt ==
  ASSUME SchedInv, SchedInv', LineInv, Windows \subseteq {"switch"}, Interrupt
  PROVE  LineInv'
<1>0. /\ cur_pid \in PID /\ cur_pid' \in PID /\ frame \in Context
      /\ frame.at \in {"idle", "switch"} /\ frame.on = "none"
      /\ TaskManager'[cur_pid'].Exists /\ TaskManager'[cur_pid'] \in Task
  BY DEF SchedInv, TypeOK, CurrentInv, Interrupt, TimerInterrupt, KeyPressed,
         EnterPressed, Interruptible, LineInv
<1>1. ASSUME NEW tm, SameOutside(TaskManager, tm, {cur_pid}),
             tm[cur_pid].SavedRegisters = frame
      PROVE  \A p \in PID : Line(tm[p])
  <2>1. ASSUME NEW p \in PID PROVE Line(tm[p])
    <3>1. CASE p = cur_pid
      BY <1>0, <1>1, <3>1 DEF Line
    <3>2. CASE p # cur_pid
      BY <1>1, <3>2 DEF SameOutside, LineInv, Resting
    <3> QED
      BY <3>1, <3>2
  <2> QED
    BY <2>1
<1>2. CASE TimerInterrupt
  <2>1. /\ \A p \in PID : Line(TaskManager'[p])
        /\ frame'.at \in SavedPoints /\ kstack' = kstack
    BY <1>1, <1>2, TimerSlots
  <2>2. frame'.on = "none"
    <3>1. CASE UNCHANGED <<cur_pid, frame>>
      BY <1>0, <3>1
    <3>2. CASE frame' = TaskManager'[cur_pid'].SavedRegisters
      <4>1. TaskManager'[cur_pid'].ProcessState = "READY"
        BY <2>1 DEF SavedPoints, SchedInv, CurrentInv
      <4>2. TaskManager'[cur_pid'].SavedRegisters.on = "none"
        BY <1>0, <2>1, <4>1, ReadyUnmarked
      <4> QED
        BY <3>2, <4>2
    <3> QED
      BY <1>2, <3>1, <3>2, TimerSlots
  <2> QED
    BY <2>1, <2>2 DEF LineInv, SavedPoints
<1>3. CASE KeyPressed
  <2>1. \A p \in PID : Line(TaskManager'[p])
    BY <1>1, <1>3, KeySlots DEF KeyPressed
  <2> QED
    BY <1>0, <1>3, <2>1 DEF LineInv, KeyPressed
<1>4. CASE EnterPressed
  <2>1. PICK w \in PID, tm \in Table :
          /\ SameOutside(TaskManager, tm, {cur_pid})
          /\ tm[cur_pid].SavedRegisters = frame
          /\ SameOutside(tm, TaskManager', {w})
          /\ tm[w].SavedRegisters \in Context
          /\ Awake(tm[w], TaskManager'[w], [tm[w].SavedRegisters EXCEPT !.on = "none"])
    BY <1>4, EnterSlots
  <2>2. ASSUME NEW p \in PID PROVE Line(TaskManager'[p])
    <3>1. CASE p = w
      <4>1. TaskManager'[p].SavedRegisters.on = "none"
        BY <2>1, <3>1 DEF Awake, Context
      <4> QED
        BY <4>1 DEF Line
    <3>2. CASE p # w
      BY <1>1, <2>1, <3>2 DEF SameOutside
    <3> QED
      BY <3>1, <3>2
  <2> QED
    BY <1>0, <1>4, <2>2 DEF LineInv, EnterPressed
<1> QED
  BY <1>2, <1>3, <1>4 DEF Interrupt

\* The calls that return.
LEMMA LineCall ==
  ASSUME SchedInv, LineInv, OtherSyscall \/ Sigreg \/ Fork
  PROVE  LineInv'
<1>1. /\ frame.at = "entry" /\ ~halted /\ act.regs.on = "none" /\ cur_pid \in PID
      /\ act.regs \in Context
  BY InCall DEF OtherSyscall, Sigreg, Fork, Running, LineInv
<1>2. CASE OtherSyscall
  <2>1. Return(TaskManager, act.regs) /\ act.regs \in Context /\ TaskManager \in Table
    BY <1>1, <1>2, InCall DEF OtherSyscall
  <2>2. SameOutside(TaskManager, TaskManager', {cur_pid}) /\ Returned(act.regs)
    BY <1>1, <2>1, ReturnSlots
  <2> QED
    BY <1>1, <2>2, OthersLine, LineReturned
<1>3. CASE Sigreg
  BY <1>1, <1>3, SigregSlots, OthersLine, LineReturned
<1>4. CASE Fork
  <2> DEFINE child == RegisterTask(TaskManager)
             b == TaskManager[cur_pid].Base_PML4
  <2>1. /\ SameOutside(TaskManager, TaskManager', {child, cur_pid})
        /\ child # cur_pid => TaskManager'[child].SavedRegisters =
                                CopiedFrame(act.regs, b, next_pml4)
        /\ Returned(act.regs)
    BY <1>4, ForkSlots
  <2>2. CopiedFrame(act.regs, b, next_pml4).on = "none"
    BY <1>1 DEF CopiedFrame, Context
  <2> HIDE DEF child, b
  <2>3. ASSUME NEW p \in PID \ {cur_pid} PROVE Line(TaskManager'[p])
    <3>1. CASE p = child
      <4>1. TaskManager'[p].SavedRegisters.on = "none"
        BY <2>1, <2>2, <2>3, <3>1
      <4> QED
        BY <4>1 DEF Line
    <3>2. CASE p # child
      BY <2>1, <3>2, OthersLine
    <3> QED
      BY <3>1, <3>2
  <2> QED
    BY <1>1, <2>1, <2>3, LineReturned
<1> QED
  BY <1>2, <1>3, <1>4

\* The calls that block.
LEMMA LineBlock ==
  ASSUME SchedInv, LineInv, Read \/ Wait
  PROVE  LineInv'
<1>1. frame.at = "entry" /\ act.regs.on = "none"
  BY DEF Read, Wait, Running, LineInv
<1>2. SameOutside(TaskManager, TaskManager', {cur_pid})
  BY ReadSlots, WaitSlots
<1>3. \A p \in PID \ {cur_pid} : Line(TaskManager'[p])
  BY <1>2, OthersLine
<1>4. CASE Read
  <2>1. /\ TaskManager'[cur_pid].ProcessState = "WAITING"
        /\ TaskManager'[cur_pid].WaitingReason = "INPUT"
        /\ SameRecords /\ cur_pid' = cur_pid
        /\ frame'.at = "block" /\ frame'.on = "none"
    BY <1>4, ReadSlots
  <2> QED
    BY <1>3, <2>1 DEF LineInv, Resting, SameRecords
<1>5. CASE Wait
  <2>1. CASE Returned(act.regs)
    BY <1>1, <1>3, <2>1, LineReturned
  <2>2. CASE /\ TaskManager'[cur_pid].ProcessState = "WAITING"
             /\ frame'.at = "block" /\ frame'.on = "none"
             /\ frame'.img = frame.img /\ kstack' = kstack
    <3>1. cur_pid' = cur_pid /\ act'.regs = act.regs
      BY <1>5, <2>2, WaitSlots DEF act
    <3> QED
      BY <1>1, <1>3, <2>2, <3>1 DEF LineInv, Resting
  <2> QED
    BY <1>5, <2>1, <2>2, WaitSlots
<1> QED
  BY <1>4, <1>5

\* The handlers that leave the CPU.
LEMMA LineSwitch ==
  ASSUME SchedInv, LineInv, GiveUpCPU \/ ExecReturn
  PROVE  LineInv'
<1>0. cur_pid \in PID /\ TaskManager[cur_pid] \in Task
  BY ActType DEF SchedInv, TypeOK
<1>1. /\ SameOutside(TaskManager, TaskManager', {cur_pid})
      /\ frame'.at = "switch" /\ frame'.on = "none" /\ kstack' = kstack
  BY GiveUpSlots, ExecReturnSlots
<1>2. Line(TaskManager'[cur_pid])
  <2>1. CASE GiveUpCPU
    <3>1. /\ TaskManager[cur_pid].ProcessState = "WAITING"
          /\ act.regs.on = "input" => TaskManager[cur_pid].WaitingReason = "INPUT"
      BY <2>1 DEF GiveUpCPU, LineInv
    <3> QED
      BY <2>1, <3>1, GiveUpSlots DEF Same, Line
  <2>2. CASE ExecReturn
    <3>1. Line(TaskManager[cur_pid]) /\ TaskManager[cur_pid].Exists
          /\ TaskManager[cur_pid].ProcessState # "WAITING"
      BY <1>0, <2>2 DEF ExecReturn, LineInv, Resting, SchedInv, CurrentInv
    <3>2. TaskManager[cur_pid].SavedRegisters.on # "input"
      BY <3>1 DEF Line
    <3> QED
      BY <2>2, <3>2, ExecReturnSlots DEF Line
  <2> QED
    BY <2>1, <2>2
<1>3. \A p \in PID \ {cur_pid} : Line(TaskManager'[p])
  BY <1>1, OthersLine
<1> QED
  BY <1>1, <1>2, <1>3, LineSwitched DEF LineInv

\* exit: the signal handler of the owner starts without a mark.
LEMMA LineExit ==
  ASSUME SchedInv, LineInv, Exit
  PROVE  LineInv'
<1> DEFINE o == TaskManager[cur_pid].Owner_PID
<1>1. frame.at = "entry" /\ cur_pid \in PID
  BY DEF Exit, Running, SchedInv, TypeOK
<1>2. PICK tm \in Table :
        /\ o \in PID /\ SameOutside(TaskManager, tm, {o})
        /\ \/ tm = TaskManager
           \/ Awake(TaskManager[o], tm[o], HandlerFrame(TaskManager[o].SavedRegisters))
        /\ SameOutside(tm, TaskManager', {cur_pid})
        /\ Same(ZeroTask, TaskManager'[cur_pid])
        /\ frame'.at = "switch" /\ frame'.on = "none" /\ kstack' = kstack
  BY ExitSlots
<1>3. \A c \in Context : HandlerFrame(c).on = "none"
  BY DEF HandlerFrame, Junk, Context
<1>4. ASSUME NEW p \in PID PROVE Line(TaskManager'[p])
  <2>1. CASE p = cur_pid
    BY <1>2, <2>1 DEF Same, ZeroTask, Line
  <2>2. CASE p # cur_pid
    <3>1. TaskManager'[p] = tm[p] /\ Line(TaskManager[p])
      BY <1>2, <2>2 DEF SameOutside, LineInv, Resting
    <3>2. CASE tm[p] = TaskManager[p]
      BY <3>1, <3>2
    <3>3. CASE tm[p] # TaskManager[p]
      <4>1. tm[p].SavedRegisters = HandlerFrame(TaskManager[p].SavedRegisters)
        BY <1>2, <3>3 DEF SameOutside, Awake
      <4>2. TaskManager[p].SavedRegisters \in Context
        BY DEF SchedInv, TypeOK, Task
      <4>3. TaskManager'[p].SavedRegisters.on = "none"
        BY <1>3, <3>1, <4>1, <4>2
      <4> QED
        BY <4>3 DEF Line
    <3> QED
      BY <3>2, <3>3
  <2> QED
    BY <2>1, <2>2
<1> QED
  BY <1>2, <1>4, LineSwitched DEF LineInv

\* execve: the new program starts without a mark, and so does the old one when
\* the file is rejected.
LEMMA LineExecve ==
  ASSUME SchedInv, LineInv, Execve \/ BadExecve
  PROVE  LineInv'
<1>1. /\ SameOutside(TaskManager, TaskManager', {cur_pid})
      /\ frame'.at = "exec" /\ frame'.on = "none" /\ UNCHANGED <<cur_pid, kstack>>
  BY ExecveSlots, BadExecveSlots
<1>2. TaskManager'[cur_pid].SavedRegisters.on = "none"
  <2>1. CASE Execve
    <3>1. TaskManager'[cur_pid] = LoadedTask(next_pml4)
      BY <2>1, ExecveSlots
    <3> QED
      BY <3>1 DEF LoadedTask, ZeroTask, UserContext
  <2>2. CASE BadExecve
    <3>1. TaskManager'[cur_pid] = [TaskManager[cur_pid] EXCEPT !.ProcessState = "CREATION"]
          /\ TaskManager[cur_pid] \in Task
      BY <2>2, BadExecveSlots, ActType DEF SchedInv
    <3>2. TaskManager'[cur_pid].SavedRegisters = TaskManager[cur_pid].SavedRegisters
      BY <3>1 DEF Task
    <3> QED
      BY <2>2, <3>2 DEF BadExecve, Running, LineInv
  <2> QED
    BY <2>1, <2>2
<1>3. \A p \in PID \ {cur_pid} : Line(TaskManager'[p])
  BY <1>1, OthersLine
<1>4. Line(TaskManager'[cur_pid])
  BY <1>2 DEF Line
<1> QED
  BY <1>1, <1>3, <1>4 DEF LineInv

\* The second half of task_switch loads the frame of a READY task.
LEMMA LineResume ==
  ASSUME SchedInv, LineInv, SwitchIn \/ InterruptReturn
  PROVE  LineInv'
<1>0. /\ cur_pid \in PID /\ TaskManager[cur_pid] \in Task
      /\ TaskManager[cur_pid].Exists
  BY ActType DEF SchedInv, TypeOK, CurrentInv
<1>1. CASE SwitchIn
  <2> DEFINE regs == TaskManager[cur_pid].SavedRegisters
  <2>1. frame.at = "switch"
    BY <1>1 DEF SwitchIn
  <2>2. TaskManager[cur_pid].ProcessState = "READY" /\ Line(TaskManager[cur_pid])
    BY <1>0, <2>1 DEF SchedInv, CurrentInv, LineInv, Resting
  <2>3. regs.on = "none"
    BY <1>0, <2>2, ReadyUnmarked
  <2>4. ASSUME NEW p \in PID PROVE Line(TaskManager'[p])
    <3>1. Line(TaskManager[p])
      BY <2>1 DEF LineInv, Resting
    <3>2. CASE TaskManager'[p] = TaskManager[p]
      BY <3>1, <3>2
    <3>3. CASE TaskManager'[p].SavedRegisters = regs
      <4>1. TaskManager'[p].SavedRegisters.on = "none"
        BY <2>3, <3>3
      <4> QED
        BY <4>1 DEF Line
    <3> QED
      BY <1>1, <3>2, <3>3, SwitchInSlots
  <2>5. /\ act'.regs = regs /\ frame'.at = "return" /\ frame'.on = "none"
        /\ SameRecords
    BY <1>1, SwitchInSlots DEF act
  <2>6. cur_pid' = cur_pid /\ TaskManager'[cur_pid].SavedRegisters = regs
    BY <1>0, <1>1, SwitchInSlots
  <2> HIDE DEF regs
  <2> QED
    BY <2>3, <2>4, <2>5, <2>6 DEF LineInv, SameRecords
<1>2. CASE InterruptReturn
  <2>1. /\ frame.at = "return" /\ frame' = act.regs /\ act.regs.on = "none"
        /\ UNCHANGED <<TaskManager, cur_pid, kstack>>
    BY <1>2 DEF InterruptReturn, LineInv
  <2>2. frame'.at \in SavedPoints
    BY <2>1, ActType DEF SchedInv, StacksInv, act
  <2>3. ASSUME NEW p \in PID, Resting(p)' PROVE Line(TaskManager'[p])
    <3>1. CASE p = cur_pid
      <4>1. TaskManager'[p].SavedRegisters.on = "none"
        BY <2>1, <3>1 DEF LineInv
      <4> QED
        BY <4>1 DEF Line
    <3>2. CASE p # cur_pid
      BY <2>1, <3>2 DEF LineInv, Resting
    <3> QED
      BY <3>1, <3>2
  <2>4. frame'.on = "none" /\ frame'.at \notin {"entry", "return", "block"}
    BY <2>1, <2>2 DEF SavedPoints
  <2>5. \A s \in PML4 : kstack'[s].op # "sigret"
    BY <2>1 DEF LineInv
  <2> QED
    BY <2>3, <2>4, <2>5 DEF LineInv
<1> QED
  BY <1>1, <1>2

\* The entry of a call other than sigret.
LEMMA LineEntry ==
  ASSUME SchedInv, LineInv, NEW op, op # "sigret", SyscallEntry(op)
  PROVE  LineInv'
<1>1. /\ frame'.at = "entry" /\ frame'.on = "none" /\ frame.on = "none"
      /\ TaskManager'[cur_pid].SavedRegisters = frame
      /\ SameOutside(TaskManager, TaskManager', {cur_pid})
      /\ act'.regs = frame /\ cur_pid' = cur_pid
  BY EntrySlots DEF LineInv, act
<1>2. ASSUME NEW s \in PML4
      PROVE  kstack'[s].op # "sigret"
  <2>1. CASE s = tss
    <3>1. kstack'[s].op = op
      BY <2>1, EntrySlots
    <3> QED
      BY <3>1
  <2>2. CASE s # tss
    <3>1. kstack'[s] = kstack[s]
      BY <2>2, EntrySlots
    <3> QED
      BY <3>1 DEF LineInv
  <2> QED
    BY <2>1, <2>2
<1>3. \A p \in PID \ {cur_pid} : Line(TaskManager'[p])
  BY <1>1, OthersLine
<1> QED
  BY <1>1, <1>2, <1>3 DEF LineInv, Resting

\* A fatal page fault wakes an owner that waits for a child, not for a line; an
\* invalid opcode wakes nobody.
LEMMA LineFault ==
  ASSUME SchedInv, LineInv, PageFaultKill \/ InvalidOpcode
  PROVE  LineInv'
<1>1. CASE PageFaultKill
  <2> DEFINE o == TaskManager[cur_pid].Owner_PID
  <2>1. ASSUME NEW p \in PID PROVE Line(TaskManager'[p])
    <3>1. CASE p = cur_pid
      BY <1>1, <3>1, PageFaultSlots DEF Same, ZeroTask, Line
    <3>2. CASE p # cur_pid /\ p # o
      <4>1. TaskManager'[p] = TaskManager[p]
        BY <1>1, <3>2, PageFaultSlots DEF SameOutside
      <4> QED
        BY <3>2, <4>1 DEF LineInv, Resting
    <3>3. CASE p # cur_pid /\ p = o
      <4>1. Line(TaskManager[p])
        BY <3>3 DEF LineInv, Resting
      <4>2. CASE TaskManager'[p] = TaskManager[p]
        BY <4>1, <4>2
      <4>3. CASE /\ TaskManager[p].WaitingReason = "CHILD"
                 /\ Awake(TaskManager[p], TaskManager'[p], TaskManager[p].SavedRegisters)
        BY <4>1, <4>3 DEF Awake, Line
      <4> QED
        BY <1>1, <3>3, <4>2, <4>3, PageFaultSlots
    <3> QED
      BY <3>1, <3>2, <3>3
  <2>2. ASSUME NEW s \in PML4
        PROVE  kstack'[s].op # "sigret"
    <3>1. /\ kstack' = [kstack EXCEPT ![tss] = [regs |-> frame, cur |-> cur_pid,
                                               op |-> "pf", owner |-> 0]]
          /\ kstack \in [PML4 -> Activation]
      BY <1>1, PageFaultSlots DEF SchedInv, TypeOK
    <3>2. kstack'[s].op = "pf" \/ kstack'[s] = kstack[s]
      BY <3>1
    <3> QED
      BY <3>2 DEF LineInv
  <2> QED
    BY <1>1, <2>1, <2>2, PageFaultSlots, LineSwitched
<1>2. CASE InvalidOpcode
  <2>1. ASSUME NEW p \in PID PROVE Line(TaskManager'[p])
    <3>1. CASE p = cur_pid
      <4>1. ~TaskManager'[p].Exists
        BY <1>2, <3>1 DEF InvalidOpcode, ZeroTask
      <4> QED
        BY <4>1 DEF Line
    <3>2. CASE p # cur_pid
      <4>1. TaskManager'[p] = TaskManager[p] \/ ~TaskManager'[p].Exists
        BY <1>2, InvalidOpcodeSlots
      <4> QED
        BY <3>2, <4>1 DEF Line, LineInv, Resting
    <3> QED
      BY <3>1, <3>2
  <2> QED
    BY <1>2, <2>1, InvalidOpcodeSlots DEF LineInv
<1> QED
  BY <1>1, <1>2

\* The state SetUpShell leaves.
LEMMA LineInit ==
  ASSUME Init
  PROVE  LineInv
<1>1. ASSUME NEW p \in PID PROVE Line(TaskManager[p])
  <2>1. TaskManager[p] \in {KernelTask, LoadedTask(1), ZeroTask}
    BY DEF Init
  <2>2. /\ KernelTask.SavedRegisters.on = "none"
        /\ LoadedTask(1).SavedRegisters.on = "none"
        /\ ZeroTask.SavedRegisters.on = "none"
    BY DEF KernelTask, LoadedTask, ZeroTask, UserContext, Junk
  <2> QED
    BY <2>1, <2>2 DEF Line
<1> QED
  BY <1>1 DEF LineInv, Init

\* LineInv is invariant with keyboard interrupts in the idle loop and inside
\* task_switch, as long as no program calls sigret.
LEMMA LineInvariant ==
  ASSUME Windows \subseteq {"switch"}, "gpf" \notin Faults, "sigret" \notin Ops
  PROVE  Spec => []LineInv
<1>1. Init => LineInv
  BY LineInit
<1>2. SchedInv /\ SchedInv' /\ LineInv /\ [Next]_vars => LineInv'
  <2> SUFFICES ASSUME SchedInv, SchedInv', LineInv, [Next]_vars PROVE LineInv'
    OBVIOUS
  <2>1. ASSUME NEW op \in Ops, SyscallEntry(op) PROVE LineInv'
    BY <2>1, LineEntry
  <2>2. CASE SyscallStep
    <3>1. ~Sigret
      <4> SUFFICES ASSUME Sigret PROVE FALSE
        OBVIOUS
      <4>1. Running("sigret")
        BY DEF Sigret
      <4>2. kstack[frame.img].op = "sigret" /\ frame.img \in PML4
        BY <4>1, ActType DEF Running, act, SchedInv
      <4> QED
        BY <4>2 DEF LineInv
    <3> QED
      BY <2>2, <3>1, LineCall, LineBlock, LineSwitch, LineExit, LineExecve, LineResume
         DEF SyscallStep
  <2>3. CASE Fault
    BY <2>3, LineFault, Task0RunsNoProgram DEF Fault
  <2>4. CASE UNCHANGED vars
    BY <2>4 DEF vars, LineInv, Resting, act
  <2> QED
    BY <2>1, <2>2, <2>3, <2>4, LineInterrupt DEF Next
<1>3. Spec => []SchedInv
  BY SchedInvariant
<1> QED
  BY <1>1, <1>2, <1>3, PTL DEF Spec

\* read(STD_IN_FD) returns to the program only with a line from ENTER, unless
\* ENTER comes between read's WAITING and its ForceSwitch, or a signal handler
\* that interrupted the read returns.
THEOREM LineReturnedByRead ==
  ASSUME Windows \subseteq {"switch"}, "gpf" \notin Faults, "sigret" \notin Ops
  PROVE  Spec => []ReadReturnsALine
<1>1. LineInv => ReadReturnsALine
  BY DEF LineInv, ReadReturnsALine
<1> QED
  BY <1>1, LineInvariant, PTL
=============================================================================
