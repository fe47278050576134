# A formal model of ChudOS

TLA+ modules for the core of ChudOS (a 64-bit x86 hobby kernel): its task
table, scheduler, system calls and interrupts, its physical frames and
copy-on-write, its program loader, its interrupt stubs, its keyboard line buffer, its
terminals, its file system and its floppy driver. TLC checks them on small instances; TLAPS proves the central results for every value of the constants.

Paths are relative to the repository; `Tasks.c`, `syscall.c` and so on are under
`src/kernel/drivers/`.

## 1. The system

| Component | State | Operations | Interacts through |
|---|---|---|---|
| Task table (`Userland/Tasks.c`, `Task_S` in `Memory.h`) | `TaskManager[512]`, `cur_pid` | RegisterTask(Strict), KillTask, SignalOwner, free_task_memory | written by the system calls and by every interrupt handler |
| Scheduler (`LowLevel/Timer.c`) | `UsedTicks`, saved registers, CR3, TSS | TimerInterrupt, ForceSwitch, find_next_task, task_switch | called from IRQ 0, system calls, fault handlers |
| System calls (`Userland/syscall.c`) | the caller's slot, its kernel stack | exit, open, write, read, fork, execve, wait, close, setwfd, getwfd, getdents, sysinfo, sigreg, sigret | `int 0x80`; runs with IRQ 0 masked, IRQ 1 not |
| Signals (`Userland/signals.c`) | `Signals[]`, the user stack of the receiver | SendSignal, EstablishSignalStack, SignalReturn, RegisterSignal | exit sends SIGCHD to the owner |
| Exceptions (`ErrorHandling/Exceptions.c`) | as above, page tables, frames | HandlePageFault, GeneralProtectionFault, InvalidOpcode | stubs in `interrupt_stubs.s` |
| Frames and page tables (`LowLevel/Memory.c`) | `phys_frames`, page tables | alloc_page, FindNextFreePhysical, Create_User_Memory, free_page, malloc family | fork, execve, page faults |
| ELF loader (`Userland/Tasks.c`) | a slot, its page tables | LoadElf, LoadElfStrict | boot and execve |
| Keyboard (`Devices/PS2/Keyboard.c`) | `key_buffer`, `key_buffer_pos`, shift and caps lock | HandleKeyboardInterrupt | wakes the task in read(STD_IN_FD) |
| Stubs, PIC, IDT, GDT | the frame on the kernel stack, IRQ mask | push_regs, pop_regs, pic_mask, pic_unmask | every entry to the kernel |
| GemFS (`filesys/gemfs.c`) | on-disk bitmap, entries, directories | CreateFile, WriteFile, ReadFile, mkdir, lookups | floppy driver; file system calls |
| Floppy (`Devices/Disk/Floppy.c`) | controller phase, IRQ flag | Read_LBA, Write_LBA, IRQ | IRQ 6 |
| Terminals, VGA (`Userland/terminal.c`, `Display/VGA.c`) | `terminals[]` (bytes, lastPos), the VGA text page | virtualprint, refreshTerminals, WriteCharacter | write, the log lines of every system call, the keyboard's echo |
| PCI, AHCI, boot, libraries | set up once or stateless | | |

**What is hard.** There is one CPU, and handlers are entered with interrupts off,
yet they are not atomic: `mem_set_cr3(..., true)` executes `sti`, so from the
first address-space switch of a system call on, the keyboard, and wherever IRQ 0
is not masked the timer, can interrupt it, and both save whatever runs into the
*current* task's `SavedRegisters`. A switch inside a handler returns on a kernel
stack with a frame that belongs to another task. Conversely `RegisterTask`
zeroes the slot and never sets `rflags`, so user programs run with IF = 0 and
are never interrupted between system calls. Other hazards: exit before or after
wait, a signal to a blocked task, a failing execve, a full task table, frame
reference counts over several forks, a free-frame search that fails, and the
ends of a fixed buffer. `PROJECT.json` lists each at its line.

**What makes each component correct.** Tasks: the current task is runnable and
its page tables are loaded; nothing is stuck in an intermediate state; every
program continues with its own registers; no wake-up is lost; READY tasks run.
Memory: no frame is handed out twice; programs never see each other's stores;
kernel frames stay out of reach; frames come back; the page tables the kernel changes
are the ones the processor uses. Loader: the program finds its image and its
arguments where it looks for them, and keeps them. Stubs: the handler sees the
registers that were interrupted and iretq goes back to them. Terminals: the screen
shows what was printed. Keyboard: the buffer is never
overrun and read gets the line that was typed. GemFS: every block in use is
marked and belongs to one file, also after a failed write. Floppy: a command
gets the result of its own IRQ.

The kernel at this commit calls `halt()` in `kernel_startup` (`kernel.c`, line
111) before tasks are started. The model begins where `SetUpShell` enters its
idle loop, the state all the code above is written for.

## 2. Modules

| Module | What it is |
|---|---|
| `Tasks` | task table, scheduler, scheduling system calls, signals, fatal faults, keyboard wake-up |
| `MCTasks` | the sets of system calls the runs of `Tasks` use |
| `SchedulerProofs` | type correctness of `Tasks`, the inductive invariant of the scheduler and the three safety theorems it gives |
| `ContextProofs` | registers, wake-ups, loaded address spaces and reads, proved on top of it |
| `PrivateMemory` | abstract: every program has a memory of its own |
| `CopyOnWrite` | frames, page tables, faults, fork, execve, exit; implements `PrivateMemory` |
| `CopyOnWriteProofs` | frame and reference-count bookkeeping, isolation and the refinement, proved |
| `LineEditor` | abstract: a line is typed, corrected and delivered |
| `Keyboard` | the driver's line buffer; implements `LineEditor` |
| `KeyboardProofs` | the buffer bounds and the refinement, proved |
| `FileTree` | abstract: a tree of names that grows, files that keep what is written to them |
| `GemFS` | formatting, power failures, path lookup, open, read and write; implements `FileTree` |
| `GemFSProofs` | where the format puts entries and files, who owns and what marks a block, proved |
| `MCGemFS` | the paths the run of `GemFS` opens; evaluates the hypotheses of the proofs |
| `Floppy` | the floppy driver, its DMA channel and the controller |
| `FloppyProofs` | the addressing, what a transfer may touch and what it moves, proved |
| `PageTables` | the E820 scan, the frame table, page tables, malloc: operators on a memory |
| `Programs` | the loader, fork, execve, the end of a program and faults outside its region, composed from `PageTables` |
| `MCPrograms` | a memory map, four executables and the addresses the run of `Programs` touches |
| `InterruptStubs` | the assembly stubs instruction by instruction on the kernel's stacks |
| `StubProofs` | what every stub pushes, leaves to its handler and pops, proved for any depth of interrupts |
| `Terminal` | virtualprint and refreshTerminals, interrupted by the keyboard |
| `MCTerminal` | the texts the run of `Terminal` prints; evaluates a hypothesis of the proofs |
| `TerminalProofs` | where virtualprint copies and refreshTerminals reads, proved |

Operators ending in `_Something` directly above a definition (for example
`Reaped_NotZeroed`) are faulty variants of it, used to confirm that the
properties would notice that fault.

### Tasks

| Variable | In the code |
|---|---|
| `TaskManager` | `TaskManager[]`: Exists, states and reasons, UsedTicks, Base_PML4, UserTSS.rsp0, Owner_PID, the SIGCHD descriptor, SavedRegisters |
| `cur_pid`, `cr3`, `tss` | `cur_pid`, CR3 / `PML4_Physical`, the active TSS's rsp0 |
| `frame` | the registers the CPU runs on |
| `kstack` | per kernel stack: the return frame and the locals of the handler on it |
| `sigstack` | frames EstablishSignalStack pushed, per address space |
| `next_pml4` | the next result of Create_User_Memory |
| `freed`, `halted` | address spaces zeroed by free_task_memory; KernelPanic |

A register frame is abstracted to *whose* it is: a program (named by its address
space), the idle loop, or a point inside a handler on some kernel stack. Of a program's
frame `r8` is kept apart (it stands for r8 and rflags): signals.c pushes and pops
every register but these two, so `PoppedFrame` has what the handler left in them. A
handler is one action, except at five points where an interrupt changes what it
uses next: `entry`, `block`, `exec`, `switch`, `return` (the header of `Tasks`
names the lines). The constant `Windows` says at which of them interrupts are
considered. So `SyscallEntry; Read; GiveUpCPU; SwitchIn; InterruptReturn` is a
read(STD_IN_FD). `Fork`, `Execve`/`BadExecve`, `ExecReturn`, `Exit`, `Wait`,
`Sigreg`, `Sigret`, `TimerInterrupt`, `KeyPressed`, `EnterPressed`,
`PageFaultKill`, `GeneralProtectionFault` and `InvalidOpcode` are the handlers
of those names; `FaultAsTask0` is the panic of the last two when `cur_pid` is 0, which a
program gets to that runs on after it was killed. The file calls are `OtherSyscall`: they return to the caller.

`BadExecve` is an executable file whose ELF header is rejected. `InvalidOpcode`
includes the cascade its stub causes: the stub leaves the dummy error code on
the stack, so iretq faults in the kernel until task 0 is current and the kernel
panics.

### CopyOnWrite

`phys_frames` (used and kernel flags, refcount), `content` of each frame, `pt`
(one entry per page and address space), `PageCount`, the address spaces `live`
and `next_proc`. `PageFault` is HandlePageFault inside the task's region
(`CopyFrame`, `DemandPage`); `UserStore` is a store that does not fault;
`KernelStore` is the kernel's memcpy into a user buffer, which faults on absent
pages only since CR0.WP is never set; `Fork`, `Execve` and `Exit` are those
calls' effect on memory. These handlers use `mem_set_cr3(..., false)`, so each is
one action. `Habits` says what programs of a run do beyond storing into their
own data: fork again after a copy, have the kernel write into shared pages,
store into read-only pages, execve. In the model, as in the code, a store into a
read-only page of the program that is not shared gets a fresh blank page;
the repository does not say what it should get, so no property is about it.

### Keyboard

`key_buffer` is modelled with a few bytes beyond its end, so that an overrun is a
visible write. One action per kind of key; a letter key stands for every key
with a character. `reader` is the byte count of the read that waits.

### GemFS

| Variable | In the code |
|---|---|
| `disk` | the blocks of the partition, each read both as an entry and as file data |
| `chain` | the blocks `Next_Index_Start` leads through: entry i is in `chain[i]` |
| `fbb` | the free-block bitmap in block 4 |
| `pc`, `at`, `made` | where the kernel is in the format, its locals, the indexes returned so far |
| `fd`, `bounce` | `gemfs_index` of the descriptor in use, `bounce_buffer` |
| `io` | the last call of a program and its result |

`Layout` is the list of the mkdir and CreateFile calls of GemFS_FormatPartition.
Every disk write of a call is one action, in the code's order: `MarkData`
(blocks of a file), `CreateEntry`, `LinkEntry`, `BlankEntry` (the entry
FindFreeEntry appends by reading past the end), `Claim`, `AddSibling`,
`WriteNewEntry`, `WriteParent`, then `WriteStart` and `WriteHome` or
`WriteMessage` for files. `PowerFailure` can come between any two of them, and
`Boot` looks only for the magic number `WriteMain` wrote first, so a half-made
tree is then served. A file whose entry the power failure left without Start and Size has no blocks: the
write of no sectors is then one of 128, from block 0 of the partition on (`Wiped`).
What the kernel makes of the zeros it leaves there is not modelled; `WritesEmpty` says
whether programs make that write. `Lengths` are within bounce_buffer (8 sectors): longer reads
and writes run over the kernel's memory behind it (`syscall.c` 100, 126).
Two uninitialised values are nondeterministic:
`Sibling_Index` of a blank entry (`Garbage`) and the first component in
GemFS_Directory_to_Index (`terminated`). The refinement mapping reads the
tree and the files' blocks off the disk the way a lookup walks it.

### Floppy

A request (`Request`: FLOPPY_Read_LBA, FLOPPY_Write_LBA) is served by one or more
commands: `ProgramDMA` fills the bounce buffer, programs the channel and clears
`floppy_result_ready`; `Send_Command` sends one byte; the controller, which is
external, moves the bytes and raises IRQ 6 (`Execute`); `FLOPPY_IRQ` sets the
flag; `Finish` reads the result bytes, checks ST1, copies what was read and goes
on or returns. Data are bytes, the arithmetic is the code's (`Rest`, `Copied`,
`DMACount`, `ISA_DMA_Transfer`, whose counter wraps around when there are no bytes).
`Counts` are the sectors of a request: none, up to one buffer, more. `Statuses` is what the controller may report,
`Slow` whether it can be unready for a byte. FLOPPY_Send_Command's loop means to
wait for that, but `!=` binds tighter than `&`, so it waits for nothing; the
model sends the byte in any case.

`GemFS` is not composed with `Floppy`: it takes a disk access for the transfer of
whole blocks, but for the write of none. No field of an entry is in the last byte of its
block, which reads lose; file data is.

### PageTables and Programs

`PageTables` describes a memory as a record: `flags` and `refcount` are
`phys_frames`, `ram` the words of every frame, `dm` the frame behind each page
above VIRTUAL_MEMORY_BARRIER, `PageCount` the kernel task's. Its operators go
from one memory to the next; `Programs` holds the memory in `mem`, the slots in
`tasks`, and composes them into one action per handler: `SetUpShell`, `Fork`,
`Execve`, `Exit`, `HandlePageFault`. `Exit` is what ForceSwitch makes of a task in
KILL_PROCESS_STATE: it zeroes the slot and gives nothing back. Only execve and the fatal page
fault free page tables; the branch of TimerInterrupt that would (114-119) runs for no
task, because ForceSwitch has zeroed the slot before any tick. They run with interrupts off while they change
memory, or with only the keyboard on, which allocates nothing.

Four levels of page tables become two: `EnsureEntry` is applied once where the code
applies it three times, so a table costs one frame instead of three. Page
tables are words in `ram` that the kernel reaches through `dm` (`Reach`) and the
processor directly (`Translate`): that these agree is a property
(`TablesReachable`) and not a premise. `malloc` maps the page after the last one
it gave out, and that page is part of the range InitMem mapped.

A file is a function of offsets, a segment's file part is read by sectors as the
loader does, the argument stack is pushed word by word. Every read of the drive leaves its
last byte out (`Cut`, as `Floppy` shows): a segment that starts inside a sector, or ends with
one, lacks a byte of its file part. `Touched` are addresses
outside the region: one on the stack's second page, one four pages below, one
that ends the program.

### InterruptStubs

`reg` are the registers, `ram` four stacks: TSS.rsp0, two stacks of the
interrupt stack table, the one the kernel started on. `Code(v)` is stub v as a
list of instructions; `Interrupt` is what the processor pushes in 64-bit mode,
SS and RSP always, on the stack of the gate, aligned to 16 bytes, with any error code
the exception can have (`ErrorCodes`: of #GP the selector a program tried to
load, one of `Selectors`). `Handler` is the
C function: it may use the registers it may use, turn interrupts on (`TurnOn`)
and rewrite the structure as task_switch does. `owed` is what each interrupt in
progress has to go back to and `called` what the handler was given; both only
record.

The stub of the invalid opcode is left out of the run: it pops a word too few
(see below). The stub of the panic never returns.

check_cpl looks at the saved rip, check_cpl_err at the error code, where they mean the
saved CS. No rip is 8, so frames "from kernel" are never rearranged, and that is what makes
the stubs work: with CS tested, every interrupt of the kernel would be moved by
five words it already has (the fault the run's mutant introduces). The error code can be 8:
a program that loads selector 8 raises #GP(8), check_cpl_err moves the frame, and both the
handler and iretq get it wrong (see the divergences). The run and the proofs leave out this one
selector (`Returning`).

### Terminal

`terms` are the two terminals with their `bytes` and `lastPos`, `screen` the VGA
page by offset. `Check`, `Copy`, `Add` and one `Draw` per cell are the virtualprint
of a system call; `Echo` is the whole virtualprint of the keyboard handler, which
can come between any two of them, and refreshes the screen itself. lastPos is not
volatile, so `Copy` and `Add` may use the value of the check or read it again.
What `print` draws before virtualprint the refresh clears.

## 3. Runs

All bounds are constants of the modules: `TASK_COUNT` (512), `MaxPML4`,
`MaxProc`, `MaxPage`, `FrameCount` (unbounded or machine-dependent), `SIZE` (256), `TAB`
(4), and quanta (5 and 20 ticks). Quanta of 0 or 1 tick suffice because only
whether the quantum is over matters. Three or four slots give the idle task, the
shell, a child and a grandchild (or a full table); three address spaces give a
program, its child and its grandchild or successor.

**Passing**

| Run | Instance | Shows |
|---|---|---|
| `tasks_structure` | 3 slots, 3 spaces, all calls, page faults, invalid opcodes, interrupts at block/exec/switch | `TypeOK`, `CurrentIsRunnable`, `NoTaskInLimbo`, `PrivateAddressSpaces` |
| `tasks_contexts` | 4 slots, all calls but wait and execve of a rejected file, page faults, interrupts at block | `ContextIntegrity`: programs continue where they were interrupted and with their own registers, r8 and rflags excepted; `LoadedSpaceIntact`: CR3 never holds zeroed tables |
| `tasks_wakeups` | 4 slots, fork, wait, signals, interrupts in the switch | `NoLostWakeup`, `ReadReturnsALine` |
| `tasks_fair` | 4 slots, programs that fork, read and exit, general protection faults, which end in a panic if a killed program raises another as task 0 | `ReadyTasksRun`: if each task gives the CPU up again and the kernel task lives, every READY task runs |
| `cow_isolation` | 3 address spaces, 4 pages, 13 frames, execve | `CowTypeOK`, `MappedFramesAreUsed`, `WritableIsExclusive`, `ImplementsPrivateMemory` |
| `keyboard_bounds` | 5 bytes, tab of 2, letters, tab, backspace and ENTER, reads of 0, 2 and 9 bytes | `KbTypeOK`, `NoOverrun` |
| `floppy_transfer` | 2 cylinders, 2 heads, 3 sectors of 2 bytes, a bounce buffer of 4 sectors; two requests of 0, 1, 3, 4, 5 or 8 sectors anywhere; ST1 0, 0x02, 0x40, 0x80 | `FloppyTypeOK`, `WrittenThrough`, `ReadAllButLast`, `OnlyRequested`, `TransfersEnd` |
| `gemfs_tree` | 48 blocks in the bitmap, 60 on the disk, programs of 3 blocks, a bounce buffer of 2; power failures from the second call of the format on; programs open 4 paths, read, write the boot message once it is finished and try to write directories | `GemTypeOK`, `NoSharedBlocks`, `UsedBlocksMarked`, `ImplementsFileTree` |
| `program_load` | 112 frames, pages of 8 words, sectors of 4, an E820 map with a hole; 3 slots, 3 address spaces, 4 executables, one that starts inside a sector and a page | `ProgTypeOK`, `NoFrameTwice`, `ImageLoaded`, `ArgvOnStack`, `StackMapped`, `MappingsKept` |
| `interrupt_stubs` | eight gates, an interrupt inside every stub, from a program and from the idle loop, every error code of a page fault and those of #GP for selectors 0 and 16 | `StubTypeOK`, `HandlerSeesFrame`, `ReturnsToFrame` |
| `terminals` | a screen of 4 by 3, four texts of 1 to 4 characters or keys, among them newline, tab and backspace | `TermTypeOK`, `CopyInBytes`, `ScreenShows` |
| `keyboard_line` | the same buffer; letters, shift, caps lock, backspace on a non-empty line, ENTER | `ImplementsLineEditor`: read gets the line that was typed |

A passing run leaves out exactly those calls, windows or inputs with which the property
fails, as the table below shows. Where a property fails for some inputs of a run, its
statement names them: `WrittenThrough` and `ReadAllButLast` are about requests of at most one buffer,
`OnlyRequested` about those of at least one sector, `ImageLoaded` about all words but the
last one of a read. They stay in the run all the same, for what they leave behind. Thirteen frames are one more
than three programs of four pages have page table entries, so `cow_isolation`
never runs out of them; it is also the hypothesis of the theorems. The format takes
34 of the 48 blocks of `gemfs_tree`, with the shell's image at block 44, as it
takes 52 of 512 in the code, with the shell at 476; a program file is larger
than the bounce buffer, as 9 blocks are than 8. In `floppy_transfer` requests
cross heads and cylinders, fill the bounce buffer exactly (128 sectors in the
code), exceed it by a rest and by a whole buffer, and name no sector; the second request meets what the first left behind. `program_load` uses three
address spaces, a program with its child or successor and one more; the frames
suffice for all of them, and the run's pages of malloc stay below the page tables
(with a fourth space they do not, see `TablesReachable` in the table below). In `interrupt_stubs` a stack of 56 words
holds two frames of a stub; deeper nesting is what `StubProofs` proves. In `terminals` four texts fill a terminal of
six cells and go over its end, once with a key between the test and the copy.
Deadlock checking
is off where the system may stop: the kernel panics, a program resumes with
registers that are not its own (such a frame has no further behaviour in the
model), every program exits, the key buffer is full and nobody reads, or the requests
of `floppy_transfer` are served.

**Divergences.** TLC finds each of these properties violated with the constants
given; no configuration is kept for them. For `Tasks` take `TASK_COUNT = 4`, `MaxPML4 = 3`, quanta 0, `Spec`, no faults and
no windows unless said; for `CopyOnWrite` those of `cow_isolation`; for
`Keyboard` those of `keyboard_line`, for `GemFS` those of `gemfs_tree`,
for `Floppy` those of `floppy_transfer`, for `Programs` those of `program_load`,
for `InterruptStubs` those of `interrupt_stubs`.

| Property | Constants | What the code does |
|---|---|---|
| `ContextIntegrity` | Ops `{"other", "fork"}`, Faults `{"gpf"}` | a program killed by #GP runs on, in another task's slot (`Exceptions.c` 157) |
| `ContextIntegrity` | Ops `{"fork", "read", "exit"}`, Windows `{"switch"}` | a key inside task_switch replaces the next program's registers (`Timer.c` 35) |
| `ContextIntegrity` | Ops `{"execve", "other"}`, Windows `{"exec"}` | a key inside execve replaces the new program's registers (`syscall.c` 274) |
| `ContextIntegrity` | Ops `{"exit", "execve", "wait", "read", "sigreg", "other"}`, Windows `{"return"}`, quanta 1 | a tick before iretq leaves a task's frame on another task's kernel stack (`syscall.c` 399) |
| `ContextIntegrity` | Ops `{"exit", "fork", "wait"}` | "used when an interrupt is triggered from userland" (`Memory.h` 114): wait saves the next task's registers as the caller's (`syscall.c` 302, 398) |
| `ContextIntegrity` | `TASK_COUNT = 3`, Ops `{"fork"}` | the shell's second fork, with a full table, replaces the address space in its own slot and goes on with its old registers (`Tasks.c` 325) |
| `NoLostWakeup` | `TASK_COUNT = 3`, `MaxPML4 = 4`, Ops `{"exit", "fork", "wait", "sigreg", "read"}` | the same: a task that was waited for is replaced (`Tasks.c` 325) |
| `NoLostWakeup` | Ops `{"fork", "wait", "sigreg"}`, Faults `{"pf"}` | a fatal page fault sends no SIGCHD: a parent in wait for any other reason than CHILD_WAIT_EXIT is not woken, as exit would (`Exceptions.c` 63-64) |
| `CurrentIsRunnable` | all calls, Windows `{"entry"}` | a tick at the entry of a call, then a call of a relative on the same kernel stack |
| `ReadReturnsALine` | Ops `{"read", "other"}`, Windows `{"block"}` | ENTER during read's last steps is lost and read returns (`syscall.c` 118) |
| `ReadReturnsALine` | Ops `{"exit", "fork", "read", "sigreg", "sigret"}` | SIGCHD ends a read without a line (`signals.c` 138) |
| `LoadedSpaceIntact` | Ops `{"badexec", "other"}` | execve of a rejected file leaves zeroed page tables in use (`syscall.c` 270) |
| `PrivateKernelStacks` | Ops `{"fork", "read"}` | "create a new kernel stack for the child." (`syscall.c` 222) goes into MemoryData only: parent and child have the same stack in their TSS |
| `FaultKillsOnlyItself` | Ops `{"other", "fork"}`, Faults `{"ud"}` | "kill the task that the opcode originated from" (`Exceptions.c` 169): the stub leaves a word on the stack, its iretq faults in the kernel and other tasks die until it panics (`interrupt_stubs.s` 179-200) |
| `ForkTakesAFreeSlot` | `TASK_COUNT = 3`, `MaxPML4 = 4`, Ops `{"fork", "read"}` | fork with a full table replaces task 1 (`Tasks.c` 325) |
| `SignalsKeepRegisters` | Ops `{"exit", "fork", "sigreg", "sigret"}` | "Push order of signal stack", with r8 between rdi and r9 (`signals.c` 4-20): r8 is neither pushed nor popped, nor is rflags, so a program goes on with what its handler left in them (`signals.c` 35-50, 98-113) |
| `EveryReadyTaskRuns` | `FairSpec`, Ops `{"fork", "read", "exit"}` | a program that makes no call keeps the CPU: RegisterTask leaves IF clear (`Tasks.c` 334) |
| `WaitEnds` | `FairSpec`, Ops `{"exit", "fork", "wait"}` | wait without a SIGCHD handler never ends (`syscall.c` 53) |
| `ImplementsPrivateMemory` | Habits `{"kernel"}` | the kernel's memcpy writes through copy-on-write (`syscall.c` 127) |
| `WritableIsExclusive` | Habits `{"refork"}` | phys_frames "keeps track of how many times a physical page is referenced" (`Memory.h` 176): a copied frame keeps refcount 0, so after a later fork the first store opens it for both (`Exceptions.c` 95-103) |
| `UserFramesOnly` | Habits `{}`, `FrameCount = 3` | with no free frame, frame 0 becomes user memory (`Exceptions.c` 95) |
| `KernelFramesIntact` | Habits `{"exec"}`, `MaxPage = 4` | fork marks absent pages CoW; a kernel copy then writes frame 0 (`syscall.c` 172) |
| `FramesReclaimed` | Habits `{}` | frames of an exited program stay used (`syscall.c` 54) |
| `ImplementsLineEditor` | Keys `{"letter", "tab", "enter"}` | a tab leaves a stale byte in the line and loses its last space (`Keyboard.c` 102) |
| `ImplementsLineEditor` | Keys `{"letter", "backspace", "backspace_empty", "enter"}` | backspace on an empty line is stored as input (`Keyboard.c` 101) |
| `TreeComplete` | | a format cut short is never completed: the magic number is written first (`gemfs.c` 43) |
| `ImplementsFileTree` | FirstFailure `1` | with an empty root every path opens the root (`gemfs.c` 317) |
| `LookupsReturn`, `ImplementsFileTree` | Garbage `{0, 1}` | a sibling is linked before its entry is written: lookups follow uninitialised indexes, for ever if they form a circle (`gemfs.c` 208, 635) |
| `OpenFinds` | | the first component of a path is compared with uninitialised bytes behind it (`gemfs.c` 369) |
| `ImplementsFileTree` | Written `{"shell.elf"}` | a write of one block replaces all blocks of the file, those beyond the bounce buffer with whatever follows it in memory (`gemfs.c` 282) |
| `ImplementsFileTree` | WritesEmpty `TRUE` | after a power failure before its Start and Size are written, boot_msg.txt is a file of no blocks: a write to it zeroes boot sector, entries and bitmap from block 0 of the partition on (`gemfs.c` 282, `ISA_DMA.h` 199) |
| `ReadComplete` | | "0 on success" (`Floppy.c` 268-270): a read leaves the last byte of the buffer zero, the count is reduced by one twice (`Floppy.c` 354, `ISA_DMA.h` 48) |
| `TablesReachable` | MaxSpaces `4` | "map all of physical memory into kernel space" (`Memory.c` 133): malloc maps its pages into that range, over page tables in use; with 1 GiB after some 160 address spaces (`Memory.c` 479-504) |
| `ImageComplete` | | the loader takes a read for exact: a segment that starts inside a sector, or ends with one, lacks the last byte of each part (`Tasks.c` 587-601, `Floppy.c` 354) |
| `HandlerSeesFrame`, `ReturnsToFrame` | Selectors `{8}` | "from kernel, shift the interrupt frame by 3 quads" (`interrupt_stubs.s` 103): check_cpl_err compares the error code, and #GP(8) comes from a program that loads selector 8 |
| `StubTypeOK` | Vectors with `"invalid_opcode"` | the stub of the invalid opcode does not skip its dummy error code, iretq pops one word off (`interrupt_stubs.s` 179-200) |
| `TransfersEnd` | Slow `TRUE` | "wait for MSR.RQM to be 1 and MSR.DIO to be 0" (`Floppy.c` 74) is not what the next line does: a byte may be lost and the driver waits for ever |
| `EmptyWritesNothing` | Counts `{0, 1}` | a request of no sectors gives the DMA channel a count of 65535, the whole buffer is written (`Floppy.c` 487, `ISA_DMA.h` 199) |
| `Written` | Counts `{5}` | beyond 64 KiB every command starts at the first sector and moves the rest only (`Floppy.c` 295, 429) |
| `WrittenThrough`, `ReadAllButLast` | Statuses `{16}` | an overrun is reported in bit 0x10 of ST1, the driver tests 0x40: the transfer counts as done (`Floppy.c` 503) |

**Read off the code while modelling it**, and part of the model, without a property
of their own:

- `Memory.c`: total_mem is twice the memory there is, Enumerate_E820 being called
  twice (134, 164); the last descriptor is skipped (663); the first page of a
  reserved range is not marked and the one behind it is (678); nothing ever sets
  the DIRTY bit; free_page returns early for nearly every frame (436), so page tables
  and kernel stacks of ended programs never come back.
- `Tasks.c`: `.bss` starts with what follows the file part in its last sector, for
  whole sectors are read and nothing is zeroed (596-601); a file part shorter than
  the rest of its first sector makes `remaining_bytes` wrap around (596); a page
  shared by two segments loses the first's part; execve passes argc 0 and does
  not reset PageCount, so the region grows with every execve.
- `Exceptions.c`: a touch three or four pages below the stack maps a page that
  fork does not copy and that the stack's growth later replaces (115-133).
  mem_access_ok refuses the base address of the region itself.
- `terminal.c`: an echo between the copy and the update of lastPos, or before a copy
  that uses the old one, is lost; a text longer than what is left goes to the
  beginning and lastPos stays 0, so the next one overwrites it; a newline
  counts as a row in `tlen`, so a terminal is wiped after some 15 short lines;
  a tab takes three columns, or four after a newline; a backspace in the first column
  writes to column 255; a key that overwrites a backspace while the screen is
  drawn leaves a column blank until the next print; the row below the last one is
  drawn (`>`, 78).
- `interrupt_stubs.s`: sync_time and ahci push no error code, so the structure
  is one word off there; their handlers do not read it.

**Fairness.** `FairSpec` assumes that the timer goes on ticking and that a
handler that has begun runs on (`WF` on `TimerInterrupt` and `SyscallStep`): the
PIT is periodic, and a handler is ordinary code. Nothing is assumed of programs
or of the user at the keyboard. Under it `EveryReadyTaskRuns` and `WaitEnds` fail (see above):
a program is never interrupted, and the round robin falls back on task 0. `ReadyTasksRun` says
what the scheduler does contribute: in every fair behaviour in which each task that has the
CPU leaves it again (`ProgramsGiveWay`, which is all the missing IF flag takes away) and the
kernel task stays READY and does not panic (`KernelLives`), no READY task is passed over
for ever. These two are premises of the property, not fairness the code provides.
`FloppySpec` assumes that the driver's code runs on, that the controller ends a
command it has received and that its interrupt is delivered: the driver waits
with interrupts on. Nothing is assumed of callers.

## 4. Proofs

Every theorem holds for all values of the constants that satisfy the named
assumptions of the component's module. A hypothesis on `Ops`, `Faults`, `Windows`,
`Habits`, `Counts` or `Statuses` excludes behaviour for which a row of the table
above shows that the property, or a part of its invariant, fails in the code.

**Scheduler.** `SchedulerProofs!TypeCorrect`: `Spec => []TypeOK`, for every table size,
workload and set of windows, one lemma per kind of action.
`SchedulerProofs!CurrentRunnable`, `NoLimbo` and `SpacesPrivate`: if no general
protection fault is raised and interrupts land only at `block` and `switch`, then
`CurrentIsRunnable`, `NoTaskInLimbo` and `PrivateAddressSpaces` always hold. None
is inductive alone: that task 0 stays READY depends on whose registers the
handlers were entered with, and that two tasks never share page tables depends on
which address spaces are still unused. `SchedInv` adds
- `TableInv`: every slot that exists is READY or waits for a reason, saved frames
  are user, idle or switch points, no two slots share a space and all are below
  `next_pml4`, except for the slot a handler is working on;
- `CurrentInv`: CR3, the TSS and the running frame fit the current task;
- `HandlerInv`: the activation a handler runs on was entered by the task it
  serves, and task 0 makes no system call;
- `StacksInv`: the return frames on all kernel stacks fit their tasks.

**Contexts, wake-ups, reads** (`ContextProofs`). First, for each action, what it does to
each slot of the table; then four invariants, each inductive only together with
`SchedInv`:
- `FreedInv`, for `LoadedIntact` (`LoadedSpaceIntact`): freed address spaces are
  below `next_pml4` and no slot has one. Hypothesis: no rejected execve.
- `ContextInv`, for `ContextsIntact` (`ContextIntegrity`): registers on their way
  through the kernel (saved in a slot, running, in the frame a handler will
  return with, pushed on a user stack below a signal handler) belong to the program that
  will get them; r8 and rflags are not part of it. Hypotheses: keys only at `block`, no fault but the page fault, no wait.
- `WakeInv`, for `WakeupsKept` (`NoLostWakeup`): a slot without a task has no owner,
  execve's copy of the owner is right, and who waits has a child. Hypothesis: no fault.
- `LineInv`, for `LineReturnedByRead` (`ReadReturnsALine`): the mark read leaves on
  its registers is only in the slot of a task that waits for input. Hypotheses:
  no key at `block`, no sigret.

`ContextsIntact` and `WakeupsKept` are about behaviours in which fork always finds a
free slot (`[]RoomToFork`), for a fork without one replaces task 1. The versions
`...WithinTable` need no such premise: when the table has more slots than address
spaces will ever be created, one is free (`SlotFree`, by counting: the spaces of
tasks differ and are below `next_pml4`).

**Keyboard** (`KeyboardProofs`). `KbTypeCorrect`, and `BufferSafe`: the driver never
writes past `key_buffer`, for every size and tab width. `LineDelivered`: without
tabs and backspaces on an empty line it implements `LineEditor`, for every size and
byte count; one lemma per key shows which step of the editor it is.

**Copy-on-write** (`CopyOnWriteProofs`). `CowTypeCorrect` has no hypothesis: types are kept
by any programs with any number of frames, also when FindNextFreePhysical finds
none and returns 0. `MappedUsed` (`MappedFramesAreUsed`) and `WritablePrivate` are for
more frames than page table entries and programs without the habits "refork" and "text", for
the reasons that follow. `WritableIsExclusive`
is not inductive: whether HandlePageFault may open a frame in place depends on its refcount, which
the code does not keep equal to the number of page table entries (a copy has
refcount 0, entries of ended programs are counted on). `CowInv` therefore says how far off it may be
(`RefcountInv`: too small only for a frame named once), which frames are in use
(`FramesInv`), what an entry can look like (`EntriesInv`), that a frame in a writable entry
is in no other (`ExclusiveInv`) and that spaces not yet created are empty (`SpacesInv`).
HandlePageFault does not test whether FindNextFreePhysical found a frame, so the
invariant also needs that it does: `AccountInv` (a used frame is named) and
counting entries give it when there are more frames than entries
(`FrameCount > MaxProc * MaxPage`). With stores into read-only pages frames are
lost and no number is enough; `WritablePrivateWithRoom` then has the premise that
no copy is made without a free frame. Programs that fork again after a copy
("refork") are excluded: the property fails. `PrivateMemoryImplemented`: for
programs that store only into writable pages, the page tables and the fault
handler implement `PrivateMemory`; a fault is a stutter, every other action the abstract
action of its name.

**Floppy** (`FloppyProofs`). `SectorAddress`: LBA_To_CHS and the controller's
addressing are inverse for every geometry. `FloppyTypeCorrect`, and
`MediumOnlyRequested` (`OnlyRequested`): whatever the controller reports and however long
the request, the medium changes only inside the sectors a write in progress names, and to the
caller's bytes, if it names one at all.
`WritesThrough` and `ReadsAllButLast`: a call of at most one buffer that returns 0 has moved its
bytes, whatever the calls before it were, if every error the controller reports is
one the driver tests (`OnlyFatal`). `FloppyInv` follows a command through its
phases: `floppy_result_ready` stands for the interrupt of this command only
(`PhaseInv`), and the channel and the bounce buffer are what it was programmed with (`DmaInv`).

**GemFS** (`GemFSProofs`). `GemTypeCorrect`, `BlocksPrivate` (`NoSharedBlocks`) and
`BlocksMarked` (`UsedBlocksMarked`), for every size of disk, program and buffer, with a power
failure after any disk write and any calls of programs after it. None of the three is
inductive: GemFS_CreateFile looks for one free block and marks those that follow it unseen,
so one has to know that everything marked is below the first free block. `GemInv`
therefore says where the format puts things (`Base`, `EntryBlock`: entry i is behind the blocks of the
i-th call's file), that the bitmap is an initial segment and how far it reaches at each
disk write (`MarkedBelow` in `DataInv`, `FindInv`, `LinkInv`, `WriteInv`), that blocks
not yet marked are zeros (`ChainInv`), and that an entry is either blank (`Raw`) or `Finished`:
its links stay inside the chain, and its blocks are the marked ones or the program's home. A new
sibling is written into the last child; that the walk finds it is `ChildAscends`: the
siblings of finished entries have growing indexes (`Unlinked`: none leads to the entry
being made). Facts about the recursive walks and paths are proved by smallest
counterexample (`Induction`) and from the existence of the function (`IterateExists`).
The hypotheses (`GemHypotheses`, which TLC evaluates on `gemfs_tree`): the scan of the
bitmap covers what the format marks and the programs of the image lie behind it, apart from
each other, programs write to finished files only (`~WritesEmpty`; the write to one without
blocks destroys what all three say) (512 blocks, 52 marked, programs at 476, 576 and 776), bounce_buffer is not longer
than a program (8 and 9 blocks), paths name files only at their end, and an
uninitialised `Sibling_Index` is 0 or 1. A larger one leads a lookup past the last
entry, which then creates entries (section 5).

**Terminal** (`TerminalProofs`). `CopyStaysInBytes` (`CopyInBytes`): whatever key is echoed
between virtualprint's test of lastPos, its copy and its update, the copy stays
within `bytes`, on a screen of any size and for all texts that fit half of it
(`TextsFit`; 128 characters and 40 * 25 cells). The test is stale by then and lastPos
may be one text past the half; `PrintInv` bounds it at each step. `TermTypeCorrect`
(`TermTypeOK`): refreshTerminals, which never tests where it reads, does not leave
`bytes`. `DrawInv` says why: it has read no more characters than it has passed cells.
A backspace goes back a cell and on to the next character, so the theorem excludes it
(`NoBackspace`); with backspaces only the run shows it.

**Interrupt stubs** (`StubProofs`). `StubsTypeCorrect` (`StubTypeOK`), `HandlersSeeFrame`
(`HandlerSeesFrame`) and `iretqReturnsToFrame` (`ReturnsToFrame`): for every set of gates
without the invalid opcode's and any error codes but 8 (`Returning`: that stub leaves its error
code, and check_cpl_err takes an 8 for the kernel's CS, see the table above) and any number of interrupts inside one another, as long as the stacks hold them.
`InterruptStubsAssumption` says how much that is: 26 words each, 24 for a stub and two
the alignment may skip, of the 2560 a kernel stack has in the code. What a handler sees
says nothing of the words between two stubs, so the invariant describes the stacks:
- `LevelAt`: a stub at a given instruction has the frame, the error code and the registers
  pushed so far in their words, counted from the top of its part of the stack (`Depth` is
  the table of how many they are), and the others still, or again, in the processor;
- `LevelsInv`: this holds of the running stub and of each one below it that will be
  returned to, with the registers it was interrupted with. When task_switch puts a
  program's registers into the structure, the stubs below are given up (`Alive`);
- `PlacesInv`: those stubs lie below one another on one stack, except for sync_time, which
  has IST1 to itself because its handler never turns interrupts on; so no push reaches
  the words of another (`WordsApart`, `StubsNest`).
`StubContinues` goes through the code of a stub once for all gates, by the kind of the
instruction; `UnwoundIs` says that at the iretq only the frame is left.

**Only model-checked**: liveness (`ReadyTasksRun`, `TransfersEnd`), which the prover does
not do; `ImplementsFileTree`, the refinement of `GemFS`; `ScreenShows`, which compares
the screen with a second drawing; and `Programs`, whose operators
fold over segments, pages and descriptors: what a fold computes for every input
needs induction over data.

## 5. Not modelled

- kmalloc, kfree, userMalloc, userFree, alloc_page_no_invlpg, the ownership of
  the screen: nothing calls them. malloc_specific, which only AHCI calls.
- Colours, the terminals' title row, and what `print` draws (cleared by the next
  refresh); VGA's boxes and dividers.
- In GemFS: what a kernel does with a partition that a write of no blocks has zeroed, reads
  and writes longer than bounce_buffer, lookups through a file (its first block number is then taken for an
  entry index and entries are created up to it), a full disk (the format cannot
  fill it, and no system call creates files), several partitions, getdents, and
  the descriptor table: programs use one descriptor at a time. Block 4 is zeros
  in the image; the format does not clear it.
- In the floppy driver: motor and drive selection, Configure, Get_Version.
- Page faults on kernel addresses: InitMem maps all of them that the kernel uses.
- An image that does not fit the assumptions of `Programs`: segments that share a
  page, or a file part shorter than the rest of its first sector.
- Interrupts inside EstablishSignalStack, inside the GPF and UD handlers, and
  nested ones inside the keyboard handler after its own `sti`.
- PCI, AHCI, boot code, printing, string routines: set-up or output only.

## 6. Plan

1. `Tasks`, `CopyOnWrite`, `Keyboard` with their runs and first proofs (done).
2. `GemFS` and `FileTree` (done, except for what section 5 names).
3. `Floppy` (done).
4. `PageTables`, `Programs`, `InterruptStubs`, `Terminal` (done).
5. File descriptors across fork and execve, composed with `Tasks`.
6. Proofs: all invariants of `Tasks`, `Keyboard`, `CopyOnWrite`, `Floppy` and `GemFS`,
   all of `InterruptStubs`, the bounds of `Terminal`, the refinements of `LineEditor` and
   `PrivateMemory` (done). Left: that `GemFS` implements `FileTree`, `NoFrameTwice`.
