------------------------------ MODULE Programs ------------------------------
(***************************************************************************)
(* How programs come into memory and leave it: the ELF loader and its      *)
(* argument stack (Tasks.c), the memory side of fork and execve            *)
(* (syscall.c), of exit (Timer.c) and of a fault outside the program's     *)
(* region (Exceptions.c), on the page tables of PageTables.                *)
(*                                                                         *)
(* Each handler runs with interrupts off while it changes memory, so it is *)
(* one action.  Which task runs, and when, is Tasks; faults inside the     *)
(* region, and what a store does to a shared page, are CopyOnWrite.        *)
(*                                                                         *)
(* Words: a page has TABLE of them, a sector of the drive SECTOR.  The     *)
(* word at offset o of program p's file is FileWord(p, o), on the drive    *)
(* followed by other data, so the file goes on past its end.               *)
(***************************************************************************)
EXTENDS PageTables

CONSTANTS
  SECTOR,          \* words of a sector
  STACK,           \* stack_base, 0x7FFF0000: a user page
  Executables,     \* PT_LOAD headers of each executable; the first is the shell's
  Touched,         \* user addresses programs touch outside their regions
  Pid,             \* slots of the task table, without the kernel's
  MaxSpaces        \* bound: address spaces created for tasks

\* Segments share no page and their file part, if it does not start with a
\* sector, reaches the end of its first one; the program's own executables
\* start every segment at a page.
ASSUME ProgramsAssumption ==
  /\ SECTOR \in Nat \ {0} /\ TABLE % SECTOR = 0
  /\ STACK \in 0 .. TABLE * TABLE - 1
  /\ Touched \subseteq 0 .. TABLE * TABLE * TABLE - 1
  /\ Pid \subseteq Nat /\ IsFiniteSet(Pid)
  /\ MaxSpaces \in Nat \ {0}
  /\ \A p \in DOMAIN Executables : \A h \in Range(Executables[p]) :
       /\ h.filesz <= h.memsz
       /\ h.offset % SECTOR = h.vaddr % SECTOR
       /\ h.offset % SECTOR > 0 => h.filesz >= SECTOR - (h.offset % SECTOR)

VARIABLES
  mem,     \* the memory, see PageTables
  tasks,   \* per slot: Base_PML4, MemoryData, and what runs in it
  spaces   \* address spaces created for tasks so far

progvars == <<mem, tasks, spaces>>

Exe == DOMAIN Executables

\* base, PageCount, StackPageCount and KernelStack are MemoryData; program
\* and argp (where the loader left argc) are what the task was started with.
NoTask == [Base_PML4 |-> None, base |-> 0, PageCount |-> 0, StackPageCount |-> 0,
           KernelStack |-> 0, program |-> 0, argc |-> 0, argp |-> 0]

Live == {t \in Pid : tasks[t].Base_PML4 # None}

FileWord(p, o) == 1 + p * TABLE * TABLE + o

----------------------------------------------------------------------------
(* The loader                                                              *)

\* A store to user address a, with the task's PML4 in CR3.
Store(m, root, a, w) ==
  [m EXCEPT !.ram[Translate(m, root, a \div TABLE)][a % TABLE] = w]

\* A word that does not have its last byte, which FLOPPY_Read_CHS leaves 0.
Cut == -2

\* What FLOPPY_Read_LBA puts into its buffer: sectors of the file, from
\* offset o on, all but the last byte.
FLOPPY_Read_LBA(p, o, sectors) ==
  [i \in 1 .. sectors * SECTOR |->
     IF i = sectors * SECTOR THEN Cut ELSE FileWord(p, o + i - 1)]

\* The words of a buffer, to address a.
Copy(m, root, a, buffer) ==
  FoldLeft(LAMBDA acc, i : Store(acc, root, a + i - 1, buffer[i]),
           m, [i \in 1 .. Len(buffer) |-> i])

PagesOf(h) == (h.vaddr + h.memsz + TABLE - 1) \div TABLE - h.vaddr \div TABLE

\* Mutant of ReadSegment: the sector with the head is read again.
ReadSegment_Again(m, root, p, h) ==
  LET head == h.offset % SECTOR
      first == IF head = 0 THEN 0 ELSE SECTOR - head
      scratch == FLOPPY_Read_LBA(p, h.offset - head, 1)
      sectors == (h.filesz - first + SECTOR - 1) \div SECTOR
  IN  Copy(Copy(m, root, h.vaddr, IF first = 0 THEN <<>> ELSE SubSeq(scratch, head + 1, SECTOR)),
           root, h.vaddr + first, FLOPPY_Read_LBA(p, h.offset - head, sectors))

\* The rest of the first sector, through scratch_buffer, then the sectors
\* that hold what remains, whole.
ReadSegment(m, root, p, h) ==
  LET head == h.offset % SECTOR
      first == IF head = 0 THEN 0 ELSE SECTOR - head
      scratch == FLOPPY_Read_LBA(p, h.offset - head, 1)
      sectors == (h.filesz - first + SECTOR - 1) \div SECTOR
  IN  Copy(Copy(m, root, h.vaddr, IF first = 0 THEN <<>> ELSE SubSeq(scratch, head + 1, SECTOR)),
           root, h.vaddr + first, FLOPPY_Read_LBA(p, h.offset + first, sectors))

LoadSegment(m, root, p, h) ==
  ReadSegment(FoldLeft(LAMBDA acc, i :
                         alloc_page(acc, root, h.vaddr \div TABLE + i, FindNextFreePhysical(acc)),
                       m, [i \in 1 .. PagesOf(h) |-> i - 1]),
              root, p, h)

\* The stack's page, zeroed, and the segments.
LoadImage(m, root, p) ==
  LET f == FindNextFreePhysical(m)
      stack == [alloc_page(m, root, STACK, f) EXCEPT !.ram[f] = Blank]
  IN  FoldLeft(LAMBDA acc, h : LoadSegment(acc, root, p, h), stack, Executables[p])

\* Five pages; the stack pointer is the last one, m.PageCount afterwards.
KernelStack(m) == FoldLeft(LAMBDA acc, i : malloc(acc), m, <<1, 2, 3, 4, 5>>)

\* A character, as the loader's argv has it; strings end with a 0.
Letter == -1

\* stack_base+4080 leaves two pointers' room at the top of the page.
StackTop == STACK * TABLE + TABLE - 2

\* Mutant of Pushes: argv is not ended by a null pointer.
Pushes_NoNull(argc) ==
  IF argc = 0 THEN <<0>> ELSE <<0, Letter, StackTop - 2, 1>>

\* What SetupTaskStack pushes: the strings, last byte first; argv, last
\* pointer first, with the null that ends it; argc.  LoadElf passes one
\* string, execve none.
Pushes(argc) ==
  IF argc = 0 THEN <<0, 0>> ELSE <<0, Letter, 0, StackTop - 2, 1>>

SetupTaskStack(m, root, argc) ==
  FoldLeft(LAMBDA acc, i : Store(acc, root, StackTop - i, Pushes(argc)[i]),
           m, [i \in 1 .. Len(Pushes(argc)) |-> i])

\* LoadElf and LoadElfStrict from mem_set_cr3(NewPML4) on.
Loaded(m, root, p, argc) ==
  SetupTaskStack(KernelStack(LoadImage(m, root, p)), root, argc)

\* The slot RegisterTask fills; before counts the pages its old program had.
Registered(m, root, p, argc, before) ==
  LET hs == Executables[p]
  IN  [Base_PML4 |-> root,
       base |-> FoldLeft(LAMBDA b, h : IF b = 0 THEN h.vaddr ELSE b, 0, hs),
       PageCount |-> FoldLeft(LAMBDA n, h : n + PagesOf(h), before, hs),
       StackPageCount |-> 1,
       KernelStack |-> m.PageCount,
       program |-> p,
       argc |-> argc,
       argp |-> StackTop - Len(Pushes(argc))]

----------------------------------------------------------------------------
(* fork                                                                    *)

\* The child gets page v of the parent; the parent gets a table for it if
\* it had none.  alloc_page refuses frame 0, what a page never mapped has.
Share(m, parent, child, v) ==
  LET walked == CalculatePagePhysicalEntryAddress(m, parent, v)
  IN  alloc_page(walked, child, v, walked.ram[EntryFrame(walked, parent, v)][v % TABLE])

\* Mutant of ForkedPages: the last page of the stack is left out.
ForkedPages_ShortStack(task) ==
  [i \in 1 .. task.PageCount |-> task.base \div TABLE + i - 1]
    \o [i \in 1 .. task.StackPageCount - 1 |-> STACK - i + 1]

\* The region upwards, then the stack downwards.
ForkedPages(task) ==
  [i \in 1 .. task.PageCount |-> task.base \div TABLE + i - 1]
    \o [i \in 1 .. task.StackPageCount |-> STACK - i + 1]

Forked(m, task, child) ==
  KernelStack(FoldLeft(LAMBDA acc, v : Share(acc, task.Base_PML4, child, v),
                       m, ForkedPages(task)))

----------------------------------------------------------------------------
(* Faults                                                                  *)

StackLow(task) == STACK - task.StackPageCount + 1

InRegion(task, a) ==
  a > task.base /\ a < task.base + task.PageCount * TABLE
mem_access_ok(task, a) ==
  \/ InRegion(task, a)
  \/ a < (STACK + 1) * TABLE /\ a > (STACK - task.StackPageCount) * TABLE

GrowsStack(task, v) == v >= StackLow(task) - 2 /\ v <= STACK

\* Mutant of Dist: the operands are swapped.
Dist_Swapped(task, v) == v - StackLow(task)

Dist(task, v) == StackLow(task) - v

\* Mutant of StackGrown: the loop runs once more.
StackGrown_OnceMore(m, task, v) ==
  FoldLeft(LAMBDA acc, i : alloc_page(acc, task.Base_PML4, v + i, FindNextFreePhysical(acc)),
           m, [i \in 1 .. Dist(task, v) + 1 |-> i - 1])

\* Pages v up to the lowest one of the stack.  The walk to the faulting
\* page comes first, and may take a frame for its table.
StackGrown(m, task, v) ==
  FoldLeft(LAMBDA acc, i : alloc_page(acc, task.Base_PML4, v + i, FindNextFreePhysical(acc)),
           m, [i \in 1 .. Dist(task, v) |-> i - 1])

----------------------------------------------------------------------------
(* The operations                                                          *)

\* Bound: frames for the largest operation.
FramesLeft == Cardinality(FreeFrames(mem)) > 2 * TABLE

\* Bound: address spaces.
NewSpace == spaces < MaxSpaces /\ FramesLeft /\ spaces' = spaces + 1

Init == mem = InitMem /\ tasks = [t \in Pid |-> NoTask] /\ spaces = 0

\* SetUpShell: LoadElf, and the kernel task's own stack.
SetUpShell ==
  LET given == Create_User_Memory(mem)
      root == MallocFrame(given)
      loaded == Loaded(given, root, 1, 1)
  IN  /\ spaces = 0
      /\ NewSpace
      /\ tasks' = [tasks EXCEPT ![Min(Pid)] = Registered(loaded, root, 1, 1, 0)]
      /\ mem' = KernelStack(loaded)

Fork(t) ==
  LET child == Min(Pid \ Live)
      given == Create_User_Memory(mem)
      root == MallocFrame(given)
      forked == Forked(given, tasks[t], root)
  IN  /\ Pid \ Live # {}
      /\ NewSpace
      /\ mem' = forked
      /\ tasks' = [tasks EXCEPT ![child] = [tasks[t] EXCEPT !.Base_PML4 = root,
                                                            !.KernelStack = forked.PageCount]]

\* LoadElfStrict never resets the slot's PageCount.
Execve(t, p) ==
  LET given == Create_User_Memory(mem)
      root == MallocFrame(given)
      loaded == Loaded(given, root, p, 0)
  IN  /\ NewSpace
      /\ mem' = free_task_memory(loaded, tasks[t].Base_PML4)
      /\ tasks' = [tasks EXCEPT ![t] = Registered(loaded, root, p, 0, tasks[t].PageCount)]

\* ForceSwitch finds the task that called exit in KILL_PROCESS_STATE: it zeroes
\* the slot and frees neither its pages nor its tables.
Exit(t) ==
  /\ tasks' = [tasks EXCEPT ![t] = NoTask]
  /\ UNCHANGED <<mem, spaces>>

\* HandlePageFault for an address that no page table of the task maps.
HandlePageFault(t, a) ==
  LET task == tasks[t]
      v == a \div TABLE
      fatal == ~mem_access_ok(task, a) /\ v < StackLow(task) - 4
      walked == CalculatePagePhysicalEntryAddress(mem, task.Base_PML4, v)
  IN  /\ ~InRegion(task, a)
      /\ Translate(mem, task.Base_PML4, v) = 0
      /\ FramesLeft
      /\ \/ /\ fatal
            /\ mem' = free_task_memory(mem, task.Base_PML4)
            /\ tasks' = [tasks EXCEPT ![t] = NoTask]
            /\ UNCHANGED spaces
         \/ /\ ~fatal /\ GrowsStack(task, v)
            /\ mem' = StackGrown(walked, task, v)
            /\ tasks' = [tasks EXCEPT ![t].StackPageCount = @ + Dist(task, v)]
            /\ UNCHANGED spaces
         \/ /\ ~fatal /\ ~GrowsStack(task, v)
            /\ mem' = alloc_page(walked, task.Base_PML4, v, FindNextFreePhysical(walked))
            /\ tasks' = [tasks EXCEPT ![t].PageCount = @ + 1]
            /\ UNCHANGED spaces

Next ==
  \/ SetUpShell
  \/ \E t \in Live : Fork(t)
  \/ \E t \in Live, p \in Exe : Execve(t, p)
  \/ \E t \in Live : Exit(t)
  \/ \E t \in Live, a \in Touched : HandlePageFault(t, a)

Spec == Init /\ [][Next]_progvars

----------------------------------------------------------------------------
(* Properties                                                              *)

Tables(t) == {mem.ram[tasks[t].Base_PML4][i] : i \in 0 .. TABLE - 1} \ {0}
Pages(t) == {v \in 0 .. TABLE * TABLE - 1 : Translate(mem, tasks[t].Base_PML4, v) # 0}
StackFrames(t) == {mem.dm[k] : k \in tasks[t].KernelStack - 4 .. tasks[t].KernelStack}
KernelFrames(t) == {tasks[t].Base_PML4} \cup Tables(t) \cup StackFrames(t)

\* Frames, tables and the kernel's pages are within the machine, and a
\* slot's page counts within the user's addresses.
ProgTypeOK ==
  /\ mem.flags \in [Frame -> {"free", "taken", "kernel"}]
  /\ mem.refcount \in [Frame -> Int]
  /\ mem.ram \in [Frame -> [0 .. TABLE - 1 -> Int]]
  /\ mem.dm \in [0 .. 2 * Counted - 1 -> {None} \cup 0 .. 2 * Counted - 1]
  /\ mem.PageCount \in DOMAIN mem.dm
  /\ spaces \in 0 .. MaxSpaces
  /\ \A t \in Live :
       /\ tasks[t].Base_PML4 \in Frame /\ tasks[t].program \in Exe
       /\ tasks[t].PageCount \in 0 .. TABLE * TABLE
       /\ tasks[t].StackPageCount \in 1 .. STACK + 1

\* The page tables the processor uses for a task are the ones the kernel
\* reaches to change them: alloc_page and free_task_memory go through the
\* mapping of physical memory into kernel space (Memory.c:131), whose pages
\* malloc gives out one after the other.  FALSE of the code once enough
\* address spaces were created.
TablesReachable ==
  \A t \in Live : \A f \in {tasks[t].Base_PML4} \cup Tables(t) : Reach(mem, f) = f

\* A PML4, a page table and a page of a kernel stack are each in one place,
\* of one task, and no program has one of them as a page: what
\* FindNextFreePhysical returned was marked before it was called again.
NoFrameTwice ==
  /\ \A t \in Live : Cardinality(KernelFrames(t)) = 6 + Cardinality(Tables(t))
  /\ \A t, u \in Live :
       /\ t # u => KernelFrames(t) \cap KernelFrames(u) = {}
       /\ \A v \in Pages(t) : Translate(mem, tasks[t].Base_PML4, v) \notin KernelFrames(u)
  /\ \A t \in Live : \A f \in KernelFrames(t) : mem.flags[f] = "kernel"

Word(t, a) == mem.ram[Translate(mem, tasks[t].Base_PML4, a \div TABLE)][a % TABLE]

\* Word i of the file part of h is where the program expects it.
WordLoaded(t, h, i) ==
  /\ Translate(mem, tasks[t].Base_PML4, (h.vaddr + i) \div TABLE) # 0
  /\ Word(t, h.vaddr + i) = FileWord(tasks[t].program, h.offset + i)

\* Words of the file part at the end of a sector: the head's sector, which is
\* read on its own, and the last one.
EndsRead(h) ==
  {i \in 0 .. h.filesz - 1 :
     /\ (h.offset + i + 1) % SECTOR = 0
     /\ \/ h.offset % SECTOR > 0 /\ i < SECTOR
        \/ i = h.filesz - 1}

\* Every word of the file part of a segment is at its address, in the
\* program execve or SetUpShell loaded and in the ones forked from it:
\* the head of the first sector, the pages and the sectors fit together,
\* but for the bytes at the end of a read, see ImageComplete.
ImageLoaded ==
  \A t \in Live : \A h \in Range(Executables[tasks[t].program]) :
    \A i \in (0 .. h.filesz - 1) \ EndsRead(h) : WordLoaded(t, h, i)

\* What LoadElf takes FLOPPY_Read_LBA to do.  FALSE of the code for a segment
\* that starts inside a sector or ends with one: every read of the drive
\* leaves the last byte out.
ImageComplete ==
  \A t \in Live : \A h \in Range(Executables[tasks[t].program]) :
    \A i \in 0 .. h.filesz - 1 : WordLoaded(t, h, i)

\* A program finds argc at the stack pointer it starts with, then that many
\* pointers to its strings, then a null pointer: SetupTaskStack counted
\* downwards what the program reads upwards, on the page of its own stack.
ArgvOnStack ==
  \A t \in Live :
    LET argc == tasks[t].argc
        argv == tasks[t].argp + 1
    IN  /\ tasks[t].argp >= STACK * TABLE
        /\ Word(t, tasks[t].argp) = argc
        /\ \A i \in 0 .. argc - 1 : Word(t, Word(t, argv + i)) = Letter
        /\ Word(t, argv + argc) = 0

\* Every page from the lowest of the stack to its base is mapped: a fault
\* there would make dist, an unsigned difference, wrap around and the loop
\* of HandlePageFault map pages from there to the end of memory.
StackMapped ==
  \A t \in Live : StackLow(tasks[t]) .. STACK \subseteq Pages(t)

\* Pages of the executable and of the stack.
Owned(task) ==
  StackLow(task) .. STACK \cup
  UNION {h.vaddr \div TABLE .. h.vaddr \div TABLE + PagesOf(h) - 1 :
           h \in Range(Executables[task.program])}

\* While a task keeps its address space, no operation of any task gives a
\* page of its executable or of its stack another frame: the contents a
\* program relies on are never swapped for a fresh page.
MappingsKept ==
  [][\A t \in Live :
       tasks'[t].Base_PML4 = tasks[t].Base_PML4 =>
         \A v \in Owned(tasks[t]) :
           Translate(mem', tasks[t].Base_PML4, v) = Translate(mem, tasks[t].Base_PML4, v)]_progvars
=============================================================================
