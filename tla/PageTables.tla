----------------------------- MODULE PageTables -----------------------------
(***************************************************************************)
(* The kernel's memory manager, Memory.c: the E820 scan, the frame table   *)
(* phys_frames, the mapping of all physical memory into kernel space, page *)
(* tables, and malloc, which hands out kernel pages.  Its operations are   *)
(* operators from one memory m to the next; Programs composes them.        *)
(*                                                                         *)
(* Addresses above VIRTUAL_MEMORY_BARRIER are pages of m.dm: InitMem makes *)
(* page f of it frame f, and the kernel reaches a page table in frame f,   *)
(* to read or to change it, at page f.  malloc maps the page after the     *)
(* last one it gave out, which is a page of the same range.                *)
(*                                                                         *)
(* A user address is a page v of TABLE * TABLE, found through a PML4 and   *)
(* one level of tables: the PDPT and the PD are two more rounds of the     *)
(* same EnsureEntry.  The tables of the kernel half are boot frames, far   *)
(* below the pages malloc reaches, and only their effect m.dm is kept.     *)
(* Permission bits and copy-on-write are in CopyOnWrite.                   *)
(***************************************************************************)
EXTENDS Integers, FiniteSets, FiniteSetsExt, SequencesExt

CONSTANTS
  TABLE,     \* entries of a page table; words, and frame records, of a page
  PT_Count,  \* page tables of the kernel's own pages
  E820       \* the BIOS's memory map: base, length (in pages), available

ASSUME PageTablesAssumption ==
  /\ TABLE \in Nat /\ TABLE >= 2
  /\ PT_Count \in Nat /\ PT_Count >= 1
  /\ E820 \in Seq([base : Nat, length : Nat, available : BOOLEAN])

\* Enumerate_E820 leaves out the last descriptor, and adds the lengths to
\* total_mem each time it is called: InitMem calls it twice.
Scanned == SubSeq(E820, 1, Len(E820) - 1)
Counted == FoldLeft(LAMBDA n, d : n + d.length, 0, Scanned)

Frame == 0 .. Counted - 1
None == -1

\* KernelMemory.PageCount, 512*32, and what boot2.s maps, 512*64.
KernelPages == TABLE * PT_Count
BootPages == 2 * KernelPages

Blank == [i \in 0 .. TABLE - 1 |-> 0]

----------------------------------------------------------------------------
(* Frames                                                                  *)

\* flags: "free" 0, "taken" 0b001, "kernel" 0b101; mem_GetBit is 0 for the
\* first only.
FreeFrames(m) == {f \in Frame : m.flags[f] = "free"}

FindNextFreePhysical(m) == IF FreeFrames(m) = {} THEN 0 ELSE Min(FreeFrames(m))

\* Where the kernel lands when it uses the address f + VIRTUAL_MEMORY_BARRIER.
Reach(m, f) == m.dm[f]

----------------------------------------------------------------------------
(* Page tables                                                             *)

\* Mutant of EnsureEntry: the frame of the new table is not marked.
EnsureEntry_Unmarked(m, t, i) ==
  LET new == FindNextFreePhysical(m)
  IN  IF m.ram[Reach(m, t)][i] # 0 THEN m
      ELSE [m EXCEPT !.ram = [@ EXCEPT ![Reach(m, new)] = Blank,
                                       ![Reach(m, t)][i] = new]]

\* Entry i of the table in frame t gets a table if it has none.
EnsureEntry(m, t, i) ==
  LET new == FindNextFreePhysical(m)
  IN  IF m.ram[Reach(m, t)][i] # 0 THEN m
      ELSE [m EXCEPT !.flags[new] = "kernel",
                     !.ram = [@ EXCEPT ![Reach(m, new)] = Blank,
                                       ![Reach(m, t)][i] = new]]

\* The memory after the walk to page v, and the frame the walk ends in.
CalculatePagePhysicalEntryAddress(m, root, v) ==
  EnsureEntry(m, root, v \div TABLE)
EntryFrame(m, root, v) == Reach(m, m.ram[Reach(m, root)][v \div TABLE])

\* alloc_page below VIRTUAL_MEMORY_BARRIER; it refuses a kernel frame.
alloc_page(m, root, v, f) ==
  LET taken == [m EXCEPT !.flags[f] = IF m.refcount[f] = 0 THEN "taken" ELSE @,
                         !.refcount[f] = @ + 1]
      walked == CalculatePagePhysicalEntryAddress(taken, root, v)
  IN  IF m.flags[f] = "kernel" THEN m
      ELSE [walked EXCEPT !.ram[EntryFrame(walked, root, v)][v % TABLE] = f]

\* What the processor finds for page v, without the kernel's mapping.
Translate(m, root, v) ==
  LET t == m.ram[root][v \div TABLE]
  IN  IF t = 0 THEN 0 ELSE m.ram[t][v % TABLE]

\* malloc(KernelTask): the page it returns is m.PageCount afterwards.
malloc(m) ==
  LET f == FindNextFreePhysical(m)
  IN  [m EXCEPT !.PageCount = @ + 1,
                !.flags[f] = "kernel",
                !.dm[m.PageCount + 1] = f]

\* The address space is the frame phys_addr returns, MallocFrame(m).
MallocFrame(m) == Reach(m, m.PageCount)

Create_User_Memory(m) ==
  LET given == malloc(m)
  IN  [given EXCEPT !.ram[MallocFrame(given)] = Blank]

\* free_page gives up for nearly every page of m.dm: VirtualMemorySize is
\* PT_Count.  Otherwise it takes the page out of m.dm; tables have no
\* reference count, so their frames stay marked.
Freeable(f) == (f % TABLE) * ((f \div TABLE) % TABLE) + 2 <= PT_Count

free_page(m, f) ==
  IF ~Freeable(f) THEN m
  ELSE [m EXCEPT !.flags[f] = IF m.refcount[f] = 1 THEN "free" ELSE @,
                 !.refcount[f] = @ - 1,
                 !.dm[f] = None]

\* free_task_memory and free_task_memory_by_pml4: tables and the PML4, but
\* none of the pages.
free_task_memory(m, root) ==
  LET tables == {m.ram[Reach(m, root)][i] : i \in 0 .. TABLE - 1} \ {0}
      freed == FoldSet(LAMBDA t, acc : free_page(acc, t), m, tables)
  IN  free_page([freed EXCEPT !.ram[Reach(m, root)] = Blank], root)

----------------------------------------------------------------------------
(* InitMem                                                                 *)

\* Reserved frames, from the second page of a range to the one after it.
Dirtied == UNION {d.base + 1 .. d.base + d.length :
                    d \in {e \in Range(Scanned) : ~e.available}}

TotalMem == 2 * Counted

PowerOn == [flags |-> [f \in Frame |-> "free"],
            refcount |-> [f \in Frame |-> 0],
            ram |-> [f \in Frame |-> Blank],
            dm |-> [v \in 0 .. 2 * Counted - 1 |-> IF v < BootPages THEN v ELSE None],
            PageCount |-> 0]

\* phys_frames lies behind the kernel's pages, a page for TABLE frames.
\* After it come the kernel's PML4 and one table for every TABLE pages of
\* the memory that boot2.s did not map.
InitMem ==
  LET first == KernelPages + (Counted + TABLE - 1) \div TABLE
      marked == [PowerOn EXCEPT
                   !.PageCount = first,
                   !.flags = [f \in Frame |-> IF f \in Dirtied THEN "taken"
                                              ELSE IF f <= first THEN "kernel"
                                              ELSE "free"]]
      own == Create_User_Memory(marked)
      tables == {t \in BootPages .. TotalMem - 1 : t % TABLE = 0}
      mapped == FoldSet(LAMBDA t, m : [m EXCEPT !.flags[FindNextFreePhysical(m)] = "kernel"],
                        own, tables)
  IN  [mapped EXCEPT !.dm = [v \in DOMAIN @ |->
                               IF v \in BootPages .. TotalMem - 1 THEN v ELSE @[v]]]
=============================================================================
