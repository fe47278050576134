---------------------------- MODULE CopyOnWrite ----------------------------
(***************************************************************************)
(* The physical frames and user page tables of ChudOS: alloc_page and      *)
(* FindNextFreePhysical (Memory.c), the page tables made by execve and     *)
(* fork (Tasks.c, syscall.c), and copy-on-write and demand paging in       *)
(* HandlePageFault (Exceptions.c).                                         *)
(*                                                                         *)
(* A page is its position in the program's region (cur_page of fork's      *)
(* loop); the stack, which fork and the fault handler treat the same way,  *)
(* is one of them.  Frames the kernel takes for page tables and kernel     *)
(* stacks never come back and are left out.  Frame 0 is a kernel frame and *)
(* FindNextFreePhysical's answer when there is none.                       *)
(*                                                                         *)
(* The handlers run with interrupts off (mem_set_cr3(..., false)), so each *)
(* is one action.  CR0.WP is never set (boot2.s), so the kernel's own      *)
(* writes to a present user page do not fault.                             *)
(***************************************************************************)
EXTENDS Naturals, FiniteSets

CONSTANTS
  MaxProc,      \* bound: address spaces created over the whole run
  MaxPage,      \* bound: pages of a program's region
  FrameCount,   \* physical frames, frame 0 included
  Text, Data,   \* read-only and writable pages of an executable
  Habits        \* what programs of this run do beyond storing into their
                \* own data pages (see AllHabits)

\* "refork": fork again after a page was copied for the caller;
\* "kernel": have the kernel write into a page that is still shared;
\* "text":   store into a read-only page;
\* "exec":   execve.
AllHabits == {"refork", "kernel", "text", "exec"}

ASSUME CopyOnWriteAssumption ==
  /\ MaxProc \in Nat /\ MaxProc >= 1
  /\ MaxPage \in Nat
  /\ FrameCount \in Nat /\ FrameCount >= 1
  /\ Text \in Nat /\ Data \in Nat /\ Text + Data <= MaxPage
  /\ Habits \subseteq AllHabits

VARIABLES
  phys_frames,  \* per frame: used and kernel flags, refcount
  content,      \* what the frame holds
  pt,           \* per address space, the page table entries
  PageCount,    \* MemoryData.PageCount of the task in it
  live,         \* address spaces with a task
  next_proc     \* the next address space Create_User_Memory returns

cowvars == <<phys_frames, content, pt, PageCount, live, next_proc>>

Proc == 1 .. MaxProc
Page == 0 .. MaxPage - 1
Frame == 0 .. FrameCount - 1

\* What a page holds: never written, the executable's bytes, or a store.
Val == {"blank", "file", "stored"}

Entry == [frame : Frame, present : BOOLEAN, user : BOOLEAN,
          writable : BOOLEAN, cow : BOOLEAN]

NoEntry == [frame |-> 0, present |-> FALSE, user |-> FALSE,
            writable |-> FALSE, cow |-> FALSE]

UserEntry(f, w) == [frame |-> f, present |-> TRUE, user |-> TRUE,
                    writable |-> w, cow |-> FALSE]

----------------------------------------------------------------------------
(* Frames                                                                  *)

\* mem_GetBit looks at all three flags.
FreeFrames(pf) == {f \in Frame : ~pf[f].used /\ ~pf[f].kernel}

FindNextFreePhysical(pf) ==
  IF FreeFrames(pf) = {} THEN 0
  ELSE CHOOSE f \in FreeFrames(pf) : \A g \in FreeFrames(pf) : f <= g

\* alloc_page refuses to map a kernel frame below VIRTUAL_MEMORY_BARRIER.
Mappable(pf, f) == ~pf[f].kernel

\* alloc_page's bookkeeping for a user mapping of frame f.
Referenced(pf, f) ==
  [pf EXCEPT ![f].used = TRUE, ![f].refcount = @ + 1]

----------------------------------------------------------------------------
(* Page faults                                                             *)

Region(t) == {p \in Page : p < PageCount[t]}

\* Stores, loads and kernel copies that fault.
UserFaults(e, store) == ~e.present \/ ~e.user \/ (store /\ ~e.writable)
KernelFaults(e) == ~e.present

\* flags | present | writable, without the CoW bit
Opened(e) == [e EXCEPT !.present = TRUE, !.writable = TRUE, !.cow = FALSE]

\* Mutants of CopyFrame: the frame is kept, or copied, whatever its
\* reference count; the new frame is not marked as used.
CopyFrame_InPlace(t, p) ==
  /\ pt' = [pt EXCEPT ![t][p] = Opened(@)]
  /\ UNCHANGED <<phys_frames, content>>

CopyFrame_Always(t, p) ==
  LET e == pt[t][p]
      new == FindNextFreePhysical(phys_frames)
  IN  /\ phys_frames' = [phys_frames EXCEPT ![e.frame].refcount = @ - 1,
                                            ![new].used = TRUE]
      /\ pt' = [pt EXCEPT ![t][p] = [Opened(e) EXCEPT !.frame = new]]
      /\ content' = [content EXCEPT ![new] = content[e.frame]]

CopyFrame_NotUsed(t, p) ==
  LET e == pt[t][p]
      new == FindNextFreePhysical(phys_frames)
  IN  IF phys_frames[e.frame].refcount <= 1
      THEN /\ pt' = [pt EXCEPT ![t][p] = Opened(e)]
           /\ UNCHANGED <<phys_frames, content>>
      ELSE /\ phys_frames' = [phys_frames EXCEPT ![e.frame].refcount = @ - 1]
           /\ pt' = [pt EXCEPT ![t][p] = [Opened(e) EXCEPT !.frame = new]]
           /\ content' = [content EXCEPT ![new] = content[e.frame]]

\* The copy-on-write branch: the last user of a frame keeps it, any other
\* gets a copy in the next free frame, whose refcount is left alone.
CopyFrame(t, p) ==
  LET e == pt[t][p]
      new == FindNextFreePhysical(phys_frames)
  IN  IF phys_frames[e.frame].refcount <= 1
      THEN /\ pt' = [pt EXCEPT ![t][p] = Opened(e)]
           /\ UNCHANGED <<phys_frames, content>>
      ELSE /\ phys_frames' = [phys_frames EXCEPT ![e.frame].refcount = @ - 1,
                                                ![new].used = TRUE]
           /\ pt' = [pt EXCEPT ![t][p] = [Opened(e) EXCEPT !.frame = new]]
           /\ content' = [content EXCEPT ![new] = content[e.frame]]

\* The other branch: a new page, even where a read-only one was.
DemandPage(t, p) ==
  LET new == FindNextFreePhysical(phys_frames)
  IN  /\ PageCount[t] < MaxPage
      /\ PageCount' = [PageCount EXCEPT ![t] = @ + 1]
      /\ IF Mappable(phys_frames, new)
         THEN /\ phys_frames' = Referenced(phys_frames, new)
              /\ pt' = [pt EXCEPT ![t][p] = UserEntry(new, TRUE)]
         ELSE UNCHANGED <<phys_frames, pt>>
      /\ UNCHANGED content

\* HandlePageFault inside the task's region.
HandlePageFault(t, p) ==
  \/ pt[t][p].cow /\ CopyFrame(t, p) /\ UNCHANGED PageCount
  \/ ~pt[t][p].cow /\ DemandPage(t, p)

ReadOnly(e) == e.present /\ ~e.writable /\ ~e.cow

\* A load, a store or a kernel copy of task t that faults.
PageFault(t, p) ==
  /\ t \in live /\ p \in Region(t)
  /\ \E store \in BOOLEAN : UserFaults(pt[t][p], store)
  /\ ReadOnly(pt[t][p]) => "text" \in Habits
  /\ HandlePageFault(t, p)
  /\ UNCHANGED <<live, next_proc>>

\* A load that does not fault changes nothing; a store does.
UserStore(t, p) ==
  /\ t \in live /\ p \in Region(t)
  /\ ~UserFaults(pt[t][p], TRUE)
  /\ content' = [content EXCEPT ![pt[t][p].frame] = "stored"]
  /\ UNCHANGED <<phys_frames, pt, PageCount, live, next_proc>>

\* memcpy into a user buffer, in read() of a file and sysinfo.
KernelStore(t, p) ==
  /\ t \in live /\ p \in Region(t)
  /\ ~KernelFaults(pt[t][p])
  /\ pt[t][p].writable \/ "kernel" \in Habits
  /\ content' = [content EXCEPT ![pt[t][p].frame] = "stored"]
  /\ UNCHANGED <<phys_frames, pt, PageCount, live, next_proc>>

----------------------------------------------------------------------------
(* Fork, execve and exit                                                   *)

\* Mutant of Shared: the parent's entry stays writable.
Shared_ParentKeeps(e) == [e EXCEPT !.cow = TRUE]

Shared(e) == [e EXCEPT !.cow = TRUE, !.writable = FALSE]

\* A page of t was copied for t, and no fork has shared it since.
HasCopies(t) == \E p \in Page : /\ pt[t][p].present
                                /\ phys_frames[pt[t][p].frame].refcount = 0

\* fork's loops: every page of the region becomes read-only and CoW in the
\* parent, and is mapped in the child by alloc_page.
Fork(t) ==
  LET u == next_proc
      shared == [p \in Page |-> IF p \in Region(t) THEN Shared(pt[t][p])
                                ELSE pt[t][p]]
      mapped == {p \in Region(t) : Mappable(phys_frames, pt[t][p].frame)}
  IN  /\ t \in live /\ u \in Proc
      /\ "refork" \in Habits \/ ~HasCopies(t)
      /\ pt' = [pt EXCEPT ![t] = shared,
                          ![u] = [p \in Page |-> IF p \in mapped THEN shared[p]
                                                 ELSE NoEntry]]
      /\ phys_frames' =
           [f \in Frame |->
              [phys_frames[f] EXCEPT
                 !.refcount = @ + Cardinality({p \in mapped : pt[t][p].frame = f})]]
      /\ PageCount' = [PageCount EXCEPT ![u] = PageCount[t]]
      /\ live' = live \cup {u}
      /\ next_proc' = u + 1
      /\ UNCHANGED content

\* The frames LoadElf takes for its pages, lowest first: page p gets the
\* (p + 1)-th free one.
Nth(S, n) == CHOOSE f \in S : Cardinality({g \in S : g < f}) = n

ImagePages == {p \in Page : p < Text + Data}

\* The page table, frames and contents after loading an executable into u.
Loaded(u) ==
  LET free == FreeFrames(phys_frames)
      frame == [p \in ImagePages |-> Nth(free, p)]
      taken == {frame[p] : p \in ImagePages}
  IN  /\ Cardinality(free) >= Text + Data
      /\ pt' = [pt EXCEPT ![u] =
                  [p \in Page |-> IF p \in ImagePages
                                  THEN UserEntry(frame[p], p >= Text)
                                  ELSE NoEntry]]
      /\ phys_frames' = [f \in Frame |-> IF f \in taken
                                         THEN [used |-> TRUE, kernel |-> FALSE,
                                               refcount |-> phys_frames[f].refcount + 1]
                                         ELSE phys_frames[f]]
      /\ content' = [f \in Frame |-> IF f \in taken THEN "file" ELSE content[f]]

\* execve: the page count of the old program is not reset, and the frames of
\* its pages are not given back.
Execve(t) ==
  LET u == next_proc
  IN  /\ "exec" \in Habits
      /\ t \in live /\ u \in Proc
      /\ PageCount[t] + Text + Data <= MaxPage
      /\ Loaded(u)
      /\ PageCount' = [PageCount EXCEPT ![u] = PageCount[t] + Text + Data]
      /\ live' = (live \ {t}) \cup {u}
      /\ next_proc' = u + 1

\* exit: the slot is zeroed; the frames are not given back.
Exit(t) ==
  /\ t \in live
  /\ live' = live \ {t}
  /\ UNCHANGED <<phys_frames, content, pt, PageCount, next_proc>>

----------------------------------------------------------------------------

\* The shell as LoadElf leaves it.
CowInit ==
  /\ FrameCount > Text + Data
  /\ phys_frames = [f \in Frame |-> [used |-> f <= Text + Data, kernel |-> f = 0,
                                     refcount |-> IF f \in 1 .. Text + Data
                                                  THEN 1 ELSE 0]]
  /\ content = [f \in Frame |-> IF f \in 1 .. Text + Data THEN "file" ELSE "blank"]
  /\ pt = [t \in Proc |-> [p \in Page |->
             IF t = 1 /\ p \in ImagePages THEN UserEntry(p + 1, p >= Text)
             ELSE NoEntry]]
  /\ PageCount = [t \in Proc |-> IF t = 1 THEN Text + Data ELSE 0]
  /\ live = {1}
  /\ next_proc = 2

CowNext ==
  \E t \in Proc :
    \/ \E p \in Page : PageFault(t, p) \/ UserStore(t, p) \/ KernelStore(t, p)
    \/ Fork(t)
    \/ Execve(t)
    \/ Exit(t)

CowSpec == CowInit /\ [][CowNext]_cowvars

----------------------------------------------------------------------------
(* Properties                                                              *)

\* What HandlePageFault, fork and execve leave in frames and page tables.
CowTypeOK ==
  /\ phys_frames \in [Frame -> [used : BOOLEAN, kernel : BOOLEAN, refcount : Nat]]
  /\ content \in [Frame -> Val]
  /\ pt \in [Proc -> [Page -> Entry]]
  /\ PageCount \in [Proc -> 0 .. MaxPage]
  /\ live \subseteq Proc
  /\ next_proc \in 2 .. MaxProc + 1

Maps(t, p, f) == t \in live /\ pt[t][p].present /\ pt[t][p].frame = f

\* A frame some task maps is marked as used, so that FindNextFreePhysical
\* never hands it out a second time.
MappedFramesAreUsed ==
  \A t \in live, p \in Page : pt[t][p].present => phys_frames[pt[t][p].frame].used

\* A page one task can store into is in no other page table (and at no other
\* address of the same task), through any sequence of forks, faults, execs
\* and exits.
WritableIsExclusive ==
  \A t, u \in live, p, q \in Page :
    /\ pt[t][p].present /\ pt[t][p].user /\ pt[t][p].writable
    /\ <<t, p>> # <<u, q>>
    => ~Maps(u, q, pt[t][p].frame)

\* No program can reach a frame of the kernel.
UserFramesOnly ==
  \A t \in live, p \in Page :
    pt[t][p].present /\ pt[t][p].user => ~phys_frames[pt[t][p].frame].kernel

\* No access of a program, nor of the kernel on its behalf, changes a frame
\* of the kernel.
KernelFramesIntact ==
  \A f \in Frame : phys_frames[f].kernel => content[f] = "blank"

\* A frame that no task maps any more is free again.
FramesReclaimed ==
  \A f \in Frame :
    phys_frames[f].used /\ ~phys_frames[f].kernel =>
      \E t \in live, p \in Page : Maps(t, p, f)

\* What a program sees at a page; a page not yet mapped is blank.
View(t, p) == IF t \in live /\ pt[t][p].present /\ pt[t][p].user
              THEN content[pt[t][p].frame] ELSE "blank"

Private == INSTANCE PrivateMemory WITH
             mem <- [t \in Proc |-> [p \in Page |-> View(t, p)]],
             Blank <- "blank",
             Image <- [p \in Page |-> IF p \in ImagePages THEN "file" ELSE "blank"]

\* Sharing frames is invisible: frames, page tables and the fault handler
\* together implement one private memory per program.
ImplementsPrivateMemory == Private!PMSpec
=============================================================================
