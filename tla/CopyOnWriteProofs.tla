------------------------- MODULE CopyOnWriteProofs -------------------------
(***************************************************************************)
(* Copy-on-write, for every number of address spaces, pages and frames: a  *)
(* page a program can store into is mapped nowhere else, and frames, page  *)
(* tables and the fault handler together implement PrivateMemory.          *)
(*                                                                         *)
(* phys_frames[f].refcount decides whether a fault copies a frame or opens *)
(* it in place, so the strengthening compares it with the number of page   *)
(* table entries that name f, in all page tables ever made: those of       *)
(* programs that ended still count.                                        *)
(***************************************************************************)
EXTENDS CopyOnWrite, FiniteSetTheorems, FunctionTheorems, TLAPS

----------------------------------------------------------------------------
(* Finite sets of numbers                                                  *)

\* The n-th element of a finite set of numbers, as LoadElf takes its frames:
\* the map from an element to the number of smaller ones is a bijection.
LEMMA NthElement ==
  ASSUME NEW S \in SUBSET Nat, IsFiniteSet(S), NEW n \in Nat, n < Cardinality(S)
  PROVE  Nth(S, n) \in S /\ Cardinality({g \in S : g < Nth(S, n)}) = n
<1> DEFINE Below(f) == {x \in S : x < f}
           c == Cardinality(S)
           count == [f \in S |-> Cardinality(Below(f))]
<1>1. c \in Nat
  BY FS_CardinalityType
<1>2. ASSUME NEW f \in S
      PROVE  IsFiniteSet(Below(f)) /\ Cardinality(Below(f)) \in 0 .. c - 1
  <2>1. Below(f) \in SUBSET S /\ f \notin Below(f)
    OBVIOUS
  <2>2. IsFiniteSet(Below(f)) /\ Cardinality(Below(f)) <= c /\ Cardinality(Below(f)) # c
    BY <2>1, FS_Subset
  <2>3. Cardinality(Below(f)) \in Nat
    BY <2>2, FS_CardinalityType
  <2> QED
    BY <1>1, <2>2, <2>3
<1>3. count \in [S -> 0 .. c - 1]
  BY <1>2
<1>4. ASSUME NEW f \in S, NEW g \in S, f < g
      PROVE  count[f] # count[g]
  <2>0. f \in Nat /\ g \in Nat /\ \A x \in S : x \in Nat /\ (x < f => x < g)
    BY <1>4
  <2>1. Below(f) \in SUBSET Below(g) /\ f \in Below(g) /\ f \notin Below(f)
    <3>1. Below(f) \in SUBSET Below(g)
      BY <2>0
    <3>2. f \in Below(g)
      BY <1>4
    <3>3. f \notin Below(f)
      BY <2>0
    <3> QED
      BY <3>1, <3>2, <3>3
  <2>2. Cardinality(Below(f)) # Cardinality(Below(g))
    BY <1>2, <2>1, FS_Subset
  <2> QED
    BY <2>2
<1>5. count \in Injection(S, 0 .. c - 1)
  <2>1. \A f, g \in S : count[f] = count[g] => f = g
    <3> TAKE f, g \in S
    <3>1. f < g \/ g < f \/ f = g
      OBVIOUS
    <3> HIDE DEF count
    <3> QED
      BY <1>4, <3>1
  <2> HIDE DEF count
  <2> QED
    BY <1>3, <2>1, Fun_IsInj
<1>6. IsFiniteSet(0 .. c - 1) /\ Cardinality(0 .. c - 1) = c
  <2>1. 0 \in Int /\ c - 1 \in Int /\ ~(0 > c - 1 /\ c # 0) /\ (c - 1) - 0 + 1 = c
    BY <1>1
  <2> HIDE DEF c
  <2> QED
    BY <1>1, <2>1, FS_Interval
<1>7. count \in Surjection(S, 0 .. c - 1)
  BY <1>5, <1>6, FS_Injection
<1>8. PICK f \in S : count[f] = n
  <2> HIDE DEF count
  <2> QED
    BY <1>1, <1>7 DEF Surjection
<1>9. \E x \in S : Cardinality({g \in S : g < x}) = n
  BY <1>8
<1> QED
  BY <1>9 DEF Nth

----------------------------------------------------------------------------
(* The invariant                                                           *)

\* An entry of a page table: an address space and a page.
Slot == Proc \X Page

\* The entries of page tables T that name frame f, those of programs that ended included.
Mappers(T, f) == {s \in Slot : T[s[1]][s[2]].frame = f}

\* Only frame 0 belongs to the kernel, and fork never counts it; a frame in a
\* page table is in use; one that is not has never been written.
FramesInv ==
  /\ \A f \in Frame : phys_frames[f].kernel <=> f = 0
  /\ phys_frames[0].used /\ phys_frames[0].refcount = 0
  /\ \A f \in Frame \ {0} : /\ Mappers(pt, f) # {} => phys_frames[f].used
                            /\ ~phys_frames[f].used => content[f] = "blank"

\* An entry names frame 0 unless it maps a user page of the region; it is not
\* writable and to be copied at the same time.
EntriesInv ==
  \A t \in Proc, p \in Page :
    LET e == pt[t][p]
    IN  /\ e.frame # 0 => e.present /\ e.user /\ p < PageCount[t]
        /\ e.frame = 0 => ~e.user
        /\ e.cow => ~e.writable

\* A frame in a writable entry is in no other entry.
ExclusiveInv ==
  \A t \in Proc, p \in Page :
    pt[t][p].writable /\ pt[t][p].frame # 0 => Mappers(pt, pt[t][p].frame) = {<<t, p>>}

\* A frame's refcount is at least the number of entries that name it; it is
\* too small only for a copy, which is named once.
RefcountInv ==
  \A f \in Frame \ {0} : \/ Cardinality(Mappers(pt, f)) <= phys_frames[f].refcount
                         \/ Cardinality(Mappers(pt, f)) = 1

\* Address spaces not yet created are empty.
SpacesInv ==
  /\ \A t \in live : t < next_proc
  /\ \A t \in Proc, p \in Page : t >= next_proc => pt[t][p].frame = 0

CowInv == /\ CowTypeOK /\ FramesInv /\ EntriesInv /\ ExclusiveInv /\ RefcountInv
          /\ SpacesInv

\* As long as no program stores into its read-only pages, no frame is lost:
\* one in use is named, and at least as often as its refcount says.
AccountInv ==
  \A f \in Frame \ {0} : /\ phys_frames[f].used => Mappers(pt, f) # {}
                         /\ phys_frames[f].refcount <= Cardinality(Mappers(pt, f))

----------------------------------------------------------------------------
(* Entries and their number                                                *)

\* What the handlers make of an entry.
LEMMA EntryTypes ==
  /\ NoEntry \in Entry
  /\ \A f \in Frame, w \in BOOLEAN :
       /\ UserEntry(f, w) \in Entry
       /\ UserEntry(f, w).frame = f /\ UserEntry(f, w).present /\ UserEntry(f, w).user
       /\ UserEntry(f, w).writable = w /\ ~UserEntry(f, w).cow
  /\ \A e \in Entry :
       /\ Opened(e) \in Entry
       /\ Opened(e).frame = e.frame /\ Opened(e).present /\ Opened(e).user = e.user
       /\ Opened(e).writable /\ ~Opened(e).cow
  /\ \A e \in Entry :
       /\ Shared(e) \in Entry
       /\ Shared(e).frame = e.frame /\ Shared(e).present = e.present
       /\ Shared(e).user = e.user /\ ~Shared(e).writable /\ Shared(e).cow
  /\ \A e \in Entry, f \in Frame :
       /\ [Opened(e) EXCEPT !.frame = f] \in Entry
       /\ [Opened(e) EXCEPT !.frame = f].frame = f
       /\ [Opened(e) EXCEPT !.frame = f].present
       /\ [Opened(e) EXCEPT !.frame = f].user = e.user
       /\ ~[Opened(e) EXCEPT !.frame = f].cow
<1>1. 0 \in Frame
  BY CopyOnWriteAssumption DEF Frame
<1> QED
  BY <1>1 DEF Entry, NoEntry, UserEntry, Opened, Shared

\* There are finitely many entries.
LEMMA SlotsFinite ==
  /\ IsFiniteSet(Slot) /\ Cardinality(Slot) = MaxProc * MaxPage
  /\ \A T \in SUBSET Slot : IsFiniteSet(T) /\ Cardinality(T) \in Nat
<1>1. IsFiniteSet(Proc) /\ Cardinality(Proc) = MaxProc
  BY CopyOnWriteAssumption, FS_Interval DEF Proc
<1>2. IsFiniteSet(Page) /\ Cardinality(Page) = MaxPage
  BY CopyOnWriteAssumption, FS_Interval DEF Page
<1>3. IsFiniteSet(Slot) /\ Cardinality(Slot) = MaxProc * MaxPage
  BY <1>1, <1>2, FS_Product DEF Slot
<1> QED
  BY <1>3, FS_Subset, FS_CardinalityType

\* The number of entries that name a frame is a number.
LEMMA MappersFinite ==
  \A f : /\ Mappers(pt, f) \in SUBSET Slot
         /\ IsFiniteSet(Mappers(pt, f)) /\ Cardinality(Mappers(pt, f)) \in Nat
BY SlotsFinite DEF Mappers

\* An entry that is alone with its frame.
LEMMA LoneMapper ==
  ASSUME NEW f, NEW s \in Mappers(pt, f), Cardinality(Mappers(pt, f)) <= 1
  PROVE  Mappers(pt, f) = {s}
<1>1. Cardinality(Mappers(pt, f)) # 0
  BY MappersFinite, FS_EmptySet
<1>2. Cardinality(Mappers(pt, f)) = 1
  BY <1>1, MappersFinite
<1>3. PICK x : Mappers(pt, f) = {x}
  BY <1>2, MappersFinite, FS_Singleton
<1> QED
  BY <1>3

\* Page tables U are T with the entry of page p in t changed to e.
IsUpdate(U, T, t, p, e) ==
  /\ U \in [Proc -> [Page -> Entry]]
  /\ \A u \in Proc, q \in Page : U[u][q] = IF <<u, q>> = <<t, p>> THEN e ELSE T[u][q]
  /\ \A f : Mappers(U, f) = IF f = e.frame THEN Mappers(T, f) \cup {<<t, p>>}
                            ELSE Mappers(T, f) \ {<<t, p>>}

\* A fault changes one entry.
LEMMA OneSlot ==
  ASSUME NEW T \in [Proc -> [Page -> Entry]], NEW t \in Proc, NEW p \in Page,
         NEW e \in Entry
  PROVE  IsUpdate([T EXCEPT ![t][p] = e], T, t, p, e)
<1> DEFINE U == [T EXCEPT ![t][p] = e]
<1>2. \A u \in Proc, q \in Page :
        U[u][q] = IF <<u, q>> = <<t, p>> THEN e ELSE T[u][q]
  OBVIOUS
<1>3. U \in [Proc -> [Page -> Entry]]
  OBVIOUS
<1> HIDE DEF U
<1>4. ASSUME NEW f
      PROVE  Mappers(U, f) = IF f = e.frame THEN Mappers(T, f) \cup {<<t, p>>}
                             ELSE Mappers(T, f) \ {<<t, p>>}
  <2>1. ASSUME NEW s \in Slot
        PROVE  /\ s[1] \in Proc /\ s[2] \in Page /\ s = <<s[1], s[2]>>
               /\ s \in Mappers(U, f) <=> U[s[1]][s[2]].frame = f
               /\ s \in Mappers(T, f) <=> T[s[1]][s[2]].frame = f
    BY DEF Slot, Mappers
  <2>2. Mappers(T, f) \subseteq Slot /\ Mappers(U, f) \subseteq Slot /\ <<t, p>> \in Slot
    BY DEF Mappers, Slot
  <2>3. ASSUME NEW s \in Slot
        PROVE  s \in Mappers(U, f) <=> IF s = <<t, p>> THEN e.frame = f ELSE s \in Mappers(T, f)
    <3>1. U[s[1]][s[2]] = IF s = <<t, p>> THEN e ELSE T[s[1]][s[2]]
      BY <1>2, <2>1
    <3> QED
      BY <2>1, <3>1
  <2> QED
    BY <2>2, <2>3
<1> QED
  BY <1>2, <1>3, <1>4 DEF U, IsUpdate

\* FindNextFreePhysical returns a free frame if there is one, and 0 if not.
LEMMA FreeFrameFound ==
  ASSUME CowTypeOK
  PROVE  /\ FindNextFreePhysical(phys_frames) \in Frame
         /\ FreeFrames(phys_frames) # {} =>
              FindNextFreePhysical(phys_frames) \in FreeFrames(phys_frames)
<1> DEFINE S == FreeFrames(phys_frames)
<1>1. S \in SUBSET Nat /\ S \in SUBSET Frame /\ IsFiniteSet(S)
  <2>1. S \in SUBSET Frame /\ Frame \in SUBSET Nat
    BY CopyOnWriteAssumption DEF FreeFrames, Frame
  <2>2. IsFiniteSet(Frame)
    BY CopyOnWriteAssumption, FS_Interval DEF Frame
  <2> QED
    BY <2>1, <2>2, FS_Subset
<1>2. 0 \in Frame
  BY CopyOnWriteAssumption DEF Frame
<1>3. CASE S # {}
  <2>1. 0 < Cardinality(S)
    BY <1>1, <1>3, FS_EmptySet, FS_CardinalityType
  <2>2. Nth(S, 0) \in S /\ Cardinality({g \in S : g < Nth(S, 0)}) = 0
    BY <1>1, <2>1, NthElement
  <2>3. {g \in S : g < Nth(S, 0)} = {}
    <3>1. {g \in S : g < Nth(S, 0)} \in SUBSET S
      OBVIOUS
    <3> QED
      BY <1>1, <2>2, <3>1, FS_Subset, FS_EmptySet
  <2>4. \E f \in S : \A g \in S : f <= g
    <3>1. \A g \in S : g \in Nat /\ ~(g < Nth(S, 0))
      BY <1>1, <2>3
    <3>2. \A g \in S : Nth(S, 0) <= g
      BY <1>1, <2>2, <3>1
    <3> QED
      BY <2>2, <3>2
  <2>5. FindNextFreePhysical(phys_frames) = CHOOSE f \in S : \A g \in S : f <= g
    BY <1>3 DEF FindNextFreePhysical
  <2>6. FindNextFreePhysical(phys_frames) \in S
    BY <2>4, <2>5
  <2> QED
    BY <1>1, <2>6
<1>4. CASE S = {}
  BY <1>2, <1>4 DEF FindNextFreePhysical
<1> QED
  BY <1>3, <1>4

----------------------------------------------------------------------------
(* Page faults and stores                                                  *)

\* A free frame is in no page table.
LEMMA FreeFrameUnmapped ==
  ASSUME CowInv, NEW f \in FreeFrames(phys_frames)
  PROVE  f \in Frame /\ f # 0 /\ Mappers(pt, f) = {} /\ content[f] = "blank"
BY DEF FreeFrames, CowInv, FramesInv

\* Opening an entry in place, when its frame is not shared.
LEMMA OpenInPlace ==
  ASSUME CowInv, NEW t \in Proc, NEW p \in Page,
         pt[t][p].frame # 0 => phys_frames[pt[t][p].frame].refcount <= 1,
         IsUpdate(pt', pt, t, p, Opened(pt[t][p])),
         UNCHANGED <<phys_frames, content, PageCount, live, next_proc>>
  PROVE  CowInv'
<1> DEFINE e == Opened(pt[t][p])
           old == pt[t][p].frame
<1>1. pt[t][p] \in Entry
  BY DEF CowInv, CowTypeOK
<1>2. /\ e \in Entry /\ e.frame = old /\ e.present /\ e.user = pt[t][p].user
      /\ e.writable /\ ~e.cow /\ old \in Frame
  BY <1>1, EntryTypes DEF Entry
<1>4. /\ pt' \in [Proc -> [Page -> Entry]]
      /\ \A u \in Proc, q \in Page :
           pt'[u][q] = IF <<u, q>> = <<t, p>> THEN e ELSE pt[u][q]
      /\ \A f : Mappers(pt', f) = IF f = e.frame THEN Mappers(pt, f) \cup {<<t, p>>}
                                  ELSE Mappers(pt, f) \ {<<t, p>>}
  BY DEF IsUpdate
<1> HIDE DEF e
<1>5. ASSUME NEW f
      PROVE  Mappers(pt', f) = Mappers(pt, f)
  <2>1. <<t, p>> \in Mappers(pt, f) <=> f = old
    BY DEF Mappers, Slot
  <2>2. Mappers(pt', f) = IF f = old THEN Mappers(pt, f) \cup {<<t, p>>}
                          ELSE Mappers(pt, f) \ {<<t, p>>}
    BY <1>2, <1>4
  <2> QED
    BY <2>1, <2>2
<1>6. CowTypeOK'
  BY <1>4 DEF CowInv, CowTypeOK
<1>7. FramesInv'
  BY <1>5 DEF CowInv, FramesInv
<1>8. EntriesInv'
  BY <1>2, <1>4 DEF CowInv, EntriesInv
<1>9. ExclusiveInv'
  <2>1. old # 0 => Mappers(pt, old) = {<<t, p>>}
    <3> SUFFICES ASSUME old # 0 PROVE Mappers(pt, old) = {<<t, p>>}
      OBVIOUS
    <3>1. <<t, p>> \in Mappers(pt, old)
      BY DEF Mappers, Slot
    <3>2. Cardinality(Mappers(pt, old)) <= 1
      <4>1. phys_frames[old].refcount \in Nat
        BY <1>2 DEF CowInv, CowTypeOK
      <4> QED
        BY <1>2, <4>1, MappersFinite DEF CowInv, RefcountInv
    <3> QED
      BY <3>1, <3>2, LoneMapper
  <2>2. ASSUME NEW u \in Proc, NEW q \in Page,
               pt'[u][q].writable, pt'[u][q].frame # 0
        PROVE  Mappers(pt', pt'[u][q].frame) = {<<u, q>>}
    <3>1. CASE <<u, q>> = <<t, p>>
      BY <1>2, <1>4, <1>5, <2>1, <2>2, <3>1
    <3>2. CASE <<u, q>> # <<t, p>>
      <4>1. pt'[u][q] = pt[u][q]
        BY <1>4, <3>2
      <4>2. Mappers(pt, pt[u][q].frame) = {<<u, q>>}
        BY <2>2, <4>1 DEF CowInv, ExclusiveInv
      <4> QED
        BY <1>5, <4>1, <4>2
    <3> QED
      BY <3>1, <3>2
  <2> QED
    BY <2>2 DEF ExclusiveInv
<1>10. RefcountInv'
  BY <1>5 DEF CowInv, RefcountInv
<1>11. SpacesInv'
  BY <1>2, <1>4 DEF CowInv, SpacesInv
<1> QED
  BY <1>6, <1>7, <1>8, <1>9, <1>10, <1>11 DEF CowInv

\* Mapping a frame that was free at one page of one program, in place of what
\* was there, whose refcount may go down by one.
LEMMA TakeFrame ==
  ASSUME CowInv, NEW t \in live, NEW p \in Page, p < PageCount[t],
         NEW new \in FreeFrames(phys_frames), NEW e \in Entry,
         e.frame = new, e.present, e.user, ~e.cow,
         IsUpdate(pt', pt, t, p, e),
         phys_frames' \in [Frame -> [used : BOOLEAN, kernel : BOOLEAN, refcount : Nat]],
         \A f \in Frame : phys_frames'[f].kernel = phys_frames[f].kernel,
         \A f \in Frame \ {new} :
           /\ phys_frames'[f].used = phys_frames[f].used
           /\ \/ phys_frames'[f].refcount = phys_frames[f].refcount
              \/ /\ f = pt[t][p].frame /\ f # 0
                 /\ phys_frames'[f].refcount = phys_frames[f].refcount - 1,
         phys_frames'[new].used,
         content' \in [Frame -> Val],
         \A f \in Frame \ {new} : content'[f] = content[f],
         PageCount' \in [Proc -> 0 .. MaxPage],
         \A u \in Proc : PageCount[u] <= PageCount'[u],
         UNCHANGED <<live, next_proc>>
  PROVE  CowInv'
<1> DEFINE old == pt[t][p].frame
<1>0. t \in Proc
  BY DEF CowInv, CowTypeOK
<1>1. pt[t][p] \in Entry /\ old \in Frame
  BY <1>0 DEF CowInv, CowTypeOK, Entry
<1>2. new \in Frame /\ new # 0 /\ Mappers(pt, new) = {} /\ 0 \in Frame
  BY FreeFrameUnmapped, CopyOnWriteAssumption DEF Frame
<1>3. <<t, p>> \in Mappers(pt, old) /\ old # new
  BY <1>0, <1>2 DEF Mappers, Slot
<1>4. /\ pt' \in [Proc -> [Page -> Entry]]
      /\ \A u \in Proc, q \in Page :
           pt'[u][q] = IF <<u, q>> = <<t, p>> THEN e ELSE pt[u][q]
      /\ \A f : Mappers(pt', f) = IF f = new THEN Mappers(pt, f) \cup {<<t, p>>}
                                  ELSE Mappers(pt, f) \ {<<t, p>>}
  BY DEF IsUpdate
<1>5. /\ Mappers(pt', new) = {<<t, p>>}
      /\ Mappers(pt', old) = Mappers(pt, old) \ {<<t, p>>}
      /\ \A f : f # new /\ f # old => Mappers(pt', f) = Mappers(pt, f)
  <2>1. ASSUME NEW f, f # new, f # old
        PROVE  Mappers(pt', f) = Mappers(pt, f)
    <3>1. <<t, p>> \notin Mappers(pt, f)
      BY <2>1 DEF Mappers, Slot
    <3>2. Mappers(pt', f) = Mappers(pt, f) \ {<<t, p>>}
      BY <1>4, <2>1
    <3> QED
      BY <3>1, <3>2
  <2> QED
    BY <1>2, <1>3, <1>4, <2>1
<1>6. CowTypeOK'
  BY <1>4 DEF CowInv, CowTypeOK
<1>7. FramesInv'
  <2>1. phys_frames'[0].used /\ phys_frames'[0].refcount = 0
    BY <1>2 DEF CowInv, FramesInv
  <2>2. ASSUME NEW f \in Frame \ {0}
        PROVE  /\ Mappers(pt', f) # {} => phys_frames'[f].used
               /\ ~phys_frames'[f].used => content'[f] = "blank"
    BY <1>5 DEF CowInv, FramesInv
  <2> QED
    BY <2>1, <2>2 DEF CowInv, FramesInv
<1>8. EntriesInv'
  <2>1. ASSUME NEW u \in Proc
        PROVE  PageCount[u] \in Nat /\ PageCount'[u] \in Nat /\ PageCount[u] <= PageCount'[u]
    BY DEF CowInv, CowTypeOK
  <2>2. \A q \in Page : q \in Nat
    BY DEF Page
  <2>3. ASSUME NEW u \in Proc, NEW q \in Page
        PROVE  LET x == pt'[u][q]
               IN  /\ x.frame # 0 => x.present /\ x.user /\ q < PageCount'[u]
                   /\ x.frame = 0 => ~x.user
                   /\ x.cow => ~x.writable
    <3>1. CASE <<u, q>> = <<t, p>>
      BY <1>2, <1>4, <2>1, <2>2, <3>1
    <3>2. CASE <<u, q>> # <<t, p>>
      BY <1>4, <2>1, <2>2, <3>2 DEF CowInv, EntriesInv
    <3> QED
      BY <3>1, <3>2
  <2> QED
    BY <2>3 DEF EntriesInv
<1>9. ExclusiveInv'
  <2>1. ASSUME NEW u \in Proc, NEW q \in Page,
               pt'[u][q].writable, pt'[u][q].frame # 0
        PROVE  Mappers(pt', pt'[u][q].frame) = {<<u, q>>}
    <3>1. CASE <<u, q>> = <<t, p>>
      BY <1>4, <1>5, <3>1
    <3>2. CASE <<u, q>> # <<t, p>>
      <4>1. pt'[u][q] = pt[u][q] /\ Mappers(pt, pt[u][q].frame) = {<<u, q>>}
        BY <1>4, <2>1, <3>2 DEF CowInv, ExclusiveInv
      <4>2. pt[u][q].frame # new /\ pt[u][q].frame # old
        BY <1>2, <1>3, <3>2, <4>1
      <4> QED
        BY <1>5, <4>1, <4>2
    <3> QED
      BY <3>1, <3>2
  <2> QED
    BY <2>1 DEF ExclusiveInv
<1>10. RefcountInv'
  <2>1. ASSUME NEW f \in Frame \ {0}
        PROVE  \/ Cardinality(Mappers(pt', f)) <= phys_frames'[f].refcount
               \/ Cardinality(Mappers(pt', f)) = 1
    <3>1. CASE f = new
      <4>1. Cardinality({<<t, p>>}) = 1
        BY FS_Singleton
      <4> QED
        BY <1>5, <3>1, <4>1
    <3>2. CASE f = old
      <4>1. Cardinality(Mappers(pt', f)) = Cardinality(Mappers(pt, f)) - 1
        BY <1>3, <1>5, <3>2, MappersFinite, FS_RemoveElement
      <4>2. phys_frames[f].refcount \in Nat /\ phys_frames'[f].refcount \in Nat
        BY DEF CowInv, CowTypeOK
      <4>3. phys_frames[f].refcount - 1 <= phys_frames'[f].refcount
        BY <1>3, <3>2, <4>2
      <4>4. \/ Cardinality(Mappers(pt, f)) <= phys_frames[f].refcount
            \/ Cardinality(Mappers(pt, f)) = 1
        BY DEF CowInv, RefcountInv
      <4>5. Cardinality(Mappers(pt, f)) \in Nat
        BY MappersFinite
      <4> QED
        BY <4>1, <4>2, <4>3, <4>4, <4>5
    <3>3. CASE f # new /\ f # old
      BY <1>5, <3>3 DEF CowInv, RefcountInv
    <3> QED
      BY <3>1, <3>2, <3>3
  <2> QED
    BY <2>1 DEF RefcountInv
<1>11. SpacesInv'
  <2>1. t < next_proc /\ next_proc \in Nat /\ t \in Nat
    BY <1>0 DEF CowInv, SpacesInv, CowTypeOK, Proc
  <2>2. ASSUME NEW u \in Proc, NEW q \in Page, u >= next_proc
        PROVE  pt'[u][q].frame = 0
    BY <1>4, <2>1, <2>2 DEF CowInv, SpacesInv
  <2> QED
    BY <2>2 DEF CowInv, SpacesInv
<1> QED
  BY <1>6, <1>7, <1>8, <1>9, <1>10, <1>11 DEF CowInv

\* Where a fault copies a frame, there is a free one.
RoomForCopy(t, p) ==
  pt[t][p].cow /\ phys_frames[pt[t][p].frame].refcount > 1 => FreeFrames(phys_frames) # {}

\* The copy-on-write branch of HandlePageFault.
LEMMA CopyFrameInv ==
  ASSUME CowInv, NEW t \in live, NEW p \in Page, p < PageCount[t],
         RoomForCopy(t, p), pt[t][p].cow,
         CopyFrame(t, p), UNCHANGED <<PageCount, live, next_proc>>
  PROVE  CowInv'
<1> DEFINE old == pt[t][p].frame
           new == FindNextFreePhysical(phys_frames)
<1>1. t \in Proc /\ pt \in [Proc -> [Page -> Entry]] /\ pt[t][p] \in Entry /\ old \in Frame
  BY DEF CowInv, CowTypeOK, Entry
<1>2. phys_frames[old].refcount \in Nat
  BY <1>1 DEF CowInv, CowTypeOK
<1>3. CASE phys_frames[old].refcount <= 1
  <2>1. pt' = [pt EXCEPT ![t][p] = Opened(pt[t][p])]
        /\ UNCHANGED <<phys_frames, content, PageCount, live, next_proc>>
    BY <1>3 DEF CopyFrame
  <2>2. Opened(pt[t][p]) \in Entry
    BY <1>1, EntryTypes
  <2>3. IsUpdate(pt', pt, t, p, Opened(pt[t][p]))
    BY <1>1, <2>1, <2>2, OneSlot
  <2> QED
    BY <1>1, <1>3, <2>1, <2>3, OpenInPlace
<1>4. CASE ~(phys_frames[old].refcount <= 1)
  <2> DEFINE e == [Opened(pt[t][p]) EXCEPT !.frame = new]
  <2>1. /\ phys_frames' = [phys_frames EXCEPT ![old].refcount = @ - 1, ![new].used = TRUE]
        /\ pt' = [pt EXCEPT ![t][p] = e]
        /\ content' = [content EXCEPT ![new] = content[old]]
    BY <1>4 DEF CopyFrame
  <2>2. new \in FreeFrames(phys_frames)
    BY <1>2, <1>4, FreeFrameFound DEF RoomForCopy, CowInv
  <2>3. new \in Frame /\ new # 0
    BY <2>2, FreeFrameUnmapped
  <2>4. old # 0 /\ pt[t][p].user
    BY <1>1, <1>2, <1>4 DEF CowInv, FramesInv, EntriesInv
  <2>5. e \in Entry /\ e.frame = new /\ e.present /\ e.user /\ ~e.cow
    BY <1>1, <2>3, <2>4, EntryTypes
  <2>6. IsUpdate(pt', pt, t, p, e)
    BY <1>1, <2>1, <2>5, OneSlot
  <2>7. /\ phys_frames' \in [Frame -> [used : BOOLEAN, kernel : BOOLEAN, refcount : Nat]]
        /\ \A f \in Frame : phys_frames'[f].kernel = phys_frames[f].kernel
        /\ \A f \in Frame \ {new} :
             /\ phys_frames'[f].used = phys_frames[f].used
             /\ \/ phys_frames'[f].refcount = phys_frames[f].refcount
                \/ /\ f = old /\ f # 0
                   /\ phys_frames'[f].refcount = phys_frames[f].refcount - 1
        /\ phys_frames'[new].used
    <3>1. phys_frames \in [Frame -> [used : BOOLEAN, kernel : BOOLEAN, refcount : Nat]]
      BY DEF CowInv, CowTypeOK
    <3>2. phys_frames[old].refcount - 1 \in Nat
      BY <1>2, <1>4
    <3> HIDE DEF new
    <3> QED
      BY <1>1, <2>1, <2>3, <2>4, <3>1, <3>2
  <2>8. content' \in [Frame -> Val] /\ \A f \in Frame \ {new} : content'[f] = content[f]
    BY <1>1, <2>1, <2>3 DEF CowInv, CowTypeOK
  <2>9. /\ PageCount' \in [Proc -> 0 .. MaxPage] /\ UNCHANGED <<live, next_proc>>
        /\ \A u \in Proc : PageCount[u] <= PageCount'[u]
    BY DEF CowInv, CowTypeOK
  <2> HIDE DEF new, e
  <2> QED
    BY <2>2, <2>5, <2>6, <2>7, <2>8, <2>9, TakeFrame
<1> QED
  BY <1>3, <1>4

\* The demand paging branch of HandlePageFault.
LEMMA DemandPageInv ==
  ASSUME CowInv, NEW t \in live, NEW p \in Page, p < PageCount[t],
         DemandPage(t, p), UNCHANGED <<live, next_proc>>
  PROVE  CowInv'
<1> DEFINE old == pt[t][p].frame
           new == FindNextFreePhysical(phys_frames)
           e == UserEntry(new, TRUE)
<1>1. t \in Proc /\ pt \in [Proc -> [Page -> Entry]] /\ PageCount \in [Proc -> 0 .. MaxPage]
  BY DEF CowInv, CowTypeOK
<1>2. /\ PageCount' \in [Proc -> 0 .. MaxPage]
      /\ \A u \in Proc : PageCount[u] \in Nat /\ PageCount'[u] \in Nat
                         /\ PageCount[u] <= PageCount'[u]
      /\ content' = content
  BY <1>1, CopyOnWriteAssumption DEF DemandPage
<1>3. new \in Frame /\ e \in Entry /\ e.frame = new /\ e.present /\ e.user /\ ~e.cow
  BY FreeFrameFound, EntryTypes DEF CowInv
<1>4. CASE Mappable(phys_frames, new)
  <2>1. /\ phys_frames' = Referenced(phys_frames, new)
        /\ pt' = [pt EXCEPT ![t][p] = e]
    BY <1>4 DEF DemandPage
  <2>2. new \in FreeFrames(phys_frames)
    <3>1. FreeFrames(phys_frames) = {} => new = 0
      BY DEF FindNextFreePhysical
    <3>2. FreeFrames(phys_frames) # {}
      BY <1>3, <1>4, <3>1 DEF Mappable, CowInv, FramesInv
    <3> QED
      BY <3>2, FreeFrameFound DEF CowInv
  <2>3. IsUpdate(pt', pt, t, p, e)
    BY <1>1, <1>3, <2>1, OneSlot
  <2>4. /\ phys_frames' \in [Frame -> [used : BOOLEAN, kernel : BOOLEAN, refcount : Nat]]
        /\ \A f \in Frame : phys_frames'[f].kernel = phys_frames[f].kernel
        /\ \A f \in Frame \ {new} : phys_frames'[f] = phys_frames[f]
        /\ phys_frames'[new].used
    <3>1. phys_frames \in [Frame -> [used : BOOLEAN, kernel : BOOLEAN, refcount : Nat]]
      BY DEF CowInv, CowTypeOK
    <3> HIDE DEF new
    <3> QED
      BY <1>3, <2>1, <3>1 DEF Referenced
  <2>5. content' \in [Frame -> Val]
    BY <1>2 DEF CowInv, CowTypeOK
  <2> HIDE DEF new, e
  <2> QED
    BY <1>2, <1>3, <2>2, <2>3, <2>4, <2>5, TakeFrame
<1>5. CASE ~Mappable(phys_frames, new)
  <2>1. UNCHANGED <<phys_frames, pt>>
    BY <1>5 DEF DemandPage
  <2>2. \A q \in Page : q \in Nat
    BY DEF Page
  <2>3. EntriesInv'
    BY <1>1, <1>2, <2>1, <2>2 DEF CowInv, EntriesInv
  <2> QED
    BY <1>2, <2>1, <2>3
       DEF CowInv, CowTypeOK, FramesInv, ExclusiveInv, RefcountInv, SpacesInv
<1> QED
  BY <1>4, <1>5

\* A page fault, where there is room for a copy.
LEMMA PageFaultInv ==
  ASSUME CowInv, NEW t \in Proc, NEW p \in Page, PageFault(t, p), RoomForCopy(t, p)
  PROVE  CowInv'
<1>1. t \in live /\ p < PageCount[t] /\ UNCHANGED <<live, next_proc>>
  BY DEF PageFault, Region
<1>2. CASE pt[t][p].cow /\ CopyFrame(t, p) /\ UNCHANGED PageCount
  BY <1>1, <1>2, CopyFrameInv
<1>3. CASE ~pt[t][p].cow /\ DemandPage(t, p)
  BY <1>1, <1>3, DemandPageInv
<1> QED
  BY <1>2, <1>3 DEF PageFault, HandlePageFault

\* A store of a program or of the kernel.
LEMMA StoreInv ==
  ASSUME CowInv, NEW t \in Proc, NEW p \in Page, UserStore(t, p) \/ KernelStore(t, p)
  PROVE  CowInv'
<1> DEFINE f == pt[t][p].frame
<1>1. content' = [content EXCEPT ![f] = "stored"]
      /\ UNCHANGED <<phys_frames, pt, PageCount, live, next_proc>>
  BY DEF UserStore, KernelStore
<1>2. f \in Frame /\ content' \in [Frame -> Val]
  BY <1>1 DEF CowInv, CowTypeOK, Entry, Val
<1>3. <<t, p>> \in Mappers(pt, f)
  BY DEF Mappers, Slot
<1>4. FramesInv'
  BY <1>1, <1>2, <1>3 DEF CowInv, FramesInv, CowTypeOK
<1> QED
  BY <1>1, <1>2, <1>4
     DEF CowInv, CowTypeOK, EntriesInv, ExclusiveInv, RefcountInv, SpacesInv

----------------------------------------------------------------------------
(* Fork, execve and exit                                                   *)

\* As many entries of one address space as pages.
LEMMA PagesToSlots ==
  ASSUME NEW u \in Proc, NEW A \in SUBSET Page
  PROVE  /\ {<<u, q>> : q \in A} \in SUBSET Slot
         /\ IsFiniteSet(A) /\ Cardinality(A) \in Nat
         /\ Cardinality({<<u, q>> : q \in A}) = Cardinality(A)
<1> DEFINE B == {<<u, q>> : q \in A}
           F == [q \in A |-> <<u, q>>]
<1>1. B \in SUBSET Slot
  BY DEF Slot
<1>2. IsFiniteSet(A) /\ Cardinality(A) \in Nat
  <2>1. IsFiniteSet(Page)
    BY CopyOnWriteAssumption, FS_Interval DEF Page
  <2> QED
    BY <2>1, FS_Subset, FS_CardinalityType
<1>3. F \in [A -> B]
  OBVIOUS
<1>4. \A a, b \in A : F[a] = F[b] => a = b
  OBVIOUS
<1>5. \A y \in B : \E a \in A : F[a] = y
  OBVIOUS
<1> HIDE DEF F
<1>6. F \in Bijection(A, B)
  BY <1>3, <1>4, <1>5, Fun_IsBij
<1>7. ExistsBijection(A, B)
  BY <1>6 DEF ExistsBijection
<1> QED
  BY <1>1, <1>2, <1>7, FS_Bijection

\* What fork does to page tables and reference counts: every mapped page of
\* the parent gets one more entry, in the child, and one more reference.
LEMMA ForkEffect ==
  ASSUME CowInv, NEW t \in Proc, Fork(t)
  PROVE  LET u == next_proc
             Added(f) == {q \in Page : pt[t][q].frame = f}
         IN  /\ t \in live /\ u \in Proc /\ u \notin live /\ t # u /\ next_proc' = u + 1
             /\ pt' \in [Proc -> [Page -> Entry]]
             /\ \A q \in Page :
                  /\ pt'[t][q] = Shared(pt[t][q]) \/ (pt[t][q].frame = 0 /\ pt'[t][q] = pt[t][q])
                  /\ pt'[u][q] = IF pt[t][q].frame # 0 THEN Shared(pt[t][q]) ELSE NoEntry
             /\ \A w \in Proc \ {t, u} : pt'[w] = pt[w]
             /\ \A f \in Frame \ {0} :
                  /\ Mappers(pt', f) = Mappers(pt, f) \cup {<<u, q>> : q \in Added(f)}
                  /\ Mappers(pt, f) \cap {<<u, q>> : q \in Added(f)} = {}
                  /\ phys_frames'[f] = [phys_frames[f] EXCEPT !.refcount = @ + Cardinality(Added(f))]
             /\ phys_frames'[0] = phys_frames[0]
             /\ phys_frames' \in [Frame -> [used : BOOLEAN, kernel : BOOLEAN, refcount : Nat]]
<1> DEFINE u == next_proc
           Added(f) == {q \in Page : pt[t][q].frame = f}
           mapped == {q \in Region(t) : Mappable(phys_frames, pt[t][q].frame)}
           shared == [q \in Page |-> IF q \in Region(t) THEN Shared(pt[t][q]) ELSE pt[t][q]]
<1>1. /\ pt \in [Proc -> [Page -> Entry]] /\ u \in Proc /\ t \in live /\ next_proc' = u + 1
      /\ phys_frames \in [Frame -> [used : BOOLEAN, kernel : BOOLEAN, refcount : Nat]]
      /\ 0 \in Frame
  BY CopyOnWriteAssumption DEF Fork, CowInv, CowTypeOK, Frame
<1>2. u \notin live /\ t # u
  BY <1>1 DEF CowInv, SpacesInv, Proc
<1>3. \A q \in Page : /\ pt[t][q] \in Entry /\ pt[t][q].frame \in Frame
                      /\ q \in mapped <=> pt[t][q].frame # 0
                      /\ q \notin Region(t) => pt[t][q].frame = 0
  BY <1>1 DEF Region, Mappable, CowInv, EntriesInv, FramesInv, Entry
<1>4. \A f \in Frame \ {0} : {q \in mapped : pt[t][q].frame = f} = Added(f)
  BY <1>3 DEF Region
<1>5. {q \in mapped : pt[t][q].frame = 0} = {}
  BY <1>3 DEF Region
<1>6. pt' = [pt EXCEPT ![t] = shared,
                       ![u] = [q \in Page |-> IF q \in mapped THEN shared[q] ELSE NoEntry]]
  BY DEF Fork
<1>7. phys_frames' = [f \in Frame |->
         [phys_frames[f] EXCEPT !.refcount = @ + Cardinality({q \in mapped : pt[t][q].frame = f})]]
  BY DEF Fork
<1>8. /\ pt'[t] = shared /\ \A w \in Proc \ {t, u} : pt'[w] = pt[w]
      /\ pt'[u] = [q \in Page |-> IF q \in mapped THEN shared[q] ELSE NoEntry]
      /\ DOMAIN pt' = Proc
  <2> HIDE DEF shared, mapped
  <2> QED
    BY <1>1, <1>2, <1>6
<1>9. \A q \in Page :
        /\ pt'[t][q] = Shared(pt[t][q]) \/ (pt[t][q].frame = 0 /\ pt'[t][q] = pt[t][q])
        /\ pt'[u][q] = IF pt[t][q].frame # 0 THEN Shared(pt[t][q]) ELSE NoEntry
  <2> HIDE DEF mapped
  <2>1. \A q \in Page : shared[q] = IF q \in Region(t) THEN Shared(pt[t][q]) ELSE pt[t][q]
    OBVIOUS
  <2> HIDE DEF shared
  <2> QED
    BY <1>3, <1>8, <2>1
<1>10. pt' \in [Proc -> [Page -> Entry]]
  <2> HIDE DEF mapped
  <2>1. shared \in [Page -> Entry]
    BY <1>3, EntryTypes
  <2> HIDE DEF shared
  <2>2. pt'[u] \in [Page -> Entry]
    BY <1>8, <2>1, EntryTypes
  <2>3. \A w \in Proc : pt'[w] \in [Page -> Entry]
    BY <1>1, <1>8, <2>1, <2>2
  <2> QED
    BY <1>6, <1>1, <2>1, <2>2, <1>8
<1>11. ASSUME NEW f \in Frame \ {0}
       PROVE  /\ Mappers(pt', f) = Mappers(pt, f) \cup {<<u, q>> : q \in Added(f)}
              /\ Mappers(pt, f) \cap {<<u, q>> : q \in Added(f)} = {}
  <2>1. \A q \in Page : pt[u][q].frame = 0
    BY <1>1 DEF CowInv, SpacesInv, Proc
  <2>2. \A q \in Page : /\ pt'[t][q].frame = pt[t][q].frame
                        /\ pt'[u][q].frame = pt[t][q].frame
    BY <1>3, <1>9, EntryTypes DEF NoEntry
  <2>3. \A w \in Proc, q \in Page :
          pt'[w][q].frame = IF w = u THEN pt[t][q].frame ELSE pt[w][q].frame
    BY <1>8, <2>2
  <2>4. \A s \in Slot : /\ s[1] \in Proc /\ s[2] \in Page /\ s = <<s[1], s[2]>>
    BY DEF Slot
  <2>5. ASSUME NEW s \in Slot
        PROVE  /\ s \in Mappers(pt', f) <=>
                    IF s[1] = u THEN pt[t][s[2]].frame = f ELSE s \in Mappers(pt, f)
               /\ s[1] = u => s \notin Mappers(pt, f)
               /\ s \in {<<u, q>> : q \in Added(f)} <=> s[1] = u /\ pt[t][s[2]].frame = f
    <3>1. s \in Mappers(pt', f) <=> pt'[s[1]][s[2]].frame = f
      BY DEF Mappers
    <3>2. s \in Mappers(pt, f) <=> pt[s[1]][s[2]].frame = f
      BY DEF Mappers
    <3>3. s \in {<<u, q>> : q \in Added(f)} <=> s[1] = u /\ pt[t][s[2]].frame = f
      BY <2>4
    <3> QED
      BY <2>1, <2>3, <2>4, <3>1, <3>2, <3>3
  <2>6. /\ Mappers(pt', f) \in SUBSET Slot /\ Mappers(pt, f) \in SUBSET Slot
        /\ {<<u, q>> : q \in Added(f)} \in SUBSET Slot
    BY <1>1 DEF Mappers, Slot
  <2> HIDE DEF Added, u
  <2> QED
    BY <2>5, <2>6
<1>12. \A f \in Frame \ {0} :
         phys_frames'[f] = [phys_frames[f] EXCEPT !.refcount = @ + Cardinality(Added(f))]
  <2> HIDE DEF Added, mapped
  <2> QED
    BY <1>4, <1>7
<1>13. phys_frames'[0] = phys_frames[0]
  <2>1. Cardinality({q \in mapped : pt[t][q].frame = 0}) = 0
    BY <1>5, FS_EmptySet
  <2> HIDE DEF mapped
  <2>2. phys_frames'[0] = [phys_frames[0] EXCEPT !.refcount = @ + 0]
    BY <1>1, <1>7, <2>1
  <2>3. phys_frames[0] \in [used : BOOLEAN, kernel : BOOLEAN, refcount : Nat]
    BY <1>1
  <2> QED
    BY <2>2, <2>3
<1>14. phys_frames' \in [Frame -> [used : BOOLEAN, kernel : BOOLEAN, refcount : Nat]]
  <2>1. \A f \in Frame : Cardinality({q \in mapped : pt[t][q].frame = f}) \in Nat
    BY <1>1, PagesToSlots DEF Region
  <2> HIDE DEF mapped
  <2> QED
    BY <1>1, <1>7, <2>1
<1> HIDE DEF Added
<1> QED
  BY <1>1, <1>2, <1>8, <1>9, <1>10, <1>11, <1>12, <1>13, <1>14 DEF Added

\* Fork keeps the invariant if no page of the caller is a copy.
LEMMA ForkInv ==
  ASSUME CowInv, NEW t \in Proc, Fork(t), "refork" \notin Habits
  PROVE  CowInv'
<1> DEFINE u == next_proc
           Added(f) == {q \in Page : pt[t][q].frame = f}
<1>1. /\ t \in live /\ u \in Proc /\ u \notin live /\ t # u /\ next_proc' = u + 1
      /\ pt' \in [Proc -> [Page -> Entry]]
      /\ \A q \in Page :
           /\ pt'[t][q] = Shared(pt[t][q]) \/ (pt[t][q].frame = 0 /\ pt'[t][q] = pt[t][q])
           /\ pt'[u][q] = IF pt[t][q].frame # 0 THEN Shared(pt[t][q]) ELSE NoEntry
      /\ \A w \in Proc \ {t, u} : pt'[w] = pt[w]
      /\ phys_frames'[0] = phys_frames[0]
      /\ phys_frames' \in [Frame -> [used : BOOLEAN, kernel : BOOLEAN, refcount : Nat]]
  BY ForkEffect
<1>2. \A f \in Frame \ {0} :
        /\ Mappers(pt', f) = Mappers(pt, f) \cup {<<u, q>> : q \in Added(f)}
        /\ Mappers(pt, f) \cap {<<u, q>> : q \in Added(f)} = {}
        /\ phys_frames'[f] = [phys_frames[f] EXCEPT !.refcount = @ + Cardinality(Added(f))]
  BY ForkEffect
<1>3. /\ content' = content /\ live' = live \cup {u}
      /\ PageCount' = [PageCount EXCEPT ![u] = PageCount[t]] /\ ~HasCopies(t)
  BY DEF Fork
<1>4. /\ phys_frames \in [Frame -> [used : BOOLEAN, kernel : BOOLEAN, refcount : Nat]]
      /\ pt \in [Proc -> [Page -> Entry]] /\ PageCount \in [Proc -> 0 .. MaxPage]
      /\ next_proc \in 2 .. MaxProc + 1 /\ 0 \in Frame
  BY CopyOnWriteAssumption DEF CowInv, CowTypeOK, Frame
<1>5. \A f \in Frame \ {0} :
        /\ Added(f) \in SUBSET Page /\ Cardinality(Added(f)) \in Nat
        /\ Cardinality({<<u, q>> : q \in Added(f)}) = Cardinality(Added(f))
        /\ IsFiniteSet({<<u, q>> : q \in Added(f)})
  <2>1. ASSUME NEW A \in SUBSET Page
        PROVE  /\ Cardinality(A) \in Nat
               /\ Cardinality({<<u, q>> : q \in A}) = Cardinality(A)
               /\ IsFiniteSet({<<u, q>> : q \in A})
    BY <1>1, PagesToSlots, SlotsFinite
  <2> QED
    BY <2>1
<1>6. \A w \in Proc, q \in Page :
        /\ w # t /\ w # u => pt'[w][q] = pt[w][q]
        /\ w = t \/ w = u => (pt'[w][q].frame # 0 => ~pt'[w][q].writable)
  <2> TAKE w \in Proc, q \in Page
  <2>1. w # t /\ w # u => pt'[w][q] = pt[w][q]
    BY <1>1
  <2>2. ~Shared(pt[t][q]).writable /\ NoEntry.frame = 0
    BY <1>4, EntryTypes DEF NoEntry
  <2>3. pt'[t][q].frame # 0 => ~pt'[t][q].writable
    BY <1>1, <2>2
  <2>4. pt'[u][q].frame # 0 => ~pt'[u][q].writable
    BY <1>1, <2>2
  <2> QED
    BY <2>1, <2>3, <2>4
<1>7. CowTypeOK'
  <2>1. PageCount' \in [Proc -> 0 .. MaxPage]
    BY <1>1, <1>3, <1>4
  <2>2. next_proc' \in 2 .. MaxProc + 1
    BY <1>1, <1>4, CopyOnWriteAssumption DEF Proc
  <2> QED
    BY <1>1, <1>3, <2>1, <2>2 DEF CowInv, CowTypeOK
<1>8. FramesInv'
  <2>1. ASSUME NEW f \in Frame
        PROVE  phys_frames'[f].kernel = phys_frames[f].kernel
               /\ phys_frames'[f].used = phys_frames[f].used
    <3>1. CASE f = 0
      BY <1>1, <3>1
    <3>2. CASE f # 0
      <4>1. phys_frames[f] \in [used : BOOLEAN, kernel : BOOLEAN, refcount : Nat]
        BY <1>4
      <4>2. phys_frames'[f] = [phys_frames[f] EXCEPT !.refcount = @ + Cardinality(Added(f))]
        BY <1>2, <3>2
      <4> HIDE DEF Added
      <4> QED
        BY <4>1, <4>2
    <3> QED
      BY <3>1, <3>2
  <2>2. ASSUME NEW f \in Frame \ {0}
        PROVE  Mappers(pt', f) # {} => Mappers(pt, f) # {}
    <3>1. ASSUME NEW q \in Added(f) PROVE <<t, q>> \in Mappers(pt, f)
      BY <3>1 DEF Mappers, Slot
    <3> HIDE DEF Added
    <3> QED
      BY <1>2, <3>1
  <2> QED
    BY <1>1, <1>3, <2>1, <2>2 DEF CowInv, FramesInv
<1>9. EntriesInv'
  <2>1. ASSUME NEW w \in Proc, NEW q \in Page
        PROVE  LET x == pt'[w][q]
               IN  /\ x.frame # 0 => x.present /\ x.user /\ q < PageCount'[w]
                   /\ x.frame = 0 => ~x.user
                   /\ x.cow => ~x.writable
    <3>1. LET e == pt[t][q]
          IN  /\ e \in Entry
              /\ e.frame # 0 => e.present /\ e.user /\ q < PageCount[t]
              /\ e.frame = 0 => ~e.user
              /\ e.cow => ~e.writable
      BY <1>4 DEF CowInv, EntriesInv
    <3>2. CASE w = t
      BY <1>1, <1>3, <1>4, <3>1, <3>2, EntryTypes
    <3>3. CASE w = u
      BY <1>1, <1>3, <1>4, <3>1, <3>3, EntryTypes DEF NoEntry
    <3>4. CASE w # t /\ w # u
      BY <1>3, <1>4, <1>6, <3>4 DEF CowInv, EntriesInv
    <3> QED
      BY <3>2, <3>3, <3>4
  <2> QED
    BY <2>1 DEF EntriesInv
<1>10. ExclusiveInv'
  <2>1. ASSUME NEW w \in Proc, NEW q \in Page,
               pt'[w][q].writable, pt'[w][q].frame # 0
        PROVE  Mappers(pt', pt'[w][q].frame) = {<<w, q>>}
    <3> DEFINE f == pt[w][q].frame
    <3>1. w # t /\ w # u
      BY <1>6, <2>1
    <3>2. pt'[w][q] = pt[w][q] /\ Mappers(pt, f) = {<<w, q>>} /\ f \in Frame \ {0}
      BY <1>4, <1>6, <2>1, <3>1 DEF CowInv, ExclusiveInv, Entry
    <3>3. Added(f) = {}
      <4>1. ASSUME NEW x \in Added(f) PROVE FALSE
        <5>1. <<t, x>> \in Mappers(pt, f)
          BY DEF Mappers, Slot
        <5> QED
          BY <3>1, <3>2, <5>1
      <4> QED
        BY <4>1
    <3> HIDE DEF f, Added
    <3>4. Mappers(pt', f) = Mappers(pt, f)
      BY <1>2, <3>2, <3>3
    <3> QED
      BY <3>2, <3>4 DEF f
  <2> QED
    BY <2>1 DEF ExclusiveInv
<1>11. RefcountInv'
  <2>1. ASSUME NEW f \in Frame \ {0}
        PROVE  \/ Cardinality(Mappers(pt', f)) <= phys_frames'[f].refcount
               \/ Cardinality(Mappers(pt', f)) = 1
    <3>1. Cardinality(Mappers(pt', f)) = Cardinality(Mappers(pt, f)) + Cardinality(Added(f))
      <4>1. Cardinality(Mappers(pt, f) \cap {<<u, q>> : q \in Added(f)}) = 0
        BY <1>2, FS_EmptySet
      <4>2. Cardinality(Mappers(pt, f) \cup {<<u, q>> : q \in Added(f)}) =
              Cardinality(Mappers(pt, f)) + Cardinality({<<u, q>> : q \in Added(f)})
                - Cardinality(Mappers(pt, f) \cap {<<u, q>> : q \in Added(f)})
        BY <1>5, MappersFinite, FS_Union
      <4>3. Mappers(pt', f) = Mappers(pt, f) \cup {<<u, q>> : q \in Added(f)}
        BY <1>2
      <4>4. Cardinality({<<u, q>> : q \in Added(f)}) = Cardinality(Added(f))
            /\ Cardinality(Added(f)) \in Nat /\ Cardinality(Mappers(pt, f)) \in Nat
        BY <1>5, MappersFinite
      <4> DEFINE m == Cardinality(Mappers(pt, f))
                 n == Cardinality(Mappers(pt', f))
                 a == Cardinality(Added(f))
      <4>5. n = m + a - 0 /\ m \in Nat /\ a \in Nat
        BY <4>1, <4>2, <4>3, <4>4
      <4> HIDE DEF m, n, a
      <4>6. n = m + a
        BY <4>5
      <4> QED
        BY <4>6 DEF m, n, a
    <3>2. phys_frames'[f].refcount = phys_frames[f].refcount + Cardinality(Added(f))
      BY <1>2, <1>4
    <3>3. phys_frames[f].refcount \in Nat /\ Cardinality(Added(f)) \in Nat
          /\ Cardinality(Mappers(pt, f)) \in Nat
      BY <1>4, <1>5, MappersFinite
    <3>4. \/ Cardinality(Mappers(pt, f)) <= phys_frames[f].refcount
          \/ Cardinality(Mappers(pt, f)) = 1
      BY DEF CowInv, RefcountInv
    <3>5. Added(f) # {} => phys_frames[f].refcount # 0
      BY <1>3 DEF HasCopies, CowInv, EntriesInv
    <3>6. Added(f) = {} => Cardinality(Added(f)) = 0
      BY FS_EmptySet
    <3> HIDE DEF Added
    <3> QED
      BY <3>1, <3>2, <3>3, <3>4, <3>5, <3>6
  <2> QED
    BY <2>1 DEF RefcountInv
<1>12. SpacesInv'
  <2>1. ASSUME NEW w \in Proc, NEW q \in Page, w >= next_proc'
        PROVE  pt'[w][q].frame = 0
    <3>1. w # u /\ w >= next_proc /\ w # t
      BY <1>1, <1>4, <2>1 DEF Proc, CowInv, SpacesInv
    <3> QED
      BY <1>6, <3>1 DEF CowInv, SpacesInv
  <2>2. \A w \in live' : w < next_proc'
    <3>1. live \subseteq Proc
      BY DEF CowInv, CowTypeOK
    <3> QED
      BY <1>1, <1>3, <1>4, <3>1 DEF CowInv, SpacesInv, Proc
  <2> QED
    BY <2>1, <2>2 DEF SpacesInv
<1> QED
  BY <1>7, <1>8, <1>9, <1>10, <1>11, <1>12 DEF CowInv

\* exit leaves frames and page tables as they are.
LEMMA ExitInv ==
  ASSUME CowInv, NEW t \in Proc, Exit(t)
  PROVE  CowInv'
BY DEF Exit, CowInv, CowTypeOK, FramesInv, EntriesInv, ExclusiveInv, RefcountInv, SpacesInv

\* The frames LoadElf takes are free ones, another one for every page.
LEMMA LoadedFrames ==
  ASSUME Cardinality(FreeFrames(phys_frames)) >= Text + Data
  PROVE  LET frame == [p \in ImagePages |-> Nth(FreeFrames(phys_frames), p)]
         IN  /\ \A p \in ImagePages : frame[p] \in FreeFrames(phys_frames)
             /\ \A p, q \in ImagePages : frame[p] = frame[q] => p = q
<1> DEFINE S == FreeFrames(phys_frames)
<1>1. S \in SUBSET Nat /\ IsFiniteSet(S)
  <2>1. S \in SUBSET Frame /\ Frame \in SUBSET Nat
    BY CopyOnWriteAssumption DEF FreeFrames, Frame
  <2>2. IsFiniteSet(Frame)
    BY CopyOnWriteAssumption, FS_Interval DEF Frame
  <2> QED
    BY <2>1, <2>2, FS_Subset
<1>2. \A p \in ImagePages : p \in Nat /\ p < Cardinality(S)
  BY <1>1, CopyOnWriteAssumption, FS_CardinalityType DEF ImagePages, Page
<1> HIDE DEF S
<1>3. \A p \in ImagePages : Nth(S, p) \in S /\ Cardinality({g \in S : g < Nth(S, p)}) = p
  BY <1>1, <1>2, NthElement
<1>4. \A p, q \in ImagePages : Nth(S, p) = Nth(S, q) => p = q
  <2> TAKE p, q \in ImagePages
  <2> HAVE Nth(S, p) = Nth(S, q)
  <2>1. Cardinality({g \in S : g < Nth(S, p)}) = p
    BY <1>3
  <2>2. Cardinality({g \in S : g < Nth(S, q)}) = q
    BY <1>3
  <2> QED
    BY <2>1, <2>2
<1> QED
  BY <1>3, <1>4 DEF S

\* What execve does to page tables and frames: the new address space has a
\* frame of its own for every page of the image.
LEMMA ExecveEffect ==
  ASSUME CowInv, NEW t \in Proc, Execve(t)
  PROVE  LET u == next_proc
         IN  /\ t \in live /\ u \in Proc /\ u \notin live /\ t # u /\ next_proc' = u + 1
             /\ pt' \in [Proc -> [Page -> Entry]]
             /\ \A w \in Proc \ {u} : pt'[w] = pt[w]
             /\ \A q \in Page \ ImagePages : pt'[u][q] = NoEntry
             /\ \A q \in ImagePages :
                  LET f == pt'[u][q].frame
                  IN  /\ pt'[u][q] = UserEntry(f, q >= Text)
                      /\ f \in FreeFrames(phys_frames) /\ f \in Frame \ {0}
                      /\ Mappers(pt', f) = {<<u, q>>}
                      /\ phys_frames'[f] = [used |-> TRUE, kernel |-> FALSE,
                                            refcount |-> phys_frames[f].refcount + 1]
                      /\ content'[f] = "file"
             /\ \A f \in Frame : (\A q \in ImagePages : pt'[u][q].frame # f) =>
                  /\ phys_frames'[f] = phys_frames[f] /\ content'[f] = content[f]
                  /\ f # 0 => Mappers(pt', f) = Mappers(pt, f)
             /\ phys_frames' \in [Frame -> [used : BOOLEAN, kernel : BOOLEAN, refcount : Nat]]
             /\ content' \in [Frame -> Val]
<1> DEFINE u == next_proc
           frame == [q \in ImagePages |-> Nth(FreeFrames(phys_frames), q)]
           taken == {frame[q] : q \in ImagePages}
           space == [q \in Page |-> IF q \in ImagePages THEN UserEntry(frame[q], q >= Text)
                                    ELSE NoEntry]
<1>1. /\ pt \in [Proc -> [Page -> Entry]] /\ u \in Proc /\ t \in live /\ next_proc' = u + 1
      /\ phys_frames \in [Frame -> [used : BOOLEAN, kernel : BOOLEAN, refcount : Nat]]
      /\ content \in [Frame -> Val] /\ 0 \in Frame
      /\ Cardinality(FreeFrames(phys_frames)) >= Text + Data
  BY CopyOnWriteAssumption DEF Execve, Loaded, CowInv, CowTypeOK, Frame
<1>2. u \notin live /\ t # u
  BY <1>1 DEF CowInv, SpacesInv, Proc
<1>3. /\ \A q \in ImagePages : frame[q] \in FreeFrames(phys_frames)
      /\ \A p, q \in ImagePages : frame[p] = frame[q] => p = q
  BY <1>1, LoadedFrames
<1>4. /\ pt' = [pt EXCEPT ![u] = space]
      /\ phys_frames' = [f \in Frame |-> IF f \in taken
                                         THEN [used |-> TRUE, kernel |-> FALSE,
                                               refcount |-> phys_frames[f].refcount + 1]
                                         ELSE phys_frames[f]]
      /\ content' = [f \in Frame |-> IF f \in taken THEN "file" ELSE content[f]]
  BY DEF Execve, Loaded
<1>5. \A q \in ImagePages : q \in Page /\ frame[q] \in Frame \ {0} /\ frame[q] \in taken
                            /\ Mappers(pt, frame[q]) = {}
  BY <1>3, FreeFrameUnmapped DEF ImagePages
<1>6. taken \in SUBSET (Frame \ {0})
  BY <1>5
<1> HIDE DEF frame
<1>7. \A q \in ImagePages : /\ UserEntry(frame[q], q >= Text) \in Entry
                            /\ UserEntry(frame[q], q >= Text).frame = frame[q]
  BY <1>5 DEF UserEntry, Entry
<1>8. space \in [Page -> Entry]
  BY <1>7, EntryTypes
<1>9. /\ \A q \in ImagePages : space[q] = UserEntry(frame[q], q >= Text)
      /\ \A q \in Page \ ImagePages : space[q] = NoEntry
  BY <1>5
<1> HIDE DEF space
<1>10. /\ pt' \in [Proc -> [Page -> Entry]] /\ pt'[u] = space
       /\ \A w \in Proc \ {u} : pt'[w] = pt[w]
  BY <1>1, <1>4, <1>8
<1>11. \A q \in ImagePages : pt'[u][q] = UserEntry(frame[q], q >= Text)
                             /\ pt'[u][q].frame = frame[q]
  BY <1>7, <1>9, <1>10
<1>12. ASSUME NEW f \in Frame \ {0}, NEW s \in Slot
       PROVE  /\ s \in Mappers(pt', f) <=>
                   IF s[1] = u THEN s[2] \in ImagePages /\ frame[s[2]] = f
                   ELSE s \in Mappers(pt, f)
              /\ s[1] = u => s \notin Mappers(pt, f)
  <2>1. s[1] \in Proc /\ s[2] \in Page
    BY DEF Slot
  <2>2. s \in Mappers(pt', f) <=> pt'[s[1]][s[2]].frame = f
    BY DEF Mappers
  <2>3. s \in Mappers(pt, f) <=> pt[s[1]][s[2]].frame = f
    BY DEF Mappers
  <2>4. \A q \in Page : pt[u][q].frame = 0
    BY <1>1 DEF CowInv, SpacesInv, Proc
  <2>5. NoEntry.frame = 0
    BY DEF NoEntry
  <2> QED
    BY <1>9, <1>10, <1>11, <2>1, <2>2, <2>3, <2>4, <2>5
<1>13. \A f : Mappers(pt', f) \in SUBSET Slot /\ Mappers(pt, f) \in SUBSET Slot
  BY DEF Mappers
<1>14. ASSUME NEW q \in ImagePages
       PROVE  Mappers(pt', frame[q]) = {<<u, q>>}
  <2>1. <<u, q>> \in Slot /\ <<u, q>>[1] = u /\ <<u, q>>[2] = q
    BY <1>1, <1>5 DEF Slot
  <2>2. \A s \in Slot : s = <<s[1], s[2]>>
    BY DEF Slot
  <2>3. ASSUME NEW s \in Slot
        PROVE  s \in Mappers(pt', frame[q]) <=> s = <<u, q>>
    <3>1. s \in Mappers(pt', frame[q]) <=>
            s[1] = u /\ s[2] \in ImagePages /\ frame[s[2]] = frame[q]
      BY <1>5, <1>12
    <3> QED
      BY <1>3, <2>1, <2>2, <3>1 DEF frame
  <2> QED
    BY <1>13, <2>1, <2>3
<1>15. ASSUME NEW f \in Frame, \A q \in ImagePages : pt'[u][q].frame # f
       PROVE  /\ phys_frames'[f] = phys_frames[f] /\ content'[f] = content[f]
              /\ f # 0 => Mappers(pt', f) = Mappers(pt, f)
  <2>1. f \notin taken
    BY <1>11, <1>15
  <2>2. ASSUME f # 0 PROVE Mappers(pt', f) = Mappers(pt, f)
    <3>1. \A s \in Slot : s \in Mappers(pt', f) <=> s \in Mappers(pt, f)
      BY <1>11, <1>12, <1>15, <2>2
    <3> QED
      BY <1>13, <3>1
  <2> QED
    BY <1>4, <2>1, <2>2
<1>16. phys_frames' \in [Frame -> [used : BOOLEAN, kernel : BOOLEAN, refcount : Nat]]
  <2> HIDE DEF taken
  <2> QED
    BY <1>1, <1>4
<1>17. content' \in [Frame -> Val]
  <2> HIDE DEF taken
  <2> QED
    BY <1>1, <1>4 DEF Val
<1>18. \A q \in ImagePages :
         LET f == pt'[u][q].frame
         IN  /\ pt'[u][q] = UserEntry(f, q >= Text)
             /\ f \in FreeFrames(phys_frames) /\ f \in Frame \ {0}
             /\ Mappers(pt', f) = {<<u, q>>}
             /\ phys_frames'[f] = [used |-> TRUE, kernel |-> FALSE,
                                   refcount |-> phys_frames[f].refcount + 1]
             /\ content'[f] = "file"
  <2> TAKE q \in ImagePages
  <2>1. /\ pt'[u][q].frame = frame[q] /\ frame[q] \in taken
        /\ frame[q] \in Frame \ {0} /\ frame[q] \in FreeFrames(phys_frames)
    BY <1>3, <1>5, <1>11 DEF frame
  <2> HIDE DEF taken
  <2> QED
    BY <1>4, <1>11, <1>14, <2>1
<1> QED
  BY <1>1, <1>2, <1>9, <1>10, <1>15, <1>16, <1>17, <1>18

\* execve keeps the invariant.
LEMMA ExecveInv ==
  ASSUME CowInv, NEW t \in Proc, Execve(t)
  PROVE  CowInv'
<1> DEFINE u == next_proc
<1>1. /\ t \in live /\ u \in Proc /\ u \notin live /\ t # u /\ next_proc' = u + 1
      /\ pt' \in [Proc -> [Page -> Entry]]
      /\ \A w \in Proc \ {u} : pt'[w] = pt[w]
      /\ \A q \in Page \ ImagePages : pt'[u][q] = NoEntry
      /\ \A q \in ImagePages :
           LET f == pt'[u][q].frame
           IN  /\ pt'[u][q] = UserEntry(f, q >= Text)
               /\ f \in FreeFrames(phys_frames) /\ f \in Frame \ {0}
               /\ Mappers(pt', f) = {<<u, q>>}
               /\ phys_frames'[f] = [used |-> TRUE, kernel |-> FALSE,
                                     refcount |-> phys_frames[f].refcount + 1]
      /\ \A f \in Frame : (\A q \in ImagePages : pt'[u][q].frame # f) =>
           /\ phys_frames'[f] = phys_frames[f] /\ content'[f] = content[f]
           /\ f # 0 => Mappers(pt', f) = Mappers(pt, f)
      /\ phys_frames' \in [Frame -> [used : BOOLEAN, kernel : BOOLEAN, refcount : Nat]]
      /\ content' \in [Frame -> Val]
  BY ExecveEffect
<1>2. /\ PageCount' = [PageCount EXCEPT ![u] = PageCount[t] + Text + Data]
      /\ PageCount[t] + Text + Data <= MaxPage
      /\ live' = (live \ {t}) \cup {u}
  BY DEF Execve
<1>3. /\ PageCount \in [Proc -> 0 .. MaxPage] /\ next_proc \in 2 .. MaxProc + 1
      /\ pt \in [Proc -> [Page -> Entry]] /\ live \subseteq Proc
      /\ phys_frames \in [Frame -> [used : BOOLEAN, kernel : BOOLEAN, refcount : Nat]]
  BY DEF CowInv, CowTypeOK
<1>4. PageCount' \in [Proc -> 0 .. MaxPage] /\ PageCount'[u] >= Text + Data
  <2>1. PageCount[t] + Text + Data \in 0 .. MaxPage /\ PageCount[t] + Text + Data >= Text + Data
    BY <1>2, <1>3, CopyOnWriteAssumption
  <2> QED
    BY <1>1, <1>2, <1>3, <2>1
<1>5. CowTypeOK'
  <2>1. next_proc' \in 2 .. MaxProc + 1
    BY <1>1, <1>3, CopyOnWriteAssumption DEF Proc
  <2> QED
    BY <1>1, <1>2, <1>3, <1>4, <2>1 DEF CowTypeOK
<1>6. ASSUME NEW f \in Frame \ {0}
      PROVE  \/ \E q \in ImagePages :
                  /\ Mappers(pt', f) = {<<u, q>>} /\ phys_frames'[f].used
                  /\ ~phys_frames'[f].kernel
             \/ /\ phys_frames'[f] = phys_frames[f] /\ content'[f] = content[f]
                /\ Mappers(pt', f) = Mappers(pt, f)
  <2>1. CASE \A q \in ImagePages : pt'[u][q].frame # f
    BY <1>1, <2>1
  <2>2. CASE \E q \in ImagePages : pt'[u][q].frame = f
    <3>1. PICK q \in ImagePages : pt'[u][q].frame = f
      BY <2>2
    <3>2. /\ Mappers(pt', f) = {<<u, q>>}
          /\ phys_frames'[f] = [used |-> TRUE, kernel |-> FALSE,
                                refcount |-> phys_frames[f].refcount + 1]
      BY <1>1, <3>1
    <3> QED
      BY <3>2
  <2> QED
    BY <2>1, <2>2
<1>7. phys_frames'[0] = phys_frames[0]
  <2>1. 0 \in Frame
    BY CopyOnWriteAssumption DEF Frame
  <2>2. \A q \in ImagePages : pt'[u][q].frame # 0
    BY <1>1
  <2> QED
    BY <1>1, <2>1, <2>2
<1>8. FramesInv'
  <2>1. ASSUME NEW f \in Frame
        PROVE  phys_frames'[f].kernel <=> f = 0
    BY <1>6, <1>7 DEF CowInv, FramesInv
  <2>2. ASSUME NEW f \in Frame \ {0}
        PROVE  /\ Mappers(pt', f) # {} => phys_frames'[f].used
               /\ ~phys_frames'[f].used => content'[f] = "blank"
    BY <1>6 DEF CowInv, FramesInv
  <2> QED
    BY <1>7, <2>1, <2>2 DEF CowInv, FramesInv
<1>9. ASSUME NEW q \in Page
      PROVE  \/ /\ q \in ImagePages /\ q < Text + Data
                /\ pt'[u][q].present /\ pt'[u][q].user
                /\ pt'[u][q].frame \in Frame \ {0} /\ ~pt'[u][q].cow
                /\ Mappers(pt', pt'[u][q].frame) = {<<u, q>>}
             \/ /\ q \notin ImagePages /\ pt'[u][q].frame = 0 /\ ~pt'[u][q].user
                /\ ~pt'[u][q].cow
  <2>1. CASE q \in ImagePages
    <3>1. q < Text + Data
      BY <2>1 DEF ImagePages
    <3>2. pt'[u][q].frame \in Frame \ {0}
          /\ pt'[u][q] = UserEntry(pt'[u][q].frame, q >= Text)
          /\ Mappers(pt', pt'[u][q].frame) = {<<u, q>>}
      BY <1>1, <2>1
    <3>3. pt'[u][q].present /\ pt'[u][q].user /\ ~pt'[u][q].cow
      BY <3>2 DEF UserEntry
    <3> QED
      BY <2>1, <3>1, <3>2, <3>3
  <2>2. CASE q \notin ImagePages
    BY <1>1, <2>2 DEF NoEntry
  <2> QED
    BY <2>1, <2>2
<1>10. EntriesInv'
  <2>1. ASSUME NEW w \in Proc, NEW q \in Page
        PROVE  LET x == pt'[w][q]
               IN  /\ x.frame # 0 => x.present /\ x.user /\ q < PageCount'[w]
                   /\ x.frame = 0 => ~x.user
                   /\ x.cow => ~x.writable
    <3>1. CASE w = u
      <4>1. PageCount'[u] \in Nat /\ q \in Nat /\ Text + Data \in Nat
        BY <1>1, <1>4, CopyOnWriteAssumption DEF Page
      <4> QED
        BY <1>4, <1>9, <3>1, <4>1
    <3>2. CASE w # u
      BY <1>1, <1>2, <1>3, <3>2 DEF CowInv, EntriesInv
    <3> QED
      BY <3>1, <3>2
  <2> QED
    BY <2>1 DEF EntriesInv
<1>11. ExclusiveInv'
  <2>1. ASSUME NEW w \in Proc, NEW q \in Page, pt'[w][q].writable, pt'[w][q].frame # 0
        PROVE  Mappers(pt', pt'[w][q].frame) = {<<w, q>>}
    <3>1. CASE w = u
      BY <1>9, <2>1, <3>1
    <3>2. CASE w # u
      <4> DEFINE f == pt[w][q].frame
      <4>1. pt'[w][q] = pt[w][q] /\ f \in Frame \ {0} /\ Mappers(pt, f) = {<<w, q>>}
        BY <1>1, <1>3, <2>1, <3>2 DEF CowInv, ExclusiveInv, Entry
      <4>2. \A x \in ImagePages : pt'[u][x].frame # f
        <5>1. \A x \in ImagePages : Mappers(pt, pt'[u][x].frame) = {}
          BY <1>1, FreeFrameUnmapped
        <5> QED
          BY <4>1, <5>1
      <4> HIDE DEF f
      <4>3. Mappers(pt', f) = {<<w, q>>}
        BY <1>1, <4>1, <4>2
      <4> QED
        BY <4>1, <4>3 DEF f
    <3> QED
      BY <3>1, <3>2
  <2> QED
    BY <2>1 DEF ExclusiveInv
<1>12. RefcountInv'
  <2>1. ASSUME NEW f \in Frame \ {0}
        PROVE  \/ Cardinality(Mappers(pt', f)) <= phys_frames'[f].refcount
               \/ Cardinality(Mappers(pt', f)) = 1
    <3>1. \A q : Cardinality({<<u, q>>}) = 1
      BY FS_Singleton
    <3> QED
      BY <1>6, <3>1 DEF CowInv, RefcountInv
  <2> QED
    BY <2>1 DEF RefcountInv
<1>13. SpacesInv'
  <2>1. \A w \in live' : w < next_proc'
    BY <1>1, <1>2, <1>3 DEF CowInv, SpacesInv, Proc
  <2>2. ASSUME NEW w \in Proc, NEW q \in Page, w >= next_proc'
        PROVE  pt'[w][q].frame = 0
    <3>1. w # u /\ w >= next_proc
      BY <1>1, <1>3, <2>2 DEF Proc
    <3> QED
      BY <1>1, <3>1 DEF CowInv, SpacesInv
  <2> QED
    BY <2>1, <2>2 DEF SpacesInv
<1> QED
  BY <1>5, <1>8, <1>10, <1>11, <1>12, <1>13 DEF CowInv

----------------------------------------------------------------------------
(* Free frames                                                             *)

\* The number of entries that name a frame after a fault.
LEMMA UpdatedMappers ==
  ASSUME CowInv, NEW t \in Proc, NEW p \in Page, NEW e, IsUpdate(pt', pt, t, p, e),
         NEW f, f # e.frame, f # pt[t][p].frame
  PROVE  Mappers(pt', f) = Mappers(pt, f)
<1>1. <<t, p>> \notin Mappers(pt, f)
  BY DEF Mappers
<1>2. Mappers(pt', f) = Mappers(pt, f) \ {<<t, p>>}
  BY DEF IsUpdate
<1> QED
  BY <1>1, <1>2

\* A copy takes one reference from the old frame and gives one to the new.
LEMMA CopyFrameAccount ==
  ASSUME CowInv, AccountInv, NEW t \in Proc, NEW p \in Page,
         RoomForCopy(t, p), pt[t][p].cow, CopyFrame(t, p)
  PROVE  AccountInv'
<1> DEFINE old == pt[t][p].frame
           new == FindNextFreePhysical(phys_frames)
<1>1. pt \in [Proc -> [Page -> Entry]] /\ pt[t][p] \in Entry /\ old \in Frame
  BY DEF CowInv, CowTypeOK, Entry
<1>2. /\ phys_frames \in [Frame -> [used : BOOLEAN, kernel : BOOLEAN, refcount : Nat]]
      /\ \A f \in Frame : phys_frames[f].refcount \in Nat
  BY DEF CowInv, CowTypeOK
<1>3. <<t, p>> \in Mappers(pt, old)
  BY DEF Mappers, Slot
<1>4. CASE phys_frames[old].refcount <= 1
  <2> DEFINE e == Opened(pt[t][p])
  <2>1. pt' = [pt EXCEPT ![t][p] = e] /\ phys_frames' = phys_frames
    BY <1>4 DEF CopyFrame
  <2>2. e \in Entry /\ e.frame = old
    BY <1>1, EntryTypes
  <2>3. IsUpdate(pt', pt, t, p, e)
    BY <1>1, <2>1, <2>2, OneSlot
  <2> HIDE DEF e
  <2>4. ASSUME NEW f PROVE Mappers(pt', f) = Mappers(pt, f)
    <3>1. CASE f = old
      <4>1. Mappers(pt', f) = Mappers(pt, f) \cup {<<t, p>>}
        BY <2>2, <2>3, <3>1 DEF IsUpdate
      <4> QED
        BY <1>3, <3>1, <4>1
    <3>2. CASE f # old
      BY <2>2, <2>3, <3>2, UpdatedMappers
    <3> QED
      BY <3>1, <3>2
  <2> QED
    BY <2>1, <2>4 DEF AccountInv
<1>5. CASE ~(phys_frames[old].refcount <= 1)
  <2> DEFINE e == [Opened(pt[t][p]) EXCEPT !.frame = new]
  <2>1. /\ phys_frames' = [phys_frames EXCEPT ![old].refcount = @ - 1, ![new].used = TRUE]
        /\ pt' = [pt EXCEPT ![t][p] = e]
    BY <1>5 DEF CopyFrame
  <2>2. new \in FreeFrames(phys_frames)
    BY <1>1, <1>2, <1>5, FreeFrameFound DEF RoomForCopy, CowInv
  <2>3. new \in Frame /\ new # 0 /\ Mappers(pt, new) = {} /\ ~phys_frames[new].used
    BY <2>2, FreeFrameUnmapped DEF FreeFrames
  <2>4. old # 0 /\ old # new
    BY <1>2, <1>3, <1>5, <2>3 DEF CowInv, FramesInv
  <2>5. e \in Entry /\ e.frame = new
    BY <1>1, <2>3, EntryTypes
  <2>6. IsUpdate(pt', pt, t, p, e)
    BY <1>1, <2>1, <2>5, OneSlot
  <2> HIDE DEF new, e
  <2>7. /\ \A f \in Frame \ {new, old} : phys_frames'[f] = phys_frames[f]
        /\ phys_frames'[old].used = phys_frames[old].used
        /\ phys_frames'[old].refcount = phys_frames[old].refcount - 1
        /\ phys_frames'[new].refcount = phys_frames[new].refcount
    BY <1>1, <1>2, <2>1, <2>3, <2>4
  <2>8. ASSUME NEW f \in Frame \ {0}
        PROVE  /\ phys_frames'[f].used => Mappers(pt', f) # {}
               /\ phys_frames'[f].refcount <= Cardinality(Mappers(pt', f))
    <3>1. CASE f = new
      <4>1. Mappers(pt', f) = {<<t, p>>}
        BY <2>3, <2>5, <2>6, <3>1 DEF IsUpdate
      <4>2. Cardinality({<<t, p>>}) = 1 /\ Cardinality({}) = 0
        BY FS_Singleton, FS_EmptySet
      <4>3. phys_frames[f].refcount <= 0
        BY <2>3, <3>1, <4>2 DEF AccountInv
      <4>4. phys_frames'[f].refcount <= 1
        BY <1>2, <2>7, <3>1, <4>3
      <4> QED
        BY <4>1, <4>2, <4>4
    <3>2. CASE f = old
      <4>1. Mappers(pt', f) = Mappers(pt, f) \ {<<t, p>>}
        BY <2>4, <2>5, <2>6, <3>2 DEF IsUpdate
      <4>2. Cardinality(Mappers(pt', f)) = Cardinality(Mappers(pt, f)) - 1
        <5>1. <<t, p>> \in Mappers(pt, f) /\ IsFiniteSet(Mappers(pt, f))
          BY <1>3, <3>2, MappersFinite
        <5> QED
          BY <4>1, <5>1, FS_RemoveElement
      <4>3. phys_frames[f].refcount <= Cardinality(Mappers(pt, f))
        BY DEF AccountInv
      <4>4. phys_frames[f].refcount \in Nat /\ Cardinality(Mappers(pt, f)) \in Nat
        BY <1>2, MappersFinite
      <4>5. phys_frames[f].refcount > 1 /\ phys_frames'[f].refcount = phys_frames[f].refcount - 1
        BY <1>5, <2>7, <3>2, <4>4
      <4>6. Cardinality(Mappers(pt', f)) # 0
            /\ phys_frames'[f].refcount <= Cardinality(Mappers(pt', f))
        BY <4>2, <4>3, <4>4, <4>5
      <4> QED
        BY <4>6, FS_EmptySet
    <3>3. CASE f # old /\ f # new
      <4>1. Mappers(pt', f) = Mappers(pt, f)
        BY <2>5, <2>6, <3>3, UpdatedMappers
      <4> QED
        BY <2>7, <3>3, <4>1 DEF AccountInv
    <3> QED
      BY <3>1, <3>2, <3>3
  <2> QED
    BY <2>8 DEF AccountInv
<1> QED
  BY <1>4, <1>5

\* Without stores into read-only pages, a new page goes where none was.
LEMMA DemandPageAccount ==
  ASSUME CowInv, AccountInv, NEW t \in Proc, NEW p \in Page, pt[t][p].frame = 0,
         DemandPage(t, p)
  PROVE  AccountInv'
<1> DEFINE new == FindNextFreePhysical(phys_frames)
           e == UserEntry(new, TRUE)
<1>1. pt \in [Proc -> [Page -> Entry]] /\ new \in Frame /\ e \in Entry /\ e.frame = new
  BY FreeFrameFound, EntryTypes DEF CowInv, CowTypeOK
<1>2. CASE ~Mappable(phys_frames, new)
  BY <1>2 DEF DemandPage, AccountInv
<1>3. CASE Mappable(phys_frames, new)
  <2>1. phys_frames' = Referenced(phys_frames, new) /\ pt' = [pt EXCEPT ![t][p] = e]
    BY <1>3 DEF DemandPage
  <2>2. new # 0
    BY <1>1, <1>3 DEF Mappable, CowInv, FramesInv
  <2>3. new \in FreeFrames(phys_frames)
    BY <2>2, FreeFrameFound DEF FindNextFreePhysical, CowInv
  <2>4. Mappers(pt, new) = {}
    BY <2>3, FreeFrameUnmapped
  <2>5. IsUpdate(pt', pt, t, p, e)
    BY <1>1, <2>1, OneSlot
  <2> HIDE DEF new, e
  <2>6. /\ \A f \in Frame \ {new} : phys_frames'[f] = phys_frames[f]
        /\ phys_frames'[new].refcount = phys_frames[new].refcount + 1
        /\ phys_frames[new].refcount \in Nat
    BY <1>1, <2>1 DEF Referenced, CowInv, CowTypeOK
  <2>7. ASSUME NEW f \in Frame \ {0}
        PROVE  /\ phys_frames'[f].used => Mappers(pt', f) # {}
               /\ phys_frames'[f].refcount <= Cardinality(Mappers(pt', f))
    <3>1. CASE f = new
      <4>1. Mappers(pt', f) = {<<t, p>>}
        BY <1>1, <2>4, <2>5, <3>1 DEF IsUpdate
      <4>2. Cardinality({<<t, p>>}) = 1 /\ Cardinality({}) = 0
        BY FS_Singleton, FS_EmptySet
      <4>3. phys_frames[f].refcount <= 0
        BY <2>4, <3>1, <4>2 DEF AccountInv
      <4>4. phys_frames'[f].refcount <= 1
        BY <2>6, <3>1, <4>3
      <4> QED
        BY <4>1, <4>2, <4>4
    <3>2. CASE f # new
      <4>1. Mappers(pt', f) = Mappers(pt, f)
        BY <1>1, <2>5, <3>2, UpdatedMappers
      <4> QED
        BY <2>6, <3>2, <4>1 DEF AccountInv
    <3> QED
      BY <3>1, <3>2
  <2> QED
    BY <2>7 DEF AccountInv
<1> QED
  BY <1>2, <1>3

\* An access that faults on an entry that names a frame is a store into a
\* page that is read-only or to be copied.
LEMMA PageFaultAccount ==
  ASSUME CowInv, AccountInv, NEW t \in Proc, NEW p \in Page, PageFault(t, p),
         RoomForCopy(t, p), "text" \notin Habits
  PROVE  AccountInv'
<1>1. CASE pt[t][p].cow /\ CopyFrame(t, p)
  BY <1>1, CopyFrameAccount
<1>2. CASE ~pt[t][p].cow /\ DemandPage(t, p)
  <2>1. pt[t][p].frame = 0
    <3>1. ~ReadOnly(pt[t][p]) /\ \E store \in BOOLEAN : UserFaults(pt[t][p], store)
      BY DEF PageFault
    <3>2. pt[t][p].frame # 0 => pt[t][p].present /\ pt[t][p].user
      BY DEF CowInv, EntriesInv
    <3>3. pt[t][p].frame # 0 => ReadOnly(pt[t][p])
      BY <1>2, <3>1, <3>2 DEF UserFaults, ReadOnly
    <3> QED
      BY <3>1, <3>3
  <2> QED
    BY <1>2, <2>1, DemandPageAccount
<1> QED
  BY <1>1, <1>2 DEF PageFault, HandlePageFault

\* Fork adds as many references to a frame as entries.
LEMMA ForkAccount ==
  ASSUME CowInv, AccountInv, NEW t \in Proc, Fork(t)
  PROVE  AccountInv'
<1> DEFINE u == next_proc
           Added(f) == {q \in Page : pt[t][q].frame = f}
           New(f) == {<<u, q>> : q \in Added(f)}
<1>1. /\ u \in Proc
      /\ \A f \in Frame \ {0} :
           /\ Mappers(pt', f) = Mappers(pt, f) \cup New(f)
           /\ Mappers(pt, f) \cap New(f) = {}
           /\ phys_frames'[f] = [phys_frames[f] EXCEPT !.refcount = @ + Cardinality(Added(f))]
  BY ForkEffect
<1>2. ASSUME NEW f \in Frame \ {0}
      PROVE  /\ phys_frames'[f].used => Mappers(pt', f) # {}
             /\ phys_frames'[f].refcount <= Cardinality(Mappers(pt', f))
  <2> DEFINE M == Mappers(pt, f)
             A == New(f)
             r == phys_frames[f].refcount
  <2>1. Added(f) \in SUBSET Page
    OBVIOUS
  <2>2. /\ Cardinality(Added(f)) \in Nat /\ Cardinality(A) = Cardinality(Added(f))
        /\ IsFiniteSet(A) /\ IsFiniteSet(M) /\ Cardinality(M) \in Nat
    BY <1>1, <2>1, PagesToSlots, SlotsFinite, MappersFinite
  <2>3. phys_frames[f] \in [used : BOOLEAN, kernel : BOOLEAN, refcount : Nat]
    BY DEF CowInv, CowTypeOK
  <2>4. /\ phys_frames'[f].used = phys_frames[f].used
        /\ phys_frames'[f].refcount = r + Cardinality(Added(f)) /\ r \in Nat
    BY <1>1, <2>3
  <2>5. Mappers(pt', f) = M \cup A /\ M \cap A = {}
    BY <1>1
  <2>6. (phys_frames[f].used => M # {}) /\ r <= Cardinality(M)
    BY DEF AccountInv
  <2> HIDE DEF M, A, r, New, Added
  <2>7. Cardinality(M \cup A) = Cardinality(M) + Cardinality(A) - Cardinality(M \cap A)
    BY <2>2, FS_Union
  <2>8. Cardinality(M \cap A) = 0
    BY <2>5, FS_EmptySet
  <2>9. r + Cardinality(A) <= Cardinality(M \cup A)
    BY <2>2, <2>4, <2>6, <2>7, <2>8
  <2> QED
    BY <2>2, <2>4, <2>5, <2>6, <2>9
<1> QED
  BY <1>2 DEF AccountInv

\* The frames LoadElf takes get one reference and one entry each.
LEMMA ExecveAccount ==
  ASSUME CowInv, AccountInv, NEW t \in Proc, Execve(t)
  PROVE  AccountInv'
<1> DEFINE u == next_proc
<1>1. /\ \A q \in ImagePages :
           LET f == pt'[u][q].frame
           IN  /\ f \in FreeFrames(phys_frames) /\ f \in Frame \ {0}
               /\ Mappers(pt', f) = {<<u, q>>}
               /\ phys_frames'[f] = [used |-> TRUE, kernel |-> FALSE,
                                     refcount |-> phys_frames[f].refcount + 1]
      /\ \A f \in Frame : (\A q \in ImagePages : pt'[u][q].frame # f) =>
           /\ phys_frames'[f] = phys_frames[f]
           /\ f # 0 => Mappers(pt', f) = Mappers(pt, f)
  BY ExecveEffect
<1>2. ASSUME NEW f \in Frame \ {0}
      PROVE  /\ phys_frames'[f].used => Mappers(pt', f) # {}
             /\ phys_frames'[f].refcount <= Cardinality(Mappers(pt', f))
  <2>1. CASE \A q \in ImagePages : pt'[u][q].frame # f
    BY <1>1, <2>1 DEF AccountInv
  <2>2. ASSUME NEW q \in ImagePages, pt'[u][q].frame = f
        PROVE  /\ phys_frames'[f].used => Mappers(pt', f) # {}
               /\ phys_frames'[f].refcount <= Cardinality(Mappers(pt', f))
    <3>1. /\ f \in FreeFrames(phys_frames) /\ Mappers(pt', f) = {<<u, q>>}
          /\ phys_frames'[f].refcount = phys_frames[f].refcount + 1
      <4>1. /\ f \in FreeFrames(phys_frames) /\ Mappers(pt', f) = {<<u, q>>}
            /\ phys_frames'[f] = [used |-> TRUE, kernel |-> FALSE,
                                  refcount |-> phys_frames[f].refcount + 1]
        BY <1>1, <2>2
      <4> QED
        BY <4>1
    <3>2. Mappers(pt, f) = {}
      BY <3>1, FreeFrameUnmapped
    <3>3. Cardinality({<<u, q>>}) = 1 /\ Cardinality({}) = 0
      BY FS_Singleton, FS_EmptySet
    <3>4. phys_frames[f].refcount <= 0 /\ phys_frames[f].refcount \in Nat
      BY <3>2, <3>3 DEF AccountInv, CowInv, CowTypeOK
    <3>5. phys_frames'[f].refcount <= 1
      BY <3>1, <3>4
    <3> QED
      BY <3>1, <3>3, <3>5
  <2> QED
    BY <2>1, <2>2
<1> QED
  BY <1>2 DEF AccountInv

\* With more frames than entries, a fault on a shared frame finds a free one:
\* if every frame were in use, each would be named by an entry other than the
\* faulting one.
LEMMA AlwaysRoomForCopy ==
  ASSUME CowInv, AccountInv, FrameCount > MaxProc * MaxPage,
         NEW t \in Proc, NEW p \in Page
  PROVE  RoomForCopy(t, p)
<1> DEFINE old == pt[t][p].frame
           Rest == Slot \ {<<t, p>>}
           User == Frame \ {0}
           namer == [f \in User |-> CHOOSE m \in Mappers(pt, f) : m # <<t, p>>]
<1> SUFFICES ASSUME phys_frames[old].refcount > 1, FreeFrames(phys_frames) = {}
             PROVE  FALSE
  BY DEF RoomForCopy
<1>1. ASSUME NEW f \in User
      PROVE  \E m \in Mappers(pt, f) : m # <<t, p>>
  <2>1. Mappers(pt, f) # {}
    BY DEF FreeFrames, AccountInv, CowInv, FramesInv
  <2>2. CASE f = old
    <3>1. ~(Cardinality(Mappers(pt, f)) <= 1)
      <4>1. phys_frames[f].refcount <= Cardinality(Mappers(pt, f))
        BY DEF AccountInv
      <4>2. phys_frames[f].refcount \in Nat /\ Cardinality(Mappers(pt, f)) \in Nat
        BY MappersFinite DEF CowInv, CowTypeOK
      <4> QED
        BY <2>2, <4>1, <4>2
    <3>2. Mappers(pt, f) # {<<t, p>>}
      <4>1. Cardinality({<<t, p>>}) = 1
        BY FS_Singleton
      <4> QED
        BY <3>1, <4>1
    <3> QED
      BY <2>1, <3>2
  <2>3. CASE f # old
    BY <2>1, <2>3 DEF Mappers
  <2> QED
    BY <2>2, <2>3
<1>2. \A f \in User : namer[f] \in Mappers(pt, f) /\ namer[f] # <<t, p>>
  BY <1>1
<1> HIDE DEF namer
<1>3. namer \in [User -> Rest]
  <2>1. \A f \in User : namer[f] \in Rest
    BY <1>2 DEF Mappers
  <2>2. namer = [f \in User |-> namer[f]]
    BY DEF namer
  <2> QED
    BY <2>1, <2>2
<1>4. \A f, g \in User : namer[f] = namer[g] => f = g
  BY <1>2 DEF Mappers
<1>5. IsFiniteSet(User) /\ Cardinality(User) = FrameCount - 1
  <2>1. 0 \in Frame /\ IsFiniteSet(Frame) /\ Cardinality(Frame) = FrameCount
    BY CopyOnWriteAssumption, FS_Interval DEF Frame
  <2> QED
    BY <2>1, FS_RemoveElement
<1>6. IsFiniteSet(Rest) /\ Cardinality(Rest) = MaxProc * MaxPage - 1
  <2>1. <<t, p>> \in Slot
    BY DEF Slot
  <2> QED
    BY <2>1, SlotsFinite, FS_RemoveElement
<1> HIDE DEF User, Rest
<1>7. Cardinality(Rest) < Cardinality(User)
  <2>1. FrameCount \in Nat /\ MaxProc * MaxPage \in Nat
    BY CopyOnWriteAssumption
  <2> QED
    BY <1>5, <1>6, <2>1
<1>8. \E f, g \in User : f # g /\ namer[f] = namer[g]
  BY <1>3, <1>5, <1>6, <1>7, FS_PigeonHole
<1> QED
  BY <1>4, <1>8

----------------------------------------------------------------------------
(* The initial state                                                       *)

\* The shell's pages as LoadElf leaves them satisfy the invariant.
LEMMA CowInitInv == CowInit => CowInv /\ AccountInv
<1> SUFFICES ASSUME CowInit PROVE CowInv /\ AccountInv
  OBVIOUS
<1> USE CopyOnWriteAssumption
<1> DEFINE Image(f) == f \in 1 .. Text + Data
<1>1. /\ FrameCount > Text + Data /\ Frame \subseteq Nat /\ 0 \in Frame
      /\ \A q \in ImagePages : q \in Page /\ q \in Nat /\ q < Text + Data
      /\ \A q \in Page : q \in Nat
      /\ 1 \in Proc
  BY DEF CowInit, Frame, ImagePages, Page, Proc
<1>2. \A q \in ImagePages : q + 1 \in Frame \ {0} /\ Image(q + 1)
  BY <1>1 DEF Frame
<1>3. /\ \A q \in ImagePages : pt[1][q] = UserEntry(q + 1, q >= Text)
      /\ \A t \in Proc, q \in Page : t # 1 \/ q \notin ImagePages => pt[t][q] = NoEntry
      /\ pt \in [Proc -> [Page -> Entry]]
  <2>1. \A q \in ImagePages : UserEntry(q + 1, q >= Text) \in Entry
    BY <1>2 DEF UserEntry, Entry
  <2> QED
    BY <1>1, <2>1, EntryTypes DEF CowInit
<1>4. \A q \in ImagePages : /\ pt[1][q].frame = q + 1 /\ pt[1][q].present /\ pt[1][q].user
                            /\ ~pt[1][q].cow
  <2> TAKE q \in ImagePages
  <2>1. pt[1][q] = UserEntry(q + 1, q >= Text)
    BY <1>3
  <2> QED
    BY <2>1 DEF UserEntry
<1>5. \A t \in Proc, q \in Page : t # 1 \/ q \notin ImagePages =>
        pt[t][q].frame = 0 /\ ~pt[t][q].user /\ ~pt[t][q].cow /\ ~pt[t][q].writable
  BY <1>3 DEF NoEntry
<1>6. ASSUME NEW f \in Frame \ {0}
      PROVE  /\ Image(f) => /\ Mappers(pt, f) = {<<1, f - 1>>} /\ phys_frames[f].used
                            /\ phys_frames[f].refcount = 1
             /\ ~Image(f) => /\ Mappers(pt, f) = {} /\ ~phys_frames[f].used
                             /\ phys_frames[f].refcount = 0 /\ content[f] = "blank"
             /\ ~phys_frames[f].kernel
  <2>1. f \in Nat /\ f # 0
    BY <1>1
  <2>2. ASSUME NEW s \in Slot
        PROVE  s \in Mappers(pt, f) <=> Image(f) /\ s = <<1, f - 1>>
    <3>1. s[1] \in Proc /\ s[2] \in Page /\ s = <<s[1], s[2]>>
      BY DEF Slot
    <3>2. s \in Mappers(pt, f) <=> pt[s[1]][s[2]].frame = f
      BY DEF Mappers
    <3>3. CASE s[1] = 1 /\ s[2] \in ImagePages
      <4>1. pt[s[1]][s[2]].frame = s[2] + 1 /\ s[2] \in Nat /\ s[2] < Text + Data
        BY <1>1, <1>4, <3>3
      <4>2. s[2] + 1 = f <=> s[2] = f - 1
        BY <2>1, <4>1
      <4>3. s[2] + 1 = f => Image(f)
        BY <2>1, <4>1
      <4> QED
        BY <3>1, <3>2, <3>3, <4>1, <4>2, <4>3
    <3>4. CASE ~(s[1] = 1 /\ s[2] \in ImagePages)
      <4>1. s \notin Mappers(pt, f)
        BY <1>5, <3>1, <3>2, <3>4
      <4>2. Image(f) => f - 1 \in ImagePages
        BY <1>1, <2>1 DEF ImagePages, Page
      <4> QED
        BY <3>1, <3>4, <4>1, <4>2
    <3> QED
      BY <3>3, <3>4
  <2>3. Mappers(pt, f) \in SUBSET Slot
    BY DEF Mappers
  <2>4. Image(f) => <<1, f - 1>> \in Slot
    BY <1>1, <2>1 DEF Slot, Page
  <2>5. /\ phys_frames[f] = [used |-> f <= Text + Data, kernel |-> f = 0,
                             refcount |-> IF Image(f) THEN 1 ELSE 0]
        /\ content[f] = IF Image(f) THEN "file" ELSE "blank"
    BY DEF CowInit
  <2>6. Image(f) <=> f <= Text + Data
    BY <2>1, <1>1
  <2>7. phys_frames[f].used = (f <= Text + Data) /\ phys_frames[f].kernel = (f = 0)
        /\ phys_frames[f].refcount = IF Image(f) THEN 1 ELSE 0
    BY <2>5
  <2> HIDE DEF Image
  <2>8. Image(f) => Mappers(pt, f) = {<<1, f - 1>>}
    BY <2>2, <2>3, <2>4
  <2>9. ~Image(f) => Mappers(pt, f) = {}
    BY <2>2, <2>3
  <2> QED
    BY <2>1, <2>5, <2>6, <2>7, <2>8, <2>9
<1>7. phys_frames[0].kernel /\ phys_frames[0].used /\ phys_frames[0].refcount = 0
  <2>1. \A f \in Frame : /\ phys_frames[f].kernel = (f = 0)
                         /\ phys_frames[f].used = (f <= Text + Data)
                         /\ phys_frames[f].refcount = IF f \in 1 .. Text + Data THEN 1 ELSE 0
    BY DEF CowInit
  <2>2. 0 \notin 1 .. Text + Data /\ 0 <= Text + Data
    OBVIOUS
  <2> QED
    BY <1>1, <2>1, <2>2
<1>8. CowTypeOK
  <2>1. phys_frames \in [Frame -> [used : BOOLEAN, kernel : BOOLEAN, refcount : Nat]]
    BY DEF CowInit
  <2>2. content \in [Frame -> Val] /\ PageCount \in [Proc -> 0 .. MaxPage]
    BY DEF CowInit, Val
  <2>3. live \subseteq Proc /\ next_proc \in 2 .. MaxProc + 1
    BY <1>1 DEF CowInit
  <2> QED
    BY <1>3, <2>1, <2>2, <2>3 DEF CowTypeOK
<1>9. FramesInv
  BY <1>6, <1>7 DEF FramesInv
<1>10. EntriesInv
  <2>1. PageCount[1] = Text + Data
    BY <1>1 DEF CowInit
  <2>2. ASSUME NEW t \in Proc, NEW q \in Page
        PROVE  LET e == pt[t][q]
               IN  /\ e.frame # 0 => e.present /\ e.user /\ q < PageCount[t]
                   /\ e.frame = 0 => ~e.user
                   /\ e.cow => ~e.writable
    <3>1. CASE t = 1 /\ q \in ImagePages
      BY <1>1, <1>2, <1>4, <2>1, <3>1
    <3>2. CASE t # 1 \/ q \notin ImagePages
      BY <1>5, <3>2
    <3> QED
      BY <3>1, <3>2
  <2> QED
    BY <2>2 DEF EntriesInv
<1>11. ExclusiveInv
  <2>1. ASSUME NEW t \in Proc, NEW q \in Page, pt[t][q].frame # 0
        PROVE  Mappers(pt, pt[t][q].frame) = {<<t, q>>}
    <3>1. t = 1 /\ q \in ImagePages
      BY <1>5, <2>1
    <3>2. pt[t][q].frame = q + 1 /\ q + 1 \in Frame \ {0} /\ Image(q + 1) /\ q \in Nat
      BY <1>1, <1>2, <1>4, <3>1
    <3>3. Mappers(pt, q + 1) = {<<1, (q + 1) - 1>>}
      BY <1>6, <3>2
    <3>4. (q + 1) - 1 = q
      BY <3>2
    <3> QED
      BY <3>1, <3>2, <3>3, <3>4
  <2> QED
    BY <2>1 DEF ExclusiveInv
<1>12. \A x : Cardinality({x}) = 1
  BY FS_Singleton
<1>13. Cardinality({}) = 0
  BY FS_EmptySet
<1>14. RefcountInv /\ AccountInv
  <2>1. ASSUME NEW f \in Frame \ {0}
        PROVE  /\ Cardinality(Mappers(pt, f)) = phys_frames[f].refcount
               /\ phys_frames[f].used => Mappers(pt, f) # {}
               /\ phys_frames[f].refcount \in Nat
    <3>1. CASE Image(f)
      <4>1. Cardinality({<<1, f - 1>>}) = 1
        BY <1>12
      <4>2. Mappers(pt, f) = {<<1, f - 1>>} /\ phys_frames[f].refcount = 1
        BY <1>6, <3>1
      <4> QED
        BY <4>1, <4>2
    <3>2. CASE ~Image(f)
      <4>1. Mappers(pt, f) = {} /\ phys_frames[f].refcount = 0 /\ ~phys_frames[f].used
        BY <1>6, <3>2
      <4> QED
        BY <1>13, <4>1
    <3> QED
      BY <3>1, <3>2
  <2> QED
    BY <2>1 DEF RefcountInv, AccountInv
<1>15. SpacesInv
  <2>1. live = {1} /\ next_proc = 2
    BY DEF CowInit
  <2>2. \A t \in Proc : t >= 2 => t # 1
    BY DEF Proc
  <2> QED
    BY <1>5, <2>1, <2>2 DEF SpacesInv
<1> QED
  BY <1>8, <1>9, <1>10, <1>11, <1>14, <1>15 DEF CowInv

----------------------------------------------------------------------------
(* Theorems                                                                *)

\* Wherever a fault would copy a frame, there is a free one.
RoomForCopies == \A t \in Proc, p \in Page : RoomForCopy(t, p)

\* One step of fork, execve, exit, a fault or a store.
LEMMA CowNextInv ==
  ASSUME "refork" \notin Habits, CowInv, RoomForCopies, [CowNext]_cowvars
  PROVE  CowInv'
<1>1. CASE UNCHANGED cowvars
  BY <1>1 DEF cowvars, CowInv, CowTypeOK, FramesInv, EntriesInv, ExclusiveInv, RefcountInv,
              SpacesInv, Mappers
<1>2. ASSUME NEW t \in Proc, NEW p \in Page, PageFault(t, p)
      PROVE  CowInv'
  BY <1>2, PageFaultInv DEF RoomForCopies
<1>3. ASSUME NEW t \in Proc, NEW p \in Page, UserStore(t, p) \/ KernelStore(t, p)
      PROVE  CowInv'
  BY <1>3, StoreInv
<1>4. ASSUME NEW t \in Proc, Fork(t)
      PROVE  CowInv'
  BY <1>4, ForkInv
<1>5. ASSUME NEW t \in Proc, Execve(t)
      PROVE  CowInv'
  BY <1>5, ExecveInv
<1>6. ASSUME NEW t \in Proc, Exit(t)
      PROVE  CowInv'
  BY <1>6, ExitInv
<1> QED
  BY <1>1, <1>2, <1>3, <1>4, <1>5, <1>6 DEF CowNext

\* The same step loses no frame when read-only pages are left alone.
LEMMA CowNextAccount ==
  ASSUME "text" \notin Habits, CowInv, AccountInv, RoomForCopies, [CowNext]_cowvars
  PROVE  AccountInv'
<1>1. CASE UNCHANGED <<phys_frames, pt>>
  BY <1>1 DEF AccountInv, Mappers
<1>2. ASSUME NEW t \in Proc, NEW p \in Page, PageFault(t, p)
      PROVE  AccountInv'
  BY <1>2, PageFaultAccount DEF RoomForCopies
<1>3. ASSUME NEW t \in Proc, NEW p \in Page, UserStore(t, p) \/ KernelStore(t, p)
      PROVE  UNCHANGED <<phys_frames, pt>>
  BY <1>3 DEF UserStore, KernelStore
<1>4. ASSUME NEW t \in Proc, Fork(t)
      PROVE  AccountInv'
  BY <1>4, ForkAccount
<1>5. ASSUME NEW t \in Proc, Execve(t)
      PROVE  AccountInv'
  BY <1>5, ExecveAccount
<1>6. ASSUME NEW t \in Proc, Exit(t)
      PROVE  UNCHANGED <<phys_frames, pt>>
  BY <1>6 DEF Exit
<1>7. CASE UNCHANGED cowvars
  BY <1>1, <1>7 DEF cowvars
<1> QED
  BY <1>1, <1>2, <1>3, <1>4, <1>5, <1>6, <1>7 DEF CowNext

\* The invariant, for programs that fork before their pages are copied, as
\* long as a fault finds the frame it needs.
LEMMA CowInvariantWithRoom ==
  ASSUME "refork" \notin Habits
  PROVE  CowSpec /\ []RoomForCopies => []CowInv
<1>1. CowInit => CowInv
  BY CowInitInv
<1>2. CowInv /\ RoomForCopies /\ [CowNext]_cowvars => CowInv'
  BY CowNextInv
<1> QED
  BY <1>1, <1>2, PTL DEF CowSpec

\* If they leave their read-only pages alone, more frames than pages of all
\* programs are enough.
LEMMA CowInvariant ==
  ASSUME {"refork", "text"} \cap Habits = {}, FrameCount > MaxProc * MaxPage
  PROVE  CowSpec => [](CowInv /\ AccountInv)
<1>1. CowInit => CowInv /\ AccountInv
  BY CowInitInv
<1>2. CowInv /\ AccountInv /\ [CowNext]_cowvars => (CowInv /\ AccountInv)'
  <2> SUFFICES ASSUME CowInv, AccountInv, [CowNext]_cowvars
               PROVE  CowInv' /\ AccountInv'
    OBVIOUS
  <2>1. RoomForCopies
    BY AlwaysRoomForCopy DEF RoomForCopies
  <2> QED
    BY <2>1, CowNextInv, CowNextAccount
<1> QED
  BY <1>1, <1>2, PTL DEF CowSpec

\* The invariant leaves no writable page in a second page table.
LEMMA ExclusiveMeans == CowInv => WritableIsExclusive
<1> SUFFICES ASSUME CowInv, NEW t \in live, NEW u \in live, NEW p \in Page, NEW q \in Page,
                    pt[t][p].present, pt[t][p].user, pt[t][p].writable,
                    <<t, p>> # <<u, q>>, Maps(u, q, pt[t][p].frame)
             PROVE  FALSE
  BY DEF WritableIsExclusive
<1>1. t \in Proc /\ u \in Proc
  BY DEF CowInv, CowTypeOK
<1>2. Mappers(pt, pt[t][p].frame) = {<<t, p>>}
  BY <1>1 DEF CowInv, EntriesInv, ExclusiveInv
<1>3. <<u, q>> \in Mappers(pt, pt[t][p].frame)
  BY <1>1 DEF Maps, Mappers, Slot
<1> QED
  BY <1>2, <1>3

\* What phys_frames has per frame.
FrameRecord == [used : BOOLEAN, kernel : BOOLEAN, refcount : Nat]

\* A fault keeps the types, also when FindNextFreePhysical has no frame left.
LEMMA PageFaultTypes ==
  ASSUME CowTypeOK, NEW t \in Proc, NEW p \in Page, PageFault(t, p)
  PROVE  CowTypeOK'
<1> DEFINE new == FindNextFreePhysical(phys_frames)
           old == pt[t][p].frame
<1>1. /\ phys_frames \in [Frame -> FrameRecord] /\ content \in [Frame -> Val]
      /\ pt \in [Proc -> [Page -> Entry]] /\ PageCount \in [Proc -> 0 .. MaxPage]
      /\ pt[t][p] \in Entry /\ old \in Frame /\ new \in Frame
      /\ live' = live /\ next_proc' = next_proc
  BY FreeFrameFound DEF CowTypeOK, FrameRecord, Entry, PageFault
<1>2. /\ Opened(pt[t][p]) \in Entry /\ [Opened(pt[t][p]) EXCEPT !.frame = new] \in Entry
      /\ UserEntry(new, TRUE) \in Entry
  BY <1>1, EntryTypes
<1> HIDE DEF new, old
<1>3. CASE CopyFrame(t, p) /\ PageCount' = PageCount
  <2>1. CASE phys_frames[old].refcount <= 1
    <3>1. pt' = [pt EXCEPT ![t][p] = Opened(pt[t][p])] /\ phys_frames' = phys_frames
          /\ content' = content
      BY <1>3, <2>1 DEF CopyFrame, old
    <3> QED
      BY <1>1, <1>2, <1>3, <3>1 DEF CowTypeOK, FrameRecord
  <2>2. CASE ~(phys_frames[old].refcount <= 1)
    <3>1. /\ phys_frames' = [phys_frames EXCEPT ![old].refcount = @ - 1, ![new].used = TRUE]
          /\ pt' = [pt EXCEPT ![t][p] = [Opened(pt[t][p]) EXCEPT !.frame = new]]
          /\ content' = [content EXCEPT ![new] = content[old]]
      BY <1>3, <2>2 DEF CopyFrame, new, old
    <3>2. phys_frames[old].refcount \in Nat /\ phys_frames[old].refcount - 1 \in Nat
      BY <1>1, <2>2 DEF FrameRecord
    <3>3. PICK less : less = [phys_frames EXCEPT ![old].refcount = @ - 1]
      OBVIOUS
    <3>4. less \in [Frame -> FrameRecord]
      BY <1>1, <3>2, <3>3 DEF FrameRecord
    <3>5. phys_frames' = [less EXCEPT ![new].used = TRUE]
      BY <3>1, <3>3
    <3>6. phys_frames' \in [Frame -> FrameRecord]
      BY <1>1, <3>4, <3>5 DEF FrameRecord
    <3>7. pt' \in [Proc -> [Page -> Entry]] /\ content' \in [Frame -> Val]
      BY <1>1, <1>2, <3>1
    <3> QED
      BY <1>1, <1>3, <3>6, <3>7 DEF CowTypeOK, FrameRecord
  <2> QED
    BY <2>1, <2>2
<1>4. CASE DemandPage(t, p)
  <2>1. /\ PageCount[t] < MaxPage /\ PageCount' = [PageCount EXCEPT ![t] = @ + 1]
        /\ content' = content
        /\ \/ /\ phys_frames' = Referenced(phys_frames, new)
              /\ pt' = [pt EXCEPT ![t][p] = UserEntry(new, TRUE)]
           \/ phys_frames' = phys_frames /\ pt' = pt
    BY <1>4 DEF DemandPage, new
  <2>2. PageCount' \in [Proc -> 0 .. MaxPage]
    BY <1>1, <2>1, CopyOnWriteAssumption
  <2>3. Referenced(phys_frames, new) \in [Frame -> FrameRecord]
    <3>1. PICK used : used = [phys_frames EXCEPT ![new].used = TRUE]
      OBVIOUS
    <3>2. used \in [Frame -> FrameRecord]
      BY <1>1, <3>1 DEF FrameRecord
    <3>3. PICK n \in Nat : n = used[new].refcount + 1
      BY <1>1, <3>2 DEF FrameRecord
    <3>4. Referenced(phys_frames, new) = [used EXCEPT ![new].refcount = n]
      <4>1. used[new].refcount = phys_frames[new].refcount
        BY <1>1, <3>1 DEF FrameRecord
      <4> QED
        BY <1>1, <3>1, <3>2, <3>3, <4>1 DEF Referenced, FrameRecord
    <3> QED
      BY <1>1, <3>2, <3>3, <3>4 DEF FrameRecord
  <2>4. phys_frames' \in [Frame -> FrameRecord] /\ pt' \in [Proc -> [Page -> Entry]]
    <3>1. [pt EXCEPT ![t][p] = UserEntry(new, TRUE)] \in [Proc -> [Page -> Entry]]
      BY <1>1, <1>2
    <3> QED
      BY <1>1, <2>1, <2>3, <3>1, Zenon
  <2> QED
    BY <1>1, <2>1, <2>2, <2>4 DEF CowTypeOK, FrameRecord
<1> QED
  BY <1>3, <1>4 DEF PageFault, HandlePageFault

\* Fork keeps the types, whatever was copied before.
LEMMA ForkTypes ==
  ASSUME CowTypeOK, NEW t \in Proc, Fork(t)
  PROVE  CowTypeOK'
<1> DEFINE u == next_proc
           mapped == {q \in Region(t) : Mappable(phys_frames, pt[t][q].frame)}
           shared == [q \in Page |-> IF q \in Region(t) THEN Shared(pt[t][q]) ELSE pt[t][q]]
           space == [q \in Page |-> IF q \in mapped THEN shared[q] ELSE NoEntry]
<1>1. /\ phys_frames \in [Frame -> FrameRecord] /\ content' = content
      /\ pt \in [Proc -> [Page -> Entry]] /\ PageCount \in [Proc -> 0 .. MaxPage]
      /\ u \in Proc /\ u \in 2 .. MaxProc + 1 /\ live \subseteq Proc
      /\ live' = live \cup {u} /\ next_proc' = u + 1
      /\ PageCount' = [PageCount EXCEPT ![u] = PageCount[t]]
      /\ pt' = [pt EXCEPT ![t] = shared, ![u] = space]
      /\ phys_frames' = [f \in Frame |-> [phys_frames[f] EXCEPT
            !.refcount = @ + Cardinality({q \in mapped : pt[t][q].frame = f})]]
  BY DEF CowTypeOK, FrameRecord, Fork
<1>2. \A f \in Frame : Cardinality({q \in mapped : pt[t][q].frame = f}) \in Nat
  BY <1>1, PagesToSlots DEF Region
<1> HIDE DEF mapped
<1>3. phys_frames' \in [Frame -> FrameRecord]
  BY <1>1, <1>2 DEF FrameRecord
<1>4. shared \in [Page -> Entry]
  BY <1>1, EntryTypes
<1> HIDE DEF shared
<1>5. space \in [Page -> Entry]
  BY <1>4, EntryTypes
<1> HIDE DEF space
<1>6. pt' \in [Proc -> [Page -> Entry]] /\ PageCount' \in [Proc -> 0 .. MaxPage]
  BY <1>1, <1>4, <1>5
<1>7. next_proc' \in 2 .. MaxProc + 1 /\ live' \subseteq Proc
  BY <1>1, CopyOnWriteAssumption DEF Proc
<1> HIDE DEF u
<1> QED
  BY <1>1, <1>3, <1>6, <1>7 DEF CowTypeOK, FrameRecord

\* Execve keeps the types, whatever the frames it takes are.
LEMMA ExecveTypes ==
  ASSUME CowTypeOK, NEW t \in Proc, Execve(t)
  PROVE  CowTypeOK'
<1> DEFINE u == next_proc
           frame == [q \in ImagePages |-> Nth(FreeFrames(phys_frames), q)]
           taken == {frame[q] : q \in ImagePages}
           space == [q \in Page |-> IF q \in ImagePages THEN UserEntry(frame[q], q >= Text)
                                    ELSE NoEntry]
<1>1. /\ phys_frames \in [Frame -> FrameRecord] /\ content \in [Frame -> Val]
      /\ pt \in [Proc -> [Page -> Entry]] /\ PageCount \in [Proc -> 0 .. MaxPage]
      /\ u \in Proc /\ u \in 2 .. MaxProc + 1 /\ live \subseteq Proc
      /\ live' = (live \ {t}) \cup {u} /\ next_proc' = u + 1
      /\ PageCount[t] + Text + Data <= MaxPage
      /\ PageCount' = [PageCount EXCEPT ![u] = PageCount[t] + Text + Data]
      /\ pt' = [pt EXCEPT ![u] = space]
      /\ phys_frames' = [f \in Frame |-> IF f \in taken
                                         THEN [used |-> TRUE, kernel |-> FALSE,
                                               refcount |-> phys_frames[f].refcount + 1]
                                         ELSE phys_frames[f]]
      /\ content' = [f \in Frame |-> IF f \in taken THEN "file" ELSE content[f]]
      /\ Cardinality(FreeFrames(phys_frames)) >= Text + Data
  BY DEF CowTypeOK, FrameRecord, Execve, Loaded
<1>2. \A q \in ImagePages : frame[q] \in Frame
  BY <1>1, LoadedFrames DEF FreeFrames
<1> HIDE DEF frame
<1>3. space \in [Page -> Entry]
  <2>1. \A q \in ImagePages : UserEntry(frame[q], q >= Text) \in Entry
    BY <1>2 DEF UserEntry, Entry
  <2> QED
    BY <2>1, EntryTypes
<1> HIDE DEF space, taken
<1>4. phys_frames' \in [Frame -> FrameRecord] /\ content' \in [Frame -> Val]
  BY <1>1 DEF FrameRecord, Val
<1>5. pt' \in [Proc -> [Page -> Entry]]
  BY <1>1, <1>3
<1>6. PageCount' \in [Proc -> 0 .. MaxPage]
  <2>1. PageCount[t] + Text + Data \in 0 .. MaxPage
    BY <1>1, CopyOnWriteAssumption
  <2> QED
    BY <1>1, <2>1
<1>7. next_proc' \in 2 .. MaxProc + 1 /\ live' \subseteq Proc
  BY <1>1, CopyOnWriteAssumption DEF Proc
<1> HIDE DEF u
<1> QED
  BY <1>4, <1>5, <1>6, <1>7 DEF CowTypeOK, FrameRecord

\* Frames, page tables and page counts keep their types through HandlePageFault,
\* fork, execve and exit, whatever programs do and however few frames there are,
\* so also when FindNextFreePhysical has none and returns 0; in particular the
\* fault handler takes no refcount below zero.
THEOREM CowTypeCorrect == CowSpec => []CowTypeOK
<1>1. CowInit => CowTypeOK
  BY CowInitInv DEF CowInv
<1>2. CowTypeOK /\ [CowNext]_cowvars => CowTypeOK'
  <2> SUFFICES ASSUME CowTypeOK, [CowNext]_cowvars PROVE CowTypeOK'
    OBVIOUS
  <2>1. ASSUME NEW t \in Proc, NEW p \in Page, PageFault(t, p) PROVE CowTypeOK'
    BY <2>1, PageFaultTypes
  <2>2. ASSUME NEW t \in Proc, NEW p \in Page, UserStore(t, p) \/ KernelStore(t, p)
        PROVE  CowTypeOK'
    <3>1. content' = [content EXCEPT ![pt[t][p].frame] = "stored"]
          /\ UNCHANGED <<phys_frames, pt, PageCount, live, next_proc>>
      BY <2>2 DEF UserStore, KernelStore
    <3> QED
      BY <3>1 DEF CowTypeOK, Val
  <2>3. ASSUME NEW t \in Proc, Fork(t) PROVE CowTypeOK'
    BY <2>3, ForkTypes
  <2>4. ASSUME NEW t \in Proc, Execve(t) PROVE CowTypeOK'
    BY <2>4, ExecveTypes
  <2>5. ASSUME NEW t \in Proc, Exit(t) PROVE CowTypeOK'
    BY <2>5 DEF Exit, CowTypeOK
  <2>6. CASE UNCHANGED cowvars
    BY <2>6 DEF cowvars, CowTypeOK
  <2> QED
    BY <2>1, <2>2, <2>3, <2>4, <2>5, <2>6 DEF CowNext
<1> QED
  BY <1>1, <1>2, PTL DEF CowSpec

\* A frame in a page table of a task is marked as used, so FindNextFreePhysical
\* never hands it out again.
THEOREM MappedUsed ==
  ASSUME {"refork", "text"} \cap Habits = {}, FrameCount > MaxProc * MaxPage
  PROVE  CowSpec => []MappedFramesAreUsed
<1>1. CowInv => MappedFramesAreUsed
  <2> SUFFICES ASSUME CowInv, NEW t \in live, NEW p \in Page
               PROVE  phys_frames[pt[t][p].frame].used
    BY DEF MappedFramesAreUsed
  <2>1. t \in Proc /\ pt[t][p].frame \in Frame /\ <<t, p>> \in Mappers(pt, pt[t][p].frame)
    BY DEF CowInv, CowTypeOK, Entry, Mappers, Slot
  <2> QED
    BY <2>1 DEF CowInv, FramesInv
<1> QED
  BY <1>1, CowInvariant, PTL

\* Through any sequence of forks, faults, execs and exits, a page a program can
\* store into is in no other page table, whatever the kernel writes on its behalf.
THEOREM WritablePrivate ==
  ASSUME {"refork", "text"} \cap Habits = {}, FrameCount > MaxProc * MaxPage
  PROVE  CowSpec => []WritableIsExclusive
BY ExclusiveMeans, CowInvariant, PTL

\* Stores into read-only pages lose the frames these had, so that no number of
\* frames is enough; but until HandlePageFault needs a frame and there is none,
\* writable pages stay private all the same.
THEOREM WritablePrivateWithRoom ==
  ASSUME "refork" \notin Habits
  PROVE  CowSpec /\ []RoomForCopies => []WritableIsExclusive
BY ExclusiveMeans, CowInvariantWithRoom, PTL

----------------------------------------------------------------------------
(* Every program has a memory of its own                                   *)

\* View, and the memory of all programs, in page tables T with contents C.
ViewIn(T, C, L, t, p) == IF t \in L /\ T[t][p].present /\ T[t][p].user
                         THEN C[T[t][p].frame] ELSE "blank"

MemoryIn(T, C, L) == [t \in Proc |-> [p \in Page |-> ViewIn(T, C, L, t, p)]]

Memory == MemoryIn(pt, content, live)
NextMemory == MemoryIn(pt', content', live')

\* A page a program sees is in a frame of its own or a shared one, never in
\* frame 0, and never in a free frame.
LEMMA SeenPage ==
  ASSUME CowInv, NEW t \in Proc, NEW p \in Page
  PROVE  /\ pt[t][p].user => pt[t][p].frame \in Frame \ {0}
         /\ pt[t][p].frame # 0 => pt[t][p].present /\ pt[t][p].user
         /\ pt[t][p].frame \notin FreeFrames(phys_frames)
<1>1. pt[t][p].frame \in Frame /\ <<t, p>> \in Mappers(pt, pt[t][p].frame)
  BY DEF CowInv, CowTypeOK, Entry, Mappers, Slot
<1> QED
  BY <1>1, FreeFrameUnmapped DEF CowInv, EntriesInv

\* One memory location changes where one view does.
LEMMA MemoryUpdate ==
  ASSUME NEW t \in Proc, NEW p \in Page, NEW v,
         \A w \in Proc, q \in Page :
           ViewIn(pt', content', live', w, q) =
             IF <<w, q>> = <<t, p>> THEN v ELSE ViewIn(pt, content, live, w, q)
  PROVE  NextMemory = [Memory EXCEPT ![t][p] = v]
BY DEF Memory, NextMemory, MemoryIn

\* A page fault is invisible.
LEMMA PageFaultStutters ==
  ASSUME CowInv, "text" \notin Habits, NEW t \in Proc, NEW p \in Page, PageFault(t, p),
         RoomForCopy(t, p)
  PROVE  NextMemory = Memory /\ live' = live
<1> DEFINE e == pt[t][p]
           old == e.frame
           new == FindNextFreePhysical(phys_frames)
<1>1. /\ pt \in [Proc -> [Page -> Entry]] /\ e \in Entry /\ old \in Frame /\ new \in Frame
      /\ live' = live /\ t \in live
      /\ content \in [Frame -> Val]
  BY FreeFrameFound DEF CowInv, CowTypeOK, Entry, PageFault
<1>2. SUFFICES ASSUME NEW w \in Proc, NEW q \in Page
               PROVE  ViewIn(pt', content', live', w, q) = ViewIn(pt, content, live, w, q)
  BY <1>1 DEF Memory, NextMemory, MemoryIn
<1>3. CASE e.cow /\ CopyFrame(t, p) /\ phys_frames[old].refcount <= 1
  <2> DEFINE x == Opened(e)
  <2>1. pt' = [pt EXCEPT ![t][p] = x] /\ content' = content
    BY <1>3 DEF CopyFrame
  <2>2. x \in Entry /\ x.frame = old /\ x.present /\ x.user = e.user
    BY <1>1, EntryTypes
  <2>3. e.user => e.present
    BY <1>1, SeenPage
  <2> HIDE DEF x
  <2>4. CASE <<w, q>> = <<t, p>>
    BY <1>1, <2>1, <2>2, <2>3, <2>4 DEF ViewIn
  <2>5. CASE <<w, q>> # <<t, p>>
    BY <1>1, <2>1, <2>5 DEF ViewIn
  <2> QED
    BY <2>4, <2>5
<1>4. CASE e.cow /\ CopyFrame(t, p) /\ ~(phys_frames[old].refcount <= 1)
  <2> DEFINE x == [Opened(e) EXCEPT !.frame = new]
  <2>1. pt' = [pt EXCEPT ![t][p] = x] /\ content' = [content EXCEPT ![new] = content[old]]
    BY <1>4 DEF CopyFrame
  <2>2. phys_frames[old].refcount > 1
    BY <1>1, <1>4 DEF CowInv, CowTypeOK
  <2>3. old # 0 /\ new \in FreeFrames(phys_frames)
    BY <1>4, <2>2, FreeFrameFound DEF RoomForCopy, CowInv, FramesInv
  <2>4. x \in Entry /\ x.frame = new /\ x.present /\ x.user = e.user
    BY <1>1, EntryTypes
  <2>5. e.present /\ e.user
    BY <2>3, SeenPage
  <2>6. pt[w][q].frame # new /\ pt[w][q].frame \in Frame
    BY <1>1, <2>3, SeenPage DEF Entry
  <2> HIDE DEF x, new
  <2>7. CASE <<w, q>> = <<t, p>>
    BY <1>1, <2>1, <2>4, <2>5, <2>7 DEF ViewIn
  <2>8. CASE <<w, q>> # <<t, p>>
    BY <1>1, <2>1, <2>6, <2>8 DEF ViewIn
  <2> QED
    BY <2>7, <2>8
<1>5. CASE ~e.cow /\ DemandPage(t, p)
  <2> DEFINE x == UserEntry(new, TRUE)
  <2>1. old = 0
    <3>1. ~ReadOnly(e) /\ \E store \in BOOLEAN : UserFaults(e, store)
      BY DEF PageFault
    <3>2. old # 0 => e.present /\ e.user
      BY SeenPage
    <3> QED
      BY <1>5, <3>1, <3>2 DEF UserFaults, ReadOnly
  <2>2. CASE ~Mappable(phys_frames, new)
    BY <1>1, <1>5, <2>2 DEF DemandPage, ViewIn
  <2>3. CASE Mappable(phys_frames, new)
    <3>1. pt' = [pt EXCEPT ![t][p] = x] /\ content' = content
      BY <1>5, <2>3 DEF DemandPage
    <3>2. new # 0
      BY <1>1, <2>3 DEF Mappable, CowInv, FramesInv
    <3>3. content[new] = "blank"
      BY <3>2, FreeFrameFound, FreeFrameUnmapped DEF FindNextFreePhysical, CowInv
    <3>4. x \in Entry /\ x.frame = new
      BY <1>1, EntryTypes
    <3>5. ~e.user
      BY <2>1, SeenPage
    <3> HIDE DEF x, new
    <3>6. CASE <<w, q>> = <<t, p>>
      BY <1>1, <3>1, <3>3, <3>4, <3>5, <3>6 DEF ViewIn
    <3>7. CASE <<w, q>> # <<t, p>>
      BY <1>1, <3>1, <3>7 DEF ViewIn
    <3> QED
      BY <3>6, <3>7
  <2> QED
    BY <2>2, <2>3
<1> QED
  BY <1>3, <1>4, <1>5 DEF PageFault, HandlePageFault

\* A store changes the page of the program it is made for, and no other.
LEMMA StoreIsStore ==
  ASSUME CowInv, "kernel" \notin Habits, NEW t \in Proc, NEW p \in Page,
         UserStore(t, p) \/ KernelStore(t, p)
  PROVE  /\ t \in live /\ live' = live
         /\ NextMemory = Memory \/ NextMemory = [Memory EXCEPT ![t][p] = "stored"]
<1> DEFINE f == pt[t][p].frame
<1>1. /\ t \in live /\ pt[t][p].present /\ pt[t][p].writable
      /\ content' = [content EXCEPT ![f] = "stored"]
      /\ UNCHANGED <<pt, live>>
  BY DEF UserStore, KernelStore, UserFaults, KernelFaults
<1>2. f \in Frame /\ content \in [Frame -> Val]
  BY DEF CowInv, CowTypeOK, Entry
<1>3. ASSUME NEW w \in Proc, NEW q \in Page, <<w, q>> # <<t, p>> \/ f = 0
      PROVE  ViewIn(pt', content', live', w, q) = ViewIn(pt, content, live, w, q)
  <2>1. pt[w][q].user => pt[w][q].frame # f /\ pt[w][q].frame \in Frame
    <3>1. pt[w][q].user => pt[w][q].frame \in Frame \ {0}
      BY SeenPage
    <3>2. CASE f = 0
      BY <3>1, <3>2
    <3>3. CASE f # 0
      <4>1. Mappers(pt, f) = {<<t, p>>}
        BY <1>1, <3>3 DEF CowInv, ExclusiveInv
      <4>2. pt[w][q].frame = f => <<w, q>> \in Mappers(pt, f)
        BY DEF Mappers, Slot
      <4> QED
        BY <1>3, <3>1, <3>3, <4>1, <4>2
    <3> QED
      BY <3>2, <3>3
  <2> QED
    BY <1>1, <1>2, <2>1 DEF ViewIn
<1>4. CASE f = 0
  BY <1>1, <1>3, <1>4 DEF Memory, NextMemory, MemoryIn
<1>5. CASE f # 0
  <2>1. ViewIn(pt', content', live', t, p) = "stored"
    <3>1. pt[t][p].user
      BY <1>5, SeenPage
    <3> QED
      BY <1>1, <1>2, <3>1 DEF ViewIn
  <2>2. NextMemory = [Memory EXCEPT ![t][p] = "stored"]
    BY <1>3, <2>1, MemoryUpdate
  <2> QED
    BY <1>1, <2>2
<1> QED
  BY <1>4, <1>5

\* Fork gives the child a copy of the parent's memory.
LEMMA ForkCopies ==
  ASSUME CowInv, NEW t \in Proc, Fork(t)
  PROVE  LET u == next_proc
         IN  /\ t \in live /\ u \in Proc /\ u \notin live /\ live' = live \cup {u}
             /\ NextMemory = [Memory EXCEPT ![u] = Memory[t]]
<1> DEFINE u == next_proc
<1>1. /\ t \in live /\ u \in Proc /\ u \notin live /\ t # u
      /\ \A q \in Page :
           /\ pt'[t][q] = Shared(pt[t][q]) \/ (pt[t][q].frame = 0 /\ pt'[t][q] = pt[t][q])
           /\ pt'[u][q] = IF pt[t][q].frame # 0 THEN Shared(pt[t][q]) ELSE NoEntry
      /\ \A w \in Proc \ {t, u} : pt'[w] = pt[w]
  BY ForkEffect
<1>2. content' = content /\ live' = live \cup {u}
  BY DEF Fork
<1>3. ASSUME NEW w \in Proc, NEW q \in Page
      PROVE  ViewIn(pt', content', live', w, q) = IF w = u THEN ViewIn(pt, content, live, t, q)
                                                  ELSE ViewIn(pt, content, live, w, q)
  <2>1. pt[t][q] \in Entry
    BY DEF CowInv, CowTypeOK
  <2>2. LET s == Shared(pt[t][q])
        IN  /\ s.frame = pt[t][q].frame /\ s.present = pt[t][q].present
            /\ s.user = pt[t][q].user
    BY <2>1, EntryTypes
  <2>3. CASE w = u
    <3>1. CASE pt[t][q].frame # 0
      <4>1. pt'[u][q] = Shared(pt[t][q])
        BY <1>1, <3>1
      <4> QED
        BY <1>1, <1>2, <2>2, <2>3, <4>1 DEF ViewIn
    <3>2. CASE pt[t][q].frame = 0
      <4>1. pt'[u][q] = NoEntry /\ ~NoEntry.user
        BY <1>1, <3>2 DEF NoEntry
      <4>2. ~pt[t][q].user
        BY <3>2, SeenPage
      <4> QED
        BY <2>3, <4>1, <4>2 DEF ViewIn
    <3> QED
      BY <3>1, <3>2
  <2>4. CASE w = t
    <3>1. CASE pt'[t][q] = Shared(pt[t][q])
      BY <1>1, <1>2, <2>2, <2>4, <3>1 DEF ViewIn
    <3>2. CASE pt'[t][q] = pt[t][q]
      BY <1>1, <1>2, <2>4, <3>2 DEF ViewIn
    <3> QED
      BY <1>1, <3>1, <3>2
  <2>5. CASE w # u /\ w # t
    <3>1. pt'[w] = pt[w]
      BY <1>1, <2>5
    <3> QED
      BY <1>2, <2>5, <3>1 DEF ViewIn
  <2> QED
    BY <2>3, <2>4, <2>5
<1> HIDE DEF u
<1>4. NextMemory = [Memory EXCEPT ![u] = Memory[t]]
  BY <1>1, <1>3 DEF Memory, NextMemory, MemoryIn
<1> QED
  BY <1>1, <1>2, <1>4 DEF u

\* Pages as LoadElf leaves them.
ImageMemory == [p \in Page |-> IF p \in ImagePages THEN "file" ELSE "blank"]
NoPages == [p \in Page |-> "blank"]

\* Execve takes the old program's memory away and loads the new one's.
LEMMA ExecveReplaces ==
  ASSUME CowInv, NEW t \in Proc, Execve(t)
  PROVE  LET u == next_proc
         IN  /\ t \in live /\ u \in Proc /\ u \notin live /\ live' = (live \ {t}) \cup {u}
             /\ NextMemory = [Memory EXCEPT ![t] = NoPages, ![u] = ImageMemory]
<1> DEFINE u == next_proc
<1>1. /\ t \in live /\ u \in Proc /\ u \notin live /\ t # u
      /\ \A w \in Proc \ {u} : pt'[w] = pt[w]
      /\ \A q \in Page \ ImagePages : pt'[u][q] = NoEntry
      /\ \A q \in ImagePages :
           LET f == pt'[u][q].frame
           IN  /\ pt'[u][q] = UserEntry(f, q >= Text)
               /\ f \in FreeFrames(phys_frames)
               /\ content'[f] = "file"
      /\ \A f \in Frame : (\A q \in ImagePages : pt'[u][q].frame # f) =>
           content'[f] = content[f]
  BY ExecveEffect
<1>2. live' = (live \ {t}) \cup {u}
  BY DEF Execve
<1>3. \A q \in Page : ViewIn(pt', content', live', u, q) = ImageMemory[q]
  <2> TAKE q \in Page
  <2>1. CASE q \in ImagePages
    <3> DEFINE f == pt'[u][q].frame
    <3>1. pt'[u][q] = UserEntry(f, q >= Text) /\ content'[f] = "file"
      BY <1>1, <2>1
    <3>2. pt'[u][q].present /\ pt'[u][q].user
      BY <3>1 DEF UserEntry
    <3> QED
      BY <1>2, <2>1, <3>1, <3>2 DEF ViewIn, ImageMemory
  <2>2. CASE q \notin ImagePages
    <3>1. pt'[u][q] = NoEntry /\ ~NoEntry.user
      BY <1>1, <2>2 DEF NoEntry
    <3> QED
      BY <2>2, <3>1 DEF ViewIn, ImageMemory
  <2> QED
    BY <2>1, <2>2
<1>4. \A q \in Page : ViewIn(pt', content', live', t, q) = "blank"
  BY <1>1, <1>2 DEF ViewIn
<1>5. ASSUME NEW w \in Proc, NEW q \in Page, w # u, w # t
      PROVE  ViewIn(pt', content', live', w, q) = ViewIn(pt, content, live, w, q)
  <2>1. pt'[w] = pt[w] /\ (w \in live' <=> w \in live)
    BY <1>1, <1>2, <1>5
  <2>2. pt[w][q].frame \in Frame /\ pt[w][q].frame \notin FreeFrames(phys_frames)
    BY SeenPage DEF CowInv, CowTypeOK, Entry
  <2>3. content'[pt[w][q].frame] = content[pt[w][q].frame]
    BY <1>1, <2>2
  <2> QED
    BY <2>1, <2>3 DEF ViewIn
<1> HIDE DEF u
<1>6. NextMemory = [Memory EXCEPT ![t] = NoPages, ![u] = ImageMemory]
  <2>1. \A w \in Proc : NextMemory[w] = IF w = u THEN ImageMemory
                                        ELSE IF w = t THEN NoPages ELSE Memory[w]
    BY <1>3, <1>4, <1>5 DEF Memory, NextMemory, MemoryIn, NoPages, ImageMemory
  <2> QED
    BY <1>1, <2>1 DEF Memory, NextMemory, MemoryIn
<1> QED
  BY <1>1, <1>2, <1>6 DEF u

\* Exit takes the program's memory away.
LEMMA ExitEnds ==
  ASSUME CowInv, NEW t \in Proc, Exit(t)
  PROVE  /\ t \in live /\ live' = live \ {t}
         /\ NextMemory = [Memory EXCEPT ![t] = NoPages]
<1>1. t \in live /\ live' = live \ {t} /\ content' = content /\ pt' = pt
  BY DEF Exit
<1>2. \A w \in Proc, q \in Page :
        ViewIn(pt', content', live', w, q) = IF w = t THEN "blank"
                                             ELSE ViewIn(pt, content, live, w, q)
  BY <1>1 DEF ViewIn
<1> QED
  BY <1>1, <1>2 DEF Memory, NextMemory, MemoryIn, NoPages

\* The shell starts with its image, and nobody else has a memory.
LEMMA MemoryInit ==
  ASSUME CowInit
  PROVE  /\ live = {1} /\ 1 \in Proc
         /\ Memory = [t \in Proc |-> IF t \in live THEN ImageMemory ELSE NoPages]
<1>1. live = {1} /\ 1 \in Proc
  BY CopyOnWriteAssumption DEF CowInit, Proc
<1>2. ASSUME NEW t \in Proc, NEW p \in Page
      PROVE  ViewIn(pt, content, live, t, p) = IF t = 1 THEN ImageMemory[p] ELSE NoPages[p]
  <2>1. CASE t = 1 /\ p \in ImagePages
    <3>1. pt[t][p] = UserEntry(p + 1, p >= Text)
      BY <2>1 DEF CowInit
    <3>2. pt[t][p].frame = p + 1 /\ pt[t][p].present /\ pt[t][p].user
      BY <3>1 DEF UserEntry
    <3>3. p + 1 \in Frame /\ p + 1 \in 1 .. Text + Data
      BY <2>1, CopyOnWriteAssumption DEF CowInit, ImagePages, Page, Frame
    <3>4. content[p + 1] = "file"
      BY <3>3 DEF CowInit
    <3> QED
      BY <1>1, <2>1, <3>2, <3>4 DEF ViewIn, ImageMemory
  <2>2. CASE t = 1 /\ p \notin ImagePages
    <3>1. pt[t][p] = NoEntry /\ ~NoEntry.user
      BY <2>2 DEF CowInit, NoEntry
    <3> QED
      BY <2>2, <3>1 DEF ViewIn, ImageMemory
  <2>3. CASE t # 1
    BY <1>1, <2>3 DEF ViewIn, NoPages
  <2> QED
    BY <2>1, <2>2, <2>3
<1>3. \A t \in Proc : Memory[t] = IF t \in live THEN ImageMemory ELSE NoPages
  BY <1>1, <1>2 DEF Memory, MemoryIn, ImageMemory, NoPages
<1> QED
  BY <1>1, <1>3 DEF Memory, MemoryIn

\* One step keeps to PrivateMemory or is invisible.
LEMMA MemoryStep ==
  ASSUME Habits \subseteq {"exec"}, CowInv, RoomForCopies, [CowNext]_cowvars
  PROVE  [Private!PMNext]_(Private!pmvars)
<1>1. /\ Memory = [t \in Proc |-> [p \in Page |-> View(t, p)]]
      /\ NextMemory = [t \in Proc |-> [p \in Page |-> View(t, p)]]'
  BY DEF Memory, NextMemory, MemoryIn, ViewIn, View
<1>2. CASE NextMemory = Memory /\ live' = live
  BY <1>1, <1>2 DEF Private!pmvars
<1>3. ASSUME NEW t \in Proc, NEW p \in Page, PageFault(t, p)
      PROVE  NextMemory = Memory /\ live' = live
  BY <1>3, PageFaultStutters DEF RoomForCopies
<1>4. ASSUME NEW t \in Proc, NEW p \in Page, UserStore(t, p) \/ KernelStore(t, p)
      PROVE  (NextMemory = Memory /\ live' = live) \/ Private!PMNext
  <2>1. t \in live /\ live' = live
        /\ (NextMemory = Memory \/ NextMemory = [Memory EXCEPT ![t][p] = "stored"])
    BY <1>4, StoreIsStore
  <2>2. CASE NextMemory = [Memory EXCEPT ![t][p] = "stored"]
    <3>1. Private!Store(t, p, "stored")
      BY <1>1, <2>1, <2>2 DEF Private!Store
    <3>2. "stored" \in Val \ {"blank"}
      BY DEF Val
    <3> QED
      BY <3>1, <3>2 DEF Private!PMNext
  <2> QED
    BY <2>1, <2>2
<1>5. ASSUME NEW t \in Proc, Fork(t)
      PROVE  Private!PMNext
  <2>1. PICK u \in Proc : /\ t \in live /\ u \notin live /\ live' = live \cup {u}
                          /\ NextMemory = [Memory EXCEPT ![u] = Memory[t]]
    BY <1>5, ForkCopies
  <2>2. Private!Copy(t, u)
    BY <1>1, <2>1 DEF Private!Copy
  <2> QED
    BY <2>2 DEF Private!PMNext
<1>6. ASSUME NEW t \in Proc, Execve(t)
      PROVE  Private!PMNext
  <2>1. PICK u \in Proc :
          /\ t \in live /\ u \notin live /\ live' = (live \ {t}) \cup {u}
          /\ NextMemory = [Memory EXCEPT ![t] = NoPages, ![u] = ImageMemory]
    BY <1>6, ExecveReplaces
  <2>2. Private!Replace(t, u)
    BY <1>1, <2>1 DEF Private!Replace, Private!NoMemory, NoPages, ImageMemory
  <2> QED
    BY <2>2 DEF Private!PMNext
<1>7. ASSUME NEW t \in Proc, Exit(t)
      PROVE  Private!PMNext
  <2>1. /\ t \in live /\ live' = live \ {t}
        /\ NextMemory = [Memory EXCEPT ![t] = NoPages]
    BY <1>7, ExitEnds
  <2>2. Private!End(t)
    BY <1>1, <2>1 DEF Private!End, Private!NoMemory, NoPages
  <2> QED
    BY <2>2 DEF Private!PMNext
<1>8. CASE UNCHANGED cowvars
  BY <1>2, <1>8 DEF cowvars, Memory, NextMemory
<1> QED
  BY <1>2, <1>3, <1>4, <1>5, <1>6, <1>7, <1>8 DEF CowNext

\* Sharing frames is invisible to programs that fork before their pages are
\* copied and leave read-only pages alone, when the kernel writes only into
\* writable pages: every behaviour of frames, page tables and the fault handler
\* is one of PrivateMemory.
THEOREM PrivateMemoryImplemented ==
  ASSUME Habits \subseteq {"exec"}, FrameCount > MaxProc * MaxPage
  PROVE  CowSpec => ImplementsPrivateMemory
<1>1. CowInit => Private!PMInit
  <2> SUFFICES ASSUME CowInit PROVE Private!PMInit
    OBVIOUS
  <2>1. Memory = [t \in Proc |-> [p \in Page |-> View(t, p)]]
    BY DEF Memory, MemoryIn, ViewIn, View
  <2> QED
    BY <2>1, MemoryInit DEF Private!PMInit, Private!NoMemory, NoPages, ImageMemory
<1>2. CowInv /\ AccountInv /\ [CowNext]_cowvars => [Private!PMNext]_(Private!pmvars)
  BY AlwaysRoomForCopy, MemoryStep DEF RoomForCopies
<1>3. CowSpec => [](CowInv /\ AccountInv)
  BY CowInvariant
<1> QED
  BY <1>1, <1>2, <1>3, PTL DEF CowSpec, ImplementsPrivateMemory, Private!PMSpec

=============================================================================
